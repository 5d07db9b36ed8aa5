----------------------------- MODULE MCRateLimit -----------------------------
(***************************************************************************)
(* Instances of RateLimit for TLC.                                         *)
(***************************************************************************)
EXTENDS RateLimit, TLC

CONSTANT Busy

Symmetry == Permutations(Src) \cup Permutations(Caller)

\* Nobody calls and nothing is reloaded between the first ticks and the time a
\* bucket that is touched in them can be idle.
Quiet == now \in Busy..IdleTicks

MCNext ==
  /\ LimiterNext
  /\ Quiet => /\ reloads' = reloads
              /\ \A c \in Caller : caller[c].pc = "idle" => caller'[c].pc = "idle"

MCSpec == LimiterInit /\ [][MCNext]_limiterVars
=============================================================================
