----------------------------- MODULE MCNat64Udp -----------------------------
(***************************************************************************)
(* Instances of Nat64Udp for TLC.                                          *)
(***************************************************************************)
EXTENDS Nat64Udp

CONSTANTS f1, f2, c1, c2, t1, t2

TwoFlows   == {f1, f2}
OneSock    == {c1}
TwoSocks   == {c1, c2}
TwoTuples  == {t1, t2}
OneSrc     == {"node"}
OneAddr    == {"server"}
SameSrc    == [c \in Sock |-> "node"]
SameAddr   == [t \in Tuple |-> "server"]

Config(max, perSrc) ==
  [max |-> max, perSrc |-> perSrc, timeout |-> 1, filter |-> "address-dependent"]

LimitOne    == {[Config(1, 0) EXCEPT !.timeout = 0]}
Reloadable  == {Config(0, 0), Config(0, 1)}

Evicting    == Reloadable \cup LimitOne

\* With a session limit of one, two destinations or two client sockets of a node
\* compete at one instant and a socket may fail; the limit stays.  With none,
\* time passes, the settings are reloaded and the service may stop, with one
\* client socket, one destination and no failure.  Flows, sockets and
\* destinations are interchangeable: f1 is the first flow, of c1 to t1.
Limited == settings.max = 1
First   == [sock |-> c1, dst |-> t1]
Others  == {[First EXCEPT !.dst = t2], [First EXCEPT !.sock = c2]}

\* The shutdown sweep passes by what is never used without choosing an order.
Unused == cl.todo \ {First, c1}
Sweep  == cl.final /\ ~Limited /\ Unused # {} =>
            cl.todo \ cl'.todo \subseteq {CHOOSE k \in Unused : TRUE}

MCNext ==
  /\ Next
  /\ settings'.max = settings.max
  /\ pc[f1] # "free" \/ pc'[f2] = "free"
  /\ nic'.key \in {None, First} \cup (IF Limited /\ pc[f1] # "free" THEN Others ELSE {})
  /\ IF Limited THEN now' = 0 /\ ~cl'.final ELSE fatal' = 0
  /\ Sweep

MCSpec == Init /\ [][MCNext]_vars /\ Fairness
=============================================================================
