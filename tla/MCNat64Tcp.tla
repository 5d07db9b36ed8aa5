------------------------------ MODULE MCNat64Tcp ------------------------------
(***************************************************************************)
(* Instances of Nat64Tcp for TLC.                                          *)
(***************************************************************************)
EXTENDS Nat64Tcp

CONSTANTS c1, c2, c3, s1

ThreeConns == {c1, c2, c3}
OneSrc     == {s1}
Clients    == [c \in Conn |-> s1]

Reloadable == {[perSrc |-> 1, timeout |-> n] : n \in 1..2}

\* Connections contend for the slots at one instant, under one setting; once
\* time passes, a reload comes or the service stops, c1 is the only one.  Only
\* the peers of c1 half-close.  c3 comes and goes while the other two have given
\* back their slots and are still charged.  The sweep, which meets neither c2
\* nor c3, passes them first.
Alone == now > 0 \/ settings.timeout > 1 \/ cl.final
MCNext ==
  /\ Next
  /\ \A c \in Conn \ {c1} :
       /\ Alone' => pc'[c] = "none"
       /\ \A x \in Leg : peer'[c][x] # "eof"
  /\ pc'[c3] # "none" => srcCounts'[s1] >= 2 /\ (pc[c3] = "none" => tcpSem = 0)
  /\ cl'.final => cl'.todo \in {Conn, {c1, c2}, {c1}, {}}

MCSpec == Init /\ [][MCNext]_vars /\ Fairness
=============================================================================
