----------------------------- MODULE NatMapping -----------------------------
(***************************************************************************)
(* What a NAT promises its clients (RFC 4787, which src/src/nat64/udp.go   *)
(* cites): a client socket has at most one external port at a time,        *)
(* whatever it talks to; it keeps that port until the port is released; no *)
(* port passes to another client; and a port starts out with nobody        *)
(* admitted through it, so that what a previous mapping let in is gone.    *)
(***************************************************************************)
CONSTANTS Client, Port, Dest, None

VARIABLES
  mapping,   \* the external port of a client socket, or None
  spent,     \* ports that have been bound
  admitted   \* destinations whose replies reach the client through its port

Init ==
  /\ mapping = [c \in Client |-> None]
  /\ spent = {}
  /\ admitted = [c \in Client |-> {}]

Bind(c, p) ==
  /\ mapping[c] = None /\ p \notin spent
  /\ mapping' = [mapping EXCEPT ![c] = p]
  /\ spent' = spent \cup {p}
  /\ UNCHANGED admitted

Admit(c, d) ==
  /\ mapping[c] # None
  /\ admitted' = [admitted EXCEPT ![c] = @ \cup {d}]
  /\ UNCHANGED <<mapping, spent>>

Forget(c, d) ==
  /\ mapping[c] # None
  /\ admitted' = [admitted EXCEPT ![c] = @ \ {d}]
  /\ UNCHANGED <<mapping, spent>>

Release(c) ==
  /\ mapping[c] # None
  /\ mapping' = [mapping EXCEPT ![c] = None]
  /\ admitted' = [admitted EXCEPT ![c] = {}]
  /\ UNCHANGED spent

Next ==
  \E c \in Client :
    \/ \E p \in Port : Bind(c, p)
    \/ \E d \in Dest : Admit(c, d) \/ Forget(c, d)
    \/ Release(c)

Spec == Init /\ [][Next]_<<mapping, spent, admitted>>
=============================================================================
