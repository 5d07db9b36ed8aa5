---------------------------- MODULE MCReassembly -----------------------------
(* Small instance of Reassembly. *)
EXTENDS Reassembly

\* Three fragments, the last one partial; two of which the last is full; five,
\* more than an entry may hold; and one that is not an Echo Request.
Sizes == [d \in Dgram |-> CASE d = "ping" -> 37 [] d = "even" -> 32
                            [] d = "long" -> 80 [] OTHER -> 25]

\* The long datagram meets the first one alone, and then the network duplicates
\* nothing; without it the other three meet.
Untouched(d) == \A i \in DOMAIN left[d] : left'[d][i] = Copies
OnceEach == \A d \in Dgram : \A i \in DOMAIN left[d] : left'[d][i] >= Copies - 1
MCNext ==
  /\ Next
  /\ Untouched("long") \/ (Untouched("even") /\ Untouched("error") /\ OnceEach)

MCSpec == Init /\ [][MCNext]_vars
=============================================================================
