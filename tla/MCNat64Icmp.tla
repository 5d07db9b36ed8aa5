----------------------------- MODULE MCNat64Icmp -----------------------------
(***************************************************************************)
(* Instances of Nat64Icmp for TLC.                                         *)
(***************************************************************************)
EXTENDS Nat64Icmp, TLC

CONSTANTS q1, q2, q3, d1, d2, o1, o2, o3, o4

ThreeQueries == {q1, q2, q3}
TwoQueries   == {q1, q2}
OneDst       == {d1}
TwoDsts      == {d1, d2}
\* q1 and q2 compete for the identifiers of one destination.
Dsts         == [q \in Query |-> IF q \in {q1, q2} \/ Dst = {d1} THEN d1 ELSE d2]
ThreeObjects == {o1, o2, o3}
FourObjects  == {o1, o2, o3, o4}

ObjectSymmetry == Permutations(Session)
=============================================================================
