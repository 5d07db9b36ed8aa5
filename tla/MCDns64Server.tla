---------------------------- MODULE MCDns64Server ----------------------------
(* Small instances of Dns64Server. *)
EXTENDS Dns64Server, TLC

Symmetry == Permutations(Msg) \cup Permutations(Conn)
=============================================================================
