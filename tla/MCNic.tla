-------------------------------- MODULE MCNic --------------------------------
(***************************************************************************)
(* Small instance of Nic for TLC.                                          *)
(***************************************************************************)
EXTENDS Nic
=============================================================================
