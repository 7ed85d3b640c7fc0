---------------------------- MODULE MCVcuHistory ----------------------------
(* The instance of MCVcu with the observers of VcuHistory.                 *)
EXTENDS MCVcu, VcuHistory
=============================================================================
