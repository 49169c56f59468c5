--------------------------- MODULE MCDirRollback ---------------------------
(* Instances of DirRollback for TLC.                                       *)
EXTENDS DirRollback
=============================================================================
