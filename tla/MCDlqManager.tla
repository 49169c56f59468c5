--------------------------- MODULE MCDlqManager ---------------------------
(* Instances of DlqManager for TLC.                                        *)
EXTENDS DlqManager
=============================================================================
