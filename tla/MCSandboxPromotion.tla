------------------------ MODULE MCSandboxPromotion ------------------------
(* Instances of SandboxPromotion for TLC.                                  *)
EXTENDS SandboxPromotion
=============================================================================
