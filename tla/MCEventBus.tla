----------------------------- MODULE MCEventBus -----------------------------
(* Instances of EventBus for TLC. *)
EXTENDS EventBus, TLC

TwoHandlers == 1 .. 2
=============================================================================
