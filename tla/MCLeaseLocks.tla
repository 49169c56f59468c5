---------------------------- MODULE MCLeaseLocks ----------------------------
(* Instances of LeaseLocks for TLC. *)
EXTENDS LeaseLocks, TLC

CONSTANTS agent

(* Services share one constant agent_id: the hard case for fencing. *)
SharedAgent == [s \in Sessions |-> agent]

SessionSymmetry == Permutations(Sessions)
=============================================================================
