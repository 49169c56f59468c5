---------------------------- MODULE MCSnapshotTx ----------------------------
(* Instances of SnapshotTx for TLC. *)
EXTENDS SnapshotTx, TLC

CONSTANTS agent

SharedAgent == [s \in Sessions |-> agent]

SessionSymmetry == Permutations(Sessions)
FileSymmetry == Permutations(Files)
=============================================================================
