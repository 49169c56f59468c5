-------------------------- MODULE MCToolDispatch --------------------------
(* Instances of ToolDispatch for TLC.                                      *)
EXTENDS ToolDispatch

CONSTANTS c1, c2

\* Two identical calls.
SameKey == [c \in Calls |-> CHOOSE k \in Keys : TRUE]

\* They are interchangeable, so only behaviours in which c1 is dispatched
\* first are looked at (a symmetry set would not be sound for liveness).
C1First == stage[c1] = "new" => stage[c2] = "new"
=============================================================================
