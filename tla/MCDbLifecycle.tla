--------------------------- MODULE MCDbLifecycle ---------------------------
(* Small instances of DbLifecycle for TLC.                                  *)
EXTENDS DbLifecycle, TLC

\* Tasks are interchangeable in the safety run
Symmetry == Permutations(Tasks)

\* Every operation whose callers use the connection under the path lock
BoundaryOps == AllOps \ {"get_connection"}

\* What a shutdown may have to wait for, inside the boundary and out of it
DrainOps == {"transaction", "recover_connection", "get_connection", "shutdown_all"}
=============================================================================
