------------------------ MODULE MCVaultProtection ------------------------
(* Small instances of VaultProtection for TLC.                            *)
EXTENDS VaultProtection, TLC

Symmetry == Permutations(Procs)
=============================================================================
