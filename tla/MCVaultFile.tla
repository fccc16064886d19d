---------------------------- MODULE MCVaultFile ----------------------------
(* VaultFile on small instances, for TLC. *)
EXTENDS VaultFile, TLC

Symmetry == Permutations(Process)

\* Everything, the offline rewrites included.
AllOps == {"serve", "restore", "set_aside", "migrate", "reset", "snapshot"}

\* Two restores.
RestoreOps == {"serve", "restore"}
=============================================================================
