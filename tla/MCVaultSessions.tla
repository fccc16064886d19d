--------------------------- MODULE MCVaultSessions ---------------------------
(* VaultSessions on a small instance, for TLC; no symmetry, for the liveness. *)
EXTENDS VaultSessions
=============================================================================
