---------------------------- MODULE MCIdleSetting ----------------------------
(* IdleSetting on small instances, for TLC. *)
EXTENDS IdleSetting, TLC

Symmetry == Permutations(Request)

AllOps == {"update", "login", "unlock"}
=============================================================================
