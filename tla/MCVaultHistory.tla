---------------------------- MODULE MCVaultHistory ----------------------------
(* Small instances of VaultHistory: one command after another, or two at once. *)
EXTENDS VaultHistory, TLC
CONSTANTS c1, c2, v1, v2, v3, v4
Symmetry == Permutations(Versions)
===============================================================================
