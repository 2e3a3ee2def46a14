------------------------------ MODULE MCVaultKey ------------------------------
(* Small instances of VaultKey: one command after another, or two at once. *)
EXTENDS VaultKey
CONSTANTS c1, c2, f1, f2, k1, k2, k3, k4
===============================================================================
