------------------------------- MODULE MCMounts -------------------------------
(* Small instances of Mounts: two runs of one mount, and handlers that overlap. *)
EXTENDS Mounts, TLC
CONSTANTS h1, h2, h3, p1, p2, s1, s2, s3
Symmetry == Permutations(Procs) \union Permutations(Handlers) \union Permutations(Servers)
===============================================================================
