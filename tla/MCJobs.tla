-------------------------------- MODULE MCJobs --------------------------------
(* Small instances of Jobs: two requests at once, on one job or on two. *)
EXTENDS Jobs, TLC
CONSTANTS n1, n2, r1, r2, code1, code2, val1, val2
Symmetry == Permutations(Requests) \union Permutations(Contents)
                \union Permutations(Versions) \union Permutations(Names)
===============================================================================
