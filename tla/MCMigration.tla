---------------------------- MODULE MCMigration ----------------------------
(* Migration for TLC: two files of projects that derive the same names,    *)
(* which of them is which being immaterial.                                *)
EXTENDS Migration, TLC

CONSTANTS f1, f2, c1

Perms == Permutations({f1, f2})

=============================================================================
