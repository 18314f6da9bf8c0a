----------------------------- MODULE MCMigrations -----------------------------
(* Instances of Migrations for TLC.                                        *)
EXTENDS Migrations, TLC

CONSTANTS b1, b2, o1, o2, t1

Symmetry == Permutations(Branches) \cup Permutations(Migrators)
=============================================================================
