---------------------------- MODULE MCMigrations ----------------------------
(* Migrations on small instances. *)
EXTENDS Migrations, TLC

CONSTANTS r1, r2

Symmetry == Permutations(Runners)
=============================================================================
