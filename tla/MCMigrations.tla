---------------------------- MODULE MCMigrations ----------------------------
(* Migrations for TLC: overlapping runs, interchangeable.                  *)
EXTENDS Migrations, TLC

CONSTANTS r1, r2
MCRuns == {r1, r2}
Symmetry == Permutations(MCRuns)
=============================================================================
