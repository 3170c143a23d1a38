-------------------------- MODULE MCMigrationSync --------------------------
(***************************************************************************)
(* Interchangeable workers and a few jobs for TLC.                         *)
(***************************************************************************)
EXTENDS MigrationSync, TLC

Sym == Permutations(Worker)
=============================================================================
