-------------------------- MODULE MCSchemaMigration ----------------------------
(***************************************************************************)
(* TLC instances of SchemaMigration.                                       *)
(***************************************************************************)
EXTENDS SchemaMigration, TLC

(* Processes and runs are interchangeable.                                 *)
Interchangeable == Permutations(Migrator) \cup Permutations(RunId)
===============================================================================
