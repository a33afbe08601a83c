----------------------------- MODULE MCMigration ----------------------------
(***************************************************************************)
(* An instance of Migration for TLC: two processes, two messages, two      *)
(* rowids, every version of the database from none at all to a newer one.  *)
(***************************************************************************)
EXTENDS Migration

CONSTANTS o1, o2, x, y
=============================================================================
