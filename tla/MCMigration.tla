----------------------------- MODULE MCMigration -----------------------------
(* Three processes: the App's boot, and two commands typed meanwhile. *)
EXTENDS Migration

CONSTANTS p1, p2, p3, i1, i2
=============================================================================
