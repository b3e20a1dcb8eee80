------------------------------ MODULE MigrationLog ------------------------------
(***************************************************************************)
(* What applyMigrations promises (packages/postgres): the database only    *)
(* moves forward through the numbered migrations, the work of each happens *)
(* once and together with the row that records it, and none goes before    *)
(* one with a lower number.                                                *)
(***************************************************************************)
EXTENDS Naturals

CONSTANTS Migrations

VARIABLES
    applied,            \* ids in schema_migrations
    effects             \* per id, how often its sql has taken effect

LogInit == applied = {} /\ effects = [m \in Migrations |-> 0]

Apply(done) ==
    /\ done \cap applied = {}
    /\ \A m \in done, k \in Migrations : k < m => k \in applied \cup done
    /\ applied' = applied \cup done
    /\ effects' = [m \in Migrations |-> IF m \in done THEN effects[m] + 1 ELSE effects[m]]

LogNext == \E done \in SUBSET Migrations : Apply(done)
LogSpec == LogInit /\ [][LogNext]_<<applied, effects>>
================================================================================
