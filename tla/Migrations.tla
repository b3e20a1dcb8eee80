------------------------------- MODULE Migrations -------------------------------
(***************************************************************************)
(* packages/postgres: applyMigrations over PostgresDatabase, run by        *)
(* several deployments at once, of releases that know the migrations up to *)
(* some number.  Each statement is a step, and each may fail or have its   *)
(* answer lost.  The server (external) is Postgres at READ COMMITTED: an   *)
(* insert waits for an uncommitted row with its key, and the work of a     *)
(* transaction whose client goes away is undone.                           *)
(***************************************************************************)
EXTENDS Naturals

CONSTANTS
    Runners,            \* the processes that call applyMigrations
    MaxId               \* bound of the migrations' numbers

ASSUME MaxIdAssumption == MaxId \in Nat
Migrations == 1 .. MaxId

VARIABLES
    applied, effects,   \* the database, committed: schema_migrations; how often
                        \* the sql of each migration has taken effect
    pc,                 \* per runner: the statement it makes next
    release,            \* the number of migrations its release has
    joined,             \* it runs inside a transaction of its caller's
    seen,               \* the set of ids it has read
    at,                 \* the migration it is at
    work, rows          \* its open transaction: migrations whose sql has run in
                        \* it, ids inserted in it

db == <<applied, effects>>
vars == <<applied, effects, pc, release, joined, seen, at, work, rows>>

Idle == {"start", "done", "failed"}

TypeOK ==
    /\ applied \subseteq Migrations
    /\ effects \in [Migrations -> Nat]
    /\ pc \in [Runners -> Idle \cup {"select", "next", "sql", "insert", "commit"}]
    /\ release \in [Runners -> 0 .. MaxId]
    /\ joined \in [Runners -> BOOLEAN]
    /\ seen \in [Runners -> SUBSET Migrations]
    /\ at \in [Runners -> 0 .. MaxId]
    /\ work \in [Runners -> SUBSET Migrations]
    /\ rows \in [Runners -> SUBSET Migrations]

Init ==
    /\ applied = {} /\ effects = [m \in Migrations |-> 0]
    /\ pc = [r \in Runners |-> "start"]
    /\ release = [r \in Runners |-> 0]
    /\ joined = [r \in Runners |-> FALSE]
    /\ seen = [r \in Runners |-> {}]
    /\ at = [r \in Runners |-> 0]
    /\ work = [r \in Runners |-> {}] /\ rows = [r \in Runners |-> {}]

To(r, p) == pc' = [pc EXCEPT ![r] = p]

\* A deployment, or another attempt of one.  CREATE TABLE IF NOT EXISTS.
Begin(r) ==
    /\ pc[r] \in Idle
    /\ \E n \in 0 .. MaxId, j \in BOOLEAN :
           /\ release' = [release EXCEPT ![r] = n]
           /\ joined' = [joined EXCEPT ![r] = j]
    /\ To(r, "select")
    /\ UNCHANGED <<db, seen, at, work, rows>>

\* SELECT id FROM schema_migrations.
Select(r) ==
    /\ pc[r] = "select"
    /\ seen' = [seen EXCEPT ![r] = applied]
    /\ at' = [at EXCEPT ![r] = 0]
    /\ To(r, "next")
    /\ UNCHANGED <<db, release, joined, work, rows>>

\* Mutant of Rest: the list is read from position 0, the position it is at included.
RestZero(r) == {m \in 0 .. MaxId : at[r] <= m /\ m <= release[r] /\ m \notin seen[r]}

Rest(r) == {m \in Migrations : at[r] < m /\ m <= release[r] /\ m \notin seen[r]}

\* The loop goes to the next migration it has not seen, and BEGINs unless it is in
\* its caller's transaction; after the last, that is committed.
Advance(r) ==
    /\ pc[r] = "next"
    /\ \/ \E m \in Rest(r) :
              /\ \A k \in Rest(r) : m <= k
              /\ at' = [at EXCEPT ![r] = m]
              /\ To(r, "sql")
       \/ /\ Rest(r) = {}
          /\ To(r, IF joined[r] THEN "commit" ELSE "done")
          /\ UNCHANGED at
    /\ UNCHANGED <<db, release, joined, seen, work, rows>>

RunSql(r) ==
    /\ pc[r] = "sql"
    /\ work' = [work EXCEPT ![r] = @ \cup {at[r]}]
    /\ To(r, "insert")
    /\ UNCHANGED <<db, release, joined, seen, at, rows>>

\* Mutant of InsertRow: no primary key, or ON CONFLICT DO NOTHING.
InsertRowAnyway(r) ==
    /\ pc[r] = "insert"
    /\ rows' = [rows EXCEPT ![r] = @ \cup {at[r]}]
    /\ To(r, IF joined[r] THEN "next" ELSE "commit")
    /\ UNCHANGED <<db, release, joined, seen, at, work>>

\* The key of a row somebody has committed is refused: see Fail.
InsertRow(r) ==
    /\ pc[r] = "insert"
    /\ at[r] \notin applied
    /\ \A q \in Runners : at[r] \notin rows[q]
    /\ rows' = [rows EXCEPT ![r] = @ \cup {at[r]}]
    /\ To(r, IF joined[r] THEN "next" ELSE "commit")
    /\ UNCHANGED <<db, release, joined, seen, at, work>>

Forget(r) == work' = [work EXCEPT ![r] = {}] /\ rows' = [rows EXCEPT ![r] = {}]

TakesEffect(r) ==
    /\ applied' = applied \cup rows[r]
    /\ effects' = [m \in Migrations |-> IF m \in work[r] THEN effects[m] + 1 ELSE effects[m]]

\* COMMIT; if its answer is lost the caller takes it for a failure.
Commit(r) ==
    /\ pc[r] = "commit"
    /\ TakesEffect(r)
    /\ Forget(r)
    /\ \/ To(r, IF joined[r] THEN "done" ELSE "next")
       \/ To(r, "failed")
    /\ UNCHANGED <<release, joined, seen, at>>

\* Mutant of Fail: the row is kept, and what the migration did is undone.
FailKeepsRow(r) ==
    /\ pc[r] \notin Idle
    /\ applied' = applied \cup rows[r]
    /\ Forget(r)
    /\ To(r, "failed")
    /\ UNCHANGED <<effects, release, joined, seen, at>>

\* A statement fails or the process dies: ROLLBACK, by the code or the server.
Fail(r) ==
    /\ pc[r] \notin Idle
    /\ Forget(r)
    /\ To(r, "failed")
    /\ UNCHANGED <<db, release, joined, seen, at>>

Next ==
    \E r \in Runners :
        \/ Begin(r) \/ Select(r) \/ Advance(r)
        \/ RunSql(r) \/ InsertRow(r) \/ Commit(r) \/ Fail(r)

Spec == Init /\ [][Next]_vars
-------------------------------------------------------------------------------
(* The schema is at a version: the sql of a recorded migration has taken   *)
(* effect once and that of any other never, and every lower one is         *)
(* recorded too, however many releases migrate at once, fail or try again. *)
OnceInOrder ==
    /\ \A m \in Migrations : effects[m] = IF m \in applied THEN 1 ELSE 0
    /\ \A m \in applied, k \in Migrations : k < m => k \in applied

(* Migrations that run at once look like one migrator: every commit adds   *)
(* the next numbers, with their work (applyMigrations, transaction).       *)
Log == INSTANCE MigrationLog
ImplementsLog == Log!LogSpec
================================================================================
