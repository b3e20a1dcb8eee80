---------------------------- MODULE MigrationsProofs ----------------------------
(***************************************************************************)
(* Proofs about Migrations, for any runners and any number of migrations.  *)
(* The inductive invariant says what an open transaction holds at each     *)
(* statement, that no two hold a row of the same key, and that a runner is *)
(* at the first migration that is neither recorded nor its own.            *)
(***************************************************************************)
EXTENDS Migrations, TLAPS

\* What a transaction holds: rows for all its work, but for the one under way.
Holds(r) ==
    /\ pc[r] \in Idle \cup {"select"} => rows[r] = {}
    /\ ~joined[r] /\ pc[r] \in {"next", "sql", "insert"} => rows[r] = {}
    /\ \A m \in rows[r] : m <= at[r]
    /\ work[r] = IF pc[r] = "insert" THEN rows[r] \cup {at[r]} ELSE rows[r]
    /\ pc[r] \in {"sql", "insert"} => at[r] \in Migrations /\ at[r] \notin rows[r]

\* Every lower migration is recorded, or about to be by the same transaction.
Lower(r) ==
    /\ seen[r] \subseteq applied
    /\ pc[r] \in {"sql", "insert"} => \A k \in Migrations : k < at[r] => k \in applied \cup rows[r]
    /\ pc[r] \in {"next", "commit"} => \A k \in Migrations : k <= at[r] => k \in applied \cup rows[r]
    /\ \A m \in rows[r], k \in Migrations : k < m => k \in applied \cup rows[r]

Exclusive ==
    /\ \A r \in Runners : rows[r] \cap applied = {}
    /\ \A q, r \in Runners : q # r => rows[q] \cap rows[r] = {}

Inv ==
    /\ TypeOK
    /\ \A r \in Runners : Holds(r)
    /\ \A r \in Runners : Lower(r)
    /\ Exclusive
    /\ OnceInOrder

LEMMA InitInv == Init => Inv
  BY MaxIdAssumption DEF Init, Inv, TypeOK, Holds, Lower, Exclusive, OnceInOrder, Idle, Migrations

\* A step that keeps the database and the rows: only the runner's own parts move.
LEMMA BeginKeeps == ASSUME Inv, NEW r \in Runners, Begin(r) PROVE Inv'
  BY MaxIdAssumption DEF Inv, TypeOK, Holds, Lower, Exclusive, OnceInOrder, Idle, Migrations, Begin, To, db

LEMMA SelectKeeps == ASSUME Inv, NEW r \in Runners, Select(r) PROVE Inv'
<1> USE MaxIdAssumption DEF Migrations, Idle
<1>1. TypeOK'
  <2>1. at' \in [Runners -> 0 .. MaxId] /\ seen' \in [Runners -> SUBSET Migrations]
    BY DEF Inv, TypeOK, Select
  <2>2. pc' \in [Runners -> Idle \cup {"select", "next", "sql", "insert", "commit"}]
    BY DEF Inv, TypeOK, Select, To
  <2> QED BY <2>1, <2>2 DEF Inv, TypeOK, Select, db
<1>2. ASSUME NEW q \in Runners PROVE Holds(q)'
  <2>1. CASE q = r
    BY <2>1 DEF Inv, TypeOK, Holds, Select, To, db
  <2>2. CASE q # r
    BY <2>2 DEF Inv, TypeOK, Holds, Select, To, db
  <2> QED BY <2>1, <2>2
<1>3. ASSUME NEW q \in Runners PROVE Lower(q)'
  <2>1. CASE q = r
    BY <2>1 DEF Inv, TypeOK, Holds, Lower, Select, To, db
  <2>2. CASE q # r
    BY <2>2 DEF Inv, TypeOK, Lower, Select, To, db
  <2> QED BY <2>1, <2>2
<1>4. Exclusive' /\ OnceInOrder'
  BY DEF Inv, Exclusive, OnceInOrder, Select, To, db
<1> QED BY <1>1, <1>2, <1>3, <1>4 DEF Inv

LEMMA AdvanceKeeps == ASSUME Inv, NEW r \in Runners, Advance(r) PROVE Inv'
<1> USE MaxIdAssumption DEF Migrations, Idle
<1>1. TypeOK'
  <2>1. at' \in [Runners -> 0 .. MaxId]
    <3>1. \A m \in Rest(r) : m \in 0 .. MaxId
      BY DEF Rest
    <3> QED BY <3>1 DEF Inv, TypeOK, Advance
  <2>2. pc' \in [Runners -> Idle \cup {"select", "next", "sql", "insert", "commit"}]
    <3>1. pc' = [pc EXCEPT ![r] = "sql"] \/ pc' = [pc EXCEPT ![r] = "commit"]
          \/ pc' = [pc EXCEPT ![r] = "done"]
      BY DEF Advance, To
    <3> QED BY <3>1 DEF Inv, TypeOK
  <2> QED BY <2>1, <2>2 DEF Inv, TypeOK, Advance, db
<1>2. ASSUME NEW q \in Runners PROVE Holds(q)'
  <2>1. CASE q = r
    <3>1. work[r] = rows[r]
      BY DEF Inv, Holds, Advance
    <3>2. CASE Rest(r) = {} /\ pc' = [pc EXCEPT ![r] = IF joined[r] THEN "commit" ELSE "done"]
      <4>1. ~joined[r] => rows[r] = {}
        BY DEF Inv, Holds, Advance
      <4> QED BY <2>1, <3>1, <3>2, <4>1 DEF Inv, TypeOK, Holds, Advance
    <3>3. ASSUME NEW m \in Rest(r), at' = [at EXCEPT ![r] = m], pc' = [pc EXCEPT ![r] = "sql"]
          PROVE Holds(r)'
      <4>1. m \in Migrations /\ m \notin rows[r] /\ \A k \in rows[r] : k <= m
        BY DEF Inv, TypeOK, Holds, Advance, Rest
      <4> QED BY <3>1, <3>3, <4>1 DEF Inv, TypeOK, Holds, Advance
    <3> QED BY <2>1, <3>2, <3>3 DEF Advance, To
  <2>2. CASE q # r
    BY <2>2 DEF Inv, TypeOK, Holds, Advance, Rest, To, db
  <2> QED BY <2>1, <2>2
<1>3. ASSUME NEW q \in Runners PROVE Lower(q)'
  <2>1. CASE q = r
    <3>1. ASSUME NEW m \in Rest(r), \A k \in Rest(r) : m <= k,
                 at' = [at EXCEPT ![r] = m], pc' = [pc EXCEPT ![r] = "sql"]
          PROVE Lower(r)'
      <4>1. ASSUME NEW k \in Migrations, k < m PROVE k \in applied \cup rows[r]
        <5>1. at[r] \in 0 .. MaxId /\ release[r] \in 0 .. MaxId /\ m \in Migrations /\ m <= release[r]
          BY DEF Inv, TypeOK, Rest
        <5>2. CASE k <= at[r]
          BY <5>2 DEF Inv, Lower, Advance
        <5>3. CASE at[r] < k
          <6>1. k \notin Rest(r)
            BY <3>1, <4>1, <5>1
          <6>2. k \in seen[r]
            BY <4>1, <5>1, <5>3, <6>1 DEF Rest
          <6> QED BY <6>2 DEF Inv, Lower
        <5> QED BY <5>1, <5>2, <5>3
      <4> QED BY <3>1, <4>1 DEF Inv, TypeOK, Lower, Advance, db
    <3>2. CASE Rest(r) = {} /\ at' = at /\ pc' = [pc EXCEPT ![r] = IF joined[r] THEN "commit" ELSE "done"]
      BY <3>2 DEF Inv, TypeOK, Lower, Advance, db
    <3> QED BY <2>1, <3>1, <3>2 DEF Advance, To
  <2>2. CASE q # r
    BY <2>2 DEF Inv, TypeOK, Lower, Advance, Rest, To, db
  <2> QED BY <2>1, <2>2
<1>4. Exclusive'
  BY DEF Inv, TypeOK, Holds, Exclusive, Advance, Rest, To, db
<1>5. OnceInOrder'
  BY DEF Inv, TypeOK, Holds, Lower, Exclusive, OnceInOrder, Advance, Rest, To, db
<1> QED BY <1>1, <1>2, <1>3, <1>4, <1>5 DEF Inv

LEMMA RunSqlKeeps == ASSUME Inv, NEW r \in Runners, RunSql(r) PROVE Inv'
<1> USE MaxIdAssumption DEF Migrations, Idle
<1>1. TypeOK'
  <2>1. at[r] \in Migrations
    BY DEF Inv, Holds, RunSql
  <2>2. work' \in [Runners -> SUBSET Migrations]
    BY <2>1 DEF Inv, TypeOK, RunSql
  <2>3. pc' \in [Runners -> Idle \cup {"select", "next", "sql", "insert", "commit"}]
    BY DEF Inv, TypeOK, RunSql, To
  <2> QED BY <2>2, <2>3 DEF Inv, TypeOK, RunSql, db
<1>2. ASSUME NEW q \in Runners PROVE Holds(q)'
  <2>1. CASE q = r
    BY <2>1 DEF Inv, TypeOK, Holds, Exclusive, RunSql, To, db
  <2>2. CASE q # r
    BY <2>2 DEF Inv, TypeOK, Holds, RunSql, To, db
  <2> QED BY <2>1, <2>2
<1>3. ASSUME NEW q \in Runners PROVE Lower(q)'
  <2>1. CASE q = r
    BY <2>1 DEF Inv, TypeOK, Holds, Lower, RunSql, To, db
  <2>2. CASE q # r
    BY <2>2 DEF Inv, TypeOK, Lower, RunSql, To, db
  <2> QED BY <2>1, <2>2
<1>4. Exclusive'
  BY DEF Inv, TypeOK, Holds, Exclusive, RunSql, To, db
<1>5. OnceInOrder'
  BY DEF Inv, TypeOK, Holds, Lower, Exclusive, OnceInOrder, RunSql, To, db
<1> QED BY <1>1, <1>2, <1>3, <1>4, <1>5 DEF Inv

LEMMA InsertRowKeeps == ASSUME Inv, NEW r \in Runners, InsertRow(r) PROVE Inv'
<1> USE MaxIdAssumption DEF Migrations, Idle
<1>1. TypeOK'
  <2>1. at[r] \in Migrations
    BY DEF Inv, Holds, InsertRow
  <2>2. rows' \in [Runners -> SUBSET Migrations]
    BY <2>1 DEF Inv, TypeOK, InsertRow
  <2>3. pc' \in [Runners -> Idle \cup {"select", "next", "sql", "insert", "commit"}]
    BY DEF Inv, TypeOK, InsertRow, To
  <2> QED BY <2>2, <2>3 DEF Inv, TypeOK, InsertRow, db
<1>2. ASSUME NEW q \in Runners PROVE Holds(q)'
  <2>1. CASE q = r
    BY <2>1 DEF Inv, TypeOK, Holds, Exclusive, InsertRow, To, db
  <2>2. CASE q # r
    BY <2>2 DEF Inv, TypeOK, Holds, InsertRow, To, db
  <2> QED BY <2>1, <2>2
<1>3. ASSUME NEW q \in Runners PROVE Lower(q)'
  <2>1. CASE q = r
    BY <2>1 DEF Inv, TypeOK, Holds, Lower, InsertRow, To, db
  <2>2. CASE q # r
    BY <2>2 DEF Inv, TypeOK, Lower, InsertRow, To, db
  <2> QED BY <2>1, <2>2
<1>4. Exclusive'
  BY DEF Inv, TypeOK, Holds, Exclusive, InsertRow, To, db
<1>5. OnceInOrder'
  BY DEF Inv, TypeOK, Holds, Lower, Exclusive, OnceInOrder, InsertRow, To, db
<1> QED BY <1>1, <1>2, <1>3, <1>4, <1>5 DEF Inv

LEMMA CommitKeeps == ASSUME Inv, NEW r \in Runners, Commit(r) PROVE Inv'
<1> USE MaxIdAssumption DEF Migrations, Idle
<1>1. TypeOK'
  <2>1. applied' \subseteq Migrations /\ effects' \in [Migrations -> Nat]
    <3>1. rows[r] \subseteq Migrations /\ \A m \in Migrations : effects[m] \in Nat /\ effects[m] + 1 \in Nat
      BY DEF Inv, TypeOK
    <3> QED BY <3>1 DEF Inv, TypeOK, Commit, TakesEffect
  <2>2. work' \in [Runners -> SUBSET Migrations] /\ rows' \in [Runners -> SUBSET Migrations]
    BY DEF Inv, TypeOK, Commit, Forget
  <2>3. pc' \in [Runners -> Idle \cup {"select", "next", "sql", "insert", "commit"}]
    BY DEF Inv, TypeOK, Commit, To
  <2> QED BY <2>1, <2>2, <2>3 DEF Inv, TypeOK, Commit
<1>2. ASSUME NEW q \in Runners PROVE Holds(q)'
  <2>1. CASE q = r
    BY <2>1 DEF Inv, TypeOK, Holds, Exclusive, Commit, TakesEffect, Forget, To
  <2>2. CASE q # r
    BY <2>2 DEF Inv, TypeOK, Holds, Commit, TakesEffect, Forget, To
  <2> QED BY <2>1, <2>2
<1>3. ASSUME NEW q \in Runners PROVE Lower(q)'
  <2>1. CASE q = r
    BY <2>1 DEF Inv, TypeOK, Holds, Lower, Commit, TakesEffect, Forget, To
  <2>2. CASE q # r
    BY <2>2 DEF Inv, TypeOK, Lower, Commit, TakesEffect, Forget, To
  <2> QED BY <2>1, <2>2
<1>4. Exclusive'
  BY DEF Inv, TypeOK, Holds, Exclusive, Commit, TakesEffect, Forget, To
<1>5. OnceInOrder'
  <2>1. work[r] = rows[r] /\ rows[r] \cap applied = {} /\ rows[r] \subseteq Migrations
    BY DEF Inv, TypeOK, Holds, Exclusive, Commit
  <2>2. ASSUME NEW m \in Migrations PROVE effects'[m] = IF m \in applied' THEN 1 ELSE 0
    BY <2>1 DEF Inv, OnceInOrder, Commit, TakesEffect
  <2>3. ASSUME NEW m \in applied', NEW k \in Migrations, k < m PROVE k \in applied'
    BY <2>3 DEF Inv, Lower, OnceInOrder, Commit, TakesEffect
  <2> QED BY <2>2, <2>3 DEF OnceInOrder
<1> QED BY <1>1, <1>2, <1>3, <1>4, <1>5 DEF Inv

LEMMA FailKeeps == ASSUME Inv, NEW r \in Runners, Fail(r) PROVE Inv'
<1> USE MaxIdAssumption DEF Migrations, Idle
<1>1. TypeOK'
  BY DEF Inv, TypeOK, Fail, Forget, To, db
<1>2. ASSUME NEW q \in Runners PROVE Holds(q)'
  <2>1. CASE q = r
    BY <2>1 DEF Inv, TypeOK, Holds, Exclusive, Fail, Forget, To, db
  <2>2. CASE q # r
    BY <2>2 DEF Inv, TypeOK, Holds, Fail, Forget, To, db
  <2> QED BY <2>1, <2>2
<1>3. ASSUME NEW q \in Runners PROVE Lower(q)'
  <2>1. CASE q = r
    BY <2>1 DEF Inv, TypeOK, Holds, Lower, Fail, Forget, To, db
  <2>2. CASE q # r
    BY <2>2 DEF Inv, TypeOK, Lower, Fail, Forget, To, db
  <2> QED BY <2>1, <2>2
<1>4. Exclusive'
  BY DEF Inv, TypeOK, Holds, Exclusive, Fail, Forget, To, db
<1>5. OnceInOrder'
  BY DEF Inv, TypeOK, Holds, Lower, Exclusive, OnceInOrder, Fail, Forget, To, db
<1> QED BY <1>1, <1>2, <1>3, <1>4, <1>5 DEF Inv

LEMMA NextInv == Inv /\ [Next]_vars => Inv'
<1> SUFFICES ASSUME Inv, [Next]_vars PROVE Inv'
  OBVIOUS
<1>1. CASE UNCHANGED vars
  BY <1>1 DEF vars, Inv, TypeOK, Holds, Lower, Exclusive, OnceInOrder
<1>2. ASSUME NEW r \in Runners, Begin(r) \/ Select(r) \/ Advance(r) PROVE Inv'
  BY <1>2, BeginKeeps, SelectKeeps, AdvanceKeeps
<1>3. ASSUME NEW r \in Runners, RunSql(r) \/ InsertRow(r) \/ Commit(r) \/ Fail(r) PROVE Inv'
  BY <1>3, RunSqlKeeps, InsertRowKeeps, CommitKeeps, FailKeeps
<1> QED BY <1>1, <1>2, <1>3 DEF Next

LEMMA AlwaysInv == Spec => []Inv
BY InitInv, NextInv, PTL DEF Spec

(* Every statement leaves each variable within its type.                   *)
THEOREM TypeCorrect == Spec => []TypeOK
<1>1. Inv => TypeOK
  BY DEF Inv
<1> QED BY <1>1, AlwaysInv, PTL

(* applyMigrations, for any number of runners, releases and migrations: a  *)
(* recorded migration has taken effect once and after every lower one, and *)
(* an unrecorded one not at all.                                           *)
THEOREM Versioned == Spec => []OnceInOrder
<1>1. Inv => OnceInOrder
  BY DEF Inv
<1> QED BY <1>1, AlwaysInv, PTL

LEMMA StepsOfLog == Inv /\ [Next]_vars => [Log!LogNext]_<<applied, effects>>
<1> SUFFICES ASSUME Inv, [Next]_vars, ~UNCHANGED <<applied, effects>> PROVE Log!LogNext
  OBVIOUS
<1>1. PICK r \in Runners : Commit(r)
  BY DEF Next, vars, db, Begin, Select, Advance, RunSql, InsertRow, Fail
<1>2. /\ work[r] = rows[r] /\ rows[r] \subseteq Migrations
      /\ rows[r] \cap applied = {}
      /\ \A m \in rows[r], k \in Migrations : k < m => k \in applied \cup rows[r]
  BY <1>1 DEF Inv, TypeOK, Holds, Lower, Exclusive, Commit
<1>3. Log!Apply(rows[r])
  BY <1>1, <1>2 DEF Commit, TakesEffect, Log!Apply
<1> QED BY <1>2, <1>3 DEF Log!LogNext

(* The runners together implement one migrator that moves forward through  *)
(* the numbers: a COMMIT is its step, everything else stutters.            *)
THEOREM Implements == Spec => ImplementsLog
<1>1. Init => Log!LogInit
  BY DEF Init, Log!LogInit
<1> QED BY <1>1, AlwaysInv, StepsOfLog, PTL DEF Spec, ImplementsLog, Log!LogSpec
================================================================================
