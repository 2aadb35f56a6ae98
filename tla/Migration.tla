----------------------------- MODULE Migration -----------------------------
(***************************************************************************)
(* Storage::new of daemons that start on one database: the schema version, *)
(* migration 1 statement by statement, migration 2 in one transaction, and *)
(* the first pass of the Claude log collector over a log that the older    *)
(* version had counted already, without a cursor.  A daemon may die        *)
(* anywhere, and launchd starts it again.                                  *)
(*                                                                         *)
(* A row of usage_records is [uuid, key, line]: the line of the log it     *)
(* counts, and the dedup_key version 2 gives it.                           *)
(***************************************************************************)
EXTENDS Integers, Sequences, FiniteSets

CONSTANTS
  Daemons,
  Lines,            \* usage lines of the log
  Identified,       \* lines with a message id and a request id
  None,             \* no key, no daemon
  MaxFaults         \* bound: crashes, and waits for the lock given up

VARIABLES
  db,               \* the database, as committed
  holder,           \* the daemon in a write transaction
  work,             \* the database as its transaction sees it
  pc,               \* where each daemon is
  next,             \* the next statement of its batch
  faults

vars == <<db, holder, work, pc, next, faults>>

-----------------------------------------------------------------------------
(* Rows and keys *)

\* Version 1, and lines without ids, go by a hash of the line's content.
Hash(line) == <<"hash", line>>

\* claude_dedup_key, or generate_log_uuid.
DedupKey(line) == IF line \in Identified THEN <<"ids", line>> ELSE Hash(line)

V1Row(line) == [uuid |-> Hash(line), key |-> None, line |-> line]
WithKey(row) == [uuid |-> row.uuid, key |-> row.uuid, line |-> row.line]
V2Row(line) == [uuid |-> <<"v5", DedupKey(line)>>, key |-> DedupKey(line), line |-> line]

ASSUME MigrationAssumption ==
  /\ Identified \subseteq Lines
  /\ None \notin Daemons
  /\ MaxFaults \in Nat
  /\ \A line \in Lines : None \notin {Hash(line), DedupKey(line), V2Row(line).uuid}

\* INSERT OR IGNORE under the unique uuid and the unique dedup_key.
InsertIgnore(rows, line) ==
  IF \E r \in rows : r.uuid = V2Row(line).uuid \/ r.key = V2Row(line).key THEN rows
  ELSE rows \union {V2Row(line)}

V1Tables == {"schema_version", "usage_records", "budget_config"}
V2Tables == {"quota_snapshots", "quota_hits", "collector_cursors"}

Fresh == [version |-> 0, tables |-> {}, usage |-> {}, copy |-> {}, cursor |-> "none"]

\* What a daemon of the older version left.
Older(lines) ==
  [version |-> 1, tables |-> V1Tables, usage |-> {V1Row(l) : l \in lines}, copy |-> {},
   cursor |-> "none"]

-----------------------------------------------------------------------------
(* The statements *)

\* Mutant: the version is stamped before the tables are there.
V1StampFirst == <<"stamp", "usage_records", "budget_config">>

\* migrate_v1; the other tables and the indexes of version 1 come with usage_records.
V1 == <<"usage_records", "budget_config", "stamp">>

RunV1(statement, t) ==
  IF statement = "stamp" THEN [t EXCEPT !.version = IF @ = 0 THEN 1 ELSE @]
  ELSE [t EXCEPT !.tables = @ \union {statement}]

\* migrate_v2
V2 == <<"create copy", "fill copy", "drop", "rename", "create tables", "stamp">>

\* Mutant: CREATE TABLE IF NOT EXISTS for the new tables.
FailsCopyOnly(statement, t) == statement = "create copy" /\ "usage_records_v2" \in t.tables

\* A table that exists already is an error.
Fails(statement, t) ==
  \/ statement = "create copy" /\ "usage_records_v2" \in t.tables
  \/ statement = "create tables" /\ V2Tables \intersect t.tables # {}

RunV2(statement, t) ==
  CASE statement = "create copy" -> [t EXCEPT !.tables = @ \union {"usage_records_v2"}]
    [] statement = "fill copy" -> [t EXCEPT !.copy = {WithKey(r) : r \in t.usage}]
    [] statement = "drop" -> [t EXCEPT !.tables = @ \ {"usage_records"}, !.usage = {}]
    [] statement = "rename" ->
         [t EXCEPT !.tables = (@ \ {"usage_records_v2"}) \union {"usage_records"},
                   !.usage = t.copy, !.copy = {}]
    [] statement = "create tables" -> [t EXCEPT !.tables = @ \union V2Tables]
    [] statement = "stamp" -> [t EXCEPT !.version = 2]

-----------------------------------------------------------------------------
Init ==
  /\ db \in {Fresh} \union {Older(lines) : lines \in SUBSET Lines}
  /\ holder = None /\ work = db
  /\ pc = [d \in Daemons |-> "down"]
  /\ next = [d \in Daemons |-> 1]
  /\ faults = 0

Go(d, place) == pc' = [pc EXCEPT ![d] = place]

\* A daemon starts: CREATE TABLE IF NOT EXISTS schema_version.
Open(d) ==
  /\ pc[d] = "down" /\ holder = None
  /\ db' = [db EXCEPT !.tables = @ \union {"schema_version"}]
  /\ Go(d, "version")
  /\ UNCHANGED <<holder, work, next, faults>>

\* migrate: the version is read once, before either migration.
ReadVersion(d) ==
  /\ pc[d] = "version"
  /\ Go(d, IF db.version < 1 THEN "v1" ELSE IF db.version < 2 THEN "v2" ELSE "up")
  /\ next' = [next EXCEPT ![d] = 1]
  /\ UNCHANGED <<db, holder, work, faults>>

\* Each statement commits by itself.
V1Statement(d) ==
  /\ pc[d] = "v1" /\ next[d] <= Len(V1) /\ holder = None
  /\ db' = RunV1(V1[next[d]], db)
  /\ next' = [next EXCEPT ![d] = @ + 1]
  /\ UNCHANGED <<holder, work, pc, faults>>

V1Done(d) ==
  /\ pc[d] = "v1" /\ next[d] > Len(V1)
  /\ Go(d, "v2")
  /\ UNCHANGED <<db, holder, work, next, faults>>

\* The transaction gets the write lock with its first statement.
Begin(d) ==
  /\ pc[d] = "v2" /\ holder = None
  /\ holder' = d /\ work' = db
  /\ next' = [next EXCEPT ![d] = 1]
  /\ Go(d, "v2tx")
  /\ UNCHANGED <<db, faults>>

\* Mutant: without a transaction a statement commits at once.
CommittedAtOnce(t) == t

\* What others see of a transaction's statement.
Committed(t) == db

V2Statement(d) ==
  /\ pc[d] = "v2tx" /\ next[d] <= Len(V2)
  /\ ~ Fails(V2[next[d]], work)
  /\ work' = RunV2(V2[next[d]], work)
  /\ db' = Committed(RunV2(V2[next[d]], work))
  /\ next' = [next EXCEPT ![d] = @ + 1]
  /\ UNCHANGED <<holder, pc, faults>>

\* An error drops the transaction, and main exits.
V2Fails(d) ==
  /\ pc[d] = "v2tx" /\ next[d] <= Len(V2)
  /\ Fails(V2[next[d]], work)
  /\ holder' = None
  /\ Go(d, "down")
  /\ UNCHANGED <<db, work, next, faults>>

Commit(d) ==
  /\ pc[d] = "v2tx" /\ next[d] > Len(V2)
  /\ db' = work /\ holder' = None
  /\ Go(d, "up")
  /\ UNCHANGED <<work, next, faults>>

\* A pass over the log reads from the cursor on: without one, everything.
Collect(d) ==
  /\ pc[d] = "up" /\ holder = None /\ db.cursor = "none"
  /\ \E line \in Lines :
       /\ InsertIgnore(db.usage, line) # db.usage
       /\ db' = [db EXCEPT !.usage = InsertIgnore(@, line)]
  /\ UNCHANGED <<holder, work, pc, next, faults>>

SetCursor(d) ==
  /\ pc[d] = "up" /\ holder = None /\ db.cursor = "none"
  /\ \A line \in Lines : InsertIgnore(db.usage, line) = db.usage
  /\ db' = [db EXCEPT !.cursor = "end"]
  /\ UNCHANGED <<holder, work, pc, next, faults>>

-----------------------------------------------------------------------------
(* Faults *)

Fault == faults < MaxFaults /\ faults' = faults + 1

\* The process dies; SQLite rolls its transaction back.
Crash(d) ==
  /\ Fault
  /\ pc[d] # "down"
  /\ Go(d, "down")
  /\ holder' = IF holder = d THEN None ELSE holder
  /\ UNCHANGED <<db, work, next>>

\* A daemon that waits for the lock of another gives up, and main exits.
Busy(d) ==
  /\ Fault
  /\ holder \notin {None, d} /\ pc[d] \in {"v1", "v2"}
  /\ Go(d, "down")
  /\ UNCHANGED <<db, holder, work, next>>

Step(d) ==
  \/ Open(d) \/ ReadVersion(d) \/ V1Statement(d) \/ V1Done(d)
  \/ Begin(d) \/ V2Statement(d) \/ V2Fails(d) \/ Commit(d)
  \/ Collect(d) \/ SetCursor(d)

Next == \E d \in Daemons : Step(d) \/ Crash(d) \/ Busy(d)

Spec == Init /\ [][Next]_vars

\* launchd keeps the daemon running, and a process that runs gets on.
FairSpec == Spec /\ \A d \in Daemons : WF_vars(Step(d))

-----------------------------------------------------------------------------
(* Properties *)

CountedLines == {r.line : r \in db.usage}

\* The version says what is there, at every point where a daemon may find it: version 1
\* its tables, version 2 the new ones and a key on every row (migrate_v1, migrate_v2).
VersionMatchesTables ==
  /\ db.version >= 1 => V1Tables \subseteq db.tables
  /\ db.version = 2 => V2Tables \subseteq db.tables
  /\ db.version # 2 => V2Tables \intersect db.tables = {}
  /\ "usage_records_v2" \notin db.tables
  /\ \A r \in db.usage : (db.version = 2) = (r.key # None)

\* No line that was counted is ever lost, by a migration, a crash in one, or two daemons
\* that migrate at the same time.
NothingLost == [][CountedLines \subseteq CountedLines']_vars

\* Once migrated, a row keeps its key: a second migration would give all rows their uuid.
KeysKept == [][db.version = 2 => db.usage \subseteq db'.usage]_vars

\* Every daemon gets to work on a migrated database that has the whole log.
EventuallyMigrated ==
  <>[](db.version = 2 /\ CountedLines = Lines /\ \A d \in Daemons : pc[d] = "up")

\* A line is counted once (docs/specs/2026-10-20-multi-provider-usage.md, AC-17).
CountedOnce == \A r, q \in db.usage : r.line = q.line => r = q
=============================================================================
