-------------------------- MODULE MigrationProofs --------------------------
(***************************************************************************)
(* However many daemons start on one database, with whatever log, and      *)
(* wherever they die: the version matches the tables, no counted line is   *)
(* lost, and a migrated row keeps its key.  The inductive invariant says,  *)
(* beside the first of these, what the transaction of the one daemon that  *)
(* holds the write lock has made of the committed database so far.         *)
(***************************************************************************)
EXTENDS Migration, TLAPS

Row == [uuid : {Hash(l) : l \in Lines} \union {V2Row(l).uuid : l \in Lines},
        key : {None} \union {Hash(l) : l \in Lines} \union {DedupKey(l) : l \in Lines}
                \union {V2Row(l).uuid : l \in Lines},
        line : Lines]

Table == V1Tables \union V2Tables \union {"usage_records_v2"}

Database == [version : 0..2, tables : SUBSET Table, usage : SUBSET Row, copy : SUBSET Row,
             cursor : {"none", "end"}]

Place == {"down", "version", "v1", "v2", "v2tx", "up"}

TypeInv ==
  /\ db \in Database /\ work \in Database
  /\ holder \in Daemons \union {None}
  /\ pc \in [Daemons -> Place]
  /\ next \in [Daemons -> 1..7]

Committable ==
  /\ VersionMatchesTables
  /\ db.copy = {}
  /\ db.version = 0 => db.usage = {}

\* What each place a daemon may be at tells of the database.
At(d) ==
  /\ pc[d] = "version" => "schema_version" \in db.tables
  /\ pc[d] = "v1" => /\ next[d] \in 1..4
                     /\ "schema_version" \in db.tables
                     /\ next[d] > 1 => "usage_records" \in db.tables
                     /\ next[d] > 2 => "budget_config" \in db.tables
                     /\ next[d] > 3 => db.version >= 1
  /\ pc[d] \in {"v2", "v2tx"} => db.version >= 1
  /\ pc[d] = "up" => db.version = 2

Keyed == {WithKey(r) : r \in db.usage}

\* What a transaction has made of the database before its statement n.
Worked(n) ==
  /\ work.version = IF n = 7 THEN 2 ELSE db.version
  /\ n = 1 => work.tables = db.tables
  /\ n \in {2, 3} => work.tables = db.tables \union {"usage_records_v2"}
  /\ n = 4 => work.tables = (db.tables \union {"usage_records_v2"}) \ {"usage_records"}
  /\ n = 5 => work.tables = db.tables
  /\ n \in {6, 7} => work.tables = db.tables \union V2Tables
  /\ n \in 1..3 => work.usage = db.usage
  /\ n \in 5..7 => work.usage = Keyed
  /\ n \in {3, 4} => work.copy = Keyed
  /\ n \in 5..7 => work.copy = {}

Transaction ==
  \A d \in Daemons :
    /\ holder = d <=> pc[d] = "v2tx"
    /\ pc[d] = "v2tx" => Worked(next[d]) /\ (db.version = 2 => next[d] <= 5)

IInv == TypeInv /\ Committable /\ (\A d \in Daemons : At(d)) /\ Transaction

-----------------------------------------------------------------------------
LEMMA Statements ==
  /\ Len(V1) = 3 /\ V1[1] = "usage_records" /\ V1[2] = "budget_config" /\ V1[3] = "stamp"
  /\ Len(V2) = 6 /\ V2[1] = "create copy" /\ V2[2] = "fill copy" /\ V2[3] = "drop"
  /\ V2[4] = "rename" /\ V2[5] = "create tables" /\ V2[6] = "stamp"
BY DEF V1, V2

\* Rows keep their line when they get a key, and the key is one.
LEMMA KeyedRows ==
  ASSUME db \in Database
  PROVE  /\ Keyed \subseteq Row
         /\ {r.line : r \in Keyed} = {r.line : r \in db.usage}
         /\ \A r \in Keyed : r.key # None
<1>1. ASSUME NEW r \in db.usage
      PROVE  /\ WithKey(r) \in Row
             /\ WithKey(r).line = r.line
             /\ WithKey(r).key # None
  <2>1. r \in Row
    BY <1>1 DEF Database
  <2>2. r.uuid # None
    BY <2>1, MigrationAssumption DEF Row, V2Row
  <2> QED
    BY <2>1, <2>2 DEF Row, WithKey
<1> QED
  BY <1>1 DEF Keyed

LEMMA InitIInv == Init => IInv
<1> SUFFICES ASSUME Init
             PROVE  IInv
  OBVIOUS
<1>1. CASE db = Fresh
  BY <1>1, MigrationAssumption
  DEF Init, IInv, TypeInv, Committable, At, Transaction, Database, Fresh, Place, VersionMatchesTables,
      V1Tables, V2Tables, Table
<1>2. CASE \E lines \in SUBSET Lines : db = Older(lines)
  <2>1. PICK lines \in SUBSET Lines : db = Older(lines)
    BY <1>2
  <2>2. /\ db.version = 1 /\ db.tables = V1Tables /\ db.copy = {} /\ db.cursor = "none"
        /\ db.usage = {V1Row(l) : l \in lines}
    BY <2>1 DEF Older
  <2>3. \A r \in db.usage : r \in Row /\ r.key = None
    BY <2>2 DEF V1Row, Row
  <2>4. db \in Database
    BY <2>1, <2>2, <2>3 DEF Database, Table, Older
  <2>5. VersionMatchesTables
    BY <2>2, <2>3 DEF VersionMatchesTables, V1Tables, V2Tables
  <2> QED
    BY <2>2, <2>4, <2>5, MigrationAssumption DEF Init, IInv, TypeInv, Committable, At, Transaction, Place
<1> QED
  BY <1>1, <1>2 DEF Init

-----------------------------------------------------------------------------
\* A statement takes the transaction from one stage to the next; with the tables of
\* version 2 there already, the fifth fails.
LEMMA StageStep ==
  ASSUME TypeInv, Committable, db.version >= 1, UNCHANGED db,
         NEW n \in 1..6, db.version = 2 => n <= 5, Worked(n),
         ~ Fails(V2[n], work), work' = RunV2(V2[n], work)
  PROVE  /\ work' \in Database /\ Worked(n + 1)'
         /\ db.version = 2 => n + 1 <= 5
<1>1. /\ db \in Database /\ work \in Database /\ V1Tables \subseteq db.tables
      /\ "usage_records_v2" \notin db.tables
      /\ db.version # 2 => V2Tables \intersect db.tables = {}
      /\ db.version = 2 => V2Tables \subseteq db.tables
  BY DEF TypeInv, Committable, VersionMatchesTables
<1>2. Keyed' = Keyed /\ Keyed \subseteq Row
  BY <1>1, KeyedRows DEF Keyed
<1>3. CASE n = 1
  <2>1. work' = [work EXCEPT !.tables = @ \union {"usage_records_v2"}]
    BY <1>3, Statements DEF RunV2
  <2> QED
    BY <1>1, <1>2, <1>3, <2>1 DEF Worked, Database, Table
<1>4. CASE n = 2
  <2>1. work' = [work EXCEPT !.copy = {WithKey(r) : r \in work.usage}]
    BY <1>4, Statements DEF RunV2
  <2>2. work' = [work EXCEPT !.copy = Keyed]
    BY <1>4, <2>1 DEF Worked, Keyed
  <2> QED
    BY <1>1, <1>2, <1>4, <2>2 DEF Worked, Database
<1>5. CASE n = 3
  <2>1. work' = [work EXCEPT !.tables = @ \ {"usage_records"}, !.usage = {}]
    BY <1>5, Statements DEF RunV2
  <2>2. /\ work'.version = work.version /\ work'.copy = work.copy /\ work'.usage = {}
        /\ work'.tables = work.tables \ {"usage_records"} /\ work' \in Database
    BY <1>1, <2>1 DEF Database
  <2> QED
    BY <1>1, <1>2, <1>5, <2>2 DEF Worked
<1>6. CASE n = 4
  <2>1. work' = [work EXCEPT !.tables = (@ \ {"usage_records_v2"}) \union {"usage_records"},
                             !.usage = work.copy, !.copy = {}]
    BY <1>6, Statements DEF RunV2
  <2>2. (work.tables \ {"usage_records_v2"}) \union {"usage_records"} = db.tables
    BY <1>1, <1>6 DEF Worked, V1Tables
  <2>3. /\ work'.version = work.version /\ work'.copy = {} /\ work'.usage = work.copy
        /\ work'.tables = db.tables /\ work' \in Database
    BY <1>1, <2>1, <2>2 DEF Database
  <2> QED
    BY <1>1, <1>2, <1>6, <2>3 DEF Worked
<1>7. CASE n = 5
  <2>1. work' = [work EXCEPT !.tables = @ \union V2Tables]
    BY <1>7, Statements DEF RunV2
  <2>2. V2Tables \intersect db.tables = {}
    BY <1>7, Statements DEF Fails, Worked
  <2>3. db.version # 2
    BY <2>2, <1>1 DEF V2Tables
  <2> QED
    BY <1>1, <1>2, <1>7, <2>1, <2>3 DEF Worked, Database, Table
<1>8. CASE n = 6
  <2>1. work' = [work EXCEPT !.version = 2]
    BY <1>8, Statements DEF RunV2
  <2> QED
    BY <1>1, <1>2, <1>8, <2>1 DEF Worked, Database
<1> QED
  BY <1>3, <1>4, <1>5, <1>6, <1>7, <1>8

\* What a step may do to the counted rows.
Kept ==
  /\ CountedLines \subseteq CountedLines'
  /\ db.version = 2 => db.usage \subseteq db'.usage

\* A step of d outside a transaction, which holds the lock for none.
LEMMA OpenStep ==
  ASSUME IInv, NEW d \in Daemons, Open(d)
  PROVE  IInv' /\ Kept
<1> USE DEF IInv
<1>1. /\ db' = [db EXCEPT !.tables = @ \union {"schema_version"}]
      /\ holder = None /\ UNCHANGED <<holder, work, next>>
      /\ pc' = [pc EXCEPT ![d] = "version"]
  BY DEF Open, Go
<1>2. TypeInv'
  BY <1>1 DEF TypeInv, Database, Table, V1Tables, Place
<1>3. Committable'
  BY <1>1 DEF TypeInv, Database, Committable, VersionMatchesTables, V1Tables, V2Tables
<1>4. \A e \in Daemons : At(e)'
  BY <1>1 DEF TypeInv, Database, At
<1>5. Transaction'
  BY <1>1, MigrationAssumption DEF TypeInv, Transaction
<1>6. Kept
  BY <1>1 DEF TypeInv, Database, Kept, CountedLines
<1> QED
  BY <1>2, <1>3, <1>4, <1>5, <1>6

LEMMA ReadVersionStep ==
  ASSUME IInv, NEW d \in Daemons, ReadVersion(d)
  PROVE  IInv' /\ Kept
<1> USE DEF IInv
<1>1. /\ UNCHANGED <<db, holder, work>> /\ pc[d] = "version"
      /\ next' = [next EXCEPT ![d] = 1]
      /\ pc' = [pc EXCEPT ![d] = IF db.version < 1 THEN "v1" ELSE IF db.version < 2 THEN "v2" ELSE "up"]
  BY DEF ReadVersion, Go
<1>2. TypeInv'
  BY <1>1 DEF TypeInv, Place
<1>3. Committable'
  BY <1>1 DEF Committable, VersionMatchesTables
<1>4. \A e \in Daemons : At(e)'
  BY <1>1 DEF TypeInv, Database, At
<1>5. Transaction'
  BY <1>1 DEF TypeInv, Database, Transaction, Worked, Keyed
<1>6. Kept
  BY <1>1 DEF Kept, CountedLines
<1> QED
  BY <1>2, <1>3, <1>4, <1>5, <1>6

LEMMA V1StatementStep ==
  ASSUME IInv, NEW d \in Daemons, V1Statement(d)
  PROVE  IInv' /\ Kept
<1> USE DEF IInv
<1>1. /\ pc[d] = "v1" /\ next[d] \in 1..3 /\ holder = None
      /\ db' = RunV1(V1[next[d]], db)
      /\ next' = [next EXCEPT ![d] = @ + 1]
      /\ UNCHANGED <<holder, work, pc>>
  <2>1. next[d] \in 1..7
    BY DEF TypeInv
  <2>2. next[d] <= 3
    BY Statements DEF V1Statement
  <2> QED
    BY <2>1, <2>2 DEF V1Statement
<1>2. db \in Database
  BY DEF TypeInv
<1>3. /\ db' \in Database /\ db'.usage = db.usage /\ db'.copy = db.copy
      /\ db.tables \subseteq db'.tables /\ db'.tables \subseteq db.tables \union V1Tables
      /\ db'.version = IF next[d] = 3 /\ db.version = 0 THEN 1 ELSE db.version
      /\ next[d] = 1 => "usage_records" \in db'.tables
      /\ next[d] = 2 => "budget_config" \in db'.tables
  <2>1. CASE next[d] \in {1, 2}
    <3>1. V1[next[d]] \in {"usage_records", "budget_config"}
      BY <2>1, Statements
    <3>2. db' = [db EXCEPT !.tables = @ \union {V1[next[d]]}]
      BY <1>1, <3>1 DEF RunV1
    <3> QED
      BY <1>2, <2>1, <3>1, <3>2, Statements DEF Database, Table, V1Tables
  <2>2. CASE next[d] = 3
    <3>1. db' = [db EXCEPT !.version = IF @ = 0 THEN 1 ELSE @]
      BY <1>1, <2>2, Statements DEF RunV1
    <3> QED
      BY <1>2, <2>2, <3>1 DEF Database
  <2> QED
    BY <1>1, <2>1, <2>2
<1>4. TypeInv'
  BY <1>1, <1>3 DEF TypeInv
<1>5. Committable'
  <2>1. next[d] = 3 => V1Tables \subseteq db.tables
    BY <1>1 DEF At, V1Tables
  <2>2. V2Tables \intersect V1Tables = {} /\ "usage_records_v2" \notin V1Tables
    BY DEF V1Tables, V2Tables
  <2>3. VersionMatchesTables /\ db.copy = {} /\ (db.version = 0 => db.usage = {})
    BY DEF Committable
  <2>4. (db'.version = 2) = (db.version = 2) /\ (db'.version >= 1 => V1Tables \subseteq db'.tables)
    BY <1>2, <1>3, <2>1, <2>3 DEF Database, VersionMatchesTables
  <2>5. VersionMatchesTables'
    BY <1>3, <2>2, <2>3, <2>4 DEF VersionMatchesTables
  <2> QED
    BY <1>2, <1>3, <2>3, <2>5 DEF Committable, Database
<1>6. \A e \in Daemons : At(e)'
  <2> TAKE e \in Daemons
  <2>1. At(e) /\ db'.version >= db.version /\ db.tables \subseteq db'.tables /\ db.version \in 0..2
    BY <1>2, <1>3 DEF Database
  <2>2. CASE e = d
    BY <1>1, <1>3, <2>1, <2>2 DEF At, TypeInv
  <2>3. CASE e # d
    BY <1>1, <1>3, <2>1, <2>3 DEF At, TypeInv, Database
  <2> QED
    BY <2>2, <2>3
<1>7. Transaction'
  BY <1>1, MigrationAssumption DEF TypeInv, Transaction
<1>8. Kept
  BY <1>3 DEF Kept, CountedLines
<1> QED
  BY <1>4, <1>5, <1>6, <1>7, <1>8

LEMMA V1DoneStep ==
  ASSUME IInv, NEW d \in Daemons, V1Done(d)
  PROVE  IInv' /\ Kept
<1> USE DEF IInv
<1>1. /\ pc[d] = "v1" /\ next[d] > 3 /\ UNCHANGED <<db, holder, work, next>>
      /\ pc' = [pc EXCEPT ![d] = "v2"]
  BY Statements DEF V1Done, Go
<1>2. TypeInv'
  BY <1>1 DEF TypeInv, Place
<1>3. Committable'
  BY <1>1 DEF Committable, VersionMatchesTables
<1>4. \A e \in Daemons : At(e)'
  BY <1>1 DEF TypeInv, At
<1>5. Transaction'
  BY <1>1 DEF TypeInv, Transaction, Worked, Keyed
<1>6. Kept
  BY <1>1 DEF Kept, CountedLines
<1> QED
  BY <1>2, <1>3, <1>4, <1>5, <1>6

LEMMA BeginStep ==
  ASSUME IInv, NEW d \in Daemons, Begin(d)
  PROVE  IInv' /\ Kept
<1> USE DEF IInv
<1>1. /\ pc[d] = "v2" /\ holder = None /\ holder' = d /\ work' = db /\ db' = db
      /\ next' = [next EXCEPT ![d] = 1] /\ pc' = [pc EXCEPT ![d] = "v2tx"]
  BY DEF Begin, Go
<1>2. TypeInv'
  BY <1>1 DEF TypeInv, Place
<1>3. Committable'
  BY <1>1 DEF Committable, VersionMatchesTables
<1>4. \A e \in Daemons : At(e)'
  BY <1>1 DEF TypeInv, At
<1>5. Transaction'
  <2>1. Worked(1)'
    BY <1>1 DEF Worked
  <2> QED
    BY <1>1, <2>1, MigrationAssumption DEF TypeInv, Transaction
<1>6. Kept
  BY <1>1 DEF Kept, CountedLines
<1> QED
  BY <1>2, <1>3, <1>4, <1>5, <1>6

LEMMA V2StatementStep ==
  ASSUME IInv, NEW d \in Daemons, V2Statement(d)
  PROVE  IInv' /\ Kept
<1> USE DEF IInv
<1>1. /\ pc[d] = "v2tx" /\ next[d] <= 6 /\ ~ Fails(V2[next[d]], work)
      /\ work' = RunV2(V2[next[d]], work) /\ db' = db
      /\ next' = [next EXCEPT ![d] = @ + 1] /\ UNCHANGED <<holder, pc>>
  BY Statements DEF V2Statement, Committed
<1>2. next[d] \in 1..6
  BY <1>1 DEF TypeInv
<1>3. holder = d /\ Worked(next[d]) /\ (db.version = 2 => next[d] <= 5) /\ db.version >= 1
  BY <1>1 DEF Transaction, At
<1>2a. PICK n \in 1..6 : n = next[d]
  BY <1>2
<1>4. work' \in Database /\ Worked(n + 1)' /\ (db.version = 2 => n + 1 <= 5)
  <2>1. /\ db.version = 2 => n <= 5
        /\ Worked(n) /\ ~ Fails(V2[n], work)
        /\ db' = db /\ work' = RunV2(V2[n], work)
    BY <1>1, <1>3, <1>2a
  <2> QED
    BY <2>1, <1>3, StageStep
<1>5. TypeInv'
  BY <1>1, <1>2, <1>4 DEF TypeInv
<1>6. Committable'
  BY <1>1 DEF Committable, VersionMatchesTables
<1>7. \A e \in Daemons : At(e)'
  BY <1>1 DEF TypeInv, At
<1>8. Transaction'
  <2> SUFFICES ASSUME NEW e \in Daemons
               PROVE  /\ holder' = e <=> pc'[e] = "v2tx"
                      /\ pc'[e] = "v2tx" => Worked(next[e])' /\ (db'.version = 2 => next'[e] <= 5)
    BY DEF Transaction
  <2>1. holder' = e <=> pc'[e] = "v2tx"
    BY <1>1 DEF Transaction
  <2>2. CASE e = d
    <3>1. next'[e] = n + 1
      BY <1>1, <1>2a, <2>2 DEF TypeInv
    <3>2. Worked(next[e])'
      BY <1>4, <3>1 DEF Worked
    <3> QED
      BY <1>1, <1>4, <2>1, <3>1, <3>2
  <2>3. CASE e # d
    BY <1>1, <1>3, <2>1, <2>3 DEF Transaction
  <2> QED
    BY <2>2, <2>3
<1>9. Kept
  BY <1>1 DEF Kept, CountedLines
<1> QED
  BY <1>5, <1>6, <1>7, <1>8, <1>9

\* An error, a crash or a wait given up leaves the committed database as it is.
LEMMA ExitStep ==
  ASSUME IInv, NEW d \in Daemons, UNCHANGED <<db, work, next>>,
         pc' = [pc EXCEPT ![d] = "down"],
         holder' = IF holder = d THEN None ELSE holder
  PROVE  IInv' /\ Kept
<1> USE DEF IInv
<1>1. TypeInv'
  BY DEF TypeInv, Place
<1>2. Committable'
  BY DEF Committable, VersionMatchesTables
<1>3. \A e \in Daemons : At(e)'
  BY DEF TypeInv, At
<1>4. Transaction'
  BY MigrationAssumption DEF TypeInv, Transaction, Worked, Keyed
<1>5. Kept
  BY DEF Kept, CountedLines
<1> QED
  BY <1>1, <1>2, <1>3, <1>4, <1>5

LEMMA CommitStep ==
  ASSUME IInv, NEW d \in Daemons, Commit(d)
  PROVE  IInv' /\ Kept
<1> USE DEF IInv
<1>1. /\ pc[d] = "v2tx" /\ next[d] > 6 /\ db' = work /\ holder' = None
      /\ pc' = [pc EXCEPT ![d] = "up"] /\ UNCHANGED <<work, next>>
  BY Statements DEF Commit, Go
<1>2. next[d] = 7 /\ db \in Database /\ work \in Database
  BY <1>1 DEF TypeInv
<1>3. holder = d /\ Worked(7) /\ db.version # 2 /\ db.version >= 1
  BY <1>1, <1>2 DEF Transaction, At
<1>4. /\ db'.version = 2 /\ db'.tables = db.tables \union V2Tables
      /\ db'.usage = Keyed /\ db'.copy = {}
  BY <1>1, <1>3 DEF Worked
<1>5. TypeInv'
  BY <1>1, <1>2 DEF TypeInv, Place
<1>6. Committable'
  <2>1. V1Tables \subseteq db.tables /\ "usage_records_v2" \notin db.tables
    BY <1>2, <1>3 DEF Committable, VersionMatchesTables, Database
  <2>2. "usage_records_v2" \notin V2Tables
    BY DEF V2Tables
  <2>3. \A r \in db'.usage : r.key # None
    BY <1>2, <1>4, KeyedRows
  <2>4. VersionMatchesTables'
    BY <1>4, <2>1, <2>2, <2>3 DEF VersionMatchesTables
  <2> QED
    BY <1>4, <2>4 DEF Committable
<1>7. \A e \in Daemons : At(e)'
  BY <1>1, <1>2, <1>3, <1>4 DEF TypeInv, At
<1>8. Transaction'
  BY <1>1, <1>3, MigrationAssumption DEF TypeInv, Transaction
<1>9. Kept
  BY <1>2, <1>3, <1>4, KeyedRows DEF Kept, CountedLines
<1> QED
  BY <1>5, <1>6, <1>7, <1>8, <1>9

LEMMA CollectStep ==
  ASSUME IInv, NEW d \in Daemons, Collect(d)
  PROVE  IInv' /\ Kept
<1> USE DEF IInv
<1>1. PICK line \in Lines : db' = [db EXCEPT !.usage = InsertIgnore(@, line)]
  BY DEF Collect
<1>2. /\ pc[d] = "up" /\ holder = None /\ UNCHANGED <<holder, work, pc, next>>
  BY DEF Collect
<1>3. db \in Database /\ db.version = 2
  BY <1>2 DEF TypeInv, At
<1>4. V2Row(line) \in Row /\ V2Row(line).key # None
  BY MigrationAssumption DEF V2Row, Row
<1>5. /\ db.usage \subseteq InsertIgnore(db.usage, line)
      /\ InsertIgnore(db.usage, line) \subseteq db.usage \union {V2Row(line)}
  BY DEF InsertIgnore
<1>6. /\ db' \in Database /\ db'.version = db.version /\ db'.tables = db.tables /\ db'.copy = db.copy
      /\ db.usage \subseteq db'.usage /\ db'.usage \subseteq db.usage \union {V2Row(line)}
  BY <1>1, <1>3, <1>4, <1>5 DEF Database
<1>7. TypeInv'
  BY <1>2, <1>6 DEF TypeInv
<1>8. Committable'
  BY <1>3, <1>4, <1>6 DEF Committable, VersionMatchesTables
<1>9. \A e \in Daemons : At(e)'
  BY <1>2, <1>6 DEF At
<1>10. Transaction'
  BY <1>2, MigrationAssumption DEF Transaction
<1>11. Kept
  BY <1>6 DEF Kept, CountedLines
<1> QED
  BY <1>7, <1>8, <1>9, <1>10, <1>11

LEMMA SetCursorStep ==
  ASSUME IInv, NEW d \in Daemons, SetCursor(d)
  PROVE  IInv' /\ Kept
<1> USE DEF IInv
<1>1. /\ db' = [db EXCEPT !.cursor = "end"] /\ holder = None
      /\ UNCHANGED <<holder, work, pc, next>>
  BY DEF SetCursor
<1>2. /\ db' \in Database /\ db'.version = db.version /\ db'.tables = db.tables
      /\ db'.copy = db.copy /\ db'.usage = db.usage
  BY <1>1 DEF TypeInv, Database
<1>3. TypeInv'
  BY <1>1, <1>2 DEF TypeInv
<1>4. Committable'
  BY <1>2 DEF Committable, VersionMatchesTables
<1>5. \A e \in Daemons : At(e)'
  BY <1>1, <1>2 DEF At
<1>6. Transaction'
  BY <1>1, MigrationAssumption DEF Transaction
<1>7. Kept
  BY <1>2 DEF Kept, CountedLines
<1> QED
  BY <1>3, <1>4, <1>5, <1>6, <1>7

-----------------------------------------------------------------------------
LEMMA StepKeeps == IInv /\ [Next]_vars => IInv' /\ Kept
<1> SUFFICES ASSUME IInv, [Next]_vars
             PROVE  IInv' /\ Kept
  OBVIOUS
<1>1. CASE UNCHANGED vars
  BY <1>1 DEF vars, IInv, TypeInv, Committable, VersionMatchesTables, At, Transaction, Worked, Keyed,
      Kept, CountedLines
<1>2. ASSUME NEW d \in Daemons, Step(d)
      PROVE  IInv' /\ Kept
  <2>1. CASE V2Fails(d)
    <3>1. holder = d
      BY <2>1 DEF V2Fails, IInv, Transaction
    <3> QED
      BY <2>1, <3>1, ExitStep DEF V2Fails, Go
  <2> QED
    BY <1>2, <2>1, OpenStep, ReadVersionStep, V1StatementStep, V1DoneStep, BeginStep, V2StatementStep,
       CommitStep, CollectStep, SetCursorStep DEF Step
<1>3. ASSUME NEW d \in Daemons, Crash(d)
      PROVE  IInv' /\ Kept
  BY <1>3, ExitStep DEF Crash, Go
<1>4. ASSUME NEW d \in Daemons, Busy(d)
      PROVE  IInv' /\ Kept
  <2>1. holder # d
    BY <1>4 DEF Busy
  <2> QED
    BY <1>4, <2>1, ExitStep DEF Busy, Go
<1> QED
  BY <1>1, <1>2, <1>3, <1>4 DEF Next

\* In every state a daemon may find, the version matches the tables (Storage::migrate).
THEOREM Matches == Spec => []VersionMatchesTables
<1>1. IInv => VersionMatchesTables
  BY DEF IInv, Committable
<1> QED
  BY <1>1, InitIInv, StepKeeps, PTL DEF Spec

\* No start of any number of daemons loses a counted line.
THEOREM Lossless == Spec => NothingLost
<1>1. IInv /\ [Next]_vars => [CountedLines \subseteq CountedLines']_vars
  BY StepKeeps DEF Kept
<1> QED
  BY <1>1, InitIInv, StepKeeps, PTL DEF Spec, NothingLost

\* No later start gives a migrated row another key.
THEOREM KeysAreKept == Spec => KeysKept
<1>1. IInv /\ [Next]_vars => [db.version = 2 => db.usage \subseteq db'.usage]_vars
  BY StepKeeps DEF Kept
<1> QED
  BY <1>1, InitIInv, StepKeeps, PTL DEF Spec, KeysKept
=============================================================================
