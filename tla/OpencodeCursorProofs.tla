------------------------- MODULE OpencodeCursorProofs -------------------------
(***************************************************************************)
(* What the OpenCode collector takes, for every set of messages, created   *)
(* in any order: one copy of each, and all but those that get their tokens *)
(* when a cursor has passed them.                                          *)
(***************************************************************************)
EXTENDS OpencodeCursor, WellFoundedInduction, TLAPS

-----------------------------------------------------------------------------
(* Every set of numbers has a least one, a bounded one a largest *)

LEMMA LeastExists ==
  ASSUME NEW S, S \subseteq Nat, S # {}
  PROVE  \E x \in S : \A y \in S : x <= y
<1> DEFINE R == {p \in Nat \X Nat : p[1] < p[2]}
<1>1. IsWellFoundedOn(R, Nat)
  BY NatLessThanWellFounded DEF OpToRel
<1>2. PICK x \in S : \A y \in S : ~ (<<y, x>> \in R)
  <2> HIDE DEF R
  <2> QED BY <1>1, WFMin
<1>3. ASSUME NEW y \in S PROVE x <= y
  <2>1. x \in Nat /\ y \in Nat
    OBVIOUS
  <2>2. ~ (y < x)
    BY <1>2, <2>1
  <2> QED BY <2>1, <2>2
<1> QED BY <1>3

LEMMA LargestExists ==
  ASSUME NEW B \in Nat, NEW S, S \subseteq 0..B, S # {}
  PROVE  \E x \in S : \A y \in S : y <= x
<1> DEFINE T == {B - x : x \in S}
<1>1. T \subseteq Nat /\ T # {}
  <2>1. \A x \in S : B - x \in Nat
    OBVIOUS
  <2>2. PICK x \in S : TRUE
    OBVIOUS
  <2>3. B - x \in T
    OBVIOUS
  <2>4. T \subseteq Nat
    BY <2>1
  <2> QED BY <2>3, <2>4
<1>2. PICK d \in T : \A e \in T : d <= e
  <2> HIDE DEF T
  <2> QED BY <1>1, LeastExists
<1>3. PICK x \in S : d = B - x
  OBVIOUS
<1>4. ASSUME NEW y \in S PROVE y <= x
  <2>1. B - y \in T
    OBVIOUS
  <2> HIDE DEF T
  <2>2. d <= B - y
    BY <1>2, <2>1
  <2> QED BY <1>3, <2>2
<1> QED BY <1>4

-----------------------------------------------------------------------------
TypeInv ==
  /\ state \in [Tables -> [Messages -> RowState]]
  /\ created \in [Messages -> 0..MaxTime]
  /\ usage \in [Messages -> 0..1]
  /\ cursor \in [Tables -> Nat] /\ next \in [Tables -> Nat]
  /\ pc \in {"idle", "new", "legacy", "store", "cursors"}
  /\ batch \subseteq Messages

-----------------------------------------------------------------------------
(* The largest creation time seen *)

\* Where a read leaves a cursor: where it was, or at the time of a row that was read.
LEMMA SeenIsATime ==
  ASSUME TypeInv, BoundAssumption, NEW t \in Tables, NEW ms \in SUBSET Messages
  PROVE  \/ MaxSeen(t, ms) = cursor[t]
         \/ \E m \in ms : MaxSeen(t, ms) = created[m]
<1>1. CASE ms = {}
  BY <1>1 DEF MaxSeen
<1>2. CASE ms # {}
  <2> DEFINE S == {created[m] : m \in ms}
  <2>1. S \subseteq 0..MaxTime /\ S # {}
    BY <1>2 DEF TypeInv
  <2>2. MaxTime \in Nat
    BY DEF BoundAssumption
  <2>3. \E x \in S : \A y \in S : y <= x
    <3> HIDE DEF S
    <3> QED BY <2>1, <2>2, LargestExists
  <2>4. \E m \in ms : \A n \in ms : created[n] <= created[m]
    BY <2>3
  <2> DEFINE c == CHOOSE m \in ms : \A n \in ms : created[n] <= created[m]
  <2>5. c \in ms
    BY <2>4
  <2>6. MaxSeen(t, ms) = created[c]
    BY <1>2 DEF MaxSeen
  <2> QED BY <2>5, <2>6
<1> QED BY <1>1, <1>2

LEMMA SeenIsNat ==
  ASSUME TypeInv, BoundAssumption, NEW t \in Tables, NEW ms \in SUBSET Messages
  PROVE  MaxSeen(t, ms) \in Nat
<1>1. created \in [Messages -> Nat] /\ cursor[t] \in Nat
  BY DEF TypeInv, BoundAssumption
<1> QED BY <1>1, SeenIsATime

-----------------------------------------------------------------------------
(* One copy of a message *)

LEMMA TypeStep ==
  ASSUME TypeInv, BoundAssumption, [Next]_vars
  PROVE  TypeInv'
<1> USE DEF TypeInv
<1>1. ASSUME NEW t \in Tables, NEW m \in Messages, NEW time \in 1..MaxTime,
             NEW s \in RowState \ {"absent"}, Create(t, m, time, s)
      PROVE  TypeInv'
  BY <1>1 DEF Create, output, BoundAssumption, RowState
<1>2. ASSUME NEW t \in Tables, NEW m \in Messages, Finish(t, m)
      PROVE  TypeInv'
  BY <1>2 DEF Finish, output, RowState
<1>3. ASSUME NEW m \in Messages, Migrate(m)
      PROVE  TypeInv'
  BY <1>3 DEF Migrate, output, RowState
<1>4. CASE StartPass
  BY <1>4 DEF StartPass, db
<1>5. CASE ReadSessionMessages
  <2>1. Parsed("session_message") \in SUBSET Messages /\ "session_message" \in Tables
    BY DEF Parsed, Selected, Rows, Tables
  <2>2. MaxSeen("session_message", Parsed("session_message")) \in Nat
    BY <2>1, SeenIsNat
  <2> QED BY <1>5, <2>1, <2>2 DEF ReadSessionMessages, db
<1>6. CASE ReadLegacyMessages
  <2>1. Selected("message") \in SUBSET Messages /\ Parsed("message") \in SUBSET Messages
    BY DEF Parsed, Selected, Rows
  <2>2. MaxSeen("message", Selected("message")) \in Nat
    BY <2>1, SeenIsNat DEF Tables
  <2> QED BY <1>6, <2>1, <2>2 DEF ReadLegacyMessages, db
<1>7. CASE InsertUsageBatch
  BY <1>7 DEF InsertUsageBatch, db, output
<1>8. ASSUME NEW t \in Tables, SetCursor(t)
      PROVE  TypeInv'
  BY <1>8 DEF SetCursor, db
<1>9. CASE CutShort
  BY <1>9 DEF CutShort, db, output
<1>10. CASE UNCHANGED vars
  BY <1>10 DEF vars, db, output
<1> QED
  BY <1>1, <1>2, <1>3, <1>4, <1>5, <1>6, <1>7, <1>8, <1>9, <1>10
  DEF Next, OpenCode, Collector

LEMMA TypeInit ==
  ASSUME Init, BoundAssumption
  PROVE  TypeInv
BY DEF Init, TypeInv, RowState, BoundAssumption

LEMMA TypeCorrect == Spec => []TypeInv
<1>1. Init => TypeInv
  BY TypeInit, BoundAssumption
<1>2. TypeInv /\ [Next]_vars => TypeInv'
  BY TypeStep, BoundAssumption
<1> QED BY <1>1, <1>2, PTL DEF Spec

\* A message that is in both tables is counted once, whichever passes read its copies:
\* INSERT OR IGNORE on the message's id.
THEOREM CountedOnce == Spec => []OneCopyPerMessage
<1>1. TypeInv => OneCopyPerMessage
  BY DEF TypeInv, OneCopyPerMessage
<1> QED BY <1>1, TypeCorrect, PTL

-----------------------------------------------------------------------------
(* No message left behind *)

New    == "session_message"
Legacy == "message"

LEMMA TwoTables == Tables = {New, Legacy} /\ New # Legacy
BY DEF Tables, New, Legacy

\* A message has its tokens, in either table.
Done(m) == \E t \in Tables : state[t][m] = "done"

Counted(m) == usage[m] > 0 \/ m \in overtaken

\* A finished row of the message will be read by a pass that starts at this position.
Ahead(position, m) == \E t \in Tables : state[t][m] = "done" /\ position[t] < created[m]

RowsHaveTime == \A t \in Tables, m \in Messages : state[t][m] # "absent" => created[m] > 0

\* A cursor is where it began or at a row that moved it.
CursorsAtRows ==
  \A t \in Tables :
    /\ cursor[t] = 0 \/ \E m \in Messages : Moves(t, m) /\ created[m] = cursor[t]
    /\ next[t] = 0 \/ \E m \in Messages : Moves(t, m) /\ created[m] = next[t]

\* What the persisted cursors have passed is counted.
PassedIsCounted == \A m \in Messages : Done(m) => Counted(m) \/ Ahead(cursor, m)

\* What the cursors of the pass under way have passed is counted, or in its batch.
Taken(m) == Counted(m) \/ (pc \in {"legacy", "store"} /\ m \in batch)

PassedIsTaken ==
  /\ pc # "idle" => \A t \in Tables : cursor[t] <= next[t]
  /\ pc # "idle" => \A m \in Messages : Done(m) => Taken(m) \/ Ahead(next, m)
  /\ pc = "new" => \A t \in Tables : next[t] = cursor[t]
  /\ pc = "legacy" => next[Legacy] = cursor[Legacy]

IInv == TypeInv /\ RowsHaveTime /\ CursorsAtRows /\ PassedIsCounted /\ PassedIsTaken

LEMMA Numbers ==
  ASSUME TypeInv, BoundAssumption
  PROVE  /\ \A m \in Messages : created[m] \in Nat
         /\ \A t \in Tables : cursor[t] \in Nat /\ next[t] \in Nat
BY DEF TypeInv, BoundAssumption

\* Only a row that moves a cursor passes another one.
LEMMA NotPassed ==
  ASSUME IInv, BoundAssumption, NEW t \in Tables, NEW time \in Nat, time > 0, ~ Passed(t, time)
  PROVE  cursor[t] < time /\ (pc # "idle" => next[t] < time)
<1>1. (\A m \in Messages : created[m] \in Nat) /\ cursor[t] \in Nat /\ next[t] \in Nat
  BY Numbers DEF IInv
<1>2. cursor[t] = 0 \/ \E m \in Messages : Moves(t, m) /\ created[m] = cursor[t]
  BY DEF IInv, CursorsAtRows
<1>3. next[t] = 0 \/ \E m \in Messages : Moves(t, m) /\ created[m] = next[t]
  BY DEF IInv, CursorsAtRows
<1> HIDE DEF Moves
<1>4. cursor[t] < time
  BY <1>1, <1>2 DEF Passed
<1>5. pc # "idle" => next[t] < time
  BY <1>1, <1>3 DEF Passed
<1> QED BY <1>4, <1>5

\* A row appears, gets its tokens or is copied: the message is known to be overtaken, or
\* the row is ahead of the cursors.
LEMMA RowStep ==
  ASSUME IInv, BoundAssumption, TypeInv',
         NEW t \in Tables, NEW m \in Messages, NEW time \in Nat, time > 0,
         NEW s \in RowState \ {"absent"},
         state[t][m] # "done",
         \A u \in Tables : state[u][m] = "absent" \/ created[m] = time,
         \A u \in Tables, n \in Messages : state'[u][n] = IF u = t /\ n = m THEN s ELSE state[u][n],
         \A n \in Messages : created'[n] = IF n = m THEN time ELSE created[n],
         UNCHANGED <<usage, cursor, pc, batch, next>>,
         overtaken \subseteq overtaken',
         s = "done" /\ Passed(t, time) => m \in overtaken' \/ Done(m)
  PROVE  IInv'
<1>1. \A u \in Tables, n \in Messages :
        state[u][n] # "absent" => state'[u][n] # "absent" /\ created'[n] = created[n]
  BY DEF RowState
<1>2. \A u \in Tables, n \in Messages : state[u][n] = "done" => state'[u][n] = "done"
  OBVIOUS
<1>3. RowsHaveTime'
  BY <1>1 DEF IInv, RowsHaveTime
<1>4. CursorsAtRows'
  <2>1. \A u \in Tables, n \in Messages : Moves(u, n) => Moves(u, n)' /\ created'[n] = created[n]
    BY <1>1, <1>2 DEF Moves
  <2>2. UNCHANGED <<cursor, next>>
    OBVIOUS
  <2> QED BY <2>1, <2>2 DEF IInv, CursorsAtRows
<1>5. \A n \in Messages : (Counted(n) => Counted(n)') /\ (Taken(n) => Taken(n)')
  BY DEF Counted, Taken
<1>6. \A n \in Messages :
        (Ahead(cursor, n) => Ahead(cursor, n)') /\ (Ahead(next, n) => Ahead(next, n)')
  <2>1. UNCHANGED <<cursor, next>>
    OBVIOUS
  <2> QED BY <1>1, <1>2, <2>1 DEF Ahead
<1>7. ASSUME NEW n \in Messages, Done(n)', ~ Done(n)
      PROVE  /\ Counted(n)' \/ Ahead(cursor, n)'
             /\ pc # "idle" => Counted(n)' \/ Ahead(next, n)'
  <2>1. n = m /\ s = "done" /\ state'[t][n] = "done" /\ created'[n] = time
    BY <1>7 DEF Done
  <2>2. CASE Passed(t, time)
    BY <1>7, <2>1, <2>2 DEF Counted
  <2>3. CASE ~ Passed(t, time)
    <3>1. cursor[t] < time /\ (pc # "idle" => next[t] < time)
      BY <2>3, NotPassed
    <3>2. UNCHANGED <<cursor, next>>
      OBVIOUS
    <3> QED BY <2>1, <3>1, <3>2 DEF Ahead
  <2> QED BY <2>2, <2>3
<1>8. PassedIsCounted'
  BY <1>5, <1>6, <1>7 DEF IInv, PassedIsCounted
<1>9. PassedIsTaken'
  <2>1. \A n \in Messages : Counted(n)' => Taken(n)'
    BY DEF Taken
  <2>2. pc' # "idle" => \A n \in Messages : Done(n)' => Taken(n)' \/ Ahead(next, n)'
    BY <1>5, <1>6, <1>7, <2>1 DEF IInv, PassedIsTaken
  <2>3. UNCHANGED <<pc, cursor, next>>
    OBVIOUS
  <2> QED BY <2>2, <2>3 DEF IInv, PassedIsTaken
<1> QED BY <1>3, <1>4, <1>8, <1>9 DEF IInv

LEMMA CreateStep ==
  ASSUME IInv, BoundAssumption, TypeInv',
         NEW t \in Tables, NEW m \in Messages, NEW time \in 1..MaxTime,
         NEW s \in RowState \ {"absent"}, Create(t, m, time, s)
  PROVE  IInv'
<1>1. /\ \A u \in Tables, n \in Messages : state'[u][n] = IF u = t /\ n = m THEN s ELSE state[u][n]
      /\ \A n \in Messages : created'[n] = IF n = m THEN time ELSE created[n]
      /\ UNCHANGED <<usage, cursor, pc, batch, next>>
  BY DEF Create, output, IInv, TypeInv
<1>2. \A u \in Tables : state[u][m] = "absent"
  BY DEF Create
<1>3. overtaken \subseteq overtaken' /\ (s = "done" /\ Passed(t, time) => m \in overtaken')
  BY DEF Create
<1>4. time \in Nat /\ time > 0
  BY DEF BoundAssumption
<1> QED BY <1>1, <1>2, <1>3, <1>4, RowStep

LEMMA FinishStep ==
  ASSUME IInv, BoundAssumption, TypeInv', NEW t \in Tables, NEW m \in Messages, Finish(t, m)
  PROVE  IInv'
<1>1. /\ \A u \in Tables, n \in Messages : state'[u][n] = IF u = t /\ n = m THEN "done" ELSE state[u][n]
      /\ UNCHANGED <<created, usage, cursor, pc, batch, next>>
  BY DEF Finish, output, IInv, TypeInv
<1>2. \A n \in Messages : created'[n] = IF n = m THEN created[m] ELSE created[n]
  BY <1>1
<1>3. state[t][m] = "open"
  BY DEF Finish
<1>4. overtaken \subseteq overtaken' /\ (Passed(t, created[m]) => m \in overtaken')
  BY DEF Finish
<1>5. created[m] \in Nat /\ created[m] > 0
  BY <1>3, Numbers DEF IInv, RowsHaveTime
<1> QED BY <1>1, <1>2, <1>3, <1>4, <1>5, RowStep DEF RowState

LEMMA MigrateStep ==
  ASSUME IInv, BoundAssumption, TypeInv', NEW m \in Messages, Migrate(m)
  PROVE  IInv'
<1>1. /\ \A u \in Tables, n \in Messages : state'[u][n] = IF u = New /\ n = m THEN "done" ELSE state[u][n]
      /\ UNCHANGED <<created, usage, cursor, pc, batch, next, overtaken>>
  BY TwoTables DEF Migrate, output, IInv, TypeInv, New
<1>2. \A n \in Messages : created'[n] = IF n = m THEN created[m] ELSE created[n]
  BY <1>1
<1>3. state[New][m] # "done" /\ state[Legacy][m] = "done"
  BY DEF Migrate, New, Legacy
<1>4. Done(m) /\ created[m] \in Nat /\ created[m] > 0
  BY <1>3, TwoTables, Numbers DEF IInv, RowsHaveTime, Done
<1> QED BY <1>1, <1>2, <1>3, <1>4, TwoTables, RowStep DEF RowState

LEMMA ReadNewStep ==
  ASSUME IInv, BoundAssumption, TypeInv', ReadSessionMessages
  PROVE  IInv'
<1>1. PICK v : v = MaxSeen(New, Parsed(New))
  OBVIOUS
<1>2. /\ UNCHANGED <<state, created, usage, cursor, overtaken>>
      /\ pc = "new" /\ pc' = "legacy"
      /\ batch' = batch \cup Parsed(New)
      /\ next'[New] = v /\ next'[Legacy] = next[Legacy]
  BY <1>1, TwoTables DEF ReadSessionMessages, db, New, IInv, TypeInv
<1>3. \A m \in Messages : m \in Parsed(New) <=> state[New][m] = "done" /\ created[m] > cursor[New]
  BY DEF Parsed, Selected, Rows
<1>4. Parsed(New) \in SUBSET Messages
  BY DEF Parsed, Selected, Rows
<1>5. v = cursor[New] \/ \E m \in Parsed(New) : v = created[m]
  BY <1>1, <1>4, TwoTables, SeenIsATime DEF IInv
<1>6. RowsHaveTime'
  BY <1>2 DEF IInv, RowsHaveTime
<1>7. CursorsAtRows'
  <2>1. v = cursor[New] \/ \E m \in Messages : Moves(New, m) /\ created[m] = v
    BY <1>3, <1>4, <1>5 DEF Moves
  <2>2. \A t \in Tables, m \in Messages : Moves(t, m)' <=> Moves(t, m)
    BY <1>2 DEF Moves
  <2> QED BY <1>2, <2>1, <2>2, TwoTables DEF IInv, CursorsAtRows
<1>8. \A m \in Messages : (Done(m)' <=> Done(m)) /\ (Counted(m)' <=> Counted(m))
        /\ (Ahead(cursor, m)' <=> Ahead(cursor, m))
  BY <1>2 DEF Done, Counted, Ahead
<1>9. PassedIsCounted'
  BY <1>8 DEF IInv, PassedIsCounted
<1>10. PassedIsTaken'
  <2>1. next[Legacy] = cursor[Legacy] /\ cursor[New] \in Nat /\ \A m \in Messages : created[m] \in Nat
    BY <1>2, TwoTables, Numbers DEF IInv, PassedIsTaken
  <2>2. cursor[New] <= v
    BY <1>3, <1>4, <1>5, <2>1
  <2>3. \A t \in Tables : cursor'[t] <= next'[t]
    BY <1>2, <2>1, <2>2, TwoTables, Numbers DEF IInv
  <2>4. ASSUME NEW m \in Messages, Done(m) PROVE Taken(m)' \/ Ahead(next, m)'
    <3>1. CASE Counted(m)
      BY <1>8, <3>1 DEF Taken
    <3>2. CASE state[New][m] = "done" /\ cursor[New] < created[m]
      BY <1>2, <1>3, <3>2 DEF Taken
    <3>3. CASE state[Legacy][m] = "done" /\ cursor[Legacy] < created[m]
      BY <1>2, <2>1, <3>3, TwoTables DEF Ahead
    <3> QED BY <2>4, <3>1, <3>2, <3>3, TwoTables DEF IInv, PassedIsCounted, Ahead
  <2> QED BY <1>2, <1>8, <2>1, <2>3, <2>4 DEF PassedIsTaken
<1> QED BY <1>6, <1>7, <1>9, <1>10 DEF IInv

LEMMA ReadLegacyStep ==
  ASSUME IInv, BoundAssumption, TypeInv', ReadLegacyMessages
  PROVE  IInv'
<1>1. PICK v : v = MaxSeen(Legacy, Selected(Legacy))
  OBVIOUS
<1>2. /\ UNCHANGED <<state, created, usage, cursor, overtaken>>
      /\ pc = "legacy" /\ pc' = "store"
      /\ batch' = batch \cup Parsed(Legacy)
      /\ next'[Legacy] = v /\ next'[New] = next[New]
  BY <1>1, TwoTables DEF ReadLegacyMessages, db, Legacy, IInv, TypeInv
<1>3. \A m \in Messages : m \in Parsed(Legacy) <=> state[Legacy][m] = "done" /\ created[m] > cursor[Legacy]
  BY DEF Parsed, Selected, Rows
<1>4. /\ Selected(Legacy) \in SUBSET Messages
      /\ \A m \in Selected(Legacy) : state[Legacy][m] # "absent" /\ created[m] > cursor[Legacy]
  BY DEF Selected, Rows
<1>5. v = cursor[Legacy] \/ \E m \in Selected(Legacy) : v = created[m]
  BY <1>1, <1>4, TwoTables, SeenIsATime DEF IInv
<1>6. RowsHaveTime'
  BY <1>2 DEF IInv, RowsHaveTime
<1>7. CursorsAtRows'
  <2>1. v = cursor[Legacy] \/ \E m \in Messages : Moves(Legacy, m) /\ created[m] = v
    BY <1>4, <1>5 DEF Moves, Legacy
  <2>2. \A t \in Tables, m \in Messages : Moves(t, m)' <=> Moves(t, m)
    BY <1>2 DEF Moves
  <2> QED BY <1>2, <2>1, <2>2, TwoTables DEF IInv, CursorsAtRows
<1>8. \A m \in Messages : (Done(m)' <=> Done(m)) /\ (Counted(m)' <=> Counted(m))
        /\ (Ahead(cursor, m)' <=> Ahead(cursor, m))
  BY <1>2 DEF Done, Counted, Ahead
<1>9. PassedIsCounted'
  BY <1>8 DEF IInv, PassedIsCounted
<1>10. PassedIsTaken'
  <2>1. next[Legacy] = cursor[Legacy] /\ cursor[Legacy] \in Nat /\ \A m \in Messages : created[m] \in Nat
    BY <1>2, TwoTables, Numbers DEF IInv, PassedIsTaken
  <2>2. cursor[Legacy] <= v
    BY <1>4, <1>5, <2>1
  <2>3. \A t \in Tables : cursor'[t] <= next'[t]
    BY <1>2, <2>2, TwoTables DEF IInv, PassedIsTaken
  <2>4. ASSUME NEW m \in Messages, Done(m) PROVE Taken(m)' \/ Ahead(next, m)'
    <3>1. CASE Counted(m)
      BY <1>8, <3>1 DEF Taken
    <3>2. CASE m \in batch
      BY <1>2, <3>2 DEF Taken
    <3>3. CASE state[New][m] = "done" /\ next[New] < created[m]
      BY <1>2, <3>3, TwoTables DEF Ahead
    <3>4. CASE state[Legacy][m] = "done" /\ next[Legacy] < created[m]
      BY <1>2, <1>3, <2>1, <3>4 DEF Taken
    <3> QED BY <1>2, <2>4, <3>1, <3>2, <3>3, <3>4, TwoTables DEF IInv, PassedIsTaken, Taken, Ahead
  <2> QED BY <1>2, <1>8, <2>3, <2>4 DEF PassedIsTaken
<1> QED BY <1>6, <1>7, <1>9, <1>10 DEF IInv

LEMMA InsertStep ==
  ASSUME IInv, BoundAssumption, TypeInv', InsertUsageBatch
  PROVE  IInv'
<1>1. /\ UNCHANGED <<state, created, cursor, next, batch, overtaken>>
      /\ pc = "store" /\ pc' = "cursors"
      /\ \A m \in Messages : usage'[m] = IF m \in batch THEN 1 ELSE usage[m]
  BY DEF InsertUsageBatch, db, output
<1>2. \A m \in Messages : Taken(m) => Counted(m)' /\ Taken(m)'
  BY <1>1 DEF Taken, Counted
<1>3. RowsHaveTime' /\ CursorsAtRows'
  BY <1>1 DEF IInv, RowsHaveTime, CursorsAtRows, Moves
<1>4. \A m \in Messages : (Done(m)' <=> Done(m)) /\ (Counted(m) => Counted(m)')
        /\ (Ahead(cursor, m)' <=> Ahead(cursor, m)) /\ (Ahead(next, m)' <=> Ahead(next, m))
  BY <1>1 DEF Done, Ahead, Counted
<1>5. PassedIsCounted'
  BY <1>4 DEF IInv, PassedIsCounted
<1>6. PassedIsTaken'
  BY <1>1, <1>2, <1>4 DEF IInv, PassedIsTaken
<1> QED BY <1>3, <1>5, <1>6 DEF IInv

LEMMA SetCursorStep ==
  ASSUME IInv, BoundAssumption, TypeInv', NEW t \in Tables, SetCursor(t)
  PROVE  IInv'
<1>1. /\ UNCHANGED <<state, created, usage, next, batch, overtaken>>
      /\ pc = "cursors" /\ (pc' = "cursors" \/ pc' = "idle")
      /\ \A u \in Tables : cursor'[u] = IF u = t THEN next[u] ELSE cursor[u]
  BY DEF SetCursor, db, IInv, TypeInv
<1>2. RowsHaveTime' /\ CursorsAtRows'
  BY <1>1 DEF IInv, RowsHaveTime, CursorsAtRows, Moves
<1>3. \A u \in Tables : cursor'[u] <= next[u]
  BY <1>1, Numbers DEF IInv, PassedIsTaken
<1>4. \A m \in Messages : (Done(m)' <=> Done(m)) /\ (Taken(m) <=> Counted(m)) /\ (Counted(m)' <=> Counted(m))
        /\ (Ahead(next, m)' <=> Ahead(next, m))
  BY <1>1 DEF Done, Ahead, Counted, Taken
<1>5. \A m \in Messages : Ahead(next, m) => Ahead(cursor, m)'
  <2>1. (\A u \in Tables : cursor'[u] \in Nat /\ next[u] \in Nat) /\ \A m \in Messages : created[m] \in Nat
    BY <1>1, Numbers DEF IInv
  <2> QED BY <1>1, <1>3, <2>1 DEF Ahead
<1>6. PassedIsCounted'
  BY <1>1, <1>4, <1>5 DEF IInv, PassedIsTaken, PassedIsCounted
<1>7. PassedIsTaken'
  BY <1>1, <1>3, <1>4 DEF IInv, PassedIsTaken, Taken
<1> QED BY <1>2, <1>6, <1>7 DEF IInv

LEMMA StartPassStep ==
  ASSUME IInv, BoundAssumption, TypeInv', StartPass
  PROVE  IInv'
<1>1. UNCHANGED <<state, created, usage, cursor, overtaken>> /\ pc' = "new" /\ next' = cursor
  BY DEF StartPass, db
<1>2. RowsHaveTime' /\ CursorsAtRows'
  BY <1>1 DEF IInv, RowsHaveTime, CursorsAtRows, Moves
<1>3. \A m \in Messages : (Done(m)' <=> Done(m)) /\ (Counted(m)' <=> Counted(m))
        /\ (Ahead(cursor, m)' <=> Ahead(cursor, m)) /\ (Ahead(next, m)' <=> Ahead(cursor, m))
  BY <1>1 DEF Done, Counted, Ahead
<1>4. PassedIsCounted'
  BY <1>3 DEF IInv, PassedIsCounted
<1>5. PassedIsTaken'
  <2>1. \A t \in Tables : cursor'[t] <= next'[t] /\ next'[t] = cursor'[t]
    BY <1>1, Numbers DEF IInv
  <2>2. \A m \in Messages : Done(m)' => Taken(m)' \/ Ahead(next, m)'
    BY <1>3 DEF IInv, PassedIsCounted, Taken
  <2> QED BY <1>1, <2>1, <2>2 DEF PassedIsTaken
<1> QED BY <1>2, <1>4, <1>5 DEF IInv

LEMMA QuietStep ==
  ASSUME IInv, TypeInv', CutShort \/ UNCHANGED vars
  PROVE  IInv'
<1>1. UNCHANGED <<state, created, usage, cursor, next, batch, overtaken>> /\ (pc' = pc \/ pc' = "idle")
  BY DEF CutShort, vars, db, output
<1>2. RowsHaveTime' /\ CursorsAtRows'
  BY <1>1 DEF IInv, RowsHaveTime, CursorsAtRows, Moves
<1>3. \A m \in Messages : (Done(m)' <=> Done(m)) /\ (Counted(m)' <=> Counted(m))
        /\ (Ahead(cursor, m)' <=> Ahead(cursor, m)) /\ (Ahead(next, m)' <=> Ahead(next, m))
        /\ (pc' # "idle" => (Taken(m)' <=> Taken(m)))
  BY <1>1 DEF Done, Counted, Ahead, Taken
<1>4. PassedIsCounted'
  BY <1>3 DEF IInv, PassedIsCounted
<1>5. PassedIsTaken'
  BY <1>1, <1>3 DEF IInv, PassedIsTaken
<1> QED BY <1>2, <1>4, <1>5 DEF IInv

\* Whatever order messages are created and finished in, in both tables and with passes cut
\* short anywhere: the cursors of the readers of session_message and of the legacy message
\* table leave no finished message behind but those that were overtaken.
THEOREM NoneBehind == Spec => []NothingBehindCursor
<1>1. Init => IInv
  <2> SUFFICES ASSUME Init PROVE IInv
    OBVIOUS
  <2>1. \A t \in Tables, m \in Messages : state[t][m] = "absent"
    BY DEF Init
  <2> QED
    BY <2>1, TypeInit, BoundAssumption DEF Init, IInv, RowsHaveTime, CursorsAtRows,
       PassedIsCounted, PassedIsTaken, Done
<1>2. IInv /\ [Next]_vars => IInv'
  <2> SUFFICES ASSUME IInv, [Next]_vars PROVE IInv'
    OBVIOUS
  <2>1. TypeInv'
    BY TypeStep, BoundAssumption DEF IInv
  <2> QED
    BY <2>1, BoundAssumption, CreateStep, FinishStep, MigrateStep, ReadNewStep, ReadLegacyStep,
       InsertStep, SetCursorStep, StartPassStep, QuietStep
    DEF Next, OpenCode, Collector
<1>3. IInv => NothingBehindCursor
  BY DEF IInv, PassedIsCounted, Done, Counted, Ahead, NothingBehindCursor
<1> QED BY <1>1, <1>2, <1>3, PTL DEF Spec

=============================================================================
