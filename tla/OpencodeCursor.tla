--------------------------- MODULE OpencodeCursor ---------------------------
(***************************************************************************)
(* OpencodeDbCollector: two message tables of a database that OpenCode     *)
(* keeps writing, read by creation time.  The cursor of a table is the     *)
(* largest creation time read, and the next pass takes the rows beyond it, *)
(* so what matters is the order in which rows appear and get their tokens. *)
(*                                                                         *)
(* A pass reads the tables one after the other, stores what it found and   *)
(* then the two cursor values, as run_once does; a failure or a crash      *)
(* anywhere gives up what is in memory.                                    *)
(***************************************************************************)
EXTENDS Integers, FiniteSets

CONSTANTS
  Messages,     \* message ids, the dedup keys of their records
  MaxTime,      \* bound: creation times are 1..MaxTime
  MaxFaults     \* bound: passes cut short

Tables == {"session_message", "message"}

\* No row, a row without tokens, which may get them later or never, and one with them.
RowState == {"absent", "open", "done"}

ASSUME BoundAssumption == MaxTime \in Nat /\ MaxFaults \in Nat

VARIABLES
  state,        \* of each message's row in each table
  created,      \* its creation time
  usage,        \* usage_records: rows per message
  cursor,       \* the persisted cursor of each table
  pc,           \* "idle", "new", "legacy", "store", "cursors"
  batch, next,  \* CollectOutput.records and .cursor
  unsaved,      \* cursor keys still to persist
  overtaken,    \* history: messages that got their tokens behind a cursor
  faults

db     == <<state, created>>
output == <<batch, next, unsaved>>
vars   == <<db, usage, cursor, pc, output, overtaken, faults>>

Init ==
  /\ state = [t \in Tables |-> [m \in Messages |-> "absent"]]
  /\ created = [m \in Messages |-> 0]
  /\ usage = [m \in Messages |-> 0]
  /\ cursor = [t \in Tables |-> 0] /\ next = [t \in Tables |-> 0]
  /\ pc = "idle" /\ batch = {} /\ unsaved = {} /\ overtaken = {} /\ faults = 0

-----------------------------------------------------------------------------
(* OpenCode *)

Rows(t) == {m \in Messages : state[t][m] # "absent"}

\* Rows that move a table's cursor when they are read: of the legacy table, all.
Moves(t, m) == state[t][m] = "done" \/ (t = "message" /\ state[t][m] # "absent")

\* Such a row has taken the cursor, or the pass under way, up to this creation time.
Passed(t, time) ==
  /\ time <= cursor[t] \/ (pc # "idle" /\ time <= next[t])
  /\ \E n \in Messages : Moves(t, n) /\ time <= created[n]

\* A new message.  Sessions write side by side, so that its time may lie before that of
\* others, or be the same.
Create(t, m, time, s) ==
  /\ \A u \in Tables : state[u][m] = "absent"
  /\ state' = [state EXCEPT ![t][m] = s]
  /\ created' = [created EXCEPT ![m] = time]
  /\ overtaken' = IF s = "done" /\ Passed(t, time) THEN overtaken \cup {m} ELSE overtaken
  /\ UNCHANGED <<usage, cursor, pc, output, faults>>

\* The tokens of a message are known once the model has answered.
Finish(t, m) ==
  /\ state[t][m] = "open"
  /\ state' = [state EXCEPT ![t][m] = "done"]
  /\ overtaken' = IF Passed(t, created[m]) THEN overtaken \cup {m} ELSE overtaken
  /\ UNCHANGED <<created, usage, cursor, pc, output, faults>>

\* A migration of OpenCode copies a legacy row, with its creation time.
Migrate(m) ==
  /\ state["message"][m] = "done" /\ state["session_message"][m] = "absent"
  /\ state' = [state EXCEPT !["session_message"][m] = "done"]
  /\ UNCHANGED <<created, usage, cursor, pc, output, overtaken, faults>>

-----------------------------------------------------------------------------
(* collect *)

StartPass ==
  /\ pc = "idle"
  /\ pc' = "new"
  /\ batch' = {} /\ unsaved' = {} /\ next' = cursor
  /\ UNCHANGED <<db, usage, cursor, overtaken, faults>>

\* The rows a table's SELECT returns, and those of them parse_data makes a record of.
Selected(t) == {m \in Rows(t) : created[m] > cursor[t]}
Parsed(t)   == {m \in Selected(t) : state[t][m] = "done"}

\* The largest creation time seen, at least the old cursor.
MaxSeen(t, ms) ==
  IF ms = {} THEN cursor[t]
  ELSE created[CHOOSE m \in ms : \A n \in ms : created[n] <= created[m]]

\* Mutant: rows without tokens move the cursor here too.
ReadSessionMessagesPassesAll ==
  /\ pc = "new"
  /\ pc' = "legacy"
  /\ batch' = batch \cup Parsed("session_message")
  /\ next' = [next EXCEPT !["session_message"] = MaxSeen("session_message", Selected("session_message"))]
  /\ UNCHANGED <<db, usage, cursor, unsaved, overtaken, faults>>

\* Only a row that yields a record moves this cursor.
ReadSessionMessages ==
  /\ pc = "new"
  /\ pc' = "legacy"
  /\ batch' = batch \cup Parsed("session_message")
  /\ next' = [next EXCEPT !["session_message"] = MaxSeen("session_message", Parsed("session_message"))]
  /\ UNCHANGED <<db, usage, cursor, unsaved, overtaken, faults>>

\* Every row read moves this one.
ReadLegacyMessages ==
  /\ pc = "legacy"
  /\ pc' = "store"
  /\ batch' = batch \cup Parsed("message")
  /\ next' = [next EXCEPT !["message"] = MaxSeen("message", Selected("message"))]
  /\ unsaved' = Tables
  /\ UNCHANGED <<db, usage, cursor, overtaken, faults>>

-----------------------------------------------------------------------------
(* run_once *)

\* Mutant: a plain INSERT.
InsertUsageBatchAlways ==
  /\ pc = "store"
  /\ pc' = "cursors"
  /\ usage' = [m \in Messages |-> IF m \in batch THEN usage[m] + 1 ELSE usage[m]]
  /\ UNCHANGED <<db, cursor, output, overtaken, faults>>

InsertUsageBatch ==
  /\ pc = "store"
  /\ pc' = "cursors"
  /\ usage' = [m \in Messages |-> IF m \in batch THEN 1 ELSE usage[m]]
  /\ UNCHANGED <<db, cursor, output, overtaken, faults>>

\* In the order of their keys: "message." comes before "session_message.".
SetCursor(t) ==
  /\ pc = "cursors" /\ t \in unsaved
  /\ t = "session_message" => "message" \notin unsaved
  /\ cursor' = [cursor EXCEPT ![t] = next[t]]
  /\ unsaved' = unsaved \ {t}
  /\ pc' = IF unsaved' = {} THEN "idle" ELSE pc
  /\ UNCHANGED <<db, usage, batch, next, overtaken, faults>>

CutShort ==
  /\ pc # "idle"
  /\ faults < MaxFaults /\ faults' = faults + 1
  /\ pc' = "idle"
  /\ UNCHANGED <<db, usage, cursor, output, overtaken>>

-----------------------------------------------------------------------------
OpenCode ==
  \/ \E t \in Tables, m \in Messages, time \in 1..MaxTime, s \in RowState \ {"absent"} :
       Create(t, m, time, s)
  \/ \E t \in Tables, m \in Messages : Finish(t, m)
  \/ \E m \in Messages : Migrate(m)

Collector ==
  \/ StartPass \/ ReadSessionMessages \/ ReadLegacyMessages
  \/ InsertUsageBatch
  \/ \E t \in Tables : SetCursor(t)

Next == OpenCode \/ Collector \/ CutShort

Spec == Init /\ [][Next]_vars

\* The interval ticks for ever; OpenCode owes nothing.
FairSpec == Spec /\ WF_vars(Collector)

-----------------------------------------------------------------------------
(* Properties *)

\* "The same message can appear in both tables after a migration; storage keeps one
\* copy", in whatever passes and after whatever failures the two copies are read.
OneCopyPerMessage == \A m \in Messages : usage[m] <= 1

\* "It reads per-message usage from assistant rows of session_message, and from the
\* legacy message table": a message with tokens is counted, or ahead of the cursor in a
\* table that has it, with one exception: it got them when that table's cursor had
\* passed it.  A younger or equally old message with tokens does that; one without does
\* it in the legacy table only.
NothingBehindCursor ==
  \A m \in Messages : (\E t \in Tables : state[t][m] = "done") =>
    \/ usage[m] > 0 \/ m \in overtaken
    \/ \E t \in Tables : state[t][m] = "done" /\ cursor[t] < created[m]

\* A message that gets its tokens before a cursor passes it is counted in the end,
\* whichever table it is found in, whatever is copied and whatever passes are cut short.
FinishedEventuallyCounted ==
  \A m \in Messages :
    (\E t \in Tables : state[t][m] = "done") ~> (usage[m] > 0 \/ m \in overtaken)
=============================================================================
