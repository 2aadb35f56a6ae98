---------------------------- MODULE CollectorPass ----------------------------
(***************************************************************************)
(* The daemon's ingestion loop: run_loop takes every collector in turn,    *)
(* run_once loads its stored offsets, reads the new complete lines of its  *)
(* files, writes what they carry through Storage, and only then moves the  *)
(* stored offsets.  Each write is a commit of its own, a write may fail,   *)
(* and the process may die between any two of them; the agents that write  *)
(* the log files never wait for any of this.                               *)
(*                                                                         *)
(* Log files are append-only here and a line is what one parse of it       *)
(* yields: a usage record (named by its dedup_key), a quota snapshot, a    *)
(* quota hit (named by its dedup_key), or nothing.  Partial lines and      *)
(* truncated files belong to JsonlTail.                                    *)
(***************************************************************************)
EXTENDS Integers, Sequences, FiniteSets

CONSTANTS
  Files,        \* the log files, one cursor key each
  Collectors,   \* collectors are 1..Collectors, polled in that order
  Owner,        \* the collector that walks each file
  UsageKeys,    \* dedup keys of usage records
  QuotaKeys,    \* quota observations, stored without deduplication
  HitKeys,      \* dedup keys of quota hits
  Noise,        \* a line that carries nothing
  Carries,      \* the lines a file of that agent may have
  MaxLines,     \* bound: lines per file
  MaxFaults,    \* bound: read and storage errors
  MaxCrashes    \* bound: process deaths

Line  == UsageKeys \cup QuotaKeys \cup HitKeys \cup {Noise}
Phase == {"idle", "load", "read", "usage", "snapshots", "hits", "cursors",
          "delete", "insert", "down"}

ASSUME CollectorsAssumption ==
  Collectors \in Nat \ {0} /\ Owner \in [Files -> 1..Collectors]
ASSUME LineAssumption ==
  /\ UsageKeys \cap QuotaKeys = {} /\ UsageKeys \cap HitKeys = {}
  /\ QuotaKeys \cap HitKeys = {}
  /\ Noise \notin UsageKeys \cup QuotaKeys \cup HitKeys
ASSUME CarriesAssumption == Carries \in [Files -> SUBSET Line]
ASSUME BoundAssumption ==
  MaxLines \in [Files -> Nat] /\ MaxFaults \in Nat /\ MaxCrashes \in Nat

VARIABLES
  log,          \* the complete lines of each file
  usage,        \* usage_records: rows per dedup key
  snapshots,    \* quota_snapshots: rows per observation
  hits,         \* quota_hits: rows per dedup key
  cursor,       \* collector_cursors: lines of each file already collected
  sessions,     \* the usage rows the sessions table was last built from
  pc, turn,     \* where run_loop is, and in which collector's pass
  loaded,       \* the cursor run_once started from
  todo,         \* files collect() has still to read
  recs,         \* CollectOutput.records, by key
  snaps, newHits,         \* CollectOutput.snapshots and .hits left to store
  next, unsaved,          \* CollectOutput.cursor, and the keys left to persist
  faults, crashes,
  orphans       \* history: stored usage that no rebuild is owed to any more

stored   == <<usage, snapshots, hits, cursor, sessions>>
output   == <<todo, recs, snaps, newHits, next, unsaved>>
volatile == <<pc, turn, loaded, output>>
vars     == <<log, stored, volatile, faults, crashes, orphans>>

\* Files walked by the collector whose turn it is.
Walked(c) == {f \in Files : Owner[f] = c}

Init ==
  /\ log = [f \in Files |-> <<>>]
  /\ usage = [k \in UsageKeys |-> 0]
  /\ snapshots = [q \in QuotaKeys |-> 0]
  /\ hits = [h \in HitKeys |-> 0]
  /\ cursor = [f \in Files |-> 0]
  /\ sessions = {}
  /\ pc = "idle" /\ turn = 1
  /\ loaded = [f \in Files |-> 0] /\ next = [f \in Files |-> 0]
  /\ todo = {} /\ recs = {} /\ snaps = {} /\ newHits = {} /\ unsaved = {}
  /\ faults = 0 /\ crashes = 0 /\ orphans = {}

-----------------------------------------------------------------------------
(* The agents *)

AppendLine(f, l) ==
  /\ l \in Carries[f]
  /\ Len(log[f]) < MaxLines[f]
  /\ log' = [log EXCEPT ![f] = Append(@, l)]
  /\ UNCHANGED <<stored, volatile, faults, crashes, orphans>>

-----------------------------------------------------------------------------
(* run_loop: one tick polls every collector *)

Tick ==
  /\ pc = "idle"
  /\ pc' = "load" /\ turn' = 1
  /\ UNCHANGED <<log, stored, loaded, output, faults, crashes, orphans>>

\* Mutant: one collector too many.
NextCollectorOffByOne ==
  IF turn <= Collectors
    THEN pc' = "load" /\ turn' = turn + 1
    ELSE pc' = "idle" /\ turn' = turn

\* Mutant: only the first collector is ever polled.
NextCollectorFirstOnly == pc' = "idle" /\ turn' = turn

\* The next collector's turn, or back to waiting for the interval.
NextCollector ==
  IF turn < Collectors
    THEN pc' = "load" /\ turn' = turn + 1
    ELSE pc' = "idle" /\ turn' = turn

-----------------------------------------------------------------------------
(* run_once *)

LoadCursor ==
  /\ pc = "load"
  /\ pc' = "read"
  /\ loaded' = cursor /\ next' = cursor
  /\ todo' = Walked(turn)
  /\ recs' = {} /\ snaps' = {} /\ newHits' = {} /\ unsaved' = {}
  /\ UNCHANGED <<log, stored, turn, faults, crashes, orphans>>

\* Mutant: the stored offset is ignored, every pass rescans.
NewLinesRescan(f) == 1..Len(log[f])

\* Positions of f's lines from the loaded offset to the end of the file.
NewLines(f) == (loaded[f] + 1)..Len(log[f])

\* Mutant: the offset counts only what this pass read.
NewOffsetRelative(f) == Len(log[f]) - loaded[f]

\* Where the next pass resumes.
NewOffset(f) == Len(log[f])

\* read_jsonl_from and the parse of every new line of one file.
ReadFile(f) ==
  /\ pc = "read" /\ f \in todo
  /\ LET got == {log[f][i] : i \in NewLines(f)} IN
     /\ recs' = recs \cup (got \cap UsageKeys)
     /\ newHits' = newHits \cup (got \cap HitKeys)
  /\ snaps' = snaps \cup {<<f, i>> : i \in {j \in NewLines(f) : log[f][j] \in QuotaKeys}}
  /\ next' = [next EXCEPT ![f] = NewOffset(f)]
  /\ unsaved' = unsaved \cup {f}
  /\ todo' = todo \ {f}
  /\ UNCHANGED <<log, stored, pc, turn, loaded, faults, crashes, orphans>>

\* An unreadable file is skipped and its offset is not part of the output.
SkipFile(f) ==
  /\ pc = "read" /\ f \in todo
  /\ faults < MaxFaults /\ faults' = faults + 1
  /\ todo' = todo \ {f}
  /\ UNCHANGED <<log, stored, pc, turn, loaded, recs, snaps, newHits, next,
                 unsaved, crashes, orphans>>

EndCollect ==
  /\ pc = "read" /\ todo = {}
  /\ pc' = "usage"
  /\ UNCHANGED <<log, stored, turn, loaded, output, faults, crashes, orphans>>

\* Mutant: a plain INSERT without the unique index.
InsertAlways(table, keys) == [k \in DOMAIN table |-> IF k \in keys
                                                        THEN table[k] + 1 ELSE table[k]]

\* INSERT OR IGNORE of every key of a batch.
InsertIgnore(table, keys) == [k \in DOMAIN table |-> IF k \in keys /\ table[k] = 0
                                                        THEN 1 ELSE table[k]]

\* Mutant: the result counts the rows inserted instead of the records collected.
InsertUsageBatchCountsRows ==
  /\ pc = "usage"
  /\ pc' = "snapshots"
  /\ usage' = InsertIgnore(usage, recs)
  /\ recs' = {k \in recs : usage[k] = 0}
  /\ UNCHANGED <<log, snapshots, hits, cursor, sessions, turn, loaded, todo, snaps,
                 newHits, next, unsaved, faults, crashes, orphans>>

\* One transaction for the whole batch; its records stay in the output to be counted.
InsertUsageBatch ==
  /\ pc = "usage"
  /\ pc' = "snapshots"
  /\ usage' = InsertIgnore(usage, recs)
  /\ UNCHANGED <<log, snapshots, hits, cursor, sessions, turn, loaded, output, faults, crashes, orphans>>

InsertQuotaSnapshot(p) ==
  /\ pc = "snapshots" /\ p \in snaps
  /\ snapshots' = [snapshots EXCEPT ![log[p[1]][p[2]]] = @ + 1]
  /\ snaps' = snaps \ {p}
  /\ UNCHANGED <<log, usage, hits, cursor, sessions, pc, turn, loaded, todo, recs,
                 newHits, next, unsaved, faults, crashes, orphans>>

SnapshotsDone ==
  /\ pc = "snapshots" /\ snaps = {}
  /\ pc' = "hits"
  /\ UNCHANGED <<log, stored, turn, loaded, output, faults, crashes, orphans>>

InsertQuotaHit(h) ==
  /\ pc = "hits" /\ h \in newHits
  /\ hits' = InsertIgnore(hits, {h})
  /\ newHits' = newHits \ {h}
  /\ UNCHANGED <<log, usage, snapshots, cursor, sessions, pc, turn, loaded, todo, recs,
                 snaps, next, unsaved, faults, crashes, orphans>>

HitsDone ==
  /\ pc = "hits" /\ newHits = {}
  /\ pc' = "cursors"
  /\ UNCHANGED <<log, stored, turn, loaded, output, faults, crashes, orphans>>

SetCursor(f) ==
  /\ pc = "cursors" /\ f \in unsaved
  /\ cursor' = [cursor EXCEPT ![f] = next[f]]
  /\ unsaved' = unsaved \ {f}
  /\ UNCHANGED <<log, usage, snapshots, hits, sessions, pc, turn, loaded, todo, recs,
                 snaps, newHits, next, faults, crashes, orphans>>

\* run_once returns: Ok(n) with n > 0 rebuilds the sessions, Ok(0) does not.
PassOk ==
  /\ pc = "cursors" /\ unsaved = {}
  /\ IF recs # {} THEN pc' = "delete" /\ turn' = turn ELSE NextCollector
  /\ UNCHANGED <<log, stored, loaded, output, faults, crashes, orphans>>

\* A storage call of this phase is still to come.
CallLeft ==
  /\ pc = "snapshots" => snaps # {}
  /\ pc = "hits" => newHits # {}
  /\ pc = "cursors" => unsaved # {}

\* Files of this pass whose new lines now lie behind the persisted offset.
Passed == IF pc \in {"cursors", "delete"} THEN {f \in Files : loaded[f] < next[f]} \ unsaved
                                          ELSE {}

\* What this pass leaves without a summary when it ends here: the records behind the
\* offsets it persisted, which no retry collects again; inside the rebuild, every record.
Unsummarised ==
  IF pc = "insert"
    THEN {k \in UsageKeys : usage[k] > 0}
    ELSE {k \in recs : \E f \in Passed : \E i \in (loaded[f] + 1)..next[f] : log[f][i] = k}

\* Mutant: an error of the usage insert is logged and the pass goes on.
PassFailsSwallowed ==
  /\ pc \notin {"idle", "read", "down"} /\ CallLeft
  /\ faults < MaxFaults /\ faults' = faults + 1
  /\ orphans' = orphans \cup Unsummarised
  /\ IF pc = "usage" THEN pc' = "snapshots" /\ turn' = turn ELSE NextCollector
  /\ UNCHANGED <<log, stored, loaded, output, crashes>>

\* A storage call of the pass or of the rebuild returns an error: run_loop logs it and
\* takes the next collector.
PassFails ==
  /\ pc \notin {"idle", "read", "down"} /\ CallLeft
  /\ faults < MaxFaults /\ faults' = faults + 1
  /\ orphans' = orphans \cup Unsummarised
  /\ NextCollector
  /\ UNCHANGED <<log, stored, loaded, output, crashes>>

-----------------------------------------------------------------------------
(* rebuild_sessions: two commits *)

DeleteSessions ==
  /\ pc = "delete"
  /\ pc' = "insert"
  /\ sessions' = {}
  /\ UNCHANGED <<log, usage, snapshots, hits, cursor, turn, loaded, output, faults, crashes, orphans>>

\* The rows without a session id, which no agent modelled here writes, would stay out.
InsertSessions ==
  /\ pc = "insert"
  /\ sessions' = {k \in UsageKeys : usage[k] > 0} /\ orphans' = {}
  /\ NextCollector
  /\ UNCHANGED <<log, usage, snapshots, hits, cursor, loaded, output, faults, crashes>>

-----------------------------------------------------------------------------
(* The process dies, and the service manager starts it again *)

Crash ==
  /\ pc # "down"
  /\ crashes < MaxCrashes /\ crashes' = crashes + 1
  /\ orphans' = orphans \cup Unsummarised
  /\ pc' = "down" /\ turn' = 1
  /\ loaded' = [f \in Files |-> 0] /\ next' = [f \in Files |-> 0]
  /\ todo' = {} /\ recs' = {} /\ snaps' = {} /\ newHits' = {} /\ unsaved' = {}
  /\ UNCHANGED <<log, stored, faults>>

Restart ==
  /\ pc = "down"
  /\ pc' = "idle"
  /\ UNCHANGED <<log, stored, turn, loaded, output, faults, crashes, orphans>>

-----------------------------------------------------------------------------
Store ==
  \/ InsertUsageBatch
  \/ \E p \in snaps : InsertQuotaSnapshot(p)
  \/ SnapshotsDone
  \/ \E h \in HitKeys : InsertQuotaHit(h)
  \/ HitsDone
  \/ \E f \in Files : SetCursor(f)

\* Everything the daemon does when nothing goes wrong.
Daemon ==
  \/ Tick
  \/ LoadCursor
  \/ \E f \in Files : ReadFile(f)
  \/ EndCollect
  \/ Store
  \/ PassOk
  \/ DeleteSessions
  \/ InsertSessions

Next ==
  \/ \E f \in Files, l \in Line : AppendLine(f, l)
  \/ Daemon
  \/ \E f \in Files : SkipFile(f)
  \/ PassFails
  \/ Crash
  \/ Restart

Spec == Init /\ [][Next]_vars

\* The tokio task runs on, the interval ticks, and the service manager restarts a
\* dead daemon; the agents owe nothing.
FairSpec == Spec /\ WF_vars(Daemon) /\ WF_vars(Restart)

-----------------------------------------------------------------------------
(* Properties *)

Written(l) == \E f \in Files : \E i \in 1..Len(log[f]) : log[f][i] = l
Unread(l)  == \E f \in Files : \E i \in (cursor[f] + 1)..Len(log[f]) : log[f][i] = l
Lines(l)   == Cardinality({p \in UNION {{f} \X DOMAIN log[f] : f \in Files} :
                             log[p[1]][p[2]] = l})

\* What the pipeline promises: a ledger with one row per record ever written.
Ledger == INSTANCE UsageLedger WITH Keys <- UsageKeys,
                                    written <- {k \in UsageKeys : Written(k)},
                                    ledger <- usage

\* Ingestion implements the ledger: its steps record written, unrecorded usage, or
\* nothing.
ImplementsLedger == Ledger!Spec

IsStored(l) ==
  /\ l \in UsageKeys => usage[l] > 0
  /\ l \in QuotaKeys => snapshots[l] > 0
  /\ l \in HitKeys => hits[l] > 0

StoreTypeOK ==
  /\ log \in [Files -> Seq(Line)]
  /\ usage \in [UsageKeys -> Nat]
  /\ snapshots \in [QuotaKeys -> Nat]
  /\ hits \in [HitKeys -> Nat]
  /\ cursor \in [Files -> Nat]
  /\ sessions \subseteq UsageKeys

PassTypeOK ==
  /\ pc \in Phase /\ turn \in 1..Collectors
  /\ loaded \in [Files -> Nat] /\ next \in [Files -> Nat]
  /\ todo \subseteq Files /\ unsaved \subseteq Files
  /\ recs \subseteq UsageKeys /\ newHits \subseteq HitKeys
  /\ snaps \subseteq Files \X Nat

\* Tables and files hold what their columns allow, and a pass only what it can carry.
TypeOK == StoreTypeOK /\ PassTypeOK /\ faults \in Nat /\ crashes \in Nat
          /\ orphans \subseteq UsageKeys

\* Nothing below a stored offset is missing from the database, whatever failed or
\* died in between: run_once persists the cursor after the data it stands for.
CursorCoversOnlyStored ==
  \A f \in Files : /\ cursor[f] <= Len(log[f])
                   /\ \A i \in 1..cursor[f] : IsStored(log[f][i])

\* A record or a hit has one row however often its line is repeated or read again.
NoDoubleCount ==
  /\ \A k \in UsageKeys : usage[k] <= 1
  /\ \A h \in HitKeys : hits[h] <= 1

\* Quota observations repeat only when a failed or killed pass is retried: without
\* one, each is stored at most once per line that carries it.
SnapshotsRepeatOnlyOnRetry ==
  \A q \in QuotaKeys : snapshots[q] <= Lines(q) * (1 + faults + crashes)

\* Rows and offsets only ever grow: no collector pass takes back what a reader saw.
StoreOnlyGrows ==
  [][/\ \A k \in UsageKeys : usage'[k] >= usage[k]
     /\ \A q \in QuotaKeys : snapshots'[q] >= snapshots[q]
     /\ \A h \in HitKeys : hits'[h] >= hits[h]
     /\ \A f \in Files : cursor'[f] >= cursor[f]]_stored

\* A line an agent finished writing is eventually in the database.
WrittenEventuallyStored == \A l \in Line : Written(l) ~> IsStored(l)

\* Between two ticks a stored record is in the sessions table, or in a line that the next
\* pass reads again, or one of the two exceptions has made it an orphan (see below).
NoSummaryForgotten ==
  pc = "idle" =>
    \A k \in UsageKeys : usage[k] > 0 => k \in sessions \/ Unread(k) \/ k \in orphans

\* A stored record eventually shows in the sessions table, whatever fails or dies, with
\* two exceptions: its offset was persisted by a pass that then failed at another file's
\* offset or died before the rebuild, as a retry collects nothing of it and the next
\* rebuild waits for new usage (run_loop's Ok(0)); or a rebuild stopped halfway.
StoredEventuallySummarised ==
  \A k \in UsageKeys : (usage[k] > 0) ~> (k \in sessions \/ k \in orphans)
=============================================================================
