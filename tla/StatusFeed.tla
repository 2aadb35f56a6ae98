----------------------------- MODULE StatusFeed -----------------------------
(***************************************************************************)
(* From what the tools write to what `claude-tui status` prints: the       *)
(* collectors turn entries into rows (UsageRecords), the Claude quota      *)
(* collector polls two files, and a status request reads the tables with   *)
(* one query after another on a connection of its own, while commits go on *)
(* between the queries.  A second reader pages through usage.query.        *)
(*                                                                         *)
(* Time is in minutes and moves by Step.  A request ends within a step     *)
(* (fetch_status gives up after two seconds), and the quota collector runs *)
(* at least once in each (every 30 seconds).                               *)
(***************************************************************************)
EXTENDS UsageRecords

CONSTANTS
  Entries,          \* what the tools write, with its time
  StatusLimits,     \* the limits Claude's status line may name
  Caches,           \* what ~/.claude.json may hold: [at, limits]
  Start, End, Step, \* the time the model covers
  UtcOffset,        \* the local time zone, in minutes
  GapDays,          \* local days that have no midnight
  PageSize,         \* `limit` of usage.query
  MaxWrites         \* bound: changes of Claude's two files

ASSUME FeedAssumption ==
  /\ Start \in Nat /\ End \in Nat /\ Start <= End /\ Step \in Nat \ {0}
  /\ UtcOffset \in Int
  /\ PageSize \in Nat \ {0} /\ MaxWrites \in Nat

\* A window of a quota, as a file names it.
Limits == [window : STRING, used : {None} \union Int, resets : {None} \union Int]

ASSUME EntryAssumption ==
  /\ \A e \in Entries : /\ e.source \in Source \ {"claude-quota"} /\ e.at \in Int /\ e.tokens \in Nat
                        /\ e.limits \in Seq(Limits)
  /\ StatusLimits \subseteq {None} \union Seq(Limits)
  /\ \A c \in Caches : c.at \in Int /\ c.limits \in Seq(Limits)

VARIABLES
  clock,
  unread,           \* entries no collector has read
  statusFile,       \* Claude's status snapshot: None, or [mtime, limits]
  cache,            \* cachedUsageUtilization of ~/.claude.json: None, or [at, limits]
  seen,             \* what the quota collector read last: [at, windows]
  batch,            \* what run_once has yet to store: [usage, snapshots, hits]
  writes,           \* changes of the two files
  rows,             \* usage_records, by id
  snapshots,        \* quota_snapshots, by id
  hits,             \* quota_hits, by id
  request,          \* the reader at work
  shown             \* the quota windows of the last answer a client got

tables == <<rows, snapshots, hits>>
vars == <<clock, unread, statusFile, cache, seen, writes, batch, tables, request, shown>>

Hour == 60
Day == 24 * Hour
NoRequest == [kind |-> "none"]
Stored == [usage |-> {}, snapshots |-> <<>>, hits |-> {}]

Init ==
  /\ clock = Start
  /\ unread = Entries
  /\ statusFile = None /\ cache = None
  /\ seen = [at |-> Start, windows |-> <<>>]
  /\ writes = 0 /\ batch = Stored
  /\ rows = <<>> /\ snapshots = <<>> /\ hits = <<>>
  /\ request = NoRequest
  /\ shown = [s \in {} |-> {}]

-----------------------------------------------------------------------------
(* The tools.  Requests read none of their files, and a batch is read already: that *)
(* they write between those loses no behaviour.                                     *)

Quiet == batch = Stored /\ request = NoRequest

\* Claude Code renders its status line, with rate limits or without.
WriteStatus ==
  /\ Quiet /\ writes < MaxWrites
  /\ writes' = writes + 1
  /\ \E limits \in StatusLimits : statusFile' = [mtime |-> clock, limits |-> limits]
  /\ statusFile' # statusFile
  /\ UNCHANGED <<clock, unread, cache, seen, batch, tables, request, shown>>

RemoveStatus ==
  /\ Quiet /\ writes < MaxWrites
  /\ writes' = writes + 1
  /\ statusFile # None
  /\ statusFile' = None
  /\ UNCHANGED <<clock, unread, cache, seen, batch, tables, request, shown>>

WriteCache ==
  /\ Quiet /\ writes < MaxWrites
  /\ writes' = writes + 1
  /\ \E c \in Caches : c.at <= clock /\ cache' = c
  /\ cache' # cache
  /\ UNCHANGED <<clock, unread, statusFile, seen, batch, tables, request, shown>>

Tick ==
  /\ clock + Step <= End
  /\ Quiet /\ seen.at = clock
  /\ clock' = clock + Step
  /\ UNCHANGED <<writes, unread, statusFile, cache, seen, batch, tables, request, shown>>

-----------------------------------------------------------------------------
(* The collectors.  Bound: the stores of one batch fall into a status request, any *)
(* number into a client's paging.                                                  *)

\* The entries of different files are read in any order.
Collect(e) ==
  /\ batch = Stored /\ request.kind # "status"
  /\ e \in unread /\ e.at <= clock
  /\ unread' = unread \ {e}
  /\ batch' = [usage |-> UsageOf(e, clock), snapshots |-> RateLimits(e), hits |-> HitOf(e)]
  /\ UNCHANGED <<writes, clock, statusFile, cache, seen, tables, request, shown>>

MaxSnapshotAge == 24 * Hour

\* read_status_snapshot applies: the file is there, young enough, and names limits.
StatusReadable ==
  /\ statusFile # None
  /\ clock - statusFile.mtime <= MaxSnapshotAge
  /\ statusFile.limits # None

\* quota_snapshots: the status file, or else what ~/.claude.json has cached.
QuotaSnapshots ==
  LET Windows(limits, observed) ==
        [i \in 1..Len(limits) |-> ClaudeWindow(limits[i], observed, clock)]
  IN  IF StatusReadable THEN Windows(statusFile.limits, statusFile.mtime)
      ELSE IF cache # None THEN Windows(cache.limits, cache.at)
      ELSE <<>>

\* The quota collector keeps no cursor: what it reads, it stores again on every pass.
\* The model leaves out the passes of a step that read what the last one read, and a file
\* that changes between the look at its time and the reading of its text, whose windows
\* the code stores under the earlier time.
PollQuota ==
  /\ Quiet
  /\ seen' = [at |-> clock, windows |-> QuotaSnapshots]
  /\ seen' # seen
  /\ batch' = [Stored EXCEPT !.snapshots = QuotaSnapshots]
  /\ UNCHANGED <<writes, clock, unread, statusFile, cache, tables, request, shown>>

-----------------------------------------------------------------------------
(* run_once stores usage in one transaction, then each snapshot, then each hit *)

\* insert_usage_row: (provider, dedup_key) is unique.
InsertUsage ==
  /\ batch.usage # {}
  /\ rows' = rows \o SetToSeq({r \in batch.usage :
                \A x \in Range(rows) : <<x.provider, x.key>> # <<r.provider, r.key>>})
  /\ batch' = [batch EXCEPT !.usage = {}]
  /\ UNCHANGED <<writes, clock, unread, statusFile, cache, seen, snapshots, hits, request, shown>>

InsertSnapshot ==
  /\ batch.usage = {} /\ batch.snapshots # <<>>
  /\ snapshots' = Append(snapshots, Head(batch.snapshots))
  /\ batch' = [batch EXCEPT !.snapshots = Tail(@)]
  /\ UNCHANGED <<writes, clock, unread, statusFile, cache, seen, rows, hits, request, shown>>

InsertHit ==
  /\ batch.usage = {} /\ batch.snapshots = <<>> /\ batch.hits # {}
  /\ hits' = hits \o SetToSeq({h \in batch.hits : \A i \in 1..Len(hits) : hits[i].key # h.key})
  /\ batch' = Stored
  /\ UNCHANGED <<writes, clock, unread, statusFile, cache, seen, rows, snapshots, request, shown>>

-----------------------------------------------------------------------------
(* Totals *)

\* Local midnight of a day counted from the one of `now`; a day without a midnight
\* starts now.
LocalDayStart(now, offset) ==
  LET date == (now + UtcOffset) \div Day + offset IN
  IF date \in GapDays THEN now ELSE date * Day - UtcOffset

\* The rows of a time range.
RowsIn(start, end) == {r \in Range(rows) : start <= r.at /\ r.at < end}

Today    == RowsIn(LocalDayStart(clock, 0), LocalDayStart(clock, 1))
LastWeek == RowsIn(LocalDayStart(clock, -6), LocalDayStart(clock, 1))

\* SUM over a column: rows without a cost do not count, and a sum of none is NULL.
TokensOf(some) == SumFunction([r \in some |-> r.tokens])
CostOf(some) ==
  LET priced == {r \in some : r.cost # None} IN
  IF priced = {} THEN None ELSE SumFunction([r \in priced |-> r.cost])

\* Mutant: an unknown part wins over a computed one.
PartsUnknownFirst(some) ==
  LET sources == {r.costSource : r \in some} IN
  IF "unknown" \in sources THEN "unknown" ELSE IF "computed" \in sources THEN "computed" ELSE "reported"

\* row_to_token_totals: any computed part wins, then any unknown part.
Parts(some) ==
  LET sources == {r.costSource : r \in some} IN
  IF "computed" \in sources THEN "computed"
  ELSE IF "unknown" \in sources THEN "unknown" ELSE "reported"

\* TokenTotals
TokenTotals(some) == [tokens |-> TokensOf(some), cost |-> CostOf(some), costSource |-> Parts(some)]

\* window_totals: a subscription without rows has no group.
WindowTotals(some) ==
  [s \in {r.subscription : r \in some} |-> TokenTotals({r \in some : r.subscription = s})]

\* tool_breakdown, by subscription, provider and source.
ToolBreakdown(some) ==
  LET Tool(r) == <<r.subscription, r.provider, r.source>> IN
  [t \in {Tool(r) : r \in some} |-> TokenTotals({r \in some : Tool(r) = t})]

\* The newest time per subscription and source, of <<name, time>> pairs of one table.
Newest(updates) ==
  [n \in {u[1] : u \in updates} |-> Max({u[2] : u \in {v \in updates : v[1] = n}})]

UsageUpdates == Newest({<<<<r.subscription, r.source>>, r.at>> : r \in Range(rows)})
SnapshotUpdates == Newest({<<<<s.subscription, s.source>>, s.observed>> : s \in Range(snapshots)})

\* source_updates: the newer of the two tables counts.
MergeUpdates(usage, quota) ==
  [n \in DOMAIN usage \union DOMAIN quota |->
     Max({f[n] : f \in {g \in {usage, quota} : n \in DOMAIN g}})]

-----------------------------------------------------------------------------
(* Quota *)

\* Mutant: the row stored last counts, however old what it observed is.
NewerById(i, j) == j <= i

\* Mutant: of equal observations the one stored first counts.
NewerFirstStored(i, j) ==
  IF snapshots[i].observed = snapshots[j].observed THEN i <= j
  ELSE snapshots[j].observed < snapshots[i].observed

\* ORDER BY observed_at DESC, id DESC
Newer(i, j) ==
  IF snapshots[i].observed = snapshots[j].observed THEN j <= i
  ELSE snapshots[j].observed < snapshots[i].observed

\* latest_quota: the newest snapshot of each window.
LatestQuota(subscription) ==
  LET ids == {i \in 1..Len(snapshots) : snapshots[i].subscription = subscription}
      Same(i) == {j \in ids : snapshots[j].window = snapshots[i].window}
  IN  {snapshots[i] : i \in {k \in ids : \A j \in Same(k) : Newer(k, j)}}

StaleAfter == 24 * Hour
IsStale(observed) == clock - observed > StaleAfter

\* QuotaWindow of a status answer.
QuotaWindows(subscription) ==
  {[window |-> s.window, used |-> s.used, resets |-> s.resets, observed |-> s.observed,
    stale |-> IsStale(s.observed),
    expired |-> s.resets # None /\ s.resets < clock] : s \in LatestQuota(subscription)}

\* latest_quota_hit, as a set of at most one.
LatestHit(subscription) ==
  LET ids == {i \in 1..Len(hits) : hits[i].subscription = subscription}
      After(i, j) == IF hits[i].observed = hits[j].observed THEN j <= i
                     ELSE hits[j].observed < hits[i].observed
  IN  {hits[i] : i \in {k \in ids : \A j \in ids : After(k, j)}}
=============================================================================
