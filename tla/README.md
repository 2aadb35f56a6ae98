# claude-tui in TLA+

`claude-daemon` collects the usage that coding agents (Claude Code, Codex, pi, OpenCode)
leave in log files and databases, keeps it in SQLite and serves it over a Unix socket;
`claude-tui` shows it.  This directory specifies how that works, checks it with TLC and
proves the part that everything else rests on with TLAPS.

- [Inventory](#inventory): the parts of the system, their state, operations and hazards
- [Modules](#modules): which module models what, and how it corresponds to the code
- [Runs](#runs): what is checked, within which bounds, and what it shows
- [Fairness](#fairness)
- [Proofs](#proofs)
- [What the model found](#what-the-model-found)
- [Not modelled](#not-modelled)
- [Plan](#plan)

Paths below are relative to `src/`; `daemon/` stands for `crates/claude-daemon/src/`
and `tui/` for `crates/claude-tui/src/`.

## Inventory

| Part | State | Operations | What makes it correct |
| --- | --- | --- | --- |
| Collection loop, `daemon/collectors/mod.rs` | stored cursors; in memory, the output of the pass | `run_loop` polls every collector in turn; `run_once` loads a cursor, collects, stores records, snapshots, hits, then cursors | nothing below a cursor is missing, nothing is counted twice, one collector's failure does not stop the others, every line is stored in the end |
| JSONL reader, same file | none (offset in, offset out) | `read_jsonl_from`, `walk_files` | whole lines only, each once, across partial writes and replaced files |
| Claude and pi collectors, `daemon/collectors/{claude,pi}.rs` | none | parse lines into records and quota hits | a dedup key per message |
| Codex collector, `codex.rs` | none | parse a rollout's new lines in one of two formats | a response counted once, under the right model |
| OpenCode collector, `opencode.rs` | a cursor per table: the largest creation time read | read two tables of a database OpenCode writes | every finished message counted once |
| Claude quota collector, `claude_quota.rs` | none, not even a cursor | read a status file, or else a cache, in every pass | the newest observation counts; a window that has reset has no percentage |
| Storage, `daemon/storage.rs` | SQLite tables: `usage_records`, `quota_snapshots`, `quota_hits`, `collector_cursors`, `sessions`, `budget_config` | batch and single inserts, `rebuild_sessions`, migration, status and report queries | idempotent inserts, sessions that follow from the records, migrated data counted once |
| IPC server, `daemon/ipc.rs` | socket path, a task per connection | bind, accept, `handle_client`, `handle_request` | one answer per request, in order; the path leads to the daemon that serves |
| Daemon process, `daemon/main.rs` | tasks, cancellation token | start, signal, shutdown | a signal ends it; the service manager keeps one serving |
| TUI client and refresh, `tui/client.rs`, `tui/app.rs` | one kept stream; the data on the screen; a connection status | `call`, `reconnect`, `refresh_data`, keys | an answer belongs to its request; the screen recovers and says whether it is current |
| Status command, `tui/{main,status_line,status_json,windows}.rs` | none between calls | one request with a time-out, printed as a line or a document | what is printed belongs together and is marked when it is old or computed |
| Prices and reset texts, `claude-common/src/config.rs`, `daemon/collectors/reset_text.rs` | none | look-ups and parsing | the most specific key; a sum of units |
| Rendering, configuration files, command line | none | formatting, reading | output and input without state |

How they interact.  Agents append to files, and OpenCode to its database, without
knowing of the daemon.  The collectors run in one tokio task that takes the storage
mutex for a whole `run_once` and the rebuild after it; the IPC tasks take the same mutex
per request, except `status`, which reads over a second, read-only connection.  `main`
awaits first the server, then the collector task; both watch one `CancellationToken`.
The TUI makes its calls one after the other on one stream.

What is hard: each storage call commits on its own while the process may die between any
two of them; the files change under the reader; a pass decides from what it just read
about a file it saw only part of; creation times are not the order in which rows become
readable; a late answer on a kept stream; two processes and one socket path, or one
database to migrate; a status put together by a dozen queries without a transaction; lines
that a client writes before it has read the answers to the earlier ones.
`PROJECT.json` lists each hazard at its line with the properties aimed at it.

## Modules

| Module | Models | Read with |
| --- | --- | --- |
| `UsageLedger` | what ingestion promises: written usage is recorded once, in batches, for good | `CollectorPass` |
| `CollectorPass` | `run_loop`, `run_once`, the writes of `Storage`, `rebuild_sessions` | implements `UsageLedger` |
| `LineLog` | what tailing promises: a growing sequence of lines of which a prefix is taken | `JsonlTail` |
| `JsonlTail` | `read_jsonl_from`, byte by byte | implements `LineLog` |
| `CodexRollout` | `parse_rollout_lines` and the cursor it lives on | |
| `OpencodeCursor` | `OpencodeDbCollector` and the database it reads | |
| `TuiSession` | `refresh_data`, `DaemonClient::call`, `handle_client` | |
| `DaemonState` | the processes and the socket path, and what must hold of them | extended by `DaemonLifecycle` |
| `DaemonLifecycle` | `main`, `IpcServer::run`, the cancellation of `run_loop` | |
| `LineService` | what a connection promises: each line answered once, in turn, under its id; a budget that is one register | `IpcService` |
| `IpcService` | `handle_client`, `handle_request`, the two database mutexes | implements `LineService` |
| `UsageRecords` | what each collector makes of an entry: rows, quota snapshots, quota hits, prices | `StatusFeed` |
| `StatusFeed` | the collectors' stores, the quota collector, the queries behind a status | extends `UsageRecords` |
| `UsageViews` | a status request, what is printed of it, `usage.query` page by page, the reports | extends `StatusFeed` |
| `Migration` | `Storage::new`, `migrate_v1`, `migrate_v2`, the first pass after them | |
| `CollectorPassProofs`, `JsonlTailProofs`, `CodexRolloutProofs`, `OpencodeCursorProofs`, `TuiSessionProofs`, `IpcServiceProofs`, `MigrationProofs` | the theorems about the module each is named for | |
| `DaemonProofs` | the theorems about `DaemonLifecycle` and `UsageViews`: what keeps the daemon reachable and what its readers see | |
| `MCCollectorPass`, `MCCodexRollout`, `MCTuiSession`, `MCIpcService`, `MCUsageViews` | instances for TLC; the other modules take their constants from the `.cfg` alone | |

**CollectorPass.**  `pc` is the place in `run_loop`/`run_once` of the one collector task;
`turn` the collector.  A step is one file read or one commit: `InsertUsageBatch` is one
transaction, `InsertQuotaSnapshot`, `InsertQuotaHit` and `SetCursor` one statement each,
and `DeleteSessions`/`InsertSessions` are two because `rebuild_sessions` runs two
statements outside a transaction.  `PassFails` is the `?` of any of these calls;
`SkipFile` the `continue` after an unreadable file; `Crash` loses everything but the
tables.  `CallLeft` says that the phase has a call left that could fail.  Files, snapshots,
hits and cursors are taken in any order where the code uses path or key order: more
behaviours, not fewer.  `Carries` says which lines a file may hold.  `orphans` is a history
variable: when a pass fails or dies, the records behind the offsets it had persisted
(`Unsummarised`) are collected by no retry, so that no rebuild of the sessions is owed to
them any more.  A usage table is a function from dedup
keys to numbers of rows, so that a double count can be expressed.

**JsonlTail** has the one thing `CollectorPass` assumes away: bytes.  The reader is three
steps, because `read_jsonl_from` looks at the length (`Open`), later reads to the end
(`Read`), and `run_once` stores and persists (`Store`, one step here: its parts are in
`CollectorPass`).  `offsetGen`, `startGen` and `overtaken` are history variables: they
say in which life of the file an offset was found, and which life had already outgrown
an older offset when a pass resumed there.  Nothing in the code can notice that last
case, so the properties except it by name.  The reader implements `LineLog`, the view
`CollectorPass` has of a file; a replacement is `LineLog`'s `Replace`, and a life of the
file that was overtaken counts as no life at all (`Followed`).

**CodexRollout** keeps line widths (two for text, one for an empty line) because the
fallback dedup key is a byte offset.  `Chunk`, `LineOffset`, `HasUsageRecords` and
`ModelAt` are computed from one pass's lines, as in the code.  `types`, chosen at the
start from `Versions`, is the set of line kinds the version of Codex that owns the file
writes; the bounds depend on it.  `apart` is a history variable: the responses of which one
pass read the usage record and a later one the count.

**OpencodeCursor** lets OpenCode create, finish and migrate rows between any two steps of
a pass, in either table, with any creation time, as sessions write side by side.  A row
without tokens may get them later or never.  `overtaken` is a history variable: the
messages that got their tokens when the cursor of the table, or the pass under way, had
been taken past them (`Passed`) by a row that moves it (`Moves`).

**TuiSession.**  `stream`, `peer`, `inbox`, `outbox` are one connection; dropping it makes
it disappear, as the daemon's task then sees end of file.  The answer carries the
version of the database it was computed from and the id of its request.  The code does
not compare ids, and neither does the model: `StreamInStep` is what makes that right.
`CallReturns` checks the method because each result type has fields the others lack.

**DaemonLifecycle.**  `path` is what lies at the socket path: nothing, a stale file, or a
live daemon's socket.  Any process may be started at any time; `LaunchAgent` is the one
that launchd starts again.  `evicted` is a history variable: the daemons at work whose
socket another one has removed.

**IpcService.**  A connection is what its client has written (`sent`), what of it the
handler has not read (`unread`), and the answers so far.  A line has a size, so that
`read_request_line` can take a part of an over-long one, and may be unreadable, of an
unknown method or with unusable parameters; `ReadTooLong`, `ReadUnreadable`,
`ReadRejected` and `ReadRequest` are the branches of `handle_client`.  `waiting` is the queue
of the writer's mutex, in which the collectors' pass stands too; `reader` holds the one
of the status connection.  The lock of the collectors' state is only ever held for a copy
and is left out.  `LineService` is the same connection without sizes, locks and control
points.  Its `Answers` lists what an answer may be; the refinement mapping counts a
connection as over when its handler is.

**UsageRecords** has no variables: an entry of a log is a record, and operators give the
row, snapshots and hits it becomes.  A model id and a price key are sequences of name
parts, since a key matches a model when it occurs in it.  `CostSource` says who gave a
cost: the tool, the price book, or nobody.

**StatusFeed and UsageViews.**  `batch` is what `run_once` has still to store, first the
usage in one transaction, then a statement per snapshot and hit.  A status request goes
through `Steps`, the queries of `subscription_statuses` in their order; each reads the
tables as they are then.  `shown` remembers the windows last printed.  Time is in minutes
and moves in steps of half a day, the queries of one request within one moment, as
the client waits two seconds at most.  What the status line, the JSON document and the
Overview cards say is computed from the answer (`FormatLine`, `StatusJson`, `Card`).

**Migration.**  `db` is the database as committed and `work` as the transaction in it
sees it.  `migrate_v1` is a statement a step, as its batch has no transaction;
`migrate_v2` has one.  A daemon reads the version before it gets the write lock, so that
two may both set out to migrate.  `Collect` is the first pass over a log that the older
version had counted.

## Runs

| Run | Bounds | What it shows |
| --- | --- | --- |
| `CollectorPass_live` | 2 collectors, one with files of 2 lines and of 1, the other with a file of 1; 1 usage key, 1 quota value, 1 hit, noise; 1 fault anywhere, 1 crash | no loss below a cursor, no double count, snapshots repeat only on a retry, tables and offsets only grow; every line is stored in the end and the sessions follow, but for orphans; refinement of `UsageLedger` |
| `JsonlTail_rewrite` | 5 bytes a life, lines up to 2 bytes, 1 rewrite, 1 failed pass | whole lines, each once, all of them; refinement of `LineLog` |
| `CodexRollout_formats` | 2 responses, 2 models, 1 failed pass; old format: 5 lines; new format: 4 lines and 1 cut-back; both: 4 lines | each response once, but for counts read apart, under the right model or none, none lost |
| `OpencodeCursor_tables` | 3 messages, 2 times, 1 failure | every message once, but for those overtaken |
| `DaemonLifecycle_faults` | 2 processes, 2 faults, 2 signals, 2 kills | whoever serves is reachable or was evicted; signals end the process; without faults and evictions a daemon serves again |
| `TuiSession_faults` | 1 timeout, 2 deaths, database versions 0 to 2, ids modulo 3, error and over-long answers | calls and answers stay in step; status is current; every panel recovers |
| `IpcService_pipelined` | 2 clients, one with two lines and one with one; lines of 2 or 4 bytes with a cap of 2, 1 database error, any number of collector passes | refinement of `LineService`; status never waits for a collector; every line gets its answer |
| `UsageViews_live` | 4 entries of 2 tools (Codex, pi), 2 changes of the quota files, one step of half a day from a day without a midnight into the next, pages of 2 | totals nest, windows only get newer, computed costs are marked and reported ones are not, pages miss nothing |
| `Migration_starts` | 2 daemons, 2 log lines of which 1 has ids, 2 faults; a new database or one of the older version with any of the lines | version and tables agree, nothing counted is lost, keys stay, both daemons get to work |

The three runs with `expect: violation` are listed under
[What the model found](#what-the-model-found).

Some properties name an exception, each kept in a history variable, so that the run and
the proof show that nothing but the exception goes wrong.  `StoredEventuallySummarised`
excepts `orphans`: a pass that has persisted the offset of one file and fails at that of
another, or dies, ends without a rebuild, and its retry finds nothing new in the first;
and a rebuild that stops halfway leaves the table empty.  A later rebuild summarises them
all, but only new usage causes one.  `NothingBehindCursor` and `FinishedEventuallyCounted`
except `overtaken`, `ResponseCountedOnce` excepts `apart` and rows keyed by offset after a
cut-back, `ServingIsReachable` excepts `evicted`.  What happens in these cases is listed
under [What the model found](#what-the-model-found).

Others have a condition.  `EventuallyShown` is about a daemon that from
some point on has no bad answer on the stream: the over-long `usage.summary` may come
back in every refresh, and then only the status panel is promised
(`StatusEventuallyShown`).  `ServesAgain` is about daemons whose unlinks and binds do not
fail, that do not evict each other, and of which no two clean the path before either binds.
`EveryLineAnswered` is about collectors that always let go of the database.

Why these bounds are enough.  The collector's steps concern one file, key or line at a
time, and its errors need at most two of each: one persisted and one not, one stored
before the fault and one after.  That is why one collector walks two files.  One fault and one crash give every prefix of a pass
followed by a full retry, and a crash inside a retry; the proofs remove the bound for
the safety part.  Five bytes give a partial line next to an empty one, an over-long one, or
two others.  Four or five rollout lines separate a context, two responses and a
repetition, with room for an empty line.  Three messages give two that take turns at
overtaking and one left in the other table, and two times that they may be of one time.  In the TUI the stream is empty between calls (`StreamInStep`), so one request
looks like any other: ids only have to tell a call from the previous ones.  With two
processes each may be the earlier or the later one at the path, or at the database.
Two clients are what it takes for one to hold a mutex the other wants, and two lines for
one that is refused or unreadable before one that is not.  In `UsageViews_live` one entry lies at
the edge of the week, one in the middle and two after the only step of time, which also
passes the reset of the quota window; two of them make snapshots and a hit.  One
subscription mixes computed and unknown costs, another has a reported one; a total with
reported and computed parts, and a computed cost in the line, which prints costs of
opencode-go only, do not occur there and are covered by the proof (`Approximate`).  Nor do
equal times.  The stores of at most one batch fall into a status
request, and all of those of one batch may: that is what it takes for a total to be read
before a row and another after it.

Deadlock is checked in every run but those where the system may really stop: clients that
have no more to say and a daemon that has ended (`IpcService`), time that is up
(`UsageViews`), a database that is migrated and a log that is read (`Migration`).

## Fairness

Agents owe nothing: no fairness is assumed of a step that writes a log.  Faults, crashes,
kills, signals and timeouts are never fair.

- `CollectorPass`: `WF(Daemon)`, as the task runs on and tokio's interval ticks for ever;
  `WF(Restart)`, as launchd's `KeepAlive` restarts a dead daemon
  (`scripts/launchd/install.sh:32`).  The reader, Codex and OpenCode modules assume the
  same of their pass.
- `TuiSession`: `WF(Client)` is the TUI's loop with its 30 s refresh; `WF(Answer)`, as a
  collector pass holds the storage mutex for a while only; `WF(Restart)`.  A bounded
  number of timeouts stands for a daemon that in the end answers in time.
- `DaemonLifecycle`: weak fairness of each task of a live process and of the start of the
  launch agent by the service manager; nobody need start another.  `SF(StopCollector)`: `tokio::select!` takes a ready branch at random,
  so a cancellation that is ready in every round is not passed over for ever, but the
  tick may be ready too; the step is enabled again and again, not continuously.
- `IpcService`: `WF(Handler(c))` for each connection, as ready tasks are polled.  The
  queue of a mutex is first in, first out, as tokio's is.  Nothing is assumed of clients
  and collectors: `StatusNeverWaitsForCollectors` holds though a pass may never end.
- `Migration`: `WF(Step(d))` for each daemon: a process that runs gets on, and launchd
  starts it again.
- `UsageViews` states none: its properties are about what is seen, not about when.

## Proofs

For every set of files, collectors, keys, processes, log lines, rows and answers, and without any of the bounds of the runs:

| Theorem | States |
| --- | --- |
| `CollectorPassProofs!TypeCorrect` | `Spec => []TypeOK` |
| `CollectorPassProofs!CursorSafety` | `Spec => []CursorCoversOnlyStored` |
| `CollectorPassProofs!ExactlyOnce` | `Spec => []NoDoubleCount` |
| `CollectorPassProofs!LedgerRefinement` | `Spec => ImplementsLedger`: `CollectorPass` implements `UsageLedger!Spec` |
| `CollectorPassProofs!GrowsOnly` | `Spec => StoreOnlyGrows` |
| `CollectorPassProofs!Summarised` | `Spec => []NoSummaryForgotten`, the safety behind `StoredEventuallySummarised` |
| `CollectorPassProofs!SnapshotsBounded` | `Spec => []SnapshotsRepeatOnlyOnRetry` |
| `JsonlTailProofs!Intact` | `Spec => []LinesIntact` |
| `JsonlTailProofs!LogRefinement` | `Spec => LineFeed!Spec`: the safety part of `ImplementsLineLog` |
| `OpencodeCursorProofs!CountedOnce` | `Spec => []OneCopyPerMessage` |
| `OpencodeCursorProofs!NoneBehind` | `Spec => []NothingBehindCursor` |
| `IpcServiceProofs!ServiceRefinement` | `Spec => ImplementsService`: `IpcService` implements `LineService!Spec` |
| `MigrationProofs!Matches` | `Spec => []VersionMatchesTables` |
| `MigrationProofs!Lossless` | `Spec => NothingLost` |
| `MigrationProofs!KeysAreKept` | `Spec => KeysKept` |
| `CodexRolloutProofs!NoneLost` | `Spec => []ResponsesBelowOffsetCounted` |
| `CodexRolloutProofs!ModelRight` | `Spec => []ModelNeverWrong` |
| `CodexRolloutProofs!Once` | `Spec => []ResponseCountedOnce` |
| `DaemonProofs!TypeCorrect` | `Spec => []TypeOK` of `DaemonLifecycle` |
| `DaemonProofs!Reachable` | `Spec => []ServingIsReachable`, of `DaemonLifecycle` |
| `DaemonProofs!Complete` | `Spec => []PagesMissNothing`, of `UsageViews` as the next four |
| `DaemonProofs!Approximate` | `Spec => []ApproximateIsMarked` |
| `DaemonProofs!ResetCleared` | `Spec => []ResetClearsPercentage` |
| `DaemonProofs!NoneGoesBack` | `Spec => QuotaNeverGoesBack` |
| `DaemonProofs!Nested` | `WeekHasMidnight => (Spec => []TotalsNest)` |
| `TuiSessionProofs!TypeCorrect` | `Spec => []TypeOK` |
| `TuiSessionProofs!InStep` | `Spec => []StreamInStep` |
| `TuiSessionProofs!FreshData` | `Spec => RefreshShowsFreshData` |
| `TuiSessionProofs!StatusCurrent` | `Spec => []ConnectedIsCurrent` |

The bounds on lines, faults, timeouts and so on remain in the guards, but a theorem
holds whatever natural numbers they are.

They assume only named assumptions of the modules, which TLC evaluates in every run: in
`CollectorPass` that there is a collector and each file has one
(`CollectorsAssumption`), that the kinds of line are told apart (`LineAssumption`), and
that files carry lines (`CarriesAssumption`); in `DaemonLifecycle` that no process is called like an empty
path (`PathAssumption`); in `TuiSession` what kinds of answer there are
(`OutcomesAssumption`); in `Migration` that the value for no daemon is not one
(`MigrationAssumption`); in `JsonlTail` that a newline is not a character (`ByteAssumption`); in
`IpcService` what a script of the clients is (`ScriptAssumption`) and that the value for no
answer is not one (`NothingAssumption`); in `CodexRollout` that versions write the kinds of line
there are (`KindsAssumption`) and that a model, a response and the value for no model are told
apart (`NamesAssumption`); in `UsageRecords` and `StatusFeed` what
prices, entries and the quota files are (`PriceAssumption`, `EntryAssumption`), and that
times and page sizes are numbers (`FeedAssumption`); and that bounds are numbers
(`BoundAssumption`).
`Nested` alone has a condition on the environment as a hypothesis: the other case has the
counterexample listed below.
`WeekHasMidnight` says of the time covered that the local day six days ago has a midnight; it
holds in `UsageViews_live`, where another day has none.

*CollectorPass.*  `CursorCoversOnlyStored` is not inductive: when `SetCursor` moves the
cursor to `next[f]`, it takes the history of the pass to know that what lies below is
stored.  `IInv` adds it: while a pass runs, each line below `next[f]` is in the database
or still in the part of the output to be stored (`OutputCovers`); a phase starts only
when the earlier ones are done (`PhaseOrder`), so that at `SetCursor` the second
alternative is empty; and before the first write what lies below the loaded offset is
stored (`LoadedStored`), which is what a restart or a retry begins from.  `RecsWritten`
(collected keys come from lines) is what the refinement needs: a batch records written
keys only.  Two lemmas carry most of the weight: `LogGrows`, that a line never moves, and
`TablesGrow`, that no step takes a row away.  `GrowsOnly` adds `NextAhead`: the offset a
pass will persist is never behind the persisted one.  `SnapshotsBounded` counts: what is
stored of an observation together with what is owed of it (`Owed`: its lines above the
offset, and those a pass has in hand) is never more than its lines, taken once and once
more for each fault or crash.  Only a fault or a crash makes a pass owe again what it
stored, as it falls back to the persisted offsets.  `Summarised` rests on `Accounted`: a
stored record is in the sessions table, in a line above the persisted offset, among the
records that the pass at hand will rebuild for, or an orphan.  `SetCursor` is where a
record goes from the second to the third, for which the pass must have collected it: what
it collected are the records between the offsets it loaded and those it will persist
(`RecsOfNewLines`, `OffsetsAsLoaded`).

*DaemonLifecycle.*  `TypeOK` says that a process that has ended runs no collector, which
`Cleanup` does not look at: `Joined` carries it over from `Join`.  `Reachable` rests on
`HasSocket`, which says of a daemon from its bind, not only from its serving, that the path
is its own or that it was evicted: the mode of the file is set by path, and another daemon
may have cleaned up before that.

*TuiSession.*  `StreamInStep` is inductive with `TypeOK` alone, whatever ids are: with
`IdSpace = 1` all ids are equal and it still holds.  `AnswersFresh` adds that what lies
on the stream was computed after the refresh began, from which `FreshData` follows, and
`StatusShown` that a refresh past its first call has shown a status.

*JsonlTail.*  That whole lines are stored does not say where a pass stands.  `PassInFile`
adds that the offset it will persist begins a line of the life it read, `BelowOffset` that
a stored line of this life ends below the offset, so that the next chunk repeats none, and
`Complete` that every line below an offset is stored, or in the chunk to be stored; a life
the reader cannot tell from the one before (`overtaken`) is excepted.  The
refinement rests on the same invariant: between `Open` and `Store` the abstract log
stutters, and `Store` takes the lines between two offsets.

*OpencodeCursor.*  A cursor is the time of a row that moved it (`CursorsAtRows`), so a row
that appears, gets its tokens or is copied is ahead of the cursors or `Passed` (`NotPassed`),
and the message is overtaken then unless it had its tokens already.  `PassedIsTaken`
follows a message from the tables through the two readers to the batch: it is ahead of the
cursors the pass is going to persist in one table, or was taken from the other.
`PassedIsCounted`, the property, speaks of both tables at once too, as a message that was
not read from one may be ahead in the other.

*IpcService.*  `ReadsInTurn` says that what is unread of a connection is exactly what
follows its answered lines, or the line at hand; `WorksInTurn` that the request at hand
is the line whose turn it is; `Responds` that there is a response from the effect of a
request to its sending.  With them each branch of `handle_client` is one step of
`LineService` or a stutter; the request that the collectors or another client keep waiting
stays what it was.

*Migration.*  `VersionMatchesTables` speaks of the committed database, and a commit makes
it what the transaction worked out, so `IInv` says what that is: `Worked(n)`, what
the lock holder has made of the database it began from before its statement n.
`At(d)` is what each place of a daemon tells of the database, though it read the version
earlier and another may have migrated since: with version 2 there already, its fifth
statement fails, and it never commits.  `Committable` adds to the property that no
half-filled copy is ever committed and that a database without a version has no rows.

*CodexRollout.*  All three are statements about lines, while a pass decides about chunks,
so `IInv` relates the two.  `OffsetAtLine` says that in a file that was not cut back the
offset is where a line begins.  `RecordBefore` says that in a file with usage records a count
has the record of its response before it: the counts that a pass ignores in such a file are
therefore not lost, and `NoneLost` holds of versions that write both formats too.
`KeyFitsFormat` ties a key to a response or to an offset; `OffsetUsage` says of a row with
an offset for its key that its count is either behind the persisted offset, or will be given
the same key by the next pass.  `Once` follows from these and from `CountsOnce`, that Codex
writes a response's count once: rows of one response keyed by offset are the same row
(`OffsetRowsOnce`), and a row keyed by offset in a file with usage records is of a response
whose record an earlier pass had read (`CountsApart`).  The lemmas about `Bytes` and `LineOffset` carry the
arithmetic: bytes grow with lines, and where a line ends does not change when more are appended.

*UsageViews.*  The invariant has a part for each reader.  `Feed` says what the tables may
hold; a row with a cost says where the cost is from (`PossibleRows`), and nothing is
observed after the clock.  Tables are only appended to (`TablesGrow`), so what a query
saw stays true of them.
`Pages`: every row the client still waits for has its place in the order at the client's
offset or behind it.  New rows only move it further back (`FrontGrows`), and a page that does
not reach it is full (`PageIsFull`), because places are numbered without a gap
(`PlacesAreExact`).  `Marks`: a total in an unfinished answer is marked by the rows that are
there now, though it was computed from fewer.  `Resets`: there is a row since which
the quota collector has stored only what it read last, and the rest of that is in the batch;
so of rows that name a window and are as new, the one with the largest id is among them,
which is what the `id DESC` in `latest_quota` is for.  `Shown`: what was
printed is backed by a snapshot at least as new, and so is what an unfinished request
has read, which is never behind what was printed before it.  `Nest`: a total of an unfinished
answer is no more than what its rows add up to now, and each later query covers the rows
of the one before (`TodayInWeek`).  Its sums are over sets of rows: `SumOfPart` takes the
sum of a part from the one recursive function behind `SumFunction`, which exists for every
finite set (`SolutionExists`), and `SumOfGroups` adds up by tool (`TokensByTool`).  The place
of an induction over finite sets is taken by a smallest set for which a statement fails
(`SmallestSet`).  TLC checks these parts on `UsageViews_live`'s instance too.

Only model-checked: all liveness and the fairness in `ImplementsLineLog`, as ENABLED and
fairness are out of the prover's reach.  Every safety property of the passing runs has its
theorem.

## What the model found

Three runs refute what a document says; each has its quotation in `PROJECT.json`.

| Run | Statement | What happens |
| --- | --- | --- |
| `CodexRollout_model` | the model comes from the latest `turn_context` | each pass begins with an unknown model |
| `UsageViews_unpriced` | tokens of a model without a price are still counted, its cost is unknown | the sum of no costs is NULL and is read as a number: `usage.summary` and `models.compare` fail as a whole |
| `Migration_rescan` | Claude records are de-duplicated by `message.id` and `requestId` | migrated rows have a hash as their key, so the first pass counts the log's lines with ids again |

More that came up while modelling, with the instance that shows it, or the line.

- A rollout with `token_usage_record` and `token_count` of the same responses, as the
  fixture `rollout-new-format.jsonl` in `crates/claude-daemon/tests/fixtures/codex/`: the
  format is decided per pass, so a `token_count` one pass after its `token_usage_record` is
  counted again, though `daemon/collectors/codex.rs:90` says that a file with both formats
  is not.
  `ResponseCountedOnce` without `apart` fails in `CodexRollout_formats` with two lines and
  a pass after each.
- A row of OpenCode that gets its tokens after a younger one was read, or that is created in
  the same millisecond or behind the cursor, is never read; in the legacy table a row read
  without tokens moves the cursor past itself (`daemon/collectors/opencode.rs:143`).
  `NothingBehindCursor` without `overtaken` fails with two messages, or with one in the legacy table.
- "Clean up stale socket file" (`daemon/ipc.rs:144`) removes a live one too.  A daemon that
  takes long to join its collectors removes, with "Clean up socket file", that of a daemon
  started meanwhile.  `ServingIsReachable` without `evicted` fails in two ways, and
  `KeptServing` with it: the evicted launch agent serves on, and nothing starts it again.
- `DaemonLifecycle` with a bind that fails: the process stays up without a socket, and the
  service manager has nothing to restart.  `KeptServing` without the condition of
  `ServesAgain` fails.
- The status line has no mark for a window whose reset has passed (`FormatWindow`), while
  the card says "expired" (`Card`), and the specification that such a window is shown as
  expired, not current (`docs/specs/2026-10-20-multi-provider-usage.md:117`).  The quota
  collector clears the percentage itself (`ResetClearsPercentage`), so it is Codex's
  windows that are printed so.
- `local_day_start` falls back to the present moment on a local day without a midnight
  (`LocalDayStart`, `GapDays`), so that day's `today` has only what comes after it.  If the
  day six days ago had none, the week begins now, and has less than its last day:
  `TotalsNest` fails with one row of an hour ago and `GapDays = {2}`.
- `run_once` says that a failure leaves the stored cursor untouched
  (`daemon/collectors/mod.rs:306`), but `set_cursor` commits per key, so after a failure
  between two of them one has moved.  No record is lost, as every cursor comes after all
  data (`CursorCoversOnlyStored`).  But the retry collects nothing of the file whose cursor
  has moved, and `Ok(0)` rebuilds nothing: the stored records stay out of the sessions
  table until other usage arrives.  `StoredEventuallySummarised` without `orphans` fails
  with two files, one failing call and no crash.
- `parse_rollout_lines` says that its keys are stable across passes
  (`daemon/collectors/codex.rs:81`), but after a restart at 0 the lines are keyed from the
  old offset.
- `refresh_data` says that a failure sets the disconnected state (`tui/app.rs:209`), but
  only a failure of `status` does.
- Sessions are rebuilt only when new records arrive, so a session that was streaming then
  stays so, and one that a failed rebuild left out stays out.

## Not modelled

- Wording, layout, colours, demo data: output without state.  Which windows, costs and
  marks are printed is in `UsageViews`.
- The TUI's keys: a tab, a time range and the positions in two lists, which nothing else
  reads.
- The fields of a record that no query tells apart: the four token counts are one number,
  a project is left out.  Costs are whole numbers.
- `sessions.list`, `sessions.get` and the daily cost of the budget: queries of one
  statement each; `IpcService` has them as answers that may fail.
- SQLite: a statement or transaction is atomic and durable, and may fail as a whole.
- Reading the configuration and price files, paths and the command line: once, at the start.
- The umask around `bind` and file modes.

## Plan

Done: the modules above, and the theorems listed under [Proofs](#proofs).

Left, in this order.

1. `sessions.list` and the status that `rebuild_sessions` gives a session, in `StatusFeed`.
2. The keys of the TUI.
3. Of the liveness properties, the steps that a proof needs of the invariants: what is enabled
   until it is taken, and a measure that falls.
