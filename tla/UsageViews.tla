----------------------------- MODULE UsageViews -----------------------------
(***************************************************************************)
(* The readers of the usage store: a status request, whose queries run one *)
(* by one on the status connection without a transaction, what the status  *)
(* line, the JSON document and the Overview cards make of its answer, and  *)
(* a client that pages through usage.query, one locked query per page.     *)
(* Readers change nothing, so one at a time shows what each can see.       *)
(***************************************************************************)
EXTENDS StatusFeed

-----------------------------------------------------------------------------
(* A status request *)

Subscriptions == <<"claude", "chatgpt", "opencode-go", "other">>

Aggregates == <<<<"today">>, <<"last_7d">>, <<"by_tool">>, <<"usage">>, <<"snapshots">>>>

QuotaAndHit(s) == <<<<"quota", s>>, <<"hit", s>>>>

\* Mutant: the week is read before the day.
StepsWeekFirst ==
  <<<<"last_7d">>, <<"by_tool">>, <<"today">>, <<"usage">>, <<"snapshots">>>>
  \o QuotaAndHit("claude") \o QuotaAndHit("chatgpt") \o QuotaAndHit("opencode-go")
  \o <<<<"any", "other">>>> \o QuotaAndHit("other")

\* subscription_statuses, in the order of its queries.
Steps ==
  Aggregates \o QuotaAndHit("claude") \o QuotaAndHit("chatgpt") \o QuotaAndHit("opencode-go")
  \o <<<<"any", "other">>>> \o QuotaAndHit("other")

NoAnswer == [today |-> <<>>, last_7d |-> <<>>, by_tool |-> <<>>, updates |-> <<>>,
             quota |-> <<>>, hit |-> <<>>, listed |-> {"claude", "chatgpt", "opencode-go"}]

Ask ==
  /\ request = NoRequest
  /\ request' = [kind |-> "status", next |-> 1, answer |-> NoAnswer]
  /\ UNCHANGED <<clock, unread, statusFile, cache, seen, writes, batch, tables, shown>>

At(step) ==
  /\ request.kind = "status" /\ request.next <= Len(Steps)
  /\ Steps[request.next] = step
  /\ UNCHANGED <<clock, unread, statusFile, cache, seen, writes, batch, tables, shown>>

Read(field, value) ==
  request' = [request EXCEPT !.next = @ + 1, !.answer[field] = value]

ReadToday == At(<<"today">>) /\ Read("today", WindowTotals(Today))
ReadWeek  == At(<<"last_7d">>) /\ Read("last_7d", WindowTotals(LastWeek))
ReadTools == At(<<"by_tool">>) /\ Read("by_tool", ToolBreakdown(LastWeek))

ReadUsageUpdates == At(<<"usage">>) /\ Read("updates", UsageUpdates)
ReadSnapshotUpdates ==
  /\ At(<<"snapshots">>)
  /\ Read("updates", MergeUpdates(request.answer.updates, SnapshotUpdates))

\* status_for pushes what it read of one subscription.
With(f, s, value) == [x \in DOMAIN f \union {s} |-> IF x = s THEN value ELSE f[x]]

ReadQuota(s) == At(<<"quota", s>>) /\ Read("quota", With(request.answer.quota, s, QuotaWindows(s)))
ReadHit(s)   == At(<<"hit", s>>) /\ Read("hit", With(request.answer.hit, s, LatestHit(s)))

\* StatusAggregates::has_data, and other_has_data.
HasData(a, s) ==
  \/ s \in DOMAIN a.today \union DOMAIN a.last_7d
  \/ \E n \in DOMAIN a.by_tool \union DOMAIN a.updates : n[1] = s

FindOther ==
  /\ At(<<"any", "other">>)
  /\ IF HasData(request.answer, "other") \/ LatestHit("other") # {}
     THEN Read("listed", request.answer.listed \union {"other"})
     ELSE request' = [request EXCEPT !.next = Len(Steps) + 1]

CollectorId(source) ==
  CASE source = "log" -> "claude"
    [] source = "claude-quota" -> "claude_quota"
    [] source = "codex-rollout" -> "codex"
    [] source = "pi-session" -> "pi"
    [] source = "opencode-db" -> "opencode"

EmptyTotals == [tokens |-> 0, cost |-> 0, costSource |-> "reported"]

\* status_for
StatusFor(a, s) ==
  LET Total(f) == IF s \in DOMAIN f THEN f[s] ELSE EmptyTotals
      Mine(f) == {n \in DOMAIN f : n[1] = s}
  IN  [subscription |-> s, quota |-> a.quota[s],
       today |-> Total(a.today), last_7d |-> Total(a.last_7d),
       by_tool |-> {[provider |-> n[2], source |-> n[3], totals |-> a.by_tool[n]] :
                      n \in Mine(a.by_tool)},
       last_quota_hit |-> a.hit[s],
       sources |-> {[collector |-> CollectorId(n[2]), last |-> a.updates[n],
                     stale |-> IsStale(a.updates[n])] : n \in Mine(a.updates)}]

Answered == request.kind = "status" /\ request.next > Len(Steps)

\* StatusResponse::subscriptions
Answer ==
  [i \in 1..Cardinality(request.answer.listed) |-> StatusFor(request.answer, Subscriptions[i])]

\* labelled_windows: the newest window per label.
Label(window) ==
  CASE window \in {"five_hour", "primary"} -> "5h"
    [] window \in {"seven_day", "secondary"} -> "7d"
    [] OTHER -> None

LabelledWindows(quota) ==
  {w \in quota : /\ Label(w.window) # None
                 /\ \A v \in quota : Label(v.window) = Label(w.window) => v.observed <= w.observed}

\* The client prints the answer.
Deliver ==
  /\ Answered
  /\ shown' = [s \in request.answer.listed |->
                 {[label |-> Label(w.window), observed |-> w.observed] :
                    w \in LabelledWindows(request.answer.quota[s])}]
  /\ request' = NoRequest
  /\ UNCHANGED <<clock, unread, statusFile, cache, seen, writes, batch, tables>>

\* fetch_status: no answer in two seconds is a daemon that is down.
GiveUp ==
  /\ request.kind = "status"
  /\ request' = NoRequest
  /\ UNCHANGED <<clock, unread, statusFile, cache, seen, writes, batch, tables, shown>>

-----------------------------------------------------------------------------
(* usage.query *)

\* UsageQueryParams: a time range and a model, or None.  The ids of the rows that match.
Matches(filter) ==
  {i \in DOMAIN rows : /\ filter.from # None => (filter.from <= rows[i].at /\ rows[i].at <= filter.to)
                       /\ filter.model # None => rows[i].model = filter.model}

Everything == [from |-> None, to |-> None, model |-> None]

\* ORDER BY timestamp DESC.  The statement leaves open in which order rows of one time
\* come; the scan that answers it, backwards through the index on the time, gives them by
\* falling id.
Ahead(j, i) == rows[i].at < rows[j].at \/ (rows[i].at = rows[j].at /\ i < j)

Place(i, some) == Cardinality({j \in some : Ahead(j, i)})

\* Mutant: a page starts one row late.
PageLate(filter, offset) ==
  {i \in Matches(filter) : Place(i, Matches(filter)) \in (offset + 1)..(offset + PageSize)}

\* LIMIT and OFFSET
Page(filter, offset) ==
  {i \in Matches(filter) : Place(i, Matches(filter)) \in offset..(offset + PageSize - 1)}

OpenPages ==
  /\ request = NoRequest
  /\ request' = [kind |-> "pages", offset |-> 0, got |-> {}, expected |-> Matches(Everything),
                 done |-> FALSE]
  /\ UNCHANGED <<clock, unread, statusFile, cache, seen, writes, batch, tables, shown>>

\* The client asks on after a full page.
ReadPage ==
  /\ request.kind = "pages" /\ ~ request.done
  /\ LET page == Page(Everything, request.offset) IN
     request' = [request EXCEPT !.offset = @ + Cardinality(page), !.got = @ \union page,
                                !.done = Cardinality(page) < PageSize]
  /\ UNCHANGED <<clock, unread, statusFile, cache, seen, writes, batch, tables, shown>>

ClosePages ==
  /\ request.kind = "pages"
  /\ request' = NoRequest
  /\ UNCHANGED <<clock, unread, statusFile, cache, seen, writes, batch, tables, shown>>

-----------------------------------------------------------------------------
(* usage.summary and models.compare *)

\* One row of a report.
Aggregate(some) ==
  [tokens |-> TokensOf(some), cost |-> CostOf(some), requests |-> Cardinality(some),
   sessions |-> Cardinality({r.session : r \in some} \ {None})]

\* A group's cost is read as a number: one without any price fails the whole answer.
Report(groups) ==
  IF \E g \in groups : CostOf(g) = None THEN None ELSE [g \in groups |-> Aggregate(g)]

\* get_summary: by UTC date and model.
Summary(filter) ==
  LET matching == {rows[i] : i \in Matches(filter)}
      SameDay(r) == {q \in matching : q.at \div Day = r.at \div Day /\ q.model = r.model}
  IN  Report({SameDay(r) : r \in matching})

\* get_model_stats
ModelStats(filter) ==
  LET matching == {rows[i] : i \in Matches(filter)}
  IN  Report({{q \in matching : q.model = r.model} : r \in matching})

-----------------------------------------------------------------------------
(* What is printed *)

\* format_window
FormatWindow(w) == [label |-> Label(w.window), pct |-> w.used, unsure |-> w.stale]

AllSourcesStale(status) == status.sources # {} /\ \A s \in status.sources : s.stale

\* cost_text: nothing for an unknown cost, marked when any part was computed.
CostText(totals, stale) ==
  IF totals.cost = None THEN {}
  ELSE {[cost |-> totals.cost, approximate |-> totals.costSource = "computed", unsure |-> stale]}

\* recent_limit_hit: when it resets, or else when it was hit.
RecentLimitHit(status, now) ==
  {IF h.resets # None THEN h.resets ELSE h.observed :
     h \in {x \in status.last_quota_hit : now - x.observed < 24 * Hour}}

\* segment_parts of the status line.
SegmentParts(status, now) ==
  [windows |-> {FormatWindow(w) : w \in LabelledWindows(status.quota)},
   cost |-> IF status.subscription = "opencode-go"
            THEN CostText(status.today, AllSourcesStale(status)) ELSE {},
   limit |-> RecentLimitHit(status, now)]

\* format_line: `other` and subscriptions with nothing to say are left out.
FormatLine(statuses, now) ==
  LET Says(status) == SegmentParts(status, now) IN
  {[tag |-> st.subscription, parts |-> Says(st)] :
     st \in {x \in Range(statuses) :
               /\ x.subscription # "other"
               /\ Says(x) # [windows |-> {}, cost |-> {}, limit |-> {}]}}

\* status_json: a key for each of the three, null without data; `other` only when listed.
StatusJson(statuses) ==
  LET names == {"claude", "chatgpt", "opencode-go"} \union {st.subscription : st \in Range(statuses)} IN
  [name \in names |-> {st \in Range(statuses) : st.subscription = name}]

\* render_card: the gauges with their reset lines, and the totals.
Card(status) ==
  [gauges |-> {[label |-> Label(w.window), pct |-> w.used, dimmed |-> w.expired, unsure |-> w.stale,
                reset |-> IF w.expired THEN "expired" ELSE w.resets] :
                  w \in LabelledWindows(status.quota)},
   today |-> CostText(status.today, FALSE), last_7d |-> CostText(status.last_7d, FALSE)]

-----------------------------------------------------------------------------
Next ==
  \/ WriteStatus \/ RemoveStatus \/ WriteCache \/ Tick
  \/ \E e \in Entries : Collect(e)
  \/ PollQuota
  \/ InsertUsage \/ InsertSnapshot \/ InsertHit
  \/ Ask \/ ReadToday \/ ReadWeek \/ ReadTools \/ ReadUsageUpdates \/ ReadSnapshotUpdates
  \/ \E s \in Range(Subscriptions) : ReadQuota(s) \/ ReadHit(s)
  \/ FindOther \/ Deliver \/ GiveUp
  \/ OpenPages \/ ReadPage \/ ClosePages

Spec == Init /\ [][Next]_vars

-----------------------------------------------------------------------------
(* Properties *)

\* The window printed for a label never goes back to an older observation, though rollouts
\* are read in any order and the quota collector stores what it reads again and again
\* (latest_quota, labelled_windows).
QuotaNeverGoesBack ==
  [][\A s \in DOMAIN shown : \A w \in shown[s] :
       s \in DOMAIN shown' /\ \E v \in shown'[s] : v.label = w.label /\ w.observed <= v.observed]_shown

\* In one JSON document the day is no more than the week, the week no more than its tools
\* together, and each of those tools is among the sources, though rows are stored between
\* the queries (subscription_statuses).
TotalsNest ==
  Answered => LET json == StatusJson(Answer) IN \A name \in DOMAIN json : \A st \in json[name] :
    /\ st.today.tokens <= st.last_7d.tokens
    /\ st.last_7d.tokens <= SumFunction([tool \in st.by_tool |-> tool.totals.tokens])
    /\ \A tool \in st.by_tool : \E src \in st.sources : src.collector = CollectorId(tool.source)

\* A window that had reset when the quota collector last read it has no percentage, in the
\* row that counts (window_snapshot, latest_quota).
ResetClearsPercentage ==
  batch = Stored =>
    \A w \in LatestQuota("claude") :
      /\ w.resets # None /\ w.resets <= seen.at
      /\ \E i \in 1..Len(seen.windows) :
           seen.windows[i].window = w.window /\ w.observed <= seen.windows[i].observed
      => w.used = None

\* What the line and the cards print as a subscription's cost.
CostsPrinted(status) ==
  Card(status).today \union Card(status).last_7d
    \union UNION {segment.parts.cost : segment \in FormatLine(<<status>>, clock)}

\* A cost that no tool reported carries the mark in the line and in the cards, also beside
\* rows without any cost, and none carries it where nothing was computed
\* (row_to_token_totals, cost_text).
ApproximateIsMarked ==
  Answered => \A status \in Range(Answer) :
    LET sources == {r.costSource : r \in {q \in Range(rows) : q.subscription = status.subscription}} IN
    \A text \in CostsPrinted(status) :
      /\ text.approximate => "computed" \in sources
      /\ text.cost > 0 /\ "reported" \notin sources => text.approximate

\* A client that pages until a page is not full has got every row that was stored when it
\* began (query_usage).
PagesMissNothing ==
  request.kind = "pages" /\ request.done => request.expected \subseteq request.got

\* A model without a price keeps its tokens in the reports (get_summary).
UnpricedModelsReported == Summary(Everything) # None /\ ModelStats(Everything) # None
=============================================================================
