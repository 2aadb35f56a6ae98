---------------------------- MODULE UsageRecords ----------------------------
(***************************************************************************)
(* What the collectors make of one entry of a tool's log: a usage record,  *)
(* quota snapshots, a quota hit, or nothing.  Pure functions of the entry; *)
(* how entries are found, read and stored is in CollectorPass, JsonlTail,  *)
(* CodexRollout and OpencodeCursor.                                        *)
(*                                                                         *)
(* An entry is a record [source, at, key, model, provider, tokens,         *)
(* reported, session, error, limits].  tokens stands for the four counts,  *)
(* at is in minutes, a model id and a price key are sequences of name      *)
(* parts.                                                                  *)
(* Optional results are sets with at most one element.                     *)
(***************************************************************************)
EXTENDS Integers, Sequences, FiniteSets, SequencesExt

CONSTANTS
  None,             \* an absent field
  Prices            \* PriceBook: what a token costs, by price key

Source       == {"log", "claude-quota", "codex-rollout", "pi-session", "opencode-db"}
Provider     == {"anthropic", "openai-codex", "opencode-go", "other"}
Subscription == {"claude", "chatgpt", "opencode-go", "other"}

ASSUME PriceAssumption ==
  /\ None \notin Int
  /\ \A key \in DOMAIN Prices : key # <<>> /\ Prices[key] \in Nat

-----------------------------------------------------------------------------
(* Providers, subscriptions and prices *)

\* FromStr for Provider: a name nobody knows is `other`.
ProviderNamed(name) == IF name \in Provider THEN name ELSE "other"

SubscriptionFor(source, provider) ==
  CASE source \in {"log", "claude-quota"} -> "claude"
    [] source = "codex-rollout" -> "chatgpt"
    [] source = "opencode-db" -> "opencode-go"
    [] source = "pi-session" /\ provider = "openai-codex" -> "chatgpt"
    [] source = "pi-session" /\ provider = "opencode-go" -> "opencode-go"
    [] OTHER -> "other"

\* The keys that occur in a model id, and the longest of them.
Matching(model) ==
  {key \in DOMAIN Prices :
     \E i \in 1..Len(model) : i + Len(key) - 1 <= Len(model)
                              /\ SubSeq(model, i, i + Len(key) - 1) = key}

Lookup(model) ==
  {key \in Matching(model) : \A other \in Matching(model) : Len(other) <= Len(key)}

\* PriceBook::cost: nothing for a model no key matches.
Priced(model, tokens) ==
  IF Lookup(model) = {} THEN None ELSE tokens * Prices[CHOOSE key \in Lookup(model) : TRUE]

CostSource(cost, reported) ==
  IF reported # None THEN "reported" ELSE IF cost # None THEN "computed" ELSE "unknown"

-----------------------------------------------------------------------------
(* Usage records *)

\* cost is what the tool reports, or else what the prices say of it.
Record(e, provider, cost) ==
  [source |-> e.source, at |-> e.at, key |-> e.key, model |-> e.model,
   provider |-> provider, subscription |-> SubscriptionFor(e.source, provider),
   tokens |-> e.tokens, cost |-> cost, costSource |-> CostSource(cost, e.reported),
   session |-> e.session]

FutureSlack == 5

\* parse_log_line: no tokens is no usage, and a line dated too far ahead of the clock is
\* dropped for good.
ClaudeRecord(e, now) ==
  IF e.tokens > 0 /\ e.at <= now + FutureSlack THEN {Record(e, "anthropic", Priced(e.model, e.tokens))}
  ELSE {}

CodexRecord(e) ==
  IF e.tokens > 0 THEN {Record(e, "openai-codex", Priced(e.model, e.tokens))} ELSE {}

\* Pi reports costs for some providers only; OpenCode's are never computed.
PiRecord(e) ==
  LET cost == IF e.reported # None THEN e.reported ELSE Priced(e.model, e.tokens) IN
  IF e.tokens > 0 THEN {Record(e, ProviderNamed(e.provider), cost)} ELSE {}

OpencodeRecord(e) ==
  IF e.tokens > 0 THEN {Record(e, ProviderNamed(e.provider), e.reported)} ELSE {}

UsageOf(e, now) ==
  CASE e.source = "log" -> ClaudeRecord(e, now)
    [] e.source = "codex-rollout" -> CodexRecord(e)
    [] e.source = "pi-session" -> PiRecord(e)
    [] e.source = "opencode-db" -> OpencodeRecord(e)

-----------------------------------------------------------------------------
(* Quota snapshots *)

Snapshot(source, limit, used, observed) ==
  [subscription |-> SubscriptionFor(source, "other"), window |-> limit.window, used |-> used,
   resets |-> limit.resets, source |-> source, observed |-> observed]

\* push_rate_limits: the windows a rollout line names, as it names them.
RateLimits(e) ==
  IF e.source # "codex-rollout" THEN <<>>
  ELSE [i \in 1..Len(e.limits) |->
          Snapshot("codex-rollout", e.limits[i], e.limits[i].used, e.at)]

\* window_snapshot and read_cached_utilization: a reset that has passed leaves no
\* percentage.
ClaudeWindow(limit, observed, now) ==
  Snapshot("claude-quota", limit,
           IF limit.resets # None /\ limit.resets <= now THEN None ELSE limit.used, observed)

-----------------------------------------------------------------------------
(* Quota hits of Pi messages *)

UnitMinutes == [day |-> 24 * 60, hour |-> 60, min |-> 1]

\* parse_reset_duration over <<number, word>> pairs: words that are no unit are skipped,
\* and a sum of zero is no duration.
ResetMinutes(text) ==
  LET Minutes(pair) == IF pair[2] \in DOMAIN UnitMinutes THEN pair[1] * UnitMinutes[pair[2]] ELSE 0
      total == FoldLeft(LAMBDA sum, pair : sum + Minutes(pair), 0, text)
  IN  IF total > 0 THEN total ELSE None

GoPeriods == {"5-hour", "weekly", "monthly"}

\* classify_limit: e.error is what the message says and the text after "Resets in" or
\* "Try again in".  A throttled request is no limit.
Classify(error) ==
  CASE error.says \in GoPeriods ->
         {[period |-> IF error.says = "5-hour" THEN "5h" ELSE error.says, text |-> error.text]}
    [] error.says = "GoUsageLimitError" -> {[period |-> None, text |-> <<>>]}
    [] error.says = "The usage limit has been reached" -> {[period |-> None, text |-> <<>>]}
    [] error.says = "hit your ChatGPT usage limit" -> {[period |-> None, text |-> error.text]}
    [] OTHER -> {}

\* quota_hit: only plans a limit can name.
HitOf(e) ==
  IF e.source # "pi-session" \/ e.error = None THEN {}
  ELSE LET subscription == SubscriptionFor("pi-session", ProviderNamed(e.provider)) IN
       {[subscription |-> subscription, period |-> limit.period, observed |-> e.at, key |-> e.key,
         resets |-> IF ResetMinutes(limit.text) = None THEN None
                    ELSE e.at + ResetMinutes(limit.text)] :
          limit \in {l \in Classify(e.error) : subscription \in {"chatgpt", "opencode-go"}}}
=============================================================================
