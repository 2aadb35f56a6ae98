---------------------------- MODULE MCUsageViews ----------------------------
\* Entries of two tools with reported, computed and unknown costs, six days of history, and
\* a status file whose window resets while the model runs.  Noon of day 8 is the start.
EXTENDS UsageViews

Noon == 8 * Day + 12 * Hour

MCPrices == (<<"opus">> :> 2) @@ (<<"gpt">> :> 1)

Entry(source, at, key, model, provider, tokens) ==
  [source |-> source, at |-> at, key |-> key, model |-> model, provider |-> provider,
   tokens |-> tokens, reported |-> None, session |-> None, error |-> None, limits |-> <<>>]

Limit(window, used, resets) == [window |-> window, used |-> used, resets |-> resets]

Codex  == [Entry("codex-rollout", Noon - 6 * Day, "codex", <<"gpt", "5">>, "openai-codex", 2)
             EXCEPT !.limits = <<Limit("primary", 50, None)>>]
Later  == [Entry("codex-rollout", Noon, "later", <<"new">>, "openai-codex", 1)
             EXCEPT !.limits = <<Limit("primary", 10, Noon + 5 * Hour)>>]
Other  == [Entry("pi-session", Noon + 12 * Hour, "other", <<"claude", "opus">>, "mystery", 1)
             EXCEPT !.reported = 3]
Hit    == [Entry("pi-session", Noon + 12 * Hour, "hit", <<"opus">>, "opencode-go", 0)
             EXCEPT !.error = [says |-> "5-hour", text |-> <<<<1, "hour">>, <<30, "min">>>>]]

MCEntries == {Codex, Later, Other, Hit}
Lim == <<Limit("five_hour", 40, Noon + 5 * Hour)>>
MCStatusLimits == {None, Lim}
MCCaches == {[at |-> Noon - Hour, limits |-> <<Limit("five_hour", 70, Noon + 5 * Hour)>>]}
MCEnd == Noon + 12 * Hour
MCStep == 12 * Hour
\* The first day has no midnight, and is over after the step.
MCGapDays == {8}
=============================================================================
