----------------------------- MODULE UsageLedger -----------------------------
(***************************************************************************)
(* What the ingestion of usage promises its readers, whatever collectors,  *)
(* offsets, retries and crashes lie behind it: agents write usage, and the *)
(* ledger records each piece of it once, in batches, and never changes     *)
(* what it recorded.                                                       *)
(***************************************************************************)
EXTENDS Naturals

CONSTANT Keys    \* dedup keys of usage records

VARIABLES
  written,       \* keys whose line an agent has finished
  ledger         \* rows recorded per key

ledgerVars == <<written, ledger>>

Init ==
  /\ written = {}
  /\ ledger = [k \in Keys |-> 0]

Write(k) ==
  /\ k \in Keys \ written
  /\ written' = written \cup {k}
  /\ UNCHANGED ledger

\* One batch becomes visible at once, and only with keys not recorded before.
Record(batch) ==
  /\ batch # {} /\ batch \subseteq written
  /\ \A k \in batch : ledger[k] = 0
  /\ ledger' = [k \in Keys |-> IF k \in batch THEN 1 ELSE ledger[k]]
  /\ UNCHANGED written

Next ==
  \/ \E k \in Keys : Write(k)
  \/ \E batch \in SUBSET Keys : Record(batch)

Spec == Init /\ [][Next]_ledgerVars
=============================================================================
