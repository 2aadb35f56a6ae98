--------------------------- MODULE MCCodexRollout ---------------------------
(***************************************************************************)
(* Instances of CodexRollout for TLC: the versions of Codex that may have  *)
(* written the file, and how long a file of each version gets.             *)
(***************************************************************************)
EXTENDS CodexRollout

Legacy  == {"turn_context", "token_count", "empty"}
Records == {"turn_context", "token_usage_record"}

\* Both formats in one file, as in the repository's fixture rollout-new-format.jsonl.
Both    == {"turn_context", "token_usage_record", "token_count"}

AllVersions == {Legacy, Records, Both}
OnlyRecords == {Records}

LegacyLonger   == [v \in Versions |-> IF v = Legacy THEN 5 ELSE 4]
RecordsCutBack == [v \in Versions |-> IF v = Records THEN 1 ELSE 0]
Three          == [v \in Versions |-> 3]
NoCutBack      == [v \in Versions |-> 0]
=============================================================================
