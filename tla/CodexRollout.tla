---------------------------- MODULE CodexRollout ----------------------------
(***************************************************************************)
(* CodexRolloutCollector on one rollout file: which lines of a pass become *)
(* usage records, under which dedup key and which model, while Codex keeps *)
(* appending and run_once stores the records before it moves the offset.   *)
(*                                                                         *)
(* A pass parses only the lines that are new to it, so what it decides     *)
(* from "the file" (the format, the model, the byte offset of a line) it   *)
(* decides from that chunk.  Widths stand for bytes: a line of text is two *)
(* wide with its newline, an empty line one.  CollectorPass has the steps  *)
(* of a pass, JsonlTail the reading of partial lines; here a pass is one   *)
(* step.  push_rate_limits, which only adds quota snapshots, is left out.  *)
(***************************************************************************)
EXTENDS Integers, FiniteSets, Sequences

CONSTANTS
  Responses,    \* model responses, by response_id
  Models,       \* models a turn_context can name
  Unknown,      \* UNKNOWN_MODEL
  Versions,     \* versions of Codex, by the kinds of line they write
  MaxLines,     \* bound: lines of the file, by version
  MaxFaults,    \* bound: passes whose offset is not persisted
  MaxRewrites   \* bound: times the file is cut back, by version

Kinds == {"turn_context", "token_usage_record", "token_count", "empty"}

ASSUME KindsAssumption == Versions \subseteq SUBSET Kinds
ASSUME NamesAssumption == Unknown \notin Models \cup Responses /\ Models \cap Responses = {}
ASSUME BoundAssumption ==
  MaxLines \in [Versions -> Nat] /\ MaxFaults \in Nat /\ MaxRewrites \in [Versions -> Nat]

VARIABLES
  types,     \* the version of Codex that writes the file
  file,      \* the lines of the rollout file
  offset,    \* the persisted cursor, in bytes
  usage,     \* usage_records: at most one per key
  apart,     \* history: responses a pass began between, after the usage record
  faults, rewrites

vars == <<types, file, offset, usage, apart, faults, rewrites>>

\* A line of the file; what it names is a model, a response or, for an empty line, nothing.
Line == [type : {"turn_context"}, names : Models]
          \cup [type : {"token_usage_record", "token_count"}, names : Responses]
          \cup [type : {"empty"}, names : {Unknown}]

Init ==
  /\ types \in Versions
  /\ file = <<>> /\ offset = 0 /\ usage = {} /\ apart = {} /\ faults = 0 /\ rewrites = 0

-----------------------------------------------------------------------------
(* Codex *)

Has(type, r) == \E i \in DOMAIN file : file[i] = [type |-> type, names |-> r]

\* A response's count comes once, and after its usage record where there are any.
AppendLine(l) ==
  /\ Len(file) < MaxLines[types]
  /\ l.type \in types
  /\ l.type = "token_count" =>
       /\ ~Has("token_count", l.names)
       /\ "token_usage_record" \in types => Has("token_usage_record", l.names)
  /\ file' = Append(file, l)
  /\ UNCHANGED <<types, offset, usage, apart, faults, rewrites>>

\* The file is replaced by a shorter one: here, by some of its own first lines.
CutBack(n) ==
  /\ rewrites < MaxRewrites[types] /\ rewrites' = rewrites + 1
  /\ file' = SubSeq(file, 1, n)
  /\ UNCHANGED <<types, offset, usage, apart, faults>>

-----------------------------------------------------------------------------
(* collect: the chunk of this pass *)

IsText(i) == file[i].type # "empty"
Bytes(n)  == n + Cardinality({i \in 1..n : IsText(i)})

Start == IF offset > Bytes(Len(file)) THEN 0 ELSE offset

\* The lines the reader returns: whole ones, without the empty ones.
Chunk == {i \in DOMAIN file : IsText(i) /\ Bytes(i - 1) >= Start}

\* Mutant: lines are counted from the start of the chunk.
LineOffsetInChunk(i) == Bytes(i - 1) - Start

\* parse_rollout_lines adds up the lines it was given, from the offset the pass began
\* with: the empty lines are missing, and after a restart at 0 so is the start.
LineOffset(i) ==
  offset + (Bytes(i - 1) - Start)
    - Cardinality({j \in 1..(i - 1) : ~IsText(j) /\ Bytes(j - 1) >= Start})

HasUsageRecords == \E i \in Chunk : file[i].type = "token_usage_record"

\* Mutant: the format is not asked for.
CountedOfBothFormats == {i \in Chunk : file[i].type \in {"token_usage_record", "token_count"}}

\* The lines that yield a record.
Counted ==
  {i \in Chunk : \/ file[i].type = "token_usage_record"
                 \/ file[i].type = "token_count" /\ ~HasUsageRecords}

Key(i) == IF file[i].type = "token_usage_record" THEN <<"response", file[i].names>>
                                                 ELSE <<"offset", LineOffset(i)>>

Contexts(i) == {j \in Chunk : j < i /\ file[j].type = "turn_context"}

\* Mutant: the model is that of the chunk's last context, wherever the line is.
ModelAtEnd(i) ==
  LET cs == {j \in Chunk : file[j].type = "turn_context"}
  IN  IF cs = {} THEN Unknown
      ELSE file[CHOOSE j \in cs : \A k \in cs : k <= j].names

\* The model of the latest context of this chunk.
ModelAt(i) ==
  IF Contexts(i) = {} THEN Unknown
  ELSE file[CHOOSE j \in Contexts(i) : \A k \in Contexts(i) : k <= j].names

\* Of the lines with the same key the first counts.
Batch ==
  {[key |-> Key(i), resp |-> file[i].names, model |-> ModelAt(i)] :
     i \in {c \in Counted : \A d \in Counted : d < c => Key(d) # Key(c)}}

-----------------------------------------------------------------------------
(* run_once *)

\* The responses of which the chunk has the count, and a pass before had the usage record.
ReadApart ==
  {r \in Responses : \E i \in DOMAIN file, j \in Chunk :
     /\ file[i].type = "token_usage_record" /\ file[i].names = r /\ Bytes(i) <= Start
     /\ file[j].type = "token_count" /\ file[j].names = r}

InsertUsageBatch ==
  /\ usage' = usage \cup {b \in Batch : \A u \in usage : u.key # b.key}
  /\ apart' = apart \cup ReadApart

Pass ==
  /\ InsertUsageBatch
  /\ offset' = Bytes(Len(file))
  /\ UNCHANGED <<types, file, faults, rewrites>>

\* The records are stored, and then a snapshot or the cursor cannot be.
PassFails ==
  /\ faults < MaxFaults /\ faults' = faults + 1
  /\ InsertUsageBatch
  /\ UNCHANGED <<types, file, offset, rewrites>>

-----------------------------------------------------------------------------
Next ==
  \/ \E l \in Line : AppendLine(l)
  \/ \E n \in 0..(Len(file) - 1) : CutBack(n)
  \/ Pass
  \/ PassFails

Spec == Init /\ [][Next]_vars

\* The interval ticks for ever; Codex owes nothing.
FairSpec == Spec /\ WF_vars(Pass)

-----------------------------------------------------------------------------
(* Properties *)

\* A response is counted once, in whatever chunks its lines are read and however often
\* a pass is retried, with two exceptions.  A file may have both formats, and is said not
\* to count a response twice ("so a file with both formats does not count the same response
\* twice"): it does so in one case only, when a pass begins between the usage record and the
\* count, since the format is decided anew from the lines of each pass.  And after a restart
\* at 0 the lines without a response id are keyed from the old offset, so that they may be
\* counted anew.
ResponseCountedOnce ==
  \A u, v \in usage : u.resp = v.resp =>
    \/ u = v
    \/ u.key[1] # v.key[1] /\ u.resp \in apart
    \/ rewrites > 0 /\ "offset" \in {u.key[1], v.key[1]}

\* No response gets lost behind the offset: neither the format chosen for a chunk nor
\* a colliding file:offset key ever drops one (the file is only appended to).
ResponsesBelowOffsetCounted ==
  rewrites = 0 =>
    \A i \in DOMAIN file :
      Bytes(i) <= offset /\ file[i].names \in Responses =>
        \E u \in usage : u.resp = file[i].names

\* The context in force at a line of the file.
ContextAt(i) ==
  LET cs == {j \in 1..(i - 1) : file[j].type = "turn_context"}
  IN  IF cs = {} THEN Unknown
      ELSE file[CHOOSE j \in cs : \A k \in cs : k <= j].names

Attributed(u) == \E i \in DOMAIN file : file[i].names = u.resp /\ ContextAt(i) = u.model

\* A row never names another model than the one in force where the response was
\* written, whatever chunks the file was read in; at worst it names none.
ModelNeverWrong ==
  rewrites = 0 => \A u \in usage : u.model # Unknown => Attributed(u)

\* "The model comes from the latest turn_context.payload.model.  When a file has none,
\* the model is recorded as unknown."
ModelFromLatestContext == rewrites = 0 => \A u \in usage : Attributed(u)

\* A response whose line is written is counted in the end, while the file is only
\* appended to.
ResponseEventuallyCounted ==
  \A r \in Responses :
    (\E i \in DOMAIN file : file[i].names = r)
      ~> (rewrites > 0 \/ \E u \in usage : u.resp = r)
=============================================================================
