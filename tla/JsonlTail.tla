------------------------------ MODULE JsonlTail ------------------------------
(***************************************************************************)
(* read_jsonl_from, byte by byte: how one log file is tailed while an      *)
(* agent appends to it, in any number of writes per line, and now and then *)
(* rewrites it from scratch.  The reader looks at the file's length, and   *)
(* only later reads its bytes; run_once persists the offset it returns.    *)
(*                                                                         *)
(* A byte is a newline or not.  A line is named by the positions of its    *)
(* first byte and of its newline, and by the generation of the file (the   *)
(* number of rewrites) it was read from.                                   *)
(***************************************************************************)
EXTENDS Integers, FiniteSets, Sequences

CONSTANTS
  Char,          \* any byte but the newline
  Newline,       \* the byte that ends a line
  MaxLineBytes,  \* MAX_LINE_BYTES: longer lines are skipped
  MaxBytes,      \* bound: bytes per generation
  MaxRewrites,   \* bound: times the file is rewritten
  MaxFaults      \* bound: passes that fail before their offset is persisted

ASSUME ByteAssumption  == Char # Newline
ASSUME BoundAssumption == MaxLineBytes \in Nat /\ MaxBytes \in Nat
                          /\ MaxRewrites \in Nat /\ MaxFaults \in Nat

VARIABLES
  content,       \* the bytes of the file
  gen,           \* how often the agent has rewritten it
  offset,        \* the persisted cursor: bytes already collected
  pc,            \* "idle", "read" (length known), "store" (chunk in hand)
  start,         \* where this pass reads from
  chunk,         \* JsonlChunk.lines
  next,          \* JsonlChunk.next_offset
  stored,        \* lines of passes that succeeded
  faults,
  \* History: the generation an offset was found in, and the generations that had
  \* outgrown an offset of an earlier one when a pass resumed there.
  offsetGen, startGen, overtaken

file    == <<content, gen>>
pass    == <<pc, start, chunk, next, startGen>>
persist == <<offset, offsetGen, stored>>
vars    == <<file, pass, persist, faults, overtaken>>

Byte == {Char, Newline}

Init ==
  /\ content = <<>> /\ gen = 0
  /\ offset = 0 /\ offsetGen = 0 /\ stored = {}
  /\ pc = "idle" /\ start = 0 /\ startGen = 0 /\ chunk = {} /\ next = 0
  /\ faults = 0 /\ overtaken = {}

-----------------------------------------------------------------------------
(* The agent *)

Write(b) ==
  /\ Len(content) < MaxBytes
  /\ content' = Append(content, b)
  /\ UNCHANGED <<gen, pass, persist, faults, overtaken>>

Rewrite ==
  /\ gen < MaxRewrites
  /\ content' = <<>> /\ gen' = gen + 1
  /\ UNCHANGED <<pass, persist, faults, overtaken>>

-----------------------------------------------------------------------------
(* The reader *)

\* Mutant: the offset is trusted whatever the length of the file.
ResumeAtNoRestart == offset

\* A file shorter than the offset was replaced: start over.
ResumeAt == IF offset > Len(content) THEN 0 ELSE offset

\* Open the file and look at its length; with nothing new there is no read.
Open ==
  /\ pc = "idle"
  /\ start' = ResumeAt
  /\ startGen' = IF ResumeAt = 0 THEN gen ELSE offsetGen
  /\ chunk' = {} /\ next' = ResumeAt
  /\ pc' = IF ResumeAt = Len(content) THEN "store" ELSE "read"
  /\ overtaken' = overtaken \cup {g \in {gen} : offsetGen # gen /\ offset \in 1..Len(content)}
  /\ UNCHANGED <<file, persist, faults>>

Newlines(from) == {i \in (from + 1)..Len(content) : content[i] = Newline}

\* Mutant: the offset moves over the line still being written.
ChunkEndOfFile(from) == IF Len(content) > from THEN Len(content) ELSE from

\* Just past the last newline after from, or from when there is none.
ChunkEnd(from) ==
  IF Newlines(from) = {} THEN from
  ELSE CHOOSE i \in Newlines(from) : \A j \in Newlines(from) : j <= i

\* The complete lines after from: neither empty nor over-long.
Lines(from) ==
  {p \in ((from + 1)..Len(content)) \X Newlines(from) :
     /\ p[1] = from + 1 \/ content[p[1] - 1] = Newline
     /\ \A i \in p[1]..(p[2] - 1) : content[i] = Char
     /\ p[2] - p[1] \in 1..MaxLineBytes}

\* Read everything from start to the end the file has by now.  A newline it finds
\* puts next_offset at the start of a line of the file as it is now.
Read ==
  /\ pc = "read"
  /\ pc' = "store"
  /\ chunk' = {<<gen, p>> : p \in Lines(start)}
  /\ next' = ChunkEnd(start)
  /\ startGen' = IF start = 0 \/ ChunkEnd(start) > start THEN gen ELSE startGen
  /\ overtaken' = overtaken \cup {g \in {gen} : startGen # gen /\ start \in 1..Len(content)}
  /\ UNCHANGED <<file, start, persist, faults>>

-----------------------------------------------------------------------------
(* run_once: the chunk's records are in the database, or the pass failed *)

Store ==
  /\ pc = "store"
  /\ pc' = "idle"
  /\ stored' = stored \cup chunk
  /\ offset' = next /\ offsetGen' = startGen
  /\ UNCHANGED <<file, start, startGen, chunk, next, faults, overtaken>>

Fail ==
  /\ pc = "store"
  /\ faults < MaxFaults /\ faults' = faults + 1
  /\ pc' = "idle"
  /\ UNCHANGED <<file, start, startGen, chunk, next, persist, overtaken>>

-----------------------------------------------------------------------------
Reader == Open \/ Read \/ Store

Next ==
  \/ \E b \in Byte : Write(b)
  \/ Rewrite
  \/ Reader
  \/ Fail

Spec == Init /\ [][Next]_vars

\* run_loop's interval ticks for ever; the agent owes nothing.
FairSpec == Spec /\ WF_vars(Reader)

-----------------------------------------------------------------------------
(* Properties *)

AtLineStart(o) == o = 0 \/ (o <= Len(content) /\ content[o] = Newline)

\* A persisted offset is the start of a line of the file it was found in, so a pass
\* never resumes in the middle of a line that was still being written.
OffsetAtLineStart == offsetGen = gen => AtLineStart(offset)

\* What a pass stores are whole lines of the file, unless it resumed at an offset
\* of the file's earlier life.
OnlyWholeLines ==
  \A l \in chunk \cup stored :
    l[1] = gen /\ gen \notin overtaken => l[2] \in Lines(0)

\* The lines of the file as it is now that the database has.
Taken == {l[2] : l \in {s \in stored : s[1] = gen}}

\* The stored lines are exactly those below the persisted offset: what is skipped
\* over is an empty or an over-long line, never one that came in late.
StoredBelowOffset ==
  offsetGen = gen /\ gen \notin overtaken =>
    Taken = {p \in Lines(0) : p[2] <= offset}

\* What a pass brings to store no earlier one stored: a restart at 0 happens for a new
\* file only.
LinesStoredOnce == pc = "store" => chunk \cap stored = {}

\* The four together: what read_jsonl_from hands out, and the offset it goes on from, agree
\* with the lines of a file that grows and is replaced under it.
LinesIntact == OffsetAtLineStart /\ OnlyWholeLines /\ StoredBelowOffset /\ LinesStoredOnce

Pending(b) == \E p \in Lines(0) : p[2] = b /\ <<gen, p>> \notin stored

\* A finished line is stored in the end, after a rewrite too, unless the new file
\* grew beyond the old offset before a pass looked at it.
FinishedLinesStored ==
  \A b \in 1..MaxBytes : Pending(b) ~> (~Pending(b) \/ gen \in overtaken)

\* The reader makes of the file the log of whole lines, taken in order, that
\* CollectorPass works on; a life of the file it cannot tell from the one before is none.
Followed(ls) == IF gen \in overtaken THEN {} ELSE ls

LineFeed == INSTANCE LineLog WITH finished <- Followed(Lines(0)), taken <- Followed(Taken)

ImplementsLineLog == LineFeed!FairSpec
=============================================================================
