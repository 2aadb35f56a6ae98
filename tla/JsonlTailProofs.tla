--------------------------- MODULE JsonlTailProofs ---------------------------
(***************************************************************************)
(* The reader of a log file hands out its whole lines, each once, for all  *)
(* contents, lengths and numbers of rewrites.                              *)
(***************************************************************************)
EXTENDS JsonlTail, WellFoundedInduction, TLAPS

-----------------------------------------------------------------------------
(* Every set of numbers has a least one, a bounded one a largest *)

LEMMA LeastExists ==
  ASSUME NEW S, S \subseteq Nat, S # {}
  PROVE  \E x \in S : \A y \in S : x <= y
<1> DEFINE R == {p \in Nat \X Nat : p[1] < p[2]}
<1>1. IsWellFoundedOn(R, Nat)
  BY NatLessThanWellFounded DEF OpToRel
<1>2. PICK x \in S : \A y \in S : ~ (<<y, x>> \in R)
  <2> HIDE DEF R
  <2> QED BY <1>1, WFMin
<1>3. ASSUME NEW y \in S PROVE x <= y
  <2>1. x \in Nat /\ y \in Nat
    OBVIOUS
  <2>2. ~ (y < x)
    BY <1>2, <2>1
  <2> QED BY <2>1, <2>2
<1> QED BY <1>3

LEMMA LargestExists ==
  ASSUME NEW B \in Nat, NEW S, S \subseteq 0..B, S # {}
  PROVE  \E x \in S : \A y \in S : y <= x
<1> DEFINE T == {B - x : x \in S}
<1>1. T \subseteq Nat /\ T # {}
  <2>1. \A x \in S : B - x \in Nat
    OBVIOUS
  <2>2. PICK x \in S : TRUE
    OBVIOUS
  <2>3. B - x \in T
    OBVIOUS
  <2>4. T \subseteq Nat
    BY <2>1
  <2> QED BY <2>3, <2>4
<1>2. PICK d \in T : \A e \in T : d <= e
  <2> HIDE DEF T
  <2> QED BY <1>1, LeastExists
<1>3. PICK x \in S : d = B - x
  OBVIOUS
<1>4. ASSUME NEW y \in S PROVE y <= x
  <2>1. B - y \in T
    OBVIOUS
  <2> HIDE DEF T
  <2>2. d <= B - y
    BY <1>2, <2>1
  <2> QED BY <1>3, <2>2
<1> QED BY <1>4

-----------------------------------------------------------------------------
TypeInv ==
  /\ content \in Seq(Byte) /\ gen \in Nat
  /\ offset \in Nat /\ offsetGen \in Nat
  /\ pc \in {"idle", "read", "store"}
  /\ start \in Nat /\ startGen \in Nat /\ next \in Nat
  /\ chunk \subseteq Nat \X (Nat \X Nat) /\ stored \subseteq Nat \X (Nat \X Nat)

\* Nothing is of a later life of the file than the present one, and a pass is not of an
\* earlier one than the offset.
LivesInOrder ==
  /\ offsetGen <= gen /\ startGen <= gen
  /\ pc # "idle" => offsetGen <= startGen
  /\ \A l \in chunk \cup stored : l[1] <= gen
  /\ \A g \in overtaken : g \in Nat /\ g <= gen

\* Where a pass is: it began at the offset if that is of this life, and the offset it will
\* persist begins a line.
PassInFile ==
  /\ OffsetAtLineStart
  /\ pc # "idle" /\ startGen = gen => AtLineStart(next)
  /\ pc # "idle" /\ offsetGen = gen => start = offset /\ next >= start
  /\ pc = "read" => next = start

\* A line of this life that is stored lies below the offset, one to be stored below the
\* next one, whether the life was overtaken or not.
BelowOffset ==
  /\ \A l \in stored : l[1] = gen => offsetGen = gen /\ l[2][2] <= offset
  /\ pc = "store" => \A l \in chunk : l[1] = gen => startGen = gen /\ l[2][2] <= next

\* All lines below an offset are stored, or about to be.
Complete ==
  gen \notin overtaken =>
    /\ offsetGen = gen =>
         \A p \in Lines(0) : p[2] <= offset => <<gen, p>> \in stored
    /\ pc = "read" /\ startGen = gen =>
         \A p \in Lines(0) : p[2] <= start => <<gen, p>> \in stored
    /\ pc = "store" /\ startGen = gen =>
         \A p \in Lines(0) : p[2] <= next => <<gen, p>> \in stored \cup chunk

IInv ==
  TypeInv /\ LivesInOrder /\ PassInFile /\ OnlyWholeLines /\ BelowOffset /\ Complete
  /\ LinesStoredOnce

-----------------------------------------------------------------------------
(* The lines of a file *)

LEMMA LineFacts ==
  ASSUME TypeInv, NEW s \in Nat
  PROVE  \A p \in Lines(s) :
           /\ p \in Nat \X Nat /\ p[1] > s /\ p[1] <= p[2] /\ p[2] <= Len(content)
           /\ p[2] \in Newlines(s)
BY DEF TypeInv, Lines, Newlines

\* From the start of a line on, the lines of the file are those that end later.
LEMMA LinesAfter ==
  ASSUME TypeInv, ByteAssumption, NEW s \in Nat, AtLineStart(s)
  PROVE  Lines(s) = {p \in Lines(0) : p[2] > s}
<1>1. Len(content) \in Nat
  BY DEF TypeInv
<1>2. ASSUME NEW p \in Lines(s)
      PROVE  p \in Lines(0) /\ p[2] > s
  BY <1>1, <1>2 DEF Lines, Newlines, AtLineStart
<1>3. ASSUME NEW p \in Lines(0), p[2] > s
      PROVE  p \in Lines(s)
  <2>1. /\ p \in Nat \X Nat /\ p[1] >= 1 /\ p[1] <= p[2] /\ p[2] <= Len(content)
        /\ content[p[2]] = Newline
        /\ p[1] = 1 \/ content[p[1] - 1] = Newline
        /\ \A i \in p[1]..(p[2] - 1) : content[i] = Char
        /\ p[2] - p[1] \in 1..MaxLineBytes
    BY <1>1 DEF Lines, Newlines
  <2>2. p[1] > s
    <3>1. CASE s = 0
      BY <2>1, <3>1
    <3>2. CASE s # 0
      <4>1. content[s] = Newline
        BY <3>2 DEF AtLineStart
      <4>2. s \notin p[1]..(p[2] - 1)
        BY <2>1, <4>1, ByteAssumption
      <4> QED BY <1>3, <2>1, <4>2
    <3> QED BY <3>1, <3>2
  <2>3. p[2] \in Newlines(s) /\ p[1] \in (s + 1)..Len(content)
    BY <1>1, <1>3, <2>1, <2>2 DEF Newlines
  <2>4. p[1] = s + 1 \/ content[p[1] - 1] = Newline
    BY <2>1, <2>2
  <2>5. p \in ((s + 1)..Len(content)) \X Newlines(s)
    BY <2>1, <2>3
  <2> QED BY <2>1, <2>4, <2>5 DEF Lines
<1> QED BY <1>2, <1>3

\* Where a chunk ends.
LEMMA ChunkFacts ==
  ASSUME TypeInv, NEW s \in Nat
  PROVE  /\ ChunkEnd(s) \in Nat /\ ChunkEnd(s) >= s
         /\ ChunkEnd(s) > s => ChunkEnd(s) <= Len(content) /\ content[ChunkEnd(s)] = Newline
         /\ \A p \in Lines(s) : p[2] <= ChunkEnd(s) /\ ChunkEnd(s) > s
<1>1. Len(content) \in Nat /\ Newlines(s) \subseteq 0..Len(content)
  BY DEF TypeInv, Newlines
<1>2. CASE Newlines(s) = {}
  BY <1>2, LineFacts DEF ChunkEnd
<1>3. CASE Newlines(s) # {}
  <2>1. \E i \in Newlines(s) : \A j \in Newlines(s) : j <= i
    <3> QED BY <1>1, <1>3, LargestExists
  <2>2. ChunkEnd(s) \in Newlines(s) /\ \A j \in Newlines(s) : j <= ChunkEnd(s)
    BY <1>3, <2>1 DEF ChunkEnd
  <2>3. ChunkEnd(s) \in Nat /\ ChunkEnd(s) > s /\ ChunkEnd(s) <= Len(content)
        /\ content[ChunkEnd(s)] = Newline
    BY <1>1, <2>2 DEF Newlines
  <2>4. \A p \in Lines(s) : p[2] <= ChunkEnd(s)
    BY <2>2, LineFacts
  <2> QED BY <2>3, <2>4
<1> QED BY <1>2, <1>3

\* A byte more leaves lines and their starts where they are, and a line it ends, ends there.
LEMMA WriteKeepsLines ==
  ASSUME TypeInv, BoundAssumption, NEW b \in Byte, Write(b)
  PROVE  /\ content' \in Seq(Byte) /\ Len(content') = Len(content) + 1
         /\ Lines(0) \subseteq Lines(0)'
         /\ \A p \in Lines(0)' : p[2] <= Len(content) => p \in Lines(0)
         /\ \A o \in Nat : AtLineStart(o) => AtLineStart(o)' /\ o <= Len(content)
<1>1. content' = Append(content, b) /\ content \in Seq(Byte)
  BY DEF Write, TypeInv
<1>2. PICK n \in Nat : n = Len(content)
  BY <1>1
<1>3. content' \in Seq(Byte) /\ Len(content') = n + 1
  BY <1>1, <1>2
<1>4. \A i \in 1..n : content'[i] = content[i]
  BY <1>1, <1>2
<1>5. Lines(0) \subseteq Lines(0)'
  <2> SUFFICES ASSUME NEW p \in Lines(0) PROVE p \in Lines(0)'
    OBVIOUS
  <2>1. /\ p \in (1..n) \X (1..n) /\ p[1] \in 1..n /\ p[2] \in 1..n
        /\ content[p[2]] = Newline
        /\ p[1] = 1 \/ content[p[1] - 1] = Newline
        /\ \A i \in p[1]..(p[2] - 1) : content[i] = Char
        /\ p[2] - p[1] \in 1..MaxLineBytes
    BY <1>2 DEF Lines, Newlines
  <2>2. p \in (1..(n + 1)) \X (1..(n + 1)) /\ content'[p[2]] = Newline
    BY <1>4, <2>1
  <2>3. p[1] = 1 \/ content'[p[1] - 1] = Newline
    BY <1>4, <2>1
  <2>4. \A i \in p[1]..(p[2] - 1) : content'[i] = Char
    BY <1>4, <2>1
  <2>5. p \in ((0 + 1)..Len(content')) \X Newlines(0)'
    BY <1>3, <2>1, <2>2 DEF Newlines
  <2> QED BY <2>1, <2>3, <2>4, <2>5 DEF Lines
<1>6. ASSUME NEW p \in Lines(0)', p[2] <= n
      PROVE  p \in Lines(0)
  <2>1. /\ p \in (1..(n + 1)) \X (1..(n + 1)) /\ p[1] \in 1..(n + 1) /\ p[2] \in 1..(n + 1)
        /\ content'[p[2]] = Newline
        /\ p[1] = 1 \/ content'[p[1] - 1] = Newline
        /\ \A i \in p[1]..(p[2] - 1) : content'[i] = Char
        /\ p[2] - p[1] \in 1..MaxLineBytes
    BY <1>3 DEF Lines, Newlines
  <2>2. p[1] \in 1..n /\ p[2] \in 1..n /\ p \in (1..n) \X (1..n)
    BY <1>6, <2>1
  <2>3. content[p[2]] = Newline /\ (p[1] = 1 \/ content[p[1] - 1] = Newline)
    BY <1>4, <2>1, <2>2
  <2>4. \A i \in p[1]..(p[2] - 1) : content[i] = Char
    BY <1>4, <2>1, <2>2
  <2>5. p \in ((0 + 1)..Len(content)) \X Newlines(0)
    BY <1>2, <2>2, <2>3 DEF Newlines
  <2> QED BY <2>1, <2>3, <2>4, <2>5 DEF Lines
<1>7. ASSUME NEW o \in Nat, AtLineStart(o)
      PROVE  AtLineStart(o)' /\ o <= n
  BY <1>2, <1>3, <1>4, <1>7 DEF AtLineStart
<1> QED BY <1>2, <1>3, <1>5, <1>6, <1>7

-----------------------------------------------------------------------------
(* The invariant *)

LEMMA InitInv == BoundAssumption /\ Init => IInv
BY DEF Init, IInv, TypeInv, LivesInOrder, PassInFile, OffsetAtLineStart, AtLineStart,
   OnlyWholeLines, BelowOffset, Complete, LinesStoredOnce, Lines, Newlines

LEMMA WriteStep ==
  ASSUME IInv, BoundAssumption, NEW b \in Byte, Write(b)
  PROVE  IInv'
<1>1. /\ UNCHANGED <<gen, pc, start, chunk, next, startGen, offset, offsetGen, stored, overtaken>>
      /\ TypeInv
  BY DEF Write, pass, persist, IInv
<1>2. PICK n \in Nat : n = Len(content)
  BY <1>1 DEF TypeInv
<1>3. /\ content' \in Seq(Byte)
      /\ Lines(0) \subseteq Lines(0)'
      /\ \A p \in Lines(0)' : p[2] <= n => p \in Lines(0)
      /\ \A o \in Nat : AtLineStart(o) => AtLineStart(o)' /\ o <= n
  BY <1>1, <1>2, WriteKeepsLines
<1>4. TypeInv'
  BY <1>1, <1>3 DEF TypeInv
<1>5. LivesInOrder'
  BY <1>1 DEF IInv, LivesInOrder
<1>6. PassInFile'
  <2>1. (offsetGen = gen => AtLineStart(offset)')
        /\ (pc # "idle" /\ startGen = gen => AtLineStart(next)')
    BY <1>1, <1>3 DEF IInv, PassInFile, OffsetAtLineStart, TypeInv
  <2>2. PICK o : o = offset
    OBVIOUS
  <2>3. PICK e : e = next
    OBVIOUS
  <2>4. (offsetGen = gen => AtLineStart(o)') /\ (pc # "idle" /\ startGen = gen => AtLineStart(e)')
    BY <1>1, <1>3, <2>2, <2>3 DEF IInv, PassInFile, OffsetAtLineStart, TypeInv
  <2>5. OffsetAtLineStart'
    BY <1>1, <2>2, <2>4 DEF OffsetAtLineStart, AtLineStart
  <2>6. (pc # "idle" /\ startGen = gen => AtLineStart(next))'
    BY <1>1, <2>3, <2>4 DEF AtLineStart
  <2> QED BY <1>1, <2>5, <2>6 DEF IInv, PassInFile
<1>7. OnlyWholeLines'
  BY <1>1, <1>3 DEF IInv, OnlyWholeLines
<1>8. BelowOffset' /\ LinesStoredOnce'
  BY <1>1 DEF IInv, BelowOffset, LinesStoredOnce
<1>9. Complete'
  <2>1. \A p \in Lines(0)' : p[2] \in Nat
    <3>1. \A p \in Lines(0) : p[2] \in Nat
      BY <1>1, LineFacts
    <3> QED BY <1>3, <1>4 DEF Lines, Newlines, TypeInv
  <2>2. ASSUME NEW o \in Nat, AtLineStart(o), NEW p \in Lines(0)', p[2] <= o
        PROVE  p \in Lines(0)
    BY <1>2, <1>3, <2>1, <2>2
  <2>3. ASSUME gen \notin overtaken, offsetGen = gen, NEW p \in Lines(0)', p[2] <= offset
        PROVE  <<gen, p>> \in stored
    BY <1>1, <2>2, <2>3 DEF IInv, Complete, PassInFile, OffsetAtLineStart, TypeInv
  <2>4. ASSUME gen \notin overtaken, pc = "read", startGen = gen, NEW p \in Lines(0)', p[2] <= start
        PROVE  <<gen, p>> \in stored
    BY <1>1, <2>2, <2>4 DEF IInv, Complete, PassInFile, TypeInv
  <2>5. ASSUME gen \notin overtaken, pc = "store", startGen = gen, NEW p \in Lines(0)', p[2] <= next
        PROVE  <<gen, p>> \in stored \cup chunk
    BY <1>1, <2>2, <2>5 DEF IInv, Complete, PassInFile, TypeInv
  <2> QED BY <1>1, <2>3, <2>4, <2>5 DEF Complete
<1> QED BY <1>4, <1>5, <1>6, <1>7, <1>8, <1>9 DEF IInv

LEMMA RewriteStep ==
  ASSUME IInv, BoundAssumption, Rewrite
  PROVE  IInv'
<1>1. /\ content' = <<>> /\ gen' = gen + 1
      /\ UNCHANGED <<pc, start, chunk, next, startGen, offset, offsetGen, stored, overtaken>>
  BY DEF Rewrite, pass, persist
<1>2. gen \in Nat /\ offsetGen \in Nat /\ startGen \in Nat
  BY DEF IInv, TypeInv
<1>3. offsetGen # gen' /\ startGen # gen' /\ gen' \notin overtaken
      /\ \A l \in chunk \cup stored : l[1] # gen'
  <2>1. \A l \in chunk \cup stored : l[1] \in Nat /\ l[1] <= gen
    BY DEF IInv, TypeInv, LivesInOrder
  <2> QED BY <1>1, <1>2, <2>1 DEF IInv, LivesInOrder
<1>4. TypeInv'
  BY <1>1, <1>2 DEF IInv, TypeInv
<1>5. LivesInOrder'
  <2>1. \A l \in chunk \cup stored : l[1] \in Nat /\ l[1] <= gen
    BY DEF IInv, TypeInv, LivesInOrder
  <2> QED BY <1>1, <1>2, <2>1 DEF IInv, LivesInOrder
<1>6. PassInFile'
  BY <1>1, <1>3 DEF IInv, PassInFile, OffsetAtLineStart
<1>7. OnlyWholeLines' /\ BelowOffset' /\ Complete'
  BY <1>1, <1>3 DEF OnlyWholeLines, BelowOffset, Complete
<1>8. LinesStoredOnce'
  BY <1>1 DEF IInv, LinesStoredOnce
<1> QED BY <1>4, <1>5, <1>6, <1>7, <1>8 DEF IInv

LEMMA OpenStep ==
  ASSUME IInv, BoundAssumption, Open
  PROVE  IInv'
<1>1. PICK g : g = IF ResumeAt = 0 THEN gen ELSE offsetGen
  OBVIOUS
<1>2. PICK s : s = ResumeAt
  OBVIOUS
<1>3. /\ pc = "idle" /\ pc' \in {"read", "store"}
      /\ start' = s /\ next' = s /\ startGen' = g /\ chunk' = {}
      /\ overtaken \subseteq overtaken' /\ overtaken' \subseteq overtaken \cup {gen}
      /\ UNCHANGED <<content, gen, offset, offsetGen, stored>>
  BY <1>1, <1>2 DEF Open, file, persist
<1>4. content \in Seq(Byte) /\ gen \in Nat /\ offset \in Nat /\ offsetGen \in Nat /\ s \in Nat
      /\ g \in Nat /\ Len(content) \in Nat
  BY <1>1, <1>2 DEF IInv, TypeInv, ResumeAt
<1>5. TypeInv'
  BY <1>3, <1>4 DEF IInv, TypeInv
<1>6. LivesInOrder'
  BY <1>1, <1>3, <1>4 DEF IInv, LivesInOrder
<1>7. offsetGen = gen => s = offset
  BY <1>2, <1>4 DEF IInv, PassInFile, OffsetAtLineStart, AtLineStart, ResumeAt
<1>8. g = gen => s = 0 \/ (offsetGen = gen /\ s = offset)
  BY <1>1, <1>2, <1>7
<1>9. PassInFile'
  <2>1. OffsetAtLineStart'
    BY <1>3 DEF IInv, PassInFile, OffsetAtLineStart, AtLineStart
  <2>2. startGen' = gen' => AtLineStart(next)'
    BY <1>3, <1>8 DEF IInv, PassInFile, OffsetAtLineStart, AtLineStart
  <2> QED BY <1>3, <1>4, <1>7, <2>1, <2>2 DEF PassInFile
<1>10. OnlyWholeLines'
  BY <1>3 DEF IInv, OnlyWholeLines, Lines, Newlines
<1>11. BelowOffset' /\ LinesStoredOnce'
  BY <1>3 DEF IInv, BelowOffset, LinesStoredOnce
<1>12. Complete'
  <2>1. Lines(0)' = Lines(0)
    BY <1>3 DEF Lines, Newlines
  <2>2. \A p \in Lines(0) : p[2] \in Nat /\ p[2] > 0
    BY LineFacts DEF IInv
  <2>3. gen \notin overtaken' => \A p \in Lines(0) : offsetGen = gen /\ p[2] <= offset => <<gen, p>> \in stored
    BY <1>3 DEF IInv, Complete
  <2>4. gen \notin overtaken' /\ g = gen => \A p \in Lines(0) : p[2] <= s => <<gen, p>> \in stored
    BY <1>4, <1>8, <2>2, <2>3
  <2> QED BY <1>3, <2>1, <2>3, <2>4 DEF Complete
<1> QED BY <1>5, <1>6, <1>9, <1>10, <1>11, <1>12 DEF IInv

LEMMA ReadStep ==
  ASSUME IInv, ByteAssumption, BoundAssumption, Read
  PROVE  IInv'
<1>1. PICK e : e = ChunkEnd(start)
  OBVIOUS
<1>2. PICK g : g = IF start = 0 \/ e > start THEN gen ELSE startGen
  OBVIOUS
<1>3. /\ pc = "read" /\ pc' = "store"
      /\ chunk' = {<<gen, p>> : p \in Lines(start)}
      /\ next' = e /\ startGen' = g
      /\ overtaken' = overtaken \cup {h \in {gen} : startGen # gen /\ start \in 1..Len(content)}
      /\ UNCHANGED <<content, gen, start, offset, offsetGen, stored>>
  BY <1>1, <1>2 DEF Read, file, persist
<1>4. /\ e \in Nat /\ e >= start
      /\ e > start => e <= Len(content) /\ content[e] = Newline
      /\ \A p \in Lines(start) : p[2] <= e /\ e > start
  BY <1>1, ChunkFacts DEF IInv, TypeInv
<1>5. \A p \in Lines(start) : p \in Nat \X Nat /\ p[1] > start /\ p[1] <= p[2] /\ p[2] <= Len(content)
  BY LineFacts DEF IInv, TypeInv
<1>6. start \in Nat /\ gen \in Nat /\ startGen \in Nat /\ g \in Nat /\ Len(content) \in Nat
      /\ offset \in Nat
  BY <1>2 DEF IInv, TypeInv
<1>7. next = start
  BY <1>3 DEF IInv, PassInFile
<1>8. TypeInv'
  BY <1>3, <1>4, <1>5, <1>6 DEF IInv, TypeInv
<1>9. LivesInOrder'
  BY <1>2, <1>3, <1>6 DEF IInv, LivesInOrder
<1>10. offsetGen = gen => startGen = gen /\ g = gen /\ start = offset
  BY <1>2, <1>3, <1>6 DEF IInv, LivesInOrder, PassInFile, TypeInv
<1>11. PassInFile'
  <2>1. OffsetAtLineStart'
    BY <1>3 DEF IInv, PassInFile, OffsetAtLineStart, AtLineStart
  <2>2. g = gen => AtLineStart(e)
    BY <1>2, <1>3, <1>4, <1>6, <1>7 DEF IInv, PassInFile, AtLineStart
  <2>3. startGen' = gen' => AtLineStart(next)'
    BY <1>3, <2>2 DEF AtLineStart
  <2> QED BY <1>3, <1>4, <1>10, <2>1, <2>3 DEF PassInFile
<1>12. gen \notin overtaken' /\ (start = 0 \/ e > start) => AtLineStart(start)
  BY <1>3, <1>4, <1>6, <1>7 DEF IInv, PassInFile, AtLineStart
<1>13. Lines(0)' = Lines(0)
  BY <1>3 DEF Lines, Newlines
<1>14. gen \notin overtaken' => Lines(start) \subseteq Lines(0)
  <2> SUFFICES ASSUME gen \notin overtaken', NEW p \in Lines(start) PROVE p \in Lines(0)
    OBVIOUS
  <2>1. AtLineStart(start)
    BY <1>4, <1>12
  <2> QED BY <1>6, <2>1, ByteAssumption, LinesAfter DEF IInv
<1>15. OnlyWholeLines'
  BY <1>3, <1>13, <1>14 DEF IInv, OnlyWholeLines
<1>16. BelowOffset'
  <2>1. \A l \in chunk' : g = gen /\ l[2][2] <= e
    BY <1>2, <1>3, <1>4
  <2> QED BY <1>3, <2>1 DEF IInv, BelowOffset
<1>17. LinesStoredOnce'
  <2> SUFFICES ASSUME NEW p \in Lines(start), <<gen, p>> \in stored PROVE FALSE
    BY <1>3 DEF LinesStoredOnce
  <2>1. offsetGen = gen /\ p[2] <= offset
    BY DEF IInv, BelowOffset
  <2> QED BY <1>5, <1>6, <1>10, <2>1
<1>18. Complete'
  <2>1. ASSUME gen \notin overtaken', g = gen, NEW p \in Lines(0), p[2] <= e
        PROVE  <<gen, p>> \in stored \cup chunk'
    <3>1. p[2] \in Nat /\ p[2] > 0
      BY LineFacts DEF IInv
    <3>2. CASE start = 0 \/ e > start
      <4>1. p[2] > start => p \in Lines(start)
        BY <1>6, <1>12, <2>1, <3>2, ByteAssumption, LinesAfter DEF IInv
      <4>2. p[2] <= start => <<gen, p>> \in stored
        BY <1>3, <1>6, <2>1, <3>1, <3>2, <1>4 DEF IInv, Complete
      <4> QED BY <1>3, <1>6, <3>1, <4>1, <4>2
    <3>3. CASE start # 0 /\ ~(e > start)
      BY <1>2, <1>3, <1>4, <1>6, <2>1, <3>1, <3>3 DEF IInv, Complete
    <3> QED BY <3>2, <3>3
  <2>2. gen \notin overtaken' => gen \notin overtaken
    BY <1>3
  <2> QED BY <1>3, <1>13, <2>1, <2>2 DEF IInv, Complete
<1> QED BY <1>8, <1>9, <1>11, <1>15, <1>16, <1>17, <1>18 DEF IInv

LEMMA StoreStep ==
  ASSUME IInv, BoundAssumption, Store
  PROVE  IInv'
<1>1. /\ pc = "store" /\ pc' = "idle"
      /\ stored' = stored \cup chunk /\ offset' = next /\ offsetGen' = startGen
      /\ UNCHANGED <<content, gen, start, startGen, chunk, next, overtaken>>
  BY DEF Store, file
<1>2. TypeInv'
  BY <1>1 DEF IInv, TypeInv
<1>3. LivesInOrder'
  BY <1>1 DEF IInv, LivesInOrder
<1>4. PassInFile'
  BY <1>1 DEF IInv, PassInFile, OffsetAtLineStart, AtLineStart
<1>5. Lines(0)' = Lines(0)
  BY <1>1 DEF Lines, Newlines
<1>6. OnlyWholeLines'
  BY <1>1, <1>5 DEF IInv, OnlyWholeLines
<1>7. BelowOffset'
  <2>1. ASSUME NEW l \in stored, l[1] = gen
        PROVE  startGen = gen /\ l[2][2] <= next
    <3>1. offsetGen = gen /\ l[2][2] <= offset
      BY <2>1 DEF IInv, BelowOffset
    <3>2. startGen = gen /\ offset <= next
      BY <1>1, <3>1 DEF IInv, TypeInv, LivesInOrder, PassInFile
    <3> QED BY <3>1, <3>2 DEF IInv, TypeInv
  <2> QED BY <1>1, <2>1 DEF IInv, BelowOffset
<1>8. LinesStoredOnce'
  BY <1>1 DEF LinesStoredOnce
<1>9. Complete'
  BY <1>1, <1>5 DEF IInv, Complete
<1> QED BY <1>2, <1>3, <1>4, <1>6, <1>7, <1>8, <1>9 DEF IInv

LEMMA FailStep ==
  ASSUME IInv, Fail \/ UNCHANGED vars
  PROVE  IInv'
<1>1. /\ pc' \in {"idle", pc}
      /\ UNCHANGED <<content, gen, start, startGen, chunk, next, offset, offsetGen, stored, overtaken>>
  BY DEF Fail, file, persist, vars, pass
<1>2. TypeInv'
  BY <1>1 DEF IInv, TypeInv
<1>3. LivesInOrder' /\ PassInFile'
  BY <1>1 DEF IInv, LivesInOrder, PassInFile, OffsetAtLineStart, AtLineStart
<1>4. OnlyWholeLines' /\ BelowOffset' /\ Complete' /\ LinesStoredOnce'
  BY <1>1 DEF IInv, OnlyWholeLines, BelowOffset, Complete, LinesStoredOnce, Lines, Newlines
<1> QED BY <1>2, <1>3, <1>4 DEF IInv

LEMMA Invariant == Spec => []IInv
<1>1. Init => IInv
  BY InitInv, BoundAssumption
<1>2. IInv /\ [Next]_vars => IInv'
  BY WriteStep, RewriteStep, OpenStep, ReadStep, StoreStep, FailStep, ByteAssumption, BoundAssumption
  DEF Next, Reader
<1> QED BY <1>1, <1>2, PTL DEF Spec

LEMMA InvIntact == IInv => LinesIntact
<1> SUFFICES ASSUME IInv PROVE LinesIntact
  OBVIOUS
<1>1. OffsetAtLineStart /\ OnlyWholeLines /\ LinesStoredOnce
  BY DEF IInv, PassInFile
<1>2. StoredBelowOffset
  <2> SUFFICES ASSUME offsetGen = gen, gen \notin overtaken
               PROVE  Taken = {p \in Lines(0) : p[2] <= offset}
    BY DEF StoredBelowOffset
  <2>1. ASSUME NEW p \in Taken
        PROVE  p \in Lines(0) /\ p[2] <= offset
    <3>1. PICK l \in stored : l[1] = gen /\ p = l[2]
      BY <2>1 DEF Taken
    <3> QED BY <3>1 DEF IInv, OnlyWholeLines, BelowOffset
  <2>2. ASSUME NEW p \in Lines(0), p[2] <= offset
        PROVE  p \in Taken
    <3>1. <<gen, p>> \in stored
      BY <2>2 DEF IInv, Complete
    <3> QED BY <3>1 DEF Taken
  <2> QED BY <2>1, <2>2
<1> QED BY <1>1, <1>2 DEF LinesIntact

LEMMA InvIntactNext == IInv' => LinesIntact'
BY InvIntact, PTL

\* Offsets are at line starts, what is handed out are whole lines, exactly those below the
\* persisted offset are stored, and none twice: read_jsonl_from and the cursor run_once keeps,
\* while the file grows and is replaced.
THEOREM Intact == Spec => []LinesIntact
<1>1. IInv => LinesIntact
  BY InvIntact
<1> QED BY <1>1, Invariant, PTL

-----------------------------------------------------------------------------
(* The reader feeds a log of lines *)

Feed == LineFeed!Next \/ UNCHANGED LineFeed!logVars

\* A byte ends one line at most, after all the others.
LEMMA WriteFeeds ==
  ASSUME IInv, ByteAssumption, BoundAssumption, NEW b \in Byte, Write(b)
  PROVE  Feed
<1>1. UNCHANGED <<gen, stored, overtaken>> /\ TypeInv
  BY DEF Write, persist, IInv
<1>2. PICK n \in Nat : n = Len(content)
  BY <1>1 DEF TypeInv
<1>3. /\ content' \in Seq(Byte) /\ Len(content') = n + 1
      /\ Lines(0) \subseteq Lines(0)'
      /\ \A p \in Lines(0)' : p[2] <= n => p \in Lines(0)
  BY <1>1, <1>2, WriteKeepsLines
<1>4. \A p \in Lines(0)' :
        /\ p \in (1..(n + 1)) \X (1..(n + 1)) /\ p[1] \in 1..(n + 1) /\ p[2] \in 1..(n + 1)
        /\ content'[p[2]] = Newline
        /\ p[1] = 1 \/ content'[p[1] - 1] = Newline
        /\ \A i \in p[1]..(p[2] - 1) : content'[i] = Char
        /\ p[2] - p[1] \in 1..MaxLineBytes
  BY <1>3 DEF Lines, Newlines
<1>5. \A p \in Lines(0) : p[2] \in 1..n /\ content'[p[2]] = Newline
  BY <1>1, <1>2, <1>3, <1>4, LineFacts
<1>6. UNCHANGED Followed(Taken)
  BY <1>1 DEF Followed, Taken
<1>7. CASE gen \in overtaken \/ Lines(0)' = Lines(0)
  BY <1>1, <1>6, <1>7 DEF Followed, Feed, LineFeed!logVars
<1>8. CASE gen \notin overtaken /\ Lines(0)' # Lines(0)
  <2>1. PICK l \in Lines(0)' : l \notin Lines(0)
    BY <1>3, <1>8
  <2>2. \A p \in Lines(0)' : p \notin Lines(0) => p[2] = n + 1
    BY <1>3, <1>4
  <2>3. ASSUME NEW p \in Lines(0)', p \notin Lines(0)
        PROVE  p = l
    <3>1. p[2] = n + 1 /\ l[2] = n + 1
      BY <2>1, <2>2, <2>3
    <3>2. ~ (p[1] < l[1])
      <4> SUFFICES ASSUME p[1] < l[1] PROVE FALSE
        OBVIOUS
      <4>1. l[1] - 1 \in p[1]..(p[2] - 1) /\ content'[l[1] - 1] = Newline
        BY <1>4, <2>1, <3>1
      <4> QED BY <1>4, <4>1, ByteAssumption
    <3>3. ~ (l[1] < p[1])
      <4> SUFFICES ASSUME l[1] < p[1] PROVE FALSE
        OBVIOUS
      <4>1. p[1] - 1 \in l[1]..(l[2] - 1) /\ content'[p[1] - 1] = Newline
        BY <1>4, <2>3, <3>1
      <4> QED BY <1>4, <4>1, ByteAssumption
    <3> QED BY <1>4, <3>1, <3>2, <3>3
  <2>4. Lines(0)' = Lines(0) \cup {l}
    BY <1>3, <2>1, <2>3
  <2>5. ASSUME NEW m \in Lines(0)
        PROVE  m[2] < l[1]
    <3>1. m[2] \notin l[1]..(l[2] - 1)
      BY <1>4, <1>5, <2>1, ByteAssumption
    <3> QED BY <1>4, <1>5, <2>1, <2>2, <3>1
  <2>6. Followed(Lines(0)) = Lines(0) /\ Followed(Lines(0))' = Lines(0)'
    BY <1>1, <1>8 DEF Followed
  <2>7. LineFeed!Finish
    BY <1>6, <2>1, <2>4, <2>5, <2>6 DEF LineFeed!Finish
  <2> QED BY <2>7 DEF Feed, LineFeed!Next
<1> QED BY <1>7, <1>8

\* A file that is replaced begins a new log.
LEMMA RewriteFeeds ==
  ASSUME IInv, Rewrite
  PROVE  Feed
<1>1. content' = <<>> /\ gen' = gen + 1 /\ stored' = stored
  BY DEF Rewrite, persist
<1>2. Lines(0)' = {}
  BY <1>1 DEF Lines, Newlines
<1>3. \A l \in stored : l[1] # gen'
  <2>1. gen \in Nat /\ \A l \in stored : l[1] \in Nat /\ l[1] <= gen
    BY DEF IInv, TypeInv, LivesInOrder
  <2> QED BY <1>1, <2>1
<1>4. Taken' = {}
  BY <1>1, <1>3 DEF Taken
<1>5. LineFeed!Replace
  BY <1>2, <1>4 DEF LineFeed!Replace, Followed
<1> QED BY <1>5 DEF Feed, LineFeed!Next

\* A life of the file that is found to be overtaken is a log no longer.
LEMMA LookFeeds ==
  ASSUME IInv, Open \/ Read \/ Fail \/ UNCHANGED vars
  PROVE  Feed
<1>1. UNCHANGED <<content, gen, stored>>
  BY DEF Open, Read, Fail, vars, file, persist
<1>2. overtaken' = overtaken \/ gen \in overtaken'
  BY DEF Open, Read, Fail, vars
<1>3. UNCHANGED <<Lines(0), Taken>>
  BY <1>1 DEF Lines, Newlines, Taken
<1>4. CASE overtaken' = overtaken
  BY <1>1, <1>3, <1>4 DEF Followed, Feed, LineFeed!logVars
<1>5. CASE gen \in overtaken'
  BY <1>1, <1>5 DEF Followed, Feed, LineFeed!Next, LineFeed!Replace
<1> QED BY <1>2, <1>4, <1>5

\* Storing a chunk takes the lines up to one of them.
LEMMA StoreFeeds ==
  ASSUME IInv, BoundAssumption, Store
  PROVE  Feed
<1>1. /\ UNCHANGED <<content, gen, overtaken>>
      /\ stored' = stored \cup chunk /\ offset' = next /\ offsetGen' = startGen /\ pc = "store"
  BY DEF Store, file
<1>2. IInv'
  BY StoreStep
<1>3. UNCHANGED Lines(0)
  BY <1>1 DEF Lines, Newlines
<1>4. Taken \subseteq Taken'
  BY <1>1 DEF Taken
<1>5. CASE gen \in overtaken \/ Taken' = Taken
  BY <1>1, <1>3, <1>5 DEF Followed, Feed, LineFeed!logVars
<1>6. CASE gen \notin overtaken /\ Taken' # Taken
  <2>1. PICK l0 \in chunk : l0[1] = gen
    BY <1>1, <1>6 DEF Taken
  <2>2. startGen = gen
    BY <1>1, <2>1 DEF IInv, BelowOffset
  <2>3. Taken' = {p \in Lines(0) : p[2] <= next}
    <3>1. StoredBelowOffset'
      BY <1>2, InvIntactNext DEF LinesIntact
    <3> QED BY <1>1, <1>3, <1>6, <2>2, <3>1 DEF StoredBelowOffset
  <2>4. offsetGen = gen => Taken = {p \in Lines(0) : p[2] <= offset}
    BY <1>6, InvIntact DEF LinesIntact, StoredBelowOffset
  <2>5. offsetGen # gen => Taken = {}
    BY DEF IInv, BelowOffset, Taken
  <2>6. \A p \in Lines(0) : p[2] \in Nat
    BY LineFacts DEF IInv
  <2>7. PICK l \in Taken' : \A m \in Taken' : m[2] <= l[2]
    <3> DEFINE S == {p[2] : p \in Taken'}
    <3>1. S \subseteq 0..next /\ S # {} /\ next \in Nat
      <4>1. next \in Nat
        BY DEF IInv, TypeInv
      <4>2. \A p \in Taken' : p[2] \in 0..next
        BY <2>3, <2>6, <4>1
      <4>3. PICK p \in Taken' : TRUE
        BY <1>4, <1>6
      <4>4. p[2] \in S
        OBVIOUS
      <4> QED BY <4>1, <4>2, <4>4
    <3>2. \E x \in S : \A y \in S : y <= x
      <4> HIDE DEF S
      <4> QED BY <3>1, LargestExists
    <3> QED BY <3>2
  <2>8. l \notin Taken
    <3> SUFFICES ASSUME l \in Taken PROVE FALSE
      OBVIOUS
    <3>1. offsetGen = gen /\ l[2] <= offset /\ offset \in Nat
      BY <2>4, <2>5 DEF IInv, TypeInv
    <3>2. \A m \in Taken' : m \in Taken
      BY <2>3, <2>4, <2>6, <2>7, <3>1
    <3> QED BY <1>4, <1>6, <3>2
  <2>9. Taken' = {m \in Lines(0) : m[2] <= l[2]}
    <3>1. l[2] <= next /\ next \in Nat /\ l[2] \in Nat
      BY <2>3, <2>6 DEF IInv, TypeInv
    <3> QED BY <2>3, <2>6, <2>7, <3>1
  <2>10. /\ Followed(Lines(0)) = Lines(0) /\ Followed(Lines(0))' = Lines(0)
         /\ Followed(Taken) = Taken /\ Followed(Taken)' = Taken'
    BY <1>1, <1>3, <1>6 DEF Followed
  <2>11. l \in Lines(0)
    BY <2>3
  <2>12. LineFeed!Take
    BY <1>4, <2>8, <2>9, <2>10, <2>11 DEF LineFeed!Take, LineFeed!UpTo
  <2> QED BY <2>12 DEF Feed, LineFeed!Next
<1> QED BY <1>5, <1>6

\* The reader makes of a file that grows and is replaced the log of whole lines that
\* CollectorPass reads: lines are finished at the end and taken in order, none left out.
THEOREM LogRefinement == Spec => LineFeed!Spec
<1>1. Init => LineFeed!Init
  BY DEF Init, LineFeed!Init, Followed, Lines, Newlines, Taken
<1>2. IInv /\ [Next]_vars => [LineFeed!Next]_(LineFeed!logVars)
  BY WriteFeeds, RewriteFeeds, LookFeeds, StoreFeeds, ByteAssumption, BoundAssumption
  DEF Next, Reader, Feed
<1> QED BY <1>1, <1>2, Invariant, PTL DEF Spec, LineFeed!Spec

=============================================================================
