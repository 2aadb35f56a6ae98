------------------------- MODULE CodexRolloutProofs -------------------------
(***************************************************************************)
(* What the rollout collector stores, for every file, number of passes and *)
(* of failures: no response behind the offset is lost, no row names a      *)
(* wrong model, and a response has two rows in two named cases only.       *)
(***************************************************************************)
EXTENDS CodexRollout, FiniteSetTheorems, WellFoundedInduction, TLAPS

-----------------------------------------------------------------------------
(* Every set of numbers has a least one, a bounded one a largest *)

LEMMA LeastExists ==
  ASSUME NEW S, S \subseteq Nat, S # {}
  PROVE  \E x \in S : \A y \in S : x <= y
<1> DEFINE R == {p \in Nat \X Nat : p[1] < p[2]}
<1>1. IsWellFoundedOn(R, Nat)
  BY NatLessThanWellFounded DEF OpToRel
<1>2. PICK x \in S : \A y \in S : ~ (<<y, x>> \in R)
  <2> HIDE DEF R
  <2> QED BY <1>1, WFMin
<1>3. ASSUME NEW y \in S PROVE x <= y
  <2>1. x \in Nat /\ y \in Nat
    OBVIOUS
  <2>2. ~ (y < x)
    BY <1>2, <2>1
  <2> QED BY <2>1, <2>2
<1> QED BY <1>3

LEMMA LargestExists ==
  ASSUME NEW B \in Nat, NEW S, S \subseteq 0..B, S # {}
  PROVE  \E x \in S : \A y \in S : y <= x
<1> DEFINE T == {B - x : x \in S}
<1>1. T \subseteq Nat /\ T # {}
  <2>1. \A x \in S : B - x \in Nat
    OBVIOUS
  <2>2. PICK x \in S : TRUE
    OBVIOUS
  <2>3. B - x \in T
    OBVIOUS
  <2>4. T \subseteq Nat
    BY <2>1
  <2> QED BY <2>3, <2>4
<1>2. PICK d \in T : \A e \in T : d <= e
  <2> HIDE DEF T
  <2> QED BY <1>1, LeastExists
<1>3. PICK x \in S : d = B - x
  OBVIOUS
<1>4. ASSUME NEW y \in S PROVE y <= x
  <2>1. B - y \in T
    OBVIOUS
  <2> HIDE DEF T
  <2>2. d <= B - y
    BY <1>2, <2>1
  <2> QED BY <1>3, <2>2
<1> QED BY <1>4

-----------------------------------------------------------------------------
(* Where the lines of a file begin *)

Texts(f, n)   == {i \in 1..n : f[i].type # "empty"}
BytesOf(f, n) == n + Cardinality(Texts(f, n))

LEMMA TextsFinite ==
  ASSUME NEW f, NEW n \in Nat
  PROVE  IsFiniteSet(Texts(f, n)) /\ Cardinality(Texts(f, n)) \in Nat
<1>1. Texts(f, n) \in SUBSET (1..n) /\ IsFiniteSet(1..n)
  BY FS_Interval DEF Texts
<1>2. IsFiniteSet(Texts(f, n))
  BY <1>1, FS_Subset
<1> QED BY <1>2, FS_CardinalityType

LEMMA BytesType ==
  ASSUME NEW f, NEW n \in Nat
  PROVE  BytesOf(f, n) \in Nat /\ BytesOf(f, n) >= n
<1>1. PICK k \in Nat : Cardinality(Texts(f, n)) = k
  BY TextsFinite
<1> QED BY <1>1 DEF BytesOf

\* A line is at least one wide, ...
LEMMA BytesGrow ==
  ASSUME NEW f, NEW m \in Nat, NEW n \in Nat, m <= n
  PROVE  BytesOf(f, n) - BytesOf(f, m) >= n - m
<1>1. Texts(f, m) \in SUBSET Texts(f, n)
  BY DEF Texts
<1>2. Cardinality(Texts(f, m)) <= Cardinality(Texts(f, n))
  BY <1>1, TextsFinite, FS_Subset
<1>3. PICK k \in Nat, l \in Nat : Cardinality(Texts(f, m)) = k /\ Cardinality(Texts(f, n)) = l
  BY TextsFinite
<1> QED BY <1>2, <1>3 DEF BytesOf

\* ... and a line of text two.
LEMMA TextIsWider ==
  ASSUME NEW f, NEW m \in Nat, NEW n \in Nat, NEW i \in (m + 1)..n, f[i].type # "empty"
  PROVE  BytesOf(f, n) - BytesOf(f, m) >= n - m + 1
<1>1. (Texts(f, m) \cup {i}) \in SUBSET Texts(f, n) /\ i \notin Texts(f, m)
  BY DEF Texts
<1>2. IsFiniteSet(Texts(f, m)) /\ IsFiniteSet(Texts(f, n))
  BY TextsFinite
<1>3. Cardinality(Texts(f, m) \cup {i}) = Cardinality(Texts(f, m)) + 1
  BY <1>1, <1>2, FS_AddElement
<1>4. Cardinality(Texts(f, m) \cup {i}) <= Cardinality(Texts(f, n))
  BY <1>1, <1>2, FS_Subset
<1>5. PICK k \in Nat, l \in Nat : Cardinality(Texts(f, m)) = k /\ Cardinality(Texts(f, n)) = l
  BY TextsFinite
<1>6. BytesOf(f, m) = m + k /\ BytesOf(f, n) = n + l /\ k + 1 <= l
  BY <1>3, <1>4, <1>5 DEF BytesOf
<1> QED BY <1>6

\* A line that begins at or after the end of the first m lines is none of them.
LEMMA BeginsAfter ==
  ASSUME NEW f, NEW m \in Nat, NEW i \in Nat \ {0}, BytesOf(f, i - 1) >= BytesOf(f, m)
  PROVE  i > m
<1> SUFFICES ASSUME i <= m PROVE FALSE
  OBVIOUS
<1>1. i - 1 \in Nat /\ i - 1 <= m
  OBVIOUS
<1>2. PICK k \in Nat, l \in Nat : BytesOf(f, i - 1) = k /\ BytesOf(f, m) = l
  BY <1>1, BytesType
<1>3. l - k >= m - (i - 1)
  BY <1>1, <1>2, BytesGrow
<1> QED BY <1>2, <1>3

\* A line that ends after the first m lines begins at or after their end.
LEMMA EndsAfter ==
  ASSUME NEW f, NEW m \in Nat, NEW i \in Nat \ {0}, BytesOf(f, i) > BytesOf(f, m)
  PROVE  BytesOf(f, i - 1) >= BytesOf(f, m)
<1>1. i > m
  <2> SUFFICES ASSUME i <= m PROVE FALSE
    OBVIOUS
  <2>1. PICK k \in Nat, l \in Nat : BytesOf(f, i) = k /\ BytesOf(f, m) = l
    BY BytesType
  <2>2. l - k >= m - i
    BY <2>1, BytesGrow
  <2> QED BY <2>1, <2>2
<1>2. i - 1 \in Nat /\ m <= i - 1
  BY <1>1
<1>3. PICK k \in Nat, l \in Nat : BytesOf(f, i - 1) = k /\ BytesOf(f, m) = l
  BY <1>2, BytesType
<1>4. k - l >= (i - 1) - m
  BY <1>2, <1>3, BytesGrow
<1> QED BY <1>2, <1>3, <1>4

\* What is appended moves no line.
LEMMA BytesAppended ==
  ASSUME NEW f \in Seq(Line), NEW l \in Line, NEW n \in 0..Len(f)
  PROVE  BytesOf(Append(f, l), n) = BytesOf(f, n)
<1>1. \A i \in 1..n : Append(f, l)[i] = f[i]
  OBVIOUS
<1>2. Texts(Append(f, l), n) = Texts(f, n)
  BY <1>1 DEF Texts
<1> QED BY <1>2 DEF BytesOf

-----------------------------------------------------------------------------
(* The offsets a pass computes for the lines of its chunk *)

ChunkOf(f, s)            == {i \in DOMAIN f : f[i].type # "empty" /\ BytesOf(f, i - 1) >= s}
Skipped(f, s, i)         == {j \in 1..(i - 1) : ~ (f[j].type # "empty") /\ BytesOf(f, j - 1) >= s}
LineOffsetOf(f, o, s, i) == o + (BytesOf(f, i - 1) - s) - Cardinality(Skipped(f, s, i))

LEMMA SpanSize ==
  ASSUME NEW a \in Nat, NEW b \in Nat, a <= b
  PROVE  IsFiniteSet((a + 1)..b) /\ Cardinality((a + 1)..b) = b - a
<1>1. a + 1 \in Int /\ b \in Int
  OBVIOUS
<1>2. /\ IsFiniteSet((a + 1)..b)
      /\ Cardinality((a + 1)..b) = IF a + 1 > b THEN 0 ELSE b - (a + 1) + 1
  BY <1>1, FS_Interval
<1> QED BY <1>2

LEMMA SkippedFinite ==
  ASSUME NEW f, NEW s, NEW i \in Nat \ {0}
  PROVE  IsFiniteSet(Skipped(f, s, i)) /\ Cardinality(Skipped(f, s, i)) \in Nat
<1>1. Skipped(f, s, i) \in SUBSET (1..(i - 1)) /\ IsFiniteSet(1..(i - 1))
  BY FS_Interval DEF Skipped
<1>2. IsFiniteSet(Skipped(f, s, i))
  BY <1>1, FS_Subset
<1> QED BY <1>2, FS_CardinalityType

LEMMA LineOffsetType ==
  ASSUME NEW f, NEW o \in Nat, NEW s \in Nat, NEW i \in Nat \ {0}
  PROVE  LineOffsetOf(f, o, s, i) \in Int
<1>1. i - 1 \in Nat
  OBVIOUS
<1>2. PICK k \in Nat, l \in Nat :
        BytesOf(f, i - 1) = k /\ Cardinality(Skipped(f, s, i)) = l
  BY <1>1, BytesType, SkippedFinite
<1> QED BY <1>2 DEF LineOffsetOf

\* They grow from line to line, as an empty line takes away less than a line of text adds.
LEMMA LineOffsetsGrow ==
  ASSUME NEW f \in Seq(Line), NEW o \in Nat, NEW s \in Nat,
         NEW i \in ChunkOf(f, s), NEW j \in ChunkOf(f, s), i < j
  PROVE  LineOffsetOf(f, o, s, i) < LineOffsetOf(f, o, s, j)
<1>1. i \in Nat \ {0} /\ j \in Nat \ {0} /\ f[i].type # "empty"
  BY DEF ChunkOf
<1> DEFINE Between == (i + 1)..(j - 1)
<1>2. IsFiniteSet(Between) /\ Cardinality(Between) = j - 1 - i
  <2>1. j - 1 \in Nat /\ i \in Nat /\ i <= j - 1
    BY <1>1
  <2> QED BY <2>1, SpanSize
<1>3. IsFiniteSet(Skipped(f, s, i)) /\ IsFiniteSet(Skipped(f, s, j))
  BY <1>1, SkippedFinite
<1>4. Skipped(f, s, j) \in SUBSET (Skipped(f, s, i) \cup Between)
  BY <1>1 DEF Skipped
<1> HIDE DEF Between
<1>5. /\ IsFiniteSet(Skipped(f, s, i) \cup Between)
      /\ Cardinality(Skipped(f, s, i) \cup Between)
           = Cardinality(Skipped(f, s, i)) + Cardinality(Between)
               - Cardinality(Skipped(f, s, i) \cap Between)
  BY <1>2, <1>3, FS_Union
<1>6. Cardinality(Skipped(f, s, j)) <= Cardinality(Skipped(f, s, i) \cup Between)
  BY <1>4, <1>5, FS_Subset
<1>7. Cardinality(Skipped(f, s, i) \cap Between) \in Nat
  BY <1>3, FS_Intersection, FS_CardinalityType
<1>8. PICK ki \in Nat, kj \in Nat :
        Cardinality(Skipped(f, s, i)) = ki /\ Cardinality(Skipped(f, s, j)) = kj
  BY <1>1, SkippedFinite
<1>9. kj <= ki + (j - 1 - i)
  BY <1>1, <1>2, <1>5, <1>6, <1>7, <1>8
<1>10. i - 1 \in Nat /\ j - 1 \in Nat /\ i \in ((i - 1) + 1)..(j - 1)
  BY <1>1
<1>11. PICK bi \in Nat, bj \in Nat : BytesOf(f, i - 1) = bi /\ BytesOf(f, j - 1) = bj
  BY <1>10, BytesType
<1>12. bj - bi >= (j - 1) - (i - 1) + 1
  BY <1>1, <1>10, <1>11, TextIsWider
<1>13. /\ LineOffsetOf(f, o, s, i) = o + (bi - s) - ki
       /\ LineOffsetOf(f, o, s, j) = o + (bj - s) - kj
  BY <1>8, <1>11 DEF LineOffsetOf
<1>14. kj - ki < bj - bi
  BY <1>1, <1>9, <1>12
<1> QED BY <1>13, <1>14

\* From an offset at which a line begins, those of the chunk lie between that offset and
\* the end of the file.
LEMMA LineOffsetBounds ==
  ASSUME NEW f \in Seq(Line), NEW a \in 0..Len(f), NEW s \in Nat, s = BytesOf(f, a),
         NEW i \in ChunkOf(f, s)
  PROVE  s <= LineOffsetOf(f, s, s, i) /\ LineOffsetOf(f, s, s, i) < BytesOf(f, Len(f))
<1>1. PICK n \in Nat : n = Len(f)
  OBVIOUS
<1>2. i \in 1..n /\ a \in 0..n /\ BytesOf(f, i - 1) >= BytesOf(f, a)
  BY <1>1 DEF ChunkOf
<1>3. a <= i - 1
  BY <1>2, BeginsAfter
<1>4. Skipped(f, s, i) \in SUBSET ((a + 1)..(i - 1))
  <2>1. ASSUME NEW j \in 1..(i - 1), BytesOf(f, j - 1) >= BytesOf(f, a) PROVE j > a
    BY <1>2, <2>1, BeginsAfter
  <2> QED BY <2>1 DEF Skipped
<1>5. IsFiniteSet((a + 1)..(i - 1)) /\ Cardinality((a + 1)..(i - 1)) = i - 1 - a
  <2>1. a \in Nat /\ i - 1 \in Nat
    BY <1>2
  <2> QED BY <1>3, <2>1, SpanSize
<1>6. Cardinality(Skipped(f, s, i)) <= i - 1 - a
  BY <1>4, <1>5, FS_Subset
<1>7. PICK k \in Nat : Cardinality(Skipped(f, s, i)) = k
  BY <1>2, SkippedFinite
<1>8. PICK b \in Nat, e \in Nat : BytesOf(f, i - 1) = b /\ BytesOf(f, n) = e
  BY <1>2, BytesType
<1>9. b - s >= i - 1 - a
  BY <1>2, <1>3, <1>8, BytesGrow
<1>10. e - b >= n - (i - 1)
  BY <1>2, <1>8, BytesGrow
<1>11. LineOffsetOf(f, s, s, i) = s + (b - s) - k
  BY <1>7, <1>8 DEF LineOffsetOf
<1> QED BY <1>1, <1>2, <1>3, <1>6, <1>7, <1>8, <1>9, <1>10, <1>11

LEMMA LineOffsetAppended ==
  ASSUME NEW f \in Seq(Line), NEW l \in Line, NEW o, NEW s, NEW i \in 1..Len(f)
  PROVE  LineOffsetOf(Append(f, l), o, s, i) = LineOffsetOf(f, o, s, i)
<1>1. \A n \in 0..Len(f) : BytesOf(Append(f, l), n) = BytesOf(f, n)
  BY BytesAppended
<1>2. \A n \in 1..Len(f) : Append(f, l)[n] = f[n]
  OBVIOUS
<1>3. \A j \in 1..(i - 1) : j \in 1..Len(f) /\ j - 1 \in 0..Len(f)
  OBVIOUS
<1>4. Skipped(Append(f, l), s, i) = Skipped(f, s, i)
  BY <1>1, <1>2, <1>3 DEF Skipped
<1>5. i - 1 \in 0..Len(f)
  OBVIOUS
<1> QED BY <1>1, <1>4, <1>5 DEF LineOffsetOf

-----------------------------------------------------------------------------
(* The inductive invariant *)

TypeInv ==
  /\ types \in Versions
  /\ file \in Seq(Line) /\ \A i \in DOMAIN file : file[i].type \in types
  /\ offset \in Nat
  /\ rewrites \in 0..MaxRewrites[types]

KeysUnique == \A u, v \in usage : u.key = v.key => u = v

\* A row has the key of the format its line is of.
KeyFitsFormat ==
  \A u \in usage :
    \/ u.key = <<"response", u.resp>> /\ "token_usage_record" \in types
    \/ (\E k \in Int : u.key = <<"offset", k>>) /\ "token_count" \in types

OffsetAtLine == rewrites = 0 => \E n \in 0..Len(file) : offset = Bytes(n)

\* What Codex writes: one count of a response, and only after its usage record.
CountsOnce ==
  \A i, j \in DOMAIN file :
    /\ file[i].type = "token_count" /\ file[j].type = "token_count"
    /\ file[i].names = file[j].names
    => i = j

RecordBefore ==
  "token_usage_record" \in types =>
    \A i \in DOMAIN file : file[i].type = "token_count" =>
      \E j \in DOMAIN file :
        j < i /\ file[j].type = "token_usage_record" /\ file[j].names = file[i].names

\* A row keyed by an offset is that of a count in the file: of one behind the persisted
\* offset, under a key below it, or of one that the next pass will give the same key.
OffsetUsage ==
  rewrites = 0 =>
    \A u \in usage : \A k \in Int : u.key = <<"offset", k>> =>
      \E i \in DOMAIN file :
        /\ file[i].type = "token_count" /\ file[i].names = u.resp
        /\ \/ Bytes(i) <= offset /\ k < offset
           \/ Bytes(i - 1) >= offset /\ k = LineOffset(i)

\* In a file of both formats, a count has made a row only if its usage record lay before
\* the start of that pass.
CountsApart ==
  rewrites = 0 /\ "token_usage_record" \in types =>
    \A u \in usage : \A k \in Int : u.key = <<"offset", k>> => u.resp \in apart

IInv ==
  /\ TypeInv /\ KeysUnique /\ KeyFitsFormat /\ OffsetAtLine /\ CountsOnce /\ RecordBefore
  /\ OffsetUsage /\ CountsApart /\ ResponsesBelowOffsetCounted /\ ModelNeverWrong

-----------------------------------------------------------------------------
(* Lines and chunks of a state *)

LEMMA BytesHere ==
  /\ \A n : Bytes(n) = BytesOf(file, n)
  /\ \A n : Bytes(n)' = BytesOf(file', n)
BY DEF Bytes, BytesOf, Texts, IsText

LEMMA ChunkHere == Chunk = ChunkOf(file, Start)
BY BytesHere DEF Chunk, ChunkOf, IsText

LEMMA LineOffsetHere ==
  /\ \A i : LineOffset(i) = LineOffsetOf(file, offset, Start, i)
  /\ \A i : LineOffset(i)' = LineOffsetOf(file', offset', Start', i)
BY BytesHere DEF LineOffset, LineOffsetOf, Skipped, IsText

LEMMA LineParts ==
  ASSUME NEW l \in Line
  PROVE  /\ l = [type |-> l.type, names |-> l.names]
         /\ l.type \in {"token_usage_record", "token_count"} <=> l.names \in Responses
         /\ l.type = "turn_context" <=> l.names \in Models
<1> USE NamesAssumption
<1>1. CASE l \in [type : {"turn_context"}, names : Models]
  BY <1>1
<1>2. CASE l \in [type : {"token_usage_record", "token_count"}, names : Responses]
  BY <1>2
<1>3. CASE l \in [type : {"empty"}, names : {Unknown}]
  BY <1>3
<1> QED BY <1>1, <1>2, <1>3 DEF Line

LEMMA StartIsNat ==
  ASSUME TypeInv
  PROVE  Start \in Nat
BY DEF TypeInv, Start

\* As long as nothing was cut away a pass begins at the persisted offset, which begins a line.
LEMMA StartIsOffset ==
  ASSUME TypeInv, OffsetAtLine, rewrites = 0
  PROVE  Start = offset /\ \E a \in 0..Len(file) : offset = BytesOf(file, a)
<1>1. PICK n \in Nat : n = Len(file)
  BY DEF TypeInv
<1>2. PICK a \in 0..n : offset = BytesOf(file, a)
  BY <1>1, BytesHere DEF OffsetAtLine
<1>3. PICK k \in Nat, l \in Nat : BytesOf(file, a) = k /\ BytesOf(file, n) = l
  BY <1>2, BytesType
<1>4. l - k >= n - a
  BY <1>2, <1>3, BytesGrow
<1>5. ~ (offset > Bytes(Len(file)))
  BY <1>1, <1>2, <1>3, <1>4, BytesHere
<1> QED BY <1>1, <1>2, <1>5 DEF Start

LEMMA StartStays == TypeInv /\ OffsetAtLine /\ rewrites = 0 => Start = offset
BY StartIsOffset

LEMMA KeyParts ==
  ASSUME TypeInv, NEW i \in Counted
  PROVE  /\ i \in DOMAIN file /\ i \in Nat \ {0} /\ i \in ChunkOf(file, Start)
         /\ file[i].names \in Responses
         /\ \/ file[i].type = "token_usage_record" /\ Key(i) = <<"response", file[i].names>>
            \/ /\ file[i].type = "token_count" /\ Key(i) = <<"offset", LineOffset(i)>>
               /\ LineOffset(i) \in Int
<1>1. i \in Chunk /\ i \in DOMAIN file
  BY DEF Counted, Chunk
<1>2. i \in 1..Len(file) /\ file[i] \in Line
  BY <1>1 DEF TypeInv
<1>3. LineOffset(i) \in Int
  BY <1>2, LineOffsetHere, LineOffsetType, StartIsNat DEF TypeInv
<1>4. file[i].type \in {"token_usage_record", "token_count"}
  BY DEF Counted
<1>5. file[i].names \in Responses
  BY <1>2, <1>4, LineParts
<1> QED BY <1>1, <1>2, <1>3, <1>4, <1>5, ChunkHere DEF Key

\* Two counts of a chunk have two keys.
LEMMA CountKeysDiffer ==
  ASSUME TypeInv, NEW i \in ChunkOf(file, Start), NEW j \in ChunkOf(file, Start),
         LineOffset(i) = LineOffset(j)
  PROVE  i = j
<1>1. i \in Nat \ {0} /\ j \in Nat \ {0}
  BY DEF ChunkOf, TypeInv
<1>2. LineOffset(i) \in Int /\ LineOffset(j) \in Int
  BY <1>1, LineOffsetHere, LineOffsetType, StartIsNat DEF TypeInv
<1>3. ~ (i < j) /\ ~ (j < i)
  BY <1>2, LineOffsetHere, LineOffsetsGrow, StartIsNat DEF TypeInv
<1> QED BY <1>1, <1>3

\* Of the lines with the key of a counted line there is a first one.
LEMMA FirstWithKey ==
  ASSUME TypeInv, NEW i \in Counted
  PROVE  \E c \in Counted : Key(c) = Key(i) /\ \A d \in Counted : d < c => Key(d) # Key(c)
<1> DEFINE Same == {d \in Counted : Key(d) = Key(i)}
<1>1. Same \subseteq Nat /\ Same # {}
  BY KeyParts
<1>2. PICK c \in Same : \A d \in Same : c <= d
  <2> HIDE DEF Same
  <2> QED BY <1>1, LeastExists
<1>3. ASSUME NEW d \in Counted, d < c PROVE Key(d) # Key(c)
  <2>1. d \in Nat /\ c \in Nat
    BY <1>1, KeyParts
  <2> QED BY <1>2, <1>3, <2>1
<1> QED BY <1>3

LEMMA BatchParts ==
  ASSUME NEW b \in Batch
  PROVE  \E i \in Counted :
           /\ b = [key |-> Key(i), resp |-> file[i].names, model |-> ModelAt(i)]
           /\ b.key = Key(i) /\ b.resp = file[i].names /\ b.model = ModelAt(i)
           /\ \A d \in Counted : d < i => Key(d) # Key(i)
BY DEF Batch

-----------------------------------------------------------------------------
(* Codex appends a line *)

LEMMA AppendFacts ==
  ASSUME TypeInv, NEW l \in Line, AppendLine(l)
  PROVE  /\ Len(file') = Len(file) + 1 /\ file' \in Seq(Line)
         /\ \A i \in DOMAIN file : i \in DOMAIN file' /\ file'[i] = file[i]
         /\ \A i \in DOMAIN file' : i \in DOMAIN file \/ (i = Len(file) + 1 /\ file'[i] = l)
         /\ \A n \in 0..Len(file) : BytesOf(file', n) = BytesOf(file, n)
         /\ types' = types /\ offset' = offset /\ usage' = usage /\ rewrites' = rewrites
         /\ apart' = apart
<1>1. file \in Seq(Line) /\ file' = Append(file, l)
  BY DEF TypeInv, AppendLine
<1>2. /\ Len(file') = Len(file) + 1 /\ file' \in Seq(Line)
      /\ \A i \in DOMAIN file : i \in DOMAIN file' /\ file'[i] = file[i]
      /\ \A i \in DOMAIN file' : i \in DOMAIN file \/ (i = Len(file) + 1 /\ file'[i] = l)
  BY <1>1
<1> QED BY <1>1, <1>2, BytesAppended DEF AppendLine

LEMMA AppendKeepsFormats ==
  ASSUME TypeInv, CountsOnce, RecordBefore, NEW l \in Line, AppendLine(l)
  PROVE  TypeInv' /\ CountsOnce' /\ RecordBefore'
<1> USE AppendFacts
<1>1. TypeInv'
  <2>1. \A i \in DOMAIN file' : file'[i].type \in types
    BY DEF TypeInv, AppendLine
  <2> QED BY <2>1 DEF TypeInv
<1>2. ASSUME NEW type, NEW i \in DOMAIN file, file[i].type = type, file[i].names = l.names
      PROVE  Has(type, l.names)
  <2>1. file[i] \in Line
    BY DEF TypeInv
  <2> QED BY <1>2, <2>1, LineParts DEF Has
<1>3. CountsOnce'
  <2>1. ASSUME NEW i \in DOMAIN file, file[i].type = "token_count", l.type = "token_count",
               file[i].names = l.names
        PROVE  FALSE
    BY <1>2, <2>1 DEF AppendLine
  <2> QED BY <2>1 DEF CountsOnce
<1>4. RecordBefore'
  <2> SUFFICES ASSUME "token_usage_record" \in types, NEW i \in DOMAIN file',
                      file'[i].type = "token_count"
               PROVE  \E j \in DOMAIN file' : /\ j < i /\ file'[j].type = "token_usage_record"
                                             /\ file'[j].names = file'[i].names
    BY DEF RecordBefore
  <2>1. CASE i \in DOMAIN file
    <3>1. PICK j \in DOMAIN file : /\ j < i /\ file[j].type = "token_usage_record"
                                   /\ file[j].names = file[i].names
      BY <2>1 DEF RecordBefore
    <3> QED BY <2>1, <3>1
  <2>2. CASE i = Len(file) + 1 /\ file'[i] = l
    <3>1. PICK j \in DOMAIN file : file[j] = [type |-> "token_usage_record", names |-> l.names]
      BY <2>2 DEF AppendLine, Has
    <3>2. j < i
      BY <2>2 DEF TypeInv
    <3>3. file[j].type = "token_usage_record" /\ file[j].names = l.names
      BY <3>1
    <3> QED BY <2>2, <3>2, <3>3
  <2> QED BY <2>1, <2>2
<1> QED BY <1>1, <1>3, <1>4

LEMMA ContextAppended ==
  ASSUME TypeInv, NEW l \in Line, AppendLine(l), NEW i \in DOMAIN file
  PROVE  ContextAt(i)' = ContextAt(i)
<1>1. \A j \in 1..(i - 1) : j \in DOMAIN file
  BY DEF TypeInv
<1>2. {j \in 1..(i - 1) : file'[j].type = "turn_context"}
        = {j \in 1..(i - 1) : file[j].type = "turn_context"}
  BY <1>1, AppendFacts
<1> DEFINE cs == {j \in 1..(i - 1) : file[j].type = "turn_context"}
<1>3. CASE cs = {}
  BY <1>2, <1>3 DEF ContextAt
<1>4. CASE cs # {}
  <2> DEFINE c == CHOOSE j \in cs : \A k \in cs : k <= j
  <2>1. PICK n \in Nat : n = Len(file) /\ i \in 1..n
    BY DEF TypeInv
  <2>2. \E j \in cs : \A k \in cs : k <= j
    <3>1. cs \subseteq 0..n
      BY <2>1
    <3> HIDE DEF cs
    <3> QED BY <1>4, <2>1, <3>1, LargestExists
  <2>3. c \in cs
    BY <2>2
  <2>4. c \in DOMAIN file
    BY <1>1, <2>3
  <2>5. file'[c] = file[c]
    BY <2>4, AppendFacts
  <2>6. ContextAt(i) = file[c].names
    BY <1>4 DEF ContextAt
  <2>7. ContextAt(i)' = file'[c].names
    BY <1>2, <1>4 DEF ContextAt
  <2> QED BY <2>5, <2>6, <2>7
<1> QED BY <1>3, <1>4

LEMMA AppendStep ==
  ASSUME IInv, NEW l \in Line, AppendLine(l)
  PROVE  IInv'
<1> USE DEF IInv
<1>1. TypeInv' /\ CountsOnce' /\ RecordBefore'
  BY AppendKeepsFormats
<1>2. KeysUnique' /\ KeyFitsFormat' /\ CountsApart'
  BY AppendFacts DEF KeysUnique, KeyFitsFormat, CountsApart
<1>3. \A n : Bytes(n)' = BytesOf(file', n)
  BY BytesHere
<1>4. \A n \in 0..Len(file) : Bytes(n)' = Bytes(n)
  BY <1>3, AppendFacts, BytesHere
<1>5. PICK m \in Nat : m = Len(file) /\ DOMAIN file = 1..m
  BY DEF TypeInv
<1>6. OffsetAtLine'
  <2> SUFFICES ASSUME rewrites = 0 PROVE \E n \in 0..Len(file') : offset = Bytes(n)'
    BY AppendFacts DEF OffsetAtLine
  <2>1. PICK n \in 0..Len(file) : offset = Bytes(n)
    BY DEF OffsetAtLine
  <2> QED BY <1>4, <1>5, <2>1, AppendFacts
<1>7. OffsetUsage'
  <2> SUFFICES ASSUME rewrites = 0, NEW u \in usage, NEW k \in Int, u.key = <<"offset", k>>
               PROVE  \E i \in DOMAIN file' :
                        /\ file'[i].type = "token_count" /\ file'[i].names = u.resp
                        /\ \/ Bytes(i)' <= offset /\ k < offset
                           \/ Bytes(i - 1)' >= offset /\ k = LineOffset(i)'
    BY AppendFacts DEF OffsetUsage
  <2>1. PICK i \in DOMAIN file :
          /\ file[i].type = "token_count" /\ file[i].names = u.resp
          /\ \/ Bytes(i) <= offset /\ k < offset
             \/ Bytes(i - 1) >= offset /\ k = LineOffset(i)
    BY DEF OffsetUsage
  <2>2. i \in 0..Len(file) /\ i - 1 \in 0..Len(file) /\ i \in 1..Len(file)
    BY <1>5
  <2>3. LineOffset(i)' = LineOffset(i)
    <3>1. Start = offset
      BY StartIsOffset
    <3>2. Start' = offset
      <4>1. (TypeInv /\ OffsetAtLine /\ rewrites = 0 => Start = offset)'
        BY StartStays, PTL
      <4> QED BY <1>1, <1>6, <4>1, AppendFacts
    <3>3. LineOffset(i)' = LineOffsetOf(file', offset', Start', i)
      BY LineOffsetHere
    <3>4. file' = Append(file, l) /\ offset' = offset
      BY DEF AppendLine
    <3> QED BY <2>2, <3>1, <3>2, <3>3, <3>4, LineOffsetHere, LineOffsetAppended DEF TypeInv
  <2> QED BY <1>4, <2>1, <2>2, <2>3, AppendFacts
<1>8. ResponsesBelowOffsetCounted'
  <2> SUFFICES ASSUME rewrites = 0, NEW i \in DOMAIN file', Bytes(i)' <= offset,
                      file'[i].names \in Responses
               PROVE  \E u \in usage : u.resp = file'[i].names
    BY AppendFacts DEF ResponsesBelowOffsetCounted
  <2>1. CASE i \in DOMAIN file
    BY <1>4, <1>5, <2>1, AppendFacts DEF ResponsesBelowOffsetCounted
  <2>2. CASE i = Len(file) + 1
    <3>1. PICK a \in 0..m : offset = BytesOf(file, a)
      BY <1>5, StartIsOffset
    <3>2. offset = BytesOf(file', a)
      BY <1>5, <3>1, AppendFacts
    <3>3. PICK b \in Nat, c \in Nat : BytesOf(file', a) = b /\ BytesOf(file', m + 1) = c
      BY <3>1, BytesType
    <3>4. c - b >= (m + 1) - a
      BY <3>1, <3>3, BytesGrow
    <3> QED BY <1>3, <1>5, <2>2, <3>1, <3>2, <3>3, <3>4
  <2> QED BY <2>1, <2>2, AppendFacts
<1>9. ModelNeverWrong'
  <2> SUFFICES ASSUME rewrites = 0, NEW u \in usage, u.model # Unknown
               PROVE  \E i \in DOMAIN file' : file'[i].names = u.resp /\ ContextAt(i)' = u.model
    BY AppendFacts DEF ModelNeverWrong, Attributed
  <2>1. PICK i \in DOMAIN file : file[i].names = u.resp /\ ContextAt(i) = u.model
    BY DEF ModelNeverWrong, Attributed
  <2> QED BY <2>1, AppendFacts, ContextAppended
<1> QED BY <1>1, <1>2, <1>6, <1>7, <1>8, <1>9

-----------------------------------------------------------------------------
(* The file is cut back *)

LEMMA CutBackStep ==
  ASSUME IInv, NEW n \in 0..(Len(file) - 1), CutBack(n)
  PROVE  IInv'
<1> USE DEF IInv
<1>1. PICK m \in Nat : m = Len(file) /\ DOMAIN file = 1..m
  BY DEF TypeInv
<1>2. n \in Nat /\ n < m
  BY <1>1
<1>3. file \in Seq(Line) /\ file' = SubSeq(file, 1, n)
  BY DEF TypeInv, CutBack
<1>4. file' \in Seq(Line) /\ DOMAIN file' = 1..n /\ \A i \in 1..n : file'[i] = file[i]
  BY <1>1, <1>2, <1>3
<1>5. /\ types' = types /\ offset' = offset /\ usage' = usage
      /\ rewrites' \in 0..MaxRewrites[types] /\ rewrites' # 0
  <2>1. MaxRewrites[types] \in Nat
    BY BoundAssumption DEF TypeInv
  <2> QED BY <2>1 DEF CutBack, TypeInv
<1>6. TypeInv'
  BY <1>1, <1>2, <1>4, <1>5 DEF TypeInv
<1>7. KeysUnique' /\ KeyFitsFormat'
  BY <1>5 DEF KeysUnique, KeyFitsFormat
<1>8. CountsOnce'
  BY <1>1, <1>2, <1>4 DEF CountsOnce
<1>9. RecordBefore'
  <2> SUFFICES ASSUME "token_usage_record" \in types, NEW i \in 1..n,
                      file'[i].type = "token_count"
               PROVE  \E j \in 1..n : /\ j < i /\ file'[j].type = "token_usage_record"
                                      /\ file'[j].names = file'[i].names
    BY <1>4, <1>5 DEF RecordBefore
  <2>1. i \in 1..m
    BY <1>2
  <2>2. PICK j \in 1..m : /\ j < i /\ file[j].type = "token_usage_record"
                          /\ file[j].names = file[i].names
    BY <1>1, <1>4, <2>1 DEF RecordBefore
  <2>3. j \in 1..n
    BY <1>2, <2>2
  <2> QED BY <1>4, <2>2, <2>3
<1>10. /\ OffsetAtLine' /\ OffsetUsage' /\ CountsApart' /\ ResponsesBelowOffsetCounted'
       /\ ModelNeverWrong'
  BY <1>5 DEF OffsetAtLine, OffsetUsage, CountsApart, ResponsesBelowOffsetCounted, ModelNeverWrong
<1> QED BY <1>6, <1>7, <1>8, <1>9, <1>10

-----------------------------------------------------------------------------
(* A pass stores its records *)

\* What the file is behind the persisted offset, and what a pass leaves as it is.
PassOnFile ==
  /\ InsertUsageBatch
  /\ UNCHANGED <<types, file, rewrites>>
  /\ offset' = offset \/ offset' = Bytes(Len(file))

LEMMA Stored ==
  ASSUME PassOnFile, NEW u \in usage'
  PROVE  u \in usage \/ (u \in Batch /\ \A v \in usage : v.key # u.key)
BY DEF PassOnFile, InsertUsageBatch

LEMMA StoredKeys ==
  ASSUME TypeInv, KeysUnique, KeyFitsFormat, PassOnFile
  PROVE  KeysUnique' /\ KeyFitsFormat'
<1>1. ASSUME NEW u \in Batch, NEW v \in Batch, u.key = v.key PROVE u = v
  <2>1. PICK c \in Counted :
          /\ u = [key |-> Key(c), resp |-> file[c].names, model |-> ModelAt(c)]
          /\ u.key = Key(c)
          /\ \A d \in Counted : d < c => Key(d) # Key(c)
    BY BatchParts
  <2>2. PICK e \in Counted :
          /\ v = [key |-> Key(e), resp |-> file[e].names, model |-> ModelAt(e)]
          /\ v.key = Key(e)
          /\ \A d \in Counted : d < e => Key(d) # Key(e)
    BY BatchParts
  <2>3. c \in Nat /\ e \in Nat
    BY KeyParts
  <2>4. ~ (c < e) /\ ~ (e < c)
    BY <1>1, <2>1, <2>2
  <2>5. c = e
    BY <2>3, <2>4
  <2> QED BY <2>1, <2>2, <2>5
<1>2. KeysUnique'
  BY <1>1, Stored DEF KeysUnique
<1>3. ASSUME NEW u \in Batch
      PROVE  \/ u.key = <<"response", u.resp>> /\ "token_usage_record" \in types
             \/ (\E k \in Int : u.key = <<"offset", k>>) /\ "token_count" \in types
  <2>1. PICK c \in Counted : u.key = Key(c) /\ u.resp = file[c].names
    BY BatchParts
  <2>2. file[c].type \in types
    BY <2>1, KeyParts DEF TypeInv
  <2> QED BY <2>1, <2>2, KeyParts
<1>4. KeyFitsFormat'
  BY <1>3, Stored DEF KeyFitsFormat, PassOnFile
<1> QED BY <1>2, <1>4

\* A count of a chunk is behind the end of the file, its key too.
LEMMA ChunkBelowEnd ==
  ASSUME TypeInv, OffsetAtLine, rewrites = 0, NEW i \in ChunkOf(file, Start)
  PROVE  /\ Bytes(i - 1) >= offset /\ offset <= LineOffset(i) /\ LineOffset(i) \in Int
         /\ LineOffset(i) < Bytes(Len(file)) /\ Bytes(i) <= Bytes(Len(file))
<1>1. Start = offset /\ \E a \in 0..Len(file) : offset = BytesOf(file, a)
  BY StartIsOffset
<1>2. PICK a \in 0..Len(file) : offset = BytesOf(file, a)
  BY <1>1
<1>3. file \in Seq(Line) /\ offset \in Nat
  BY DEF TypeInv
<1>4. /\ offset <= LineOffsetOf(file, offset, offset, i)
      /\ LineOffsetOf(file, offset, offset, i) < BytesOf(file, Len(file))
  BY <1>1, <1>2, <1>3, LineOffsetBounds
<1>5. PICK m \in Nat : m = Len(file) /\ i \in 1..m
  BY <1>3 DEF ChunkOf
<1>6. PICK k \in Nat, l \in Nat : BytesOf(file, i) = k /\ BytesOf(file, m) = l
  BY <1>5, BytesType
<1>7. l - k >= m - i
  BY <1>5, <1>6, BytesGrow
<1>8. LineOffset(i) = LineOffsetOf(file, offset, offset, i)
  BY <1>1, LineOffsetHere
<1>9. LineOffset(i) \in Int
  BY <1>3, <1>5, <1>8, LineOffsetType
<1>10. Bytes(i - 1) >= offset
  BY <1>1, BytesHere DEF ChunkOf
<1>11. Bytes(i) <= Bytes(Len(file))
  BY <1>5, <1>6, <1>7, BytesHere
<1> QED BY <1>4, <1>8, <1>9, <1>10, <1>11, BytesHere

\* The offset grows to the end of the file, or stays.
LEMMA OffsetGrows ==
  ASSUME TypeInv, OffsetAtLine, rewrites = 0, PassOnFile
  PROVE  offset' \in Nat /\ offset <= offset' /\ OffsetAtLine'
<1>1. PICK m \in Nat : m = Len(file)
  BY DEF TypeInv
<1>2. PICK a \in 0..m : offset = BytesOf(file, a)
  BY <1>1, StartIsOffset
<1>3. PICK k \in Nat, l \in Nat : BytesOf(file, a) = k /\ BytesOf(file, m) = l
  BY <1>2, BytesType
<1>4. l - k >= m - a
  BY <1>2, <1>3, BytesGrow
<1>5. file' = file /\ (offset' = offset \/ offset' = BytesOf(file, m))
  BY <1>1, BytesHere DEF PassOnFile
<1>6. \E n \in 0..Len(file') : offset' = BytesOf(file', n)
  BY <1>1, <1>2, <1>5
<1>7. OffsetAtLine'
  BY <1>6, BytesHere DEF OffsetAtLine
<1> QED BY <1>2, <1>3, <1>4, <1>5, <1>7

LEMMA StoredOffsets ==
  ASSUME TypeInv, OffsetAtLine, OffsetUsage, PassOnFile
  PROVE  OffsetUsage'
<1> SUFFICES ASSUME rewrites = 0, NEW u \in usage', NEW k \in Int, u.key = <<"offset", k>>
             PROVE  \E i \in DOMAIN file' :
                      /\ file'[i].type = "token_count" /\ file'[i].names = u.resp
                      /\ \/ Bytes(i)' <= offset' /\ k < offset'
                         \/ Bytes(i - 1)' >= offset' /\ k = LineOffset(i)'
  BY DEF OffsetUsage, PassOnFile
<1>1. file' = file /\ (offset' = offset \/ offset' = Bytes(Len(file)))
  BY DEF PassOnFile
<1>2. \A n : Bytes(n)' = Bytes(n)
  BY <1>1, BytesHere
<1>3. ASSUME offset' = offset PROVE \A i : LineOffset(i)' = LineOffset(i)
  <2>1. Start' = Start
    BY <1>1, <1>2, <1>3 DEF Start
  <2> QED BY <1>1, <1>3, <2>1, LineOffsetHere
<1>4. offset \in Nat /\ offset' \in Nat /\ offset <= offset'
  BY OffsetGrows DEF TypeInv
\* In the chunk before the pass, the line is behind the offset after it.
<1>5. ASSUME NEW i \in ChunkOf(file, Start), k = LineOffset(i)
      PROVE  \/ Bytes(i)' <= offset' /\ k < offset'
             \/ Bytes(i - 1)' >= offset' /\ k = LineOffset(i)'
  BY <1>1, <1>2, <1>3, <1>5, ChunkBelowEnd
<1>6. CASE u \in usage
  <2>1. PICK i \in DOMAIN file :
          /\ file[i].type = "token_count" /\ file[i].names = u.resp
          /\ \/ Bytes(i) <= offset /\ k < offset
             \/ Bytes(i - 1) >= offset /\ k = LineOffset(i)
    BY <1>6 DEF OffsetUsage
  <2>2. i \in Nat
    BY DEF TypeInv
  <2>3. CASE Bytes(i) <= offset /\ k < offset
    <3>1. Bytes(i) \in Nat
      BY <2>2, BytesType, BytesHere
    <3>2. Bytes(i)' <= offset' /\ k < offset'
      BY <1>2, <1>4, <2>3, <3>1
    <3> QED BY <1>1, <2>1, <3>2
  <2>4. CASE Bytes(i - 1) >= offset /\ k = LineOffset(i)
    <3>1. Start = offset
      BY StartIsOffset
    <3>2. i \in ChunkOf(file, Start)
      BY <2>1, <2>4, <3>1, BytesHere DEF ChunkOf
    <3> QED BY <1>1, <1>5, <2>1, <2>4, <3>2
  <2> QED BY <2>1, <2>3, <2>4
<1>7. CASE u \in Batch
  <2>1. PICK i \in Counted : u.key = Key(i) /\ u.resp = file[i].names
    BY <1>7, BatchParts
  <2>2. file[i].type = "token_count" /\ <<"offset", k>> = <<"offset", LineOffset(i)>>
    BY <2>1, KeyParts
  <2>3. k = LineOffset(i)
    BY <2>2
  <2> QED BY <1>1, <1>5, <2>1, <2>2, <2>3, KeyParts
<1> QED BY <1>6, <1>7, Stored

\* A pass that counts by token_count has no usage record in its chunk; that of the response
\* has been read before.
LEMMA StoredApart ==
  ASSUME TypeInv, OffsetAtLine, RecordBefore, CountsApart, PassOnFile
  PROVE  CountsApart'
<1> SUFFICES ASSUME rewrites = 0, "token_usage_record" \in types, NEW u \in usage',
                    NEW k \in Int, u.key = <<"offset", k>>
             PROVE  u.resp \in apart'
  BY DEF CountsApart, PassOnFile
<1>1. apart' = apart \cup ReadApart
  BY DEF PassOnFile, InsertUsageBatch
<1>2. CASE u \in usage
  BY <1>1, <1>2 DEF CountsApart
<1>3. CASE u \in Batch
  <2>1. PICK c \in Counted : u.key = Key(c) /\ u.resp = file[c].names
    BY <1>3, BatchParts
  <2>2. /\ c \in DOMAIN file /\ c \in Chunk /\ file[c].type = "token_count"
        /\ file[c].names \in Responses /\ ~HasUsageRecords
    <3>1. file[c].type = "token_count" /\ c \in DOMAIN file /\ file[c].names \in Responses
      BY <2>1, KeyParts
    <3> QED BY <3>1 DEF Counted
  <2>3. PICK i \in DOMAIN file :
          file[i].type = "token_usage_record" /\ file[i].names = file[c].names
    BY <2>2 DEF RecordBefore
  <2>4. i \notin Chunk
    BY <2>2, <2>3 DEF HasUsageRecords
  <2>5. PICK a \in 0..Len(file) : offset = BytesOf(file, a) /\ Start = offset
    BY StartIsOffset
  <2>6. i \in Nat \ {0} /\ a \in Nat
    BY <2>5 DEF TypeInv
  <2>7. ~ (BytesOf(file, i - 1) >= BytesOf(file, a))
    BY <2>3, <2>4, <2>5, ChunkHere DEF ChunkOf
  <2>8. ~ (BytesOf(file, i) > BytesOf(file, a))
    BY <2>6, <2>7, EndsAfter
  <2>9. Bytes(i) <= Start
    <3>1. PICK l \in Nat, m \in Nat : BytesOf(file, i) = l /\ BytesOf(file, a) = m
      BY <2>6, BytesType
    <3> QED BY <2>5, <2>8, <3>1, BytesHere
  <2>10. file[c].names \in ReadApart
    BY <2>2, <2>3, <2>9 DEF ReadApart
  <2> QED BY <1>1, <2>1, <2>10
<1> QED BY <1>2, <1>3, Stored

\* A line of the chunk that yields a record is counted by the pass.
LEMMA ChunkCounted ==
  ASSUME TypeInv, OffsetAtLine, OffsetUsage, KeyFitsFormat, PassOnFile, rewrites = 0,
         NEW i \in Counted
  PROVE  \E u \in usage' : u.resp = file[i].names
<1>1. PICK c \in Counted : Key(c) = Key(i) /\ \A d \in Counted : d < c => Key(d) # Key(c)
  BY FirstWithKey
<1>2. file[c].names = file[i].names
  <2>1. CASE file[c].type = "token_usage_record"
    <3>1. Key(c) = <<"response", file[c].names>> /\ Key(i) = <<"response", file[i].names>>
      BY <1>1, <2>1, KeyParts
    <3>2. <<"response", file[c].names>> = <<"response", file[i].names>>
      BY <1>1, <3>1
    <3> QED BY <3>2
  <2>2. CASE file[c].type = "token_count"
    <3>1. Key(c) = <<"offset", LineOffset(c)>> /\ Key(i) = <<"offset", LineOffset(i)>>
      BY <1>1, <2>2, KeyParts
    <3>2. <<"offset", LineOffset(c)>> = <<"offset", LineOffset(i)>>
      BY <1>1, <3>1
    <3>3. LineOffset(c) = LineOffset(i)
      BY <3>2
    <3> QED BY <3>3, CountKeysDiffer, KeyParts
  <2> QED BY <2>1, <2>2, KeyParts
<1> DEFINE b == [key |-> Key(c), resp |-> file[c].names, model |-> ModelAt(c)]
<1>3. b \in Batch /\ b.key = Key(c) /\ b.resp = file[c].names
  BY <1>1 DEF Batch
<1>4. CASE \A u \in usage : u.key # b.key
  <2> HIDE DEF b
  <2>1. b \in usage'
    BY <1>3, <1>4 DEF PassOnFile, InsertUsageBatch
  <2> QED BY <1>2, <1>3, <2>1
<1>5. CASE \E u \in usage : u.key = b.key
  <2> HIDE DEF b
  <2>1. PICK u \in usage : u.key = Key(c)
    BY <1>3, <1>5
  <2>2. u \in usage'
    BY DEF PassOnFile, InsertUsageBatch
  <2>3. CASE Key(c) = <<"response", file[c].names>>
    <3>1. u.key = <<"response", u.resp>>
      BY <2>1, <2>3 DEF KeyFitsFormat
    <3>2. <<"response", u.resp>> = <<"response", file[c].names>>
      BY <2>1, <2>3, <3>1
    <3>3. u.resp = file[c].names
      BY <3>2
    <3> QED BY <1>2, <2>2, <3>3
  <2>4. CASE Key(c) = <<"offset", LineOffset(c)>> /\ LineOffset(c) \in Int
    <3>1. PICK j \in DOMAIN file :
            /\ file[j].type = "token_count" /\ file[j].names = u.resp
            /\ \/ Bytes(j) <= offset /\ LineOffset(c) < offset
               \/ Bytes(j - 1) >= offset /\ LineOffset(c) = LineOffset(j)
      BY <2>1, <2>4 DEF OffsetUsage
    <3>2. offset <= LineOffset(c) /\ offset \in Nat
      BY ChunkBelowEnd, KeyParts DEF TypeInv
    <3>3. Bytes(j - 1) >= offset /\ LineOffset(c) = LineOffset(j)
      BY <2>4, <3>1, <3>2
    <3>4. j \in ChunkOf(file, Start)
      BY <3>1, <3>3, StartIsOffset, BytesHere DEF ChunkOf
    <3>5. c = j
      BY <3>3, <3>4, CountKeysDiffer, KeyParts
    <3> QED BY <1>2, <2>2, <3>1, <3>5
  <2> QED BY <2>3, <2>4, KeyParts
<1> QED BY <1>4, <1>5

LEMMA StoredResponses ==
  ASSUME IInv, PassOnFile
  PROVE  ResponsesBelowOffsetCounted'
<1> USE DEF IInv
<1> SUFFICES ASSUME rewrites = 0, NEW i \in DOMAIN file, file[i].names \in Responses
             PROVE  \E u \in usage' : u.resp = file[i].names
  BY DEF ResponsesBelowOffsetCounted, PassOnFile
\* A line is behind the offset or in the chunk.
<1>1. ASSUME NEW j \in DOMAIN file, file[j].names \in Responses
      PROVE  j \in Chunk \/ \E u \in usage' : u.resp = file[j].names
  <2>1. CASE Bytes(j) <= offset
    BY <1>1, <2>1 DEF ResponsesBelowOffsetCounted, PassOnFile, InsertUsageBatch
  <2>2. CASE ~ (Bytes(j) <= offset)
    <3>1. PICK a \in 0..Len(file) : offset = BytesOf(file, a)
      BY StartIsOffset
    <3>2. j \in Nat \ {0} /\ a \in Nat
      BY <3>1 DEF TypeInv
    <3>3. BytesOf(file, j) > BytesOf(file, a)
      <4>1. PICK k \in Nat, l \in Nat : BytesOf(file, j) = k /\ BytesOf(file, a) = l
        BY <3>2, BytesType
      <4> QED BY <2>2, <3>1, <4>1, BytesHere
    <3>4. BytesOf(file, j - 1) >= offset
      BY <3>1, <3>2, <3>3, EndsAfter
    <3>5. file[j] \in Line
      BY DEF TypeInv
    <3>6. file[j].type # "empty"
      BY <1>1, <3>5, LineParts
    <3> QED BY <3>4, <3>6, StartIsOffset, ChunkHere DEF ChunkOf
  <2> QED BY <2>1, <2>2
<1>2. CASE i \in Counted
  BY <1>2, ChunkCounted
<1>3. CASE i \in Chunk /\ i \notin Counted
  <2>1. file[i].type = "token_count" /\ HasUsageRecords
    <3>1. file[i] \in Line
      BY DEF TypeInv
    <3>2. file[i].type \in {"token_usage_record", "token_count"}
      BY <3>1, LineParts
    <3> QED BY <1>3, <3>2 DEF Counted
  <2>2. "token_usage_record" \in types
    BY <2>1 DEF HasUsageRecords, Chunk, TypeInv
  <2>3. PICK j \in DOMAIN file :
          file[j].type = "token_usage_record" /\ file[j].names = file[i].names
    BY <2>1, <2>2 DEF RecordBefore
  <2>4. CASE j \in Chunk
    <3>1. j \in Counted
      BY <2>3, <2>4 DEF Counted
    <3> QED BY <2>3, <3>1, ChunkCounted
  <2> QED BY <1>1, <2>3, <2>4
<1> QED BY <1>1, <1>2, <1>3

\* The latest context of the chunk, where it has one, is the latest of the file: no context
\* after it lies outside the chunk.
LEMMA ChunkContext ==
  ASSUME TypeInv, NEW i \in Counted, Contexts(i) # {}
  PROVE  ModelAt(i) = ContextAt(i)
<1> DEFINE cs == {j \in 1..(i - 1) : file[j].type = "turn_context"}
<1>1. PICK m \in Nat : m = Len(file) /\ i \in 1..m /\ file \in Seq(Line) /\ DOMAIN file = 1..m
  BY KeyParts DEF TypeInv
<1>2. Contexts(i) \subseteq 0..m /\ Contexts(i) \subseteq cs
  BY <1>1 DEF Contexts, Chunk
<1>3. PICK c \in Contexts(i) : \A k \in Contexts(i) : k <= c
  BY <1>2, LargestExists
<1>4. c \in ChunkOf(file, Start) /\ c \in 1..m /\ c \in cs
  BY <1>1, <1>2, <1>3, ChunkHere DEF Contexts, ChunkOf
<1>5. \A k \in cs : k <= c
  <2> SUFFICES ASSUME NEW k \in cs, c < k PROVE FALSE
    BY <1>1, <1>4
  <2>1. k \in 1..m /\ k < i /\ file[k].type = "turn_context"
    BY <1>1
  <2>2. PICK b \in Nat, d \in Nat : BytesOf(file, c - 1) = b /\ BytesOf(file, k - 1) = d
    BY <1>4, <2>1, BytesType
  <2>3. d - b >= (k - 1) - (c - 1)
    BY <1>4, <2>1, <2>2, BytesGrow
  <2>4. b >= Start /\ Start \in Nat
    BY <1>4, <2>2, StartIsNat DEF ChunkOf
  <2>5. BytesOf(file, k - 1) >= Start
    BY <1>4, <2>1, <2>2, <2>3, <2>4
  <2>6. k \in Contexts(i)
    BY <1>1, <2>1, <2>5, ChunkHere DEF Contexts, ChunkOf
  <2> QED BY <1>3, <1>4, <2>1, <2>6
<1>6. \A S : c \in S /\ S \subseteq 0..m /\ (\A k \in S : k <= c)
             => (CHOOSE j \in S : \A k \in S : k <= j) = c
  <2> TAKE S
  <2> HAVE c \in S /\ S \subseteq 0..m /\ \A k \in S : k <= c
  <2> DEFINE x == CHOOSE j \in S : \A k \in S : k <= j
  <2>1. x \in S /\ \A k \in S : k <= x
    OBVIOUS
  <2> HIDE DEF x
  <2>2. x \in Int /\ c \in Int /\ x <= c /\ c <= x
    BY <2>1
  <2>3. x = c
    BY <2>2
  <2> QED BY <2>3 DEF x
<1>7. ModelAt(i) = file[c].names
  BY <1>2, <1>3, <1>6 DEF ModelAt
<1>8. (CHOOSE j \in cs : \A k \in cs : k <= j) = c
  <2>1. cs \subseteq 0..m
    BY <1>1
  <2> HIDE DEF cs
  <2> QED BY <1>4, <1>5, <1>6, <2>1
<1>9. ContextAt(i) = file[c].names
  BY <1>4, <1>8 DEF ContextAt
<1> QED BY <1>7, <1>9

LEMMA StoredModels ==
  ASSUME TypeInv, ModelNeverWrong, PassOnFile
  PROVE  ModelNeverWrong'
<1> SUFFICES ASSUME rewrites = 0, NEW u \in usage', u.model # Unknown
             PROVE  \E i \in DOMAIN file : file[i].names = u.resp /\ ContextAt(i)' = u.model
  BY DEF ModelNeverWrong, Attributed, PassOnFile
<1>1. \A i : ContextAt(i)' = ContextAt(i)
  BY DEF ContextAt, PassOnFile
<1>2. CASE u \in usage
  BY <1>1, <1>2 DEF ModelNeverWrong, Attributed
<1>3. CASE u \in Batch
  <2>1. PICK i \in Counted : u.resp = file[i].names /\ u.model = ModelAt(i)
    BY <1>3, BatchParts
  <2>2. Contexts(i) # {}
    BY <2>1 DEF ModelAt
  <2> QED BY <1>1, <2>1, <2>2, ChunkContext, KeyParts
<1> QED BY <1>2, <1>3, Stored

LEMMA PassStep ==
  ASSUME IInv, PassOnFile
  PROVE  IInv'
<1> USE DEF IInv
<1>1. KeysUnique' /\ KeyFitsFormat'
  BY StoredKeys
<1>2. OffsetAtLine'
  BY OffsetGrows DEF OffsetAtLine, PassOnFile
<1>3. TypeInv'
  <2>1. Bytes(Len(file)) \in Nat
    BY BytesHere, BytesType DEF TypeInv
  <2> QED BY <2>1 DEF TypeInv, PassOnFile
<1>4. CountsOnce' /\ RecordBefore'
  BY DEF CountsOnce, RecordBefore, PassOnFile
<1>5. OffsetUsage' /\ CountsApart' /\ ResponsesBelowOffsetCounted' /\ ModelNeverWrong'
  BY StoredOffsets, StoredApart, StoredResponses, StoredModels
<1> QED BY <1>1, <1>2, <1>3, <1>4, <1>5

-----------------------------------------------------------------------------
(* The theorems *)

LEMMA InitInv == Init => IInv
<1> SUFFICES ASSUME Init PROVE IInv
  OBVIOUS
<1>1. TypeInv
  <2>1. MaxRewrites[types] \in Nat
    BY BoundAssumption DEF Init
  <2> QED BY <2>1 DEF Init, TypeInv
<1>2. OffsetAtLine
  <2>1. Texts(file, 0) = {}
    BY DEF Texts
  <2>2. Bytes(0) = 0
    BY <2>1, FS_EmptySet, BytesHere DEF BytesOf
  <2> QED BY <2>2 DEF Init, OffsetAtLine
<1>3. DOMAIN file = {} /\ usage = {}
  BY DEF Init
<1> QED
  BY <1>1, <1>2, <1>3 DEF IInv, KeysUnique, KeyFitsFormat, CountsOnce, RecordBefore, OffsetUsage,
     CountsApart, ResponsesBelowOffsetCounted, ModelNeverWrong

LEMMA Unchanged == IInv /\ UNCHANGED vars => IInv'
<1> SUFFICES ASSUME IInv, UNCHANGED vars PROVE IInv'
  OBVIOUS
<1> USE DEF IInv, vars
<1>1. /\ TypeInv' /\ KeysUnique' /\ KeyFitsFormat' /\ CountsOnce' /\ RecordBefore'
      /\ CountsApart'
  BY DEF TypeInv, KeysUnique, KeyFitsFormat, CountsOnce, RecordBefore, CountsApart
<1>2. \A n : Bytes(n)' = Bytes(n)
  BY BytesHere
<1>3. \A i : LineOffset(i)' = LineOffset(i)
  <2>1. Start' = Start
    BY <1>2 DEF Start
  <2> QED BY <2>1, LineOffsetHere
<1>4. OffsetAtLine' /\ OffsetUsage' /\ ResponsesBelowOffsetCounted'
  BY <1>2, <1>3 DEF OffsetAtLine, OffsetUsage, ResponsesBelowOffsetCounted
<1>5. ModelNeverWrong'
  BY DEF ModelNeverWrong, Attributed, ContextAt
<1> QED BY <1>1, <1>4, <1>5

LEMMA Inductive == IInv /\ [Next]_vars => IInv'
<1> SUFFICES ASSUME IInv, [Next]_vars PROVE IInv'
  OBVIOUS
<1>1. ASSUME NEW l \in Line, AppendLine(l) PROVE IInv'
  BY <1>1, AppendStep
<1>2. ASSUME NEW n \in 0..(Len(file) - 1), CutBack(n) PROVE IInv'
  BY <1>2, CutBackStep
<1>3. CASE Pass \/ PassFails
  <2>1. PassOnFile
    BY <1>3 DEF Pass, PassFails, PassOnFile
  <2> QED BY <2>1, PassStep
<1>4. CASE UNCHANGED vars
  BY <1>4, Unchanged
<1> QED BY <1>1, <1>2, <1>3, <1>4 DEF Next

\* No response is lost behind the offset, of a file of either format or of both: a count
\* that is passed over because the chunk has usage records has its own usage record before
\* it (parse_rollout_lines).
THEOREM NoneLost == Spec => []ResponsesBelowOffsetCounted
<1>1. IInv => ResponsesBelowOffsetCounted
  BY DEF IInv
<1> QED BY <1>1, InitInv, Inductive, PTL DEF Spec

\* A row never names another model than the one in force at its line: the latest context
\* of a chunk, where it has one, is the latest of the file.
THEOREM ModelRight == Spec => []ModelNeverWrong
<1>1. IInv => ModelNeverWrong
  BY DEF IInv
<1> QED BY <1>1, InitInv, Inductive, PTL DEF Spec

\* Two rows of a response keyed by offset are one: its count is one line, which has a key
\* of its own while the file is only appended to.
OffsetRowsOnce ==
  rewrites = 0 =>
    \A u, v \in usage : \A k, l \in Int :
      u.key = <<"offset", k>> /\ v.key = <<"offset", l>> /\ u.resp = v.resp => u = v

LEMMA OffsetRowsStep ==
  ASSUME IInv, OffsetRowsOnce, [Next]_vars
  PROVE  OffsetRowsOnce'
<1> USE DEF IInv
<1>1. CASE UNCHANGED <<usage, rewrites>>
  BY <1>1 DEF OffsetRowsOnce
<1>2. ASSUME NEW n \in 0..(Len(file) - 1), CutBack(n) PROVE OffsetRowsOnce'
  <2>1. rewrites' # 0
    BY <1>2, BoundAssumption DEF CutBack, TypeInv
  <2> QED BY <2>1 DEF OffsetRowsOnce
<1>3. CASE Pass \/ PassFails
  <2>1. PassOnFile
    BY <1>3 DEF Pass, PassFails, PassOnFile
  <2>2. KeysUnique' /\ rewrites' = rewrites
    BY <2>1, StoredKeys DEF PassOnFile
  <2>3. ASSUME rewrites = 0, NEW u \in usage', NEW v \in Batch, NEW k \in Int, NEW l \in Int,
               u.key = <<"offset", k>>, v.key = <<"offset", l>>, u.resp = v.resp
        PROVE  u.key = v.key
    <3>1. PICK c \in Counted : v.key = Key(c) /\ v.resp = file[c].names
      BY BatchParts
    <3>2. /\ c \in DOMAIN file /\ file[c].type = "token_count"
          /\ Key(c) = <<"offset", LineOffset(c)>>
      BY <2>3, <3>1, KeyParts
    <3>3. CASE u \in Batch
      <4>1. PICK e \in Counted : u.key = Key(e) /\ u.resp = file[e].names
        BY <3>3, BatchParts
      <4>2. e \in DOMAIN file /\ file[e].type = "token_count"
        BY <2>3, <4>1, KeyParts
      <4> QED BY <2>3, <3>1, <3>2, <4>1, <4>2 DEF CountsOnce
    <3>4. CASE u \in usage
      <4>1. PICK i \in DOMAIN file :
              /\ file[i].type = "token_count" /\ file[i].names = u.resp
              /\ \/ Bytes(i) <= offset /\ k < offset
                 \/ Bytes(i - 1) >= offset /\ k = LineOffset(i)
        BY <2>3, <3>4 DEF OffsetUsage
      <4>2. i = c
        BY <2>3, <3>1, <3>2, <4>1 DEF CountsOnce
      <4>3. Bytes(c - 1) >= offset
        BY <2>3, <3>1, ChunkBelowEnd, KeyParts
      <4>4. ~ (Bytes(c) <= offset)
        <5>1. c \in Nat \ {0} /\ offset \in Nat
          BY <3>2 DEF TypeInv
        <5>2. PICK b \in Nat, d \in Nat : BytesOf(file, c - 1) = b /\ BytesOf(file, c) = d
          BY <5>1, BytesType
        <5>3. d - b >= c - (c - 1)
          BY <5>1, <5>2, BytesGrow
        <5> QED BY <4>3, <5>1, <5>2, <5>3, BytesHere
      <4> QED BY <2>3, <3>1, <3>2, <4>1, <4>2, <4>4
    <3> QED BY <2>1, <3>3, <3>4, Stored
  <2>4. \A v \in usage' : v \in usage \/ v \in Batch
    BY <2>1, Stored
  <2> QED BY <2>2, <2>3, <2>4 DEF KeysUnique, OffsetRowsOnce
<1> QED BY <1>1, <1>2, <1>3 DEF Next, AppendLine, vars

\* Two rows of one response have one key each of the two kinds, and then a pass began
\* between its two lines; or the file was cut back.
LEMMA RowsOfOneResponse ==
  ASSUME IInv, OffsetRowsOnce
  PROVE  ResponseCountedOnce
<1> USE DEF IInv
<1> SUFFICES ASSUME NEW u \in usage, NEW v \in usage, u.resp = v.resp, u # v
             PROVE  \/ u.key[1] # v.key[1] /\ u.resp \in apart
                    \/ rewrites > 0 /\ "offset" \in {u.key[1], v.key[1]}
  BY DEF ResponseCountedOnce
<1>1. rewrites = 0 \/ rewrites > 0
  <2>1. MaxRewrites[types] \in Nat
    BY BoundAssumption DEF TypeInv
  <2> QED BY <2>1 DEF TypeInv
<1>2. CASE u.key = <<"response", u.resp>> /\ v.key = <<"response", v.resp>>
  BY <1>2 DEF KeysUnique
<1>3. ASSUME NEW k \in Int, NEW l \in Int, u.key = <<"offset", k>>, v.key = <<"offset", l>>
      PROVE  rewrites > 0 /\ "offset" \in {u.key[1], v.key[1]}
  BY <1>1, <1>3 DEF OffsetRowsOnce
<1>4. ASSUME NEW x \in usage, NEW y \in usage, x.resp = y.resp, NEW k \in Int,
             x.key = <<"response", x.resp>>, "token_usage_record" \in types,
             y.key = <<"offset", k>>
      PROVE  /\ x.key[1] # y.key[1] /\ "offset" \in {x.key[1], y.key[1]}
             /\ rewrites > 0 \/ x.resp \in apart
  BY <1>1, <1>4 DEF CountsApart
<1> QED BY <1>2, <1>3, <1>4 DEF KeyFitsFormat

\* A response is counted once, whatever a version writes, however often a pass cannot persist
\* its offset and the file is cut back, but for the two cases that the property names: a pass
\* that begins between the two lines of a response in a file of both formats
\* (parse_rollout_lines decides from its chunk), and a restart at 0 of lines without an id.
THEOREM Once == Spec => []ResponseCountedOnce
<1>1. Init => OffsetRowsOnce
  BY DEF Init, OffsetRowsOnce
<1>2. IInv /\ OffsetRowsOnce /\ [Next]_vars => OffsetRowsOnce'
  BY OffsetRowsStep
<1>3. IInv /\ OffsetRowsOnce => ResponseCountedOnce
  BY RowsOfOneResponse
<1> QED BY <1>1, <1>2, <1>3, InitInv, Inductive, PTL DEF Spec
=============================================================================
