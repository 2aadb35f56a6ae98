------------------------- MODULE CollectorPassProofs -------------------------
(***************************************************************************)
(* Proofs about CollectorPass, for every set of files, collectors, keys,   *)
(* failing phases and bounds.                                              *)
(*                                                                         *)
(* CursorCoversOnlyStored is not inductive: between the read of a file and *)
(* the write of its offset the data lives in run_once's CollectOutput.     *)
(* IInv says where every line below a collected offset is at each phase.   *)
(***************************************************************************)
EXTENDS CollectorPass, FiniteSetTheorems, TLAPS

\* Line i of file f is in the database, or in the part of the output still to be stored.
Covered(f, i) ==
  /\ log[f][i] \in UsageKeys => usage[log[f][i]] > 0 \/ log[f][i] \in recs
  /\ log[f][i] \in QuotaKeys => snapshots[log[f][i]] > 0 \/ <<f, i>> \in snaps
  /\ log[f][i] \in HitKeys => hits[log[f][i]] > 0 \/ log[f][i] \in newHits

\* Offsets read or about to be written lie within the files.
OffsetsInFiles == \A f \in Files : loaded[f] <= Len(log[f]) /\ next[f] <= Len(log[f])

InPass == pc \in {"read", "usage", "snapshots", "hits", "cursors"}

\* While a pass runs, nothing below the offset it will persist is lost.
OutputCovers == InPass => \A f \in Files : \A i \in 1..next[f] : Covered(f, i)

\* Until the first write, what lay below the loaded offset is stored.
LoadedStored == pc = "read" => \A f \in Files : \A i \in 1..loaded[f] : IsStored(log[f][i])

\* A phase begins only when the phases before it have stored their part.
PhaseOrder ==
  /\ pc \in {"snapshots", "hits", "cursors"} => \A k \in recs : usage[k] > 0
  /\ pc \in {"hits", "cursors"} => snaps = {}
  /\ pc = "cursors" => newHits = {}

\* Collected keys come from lines of the files.
RecsWritten == \A k \in recs : Written(k)

IInv == /\ TypeOK /\ CursorCoversOnlyStored /\ OffsetsInFiles /\ OutputCovers
        /\ LoadedStored /\ PhaseOrder /\ RecsWritten

-----------------------------------------------------------------------------
(* An append leaves every earlier line where it was. *)
LEMMA AppendKeeps ==
  ASSUME TypeOK, NEW f \in Files, NEW l \in Line, AppendLine(f, l)
  PROVE  /\ log' \in [Files -> Seq(Line)]
         /\ \A g \in Files : Len(log[g]) <= Len(log'[g])
         /\ \A g \in Files : \A i \in 1..Len(log[g]) : log'[g][i] = log[g][i]
         /\ Len(log'[f]) = Len(log[f]) + 1 /\ log'[f][Len(log[f]) + 1] = l
         /\ \A g \in Files \ {f} : log'[g] = log[g]
  BY DEF AppendLine, TypeOK, StoreTypeOK

LEMMA InsertIgnoreFacts ==
  ASSUME NEW S, NEW table \in [S -> Nat], NEW keys
  PROVE  /\ InsertIgnore(table, keys) \in [S -> Nat]
         /\ \A k \in S : InsertIgnore(table, keys)[k] >= table[k]
         /\ \A k \in S : k \in keys => InsertIgnore(table, keys)[k] > 0
         /\ \A k \in S : table[k] <= 1 => InsertIgnore(table, keys)[k] <= 1
  BY DEF InsertIgnore

(* The phase after a pass is one of run_loop's two. *)
LEMMA NextCollectorFacts ==
  ASSUME TypeOK, NextCollector
  PROVE  pc' \in {"load", "idle"} /\ turn' \in 1..Collectors
  BY CollectorsAssumption DEF NextCollector, TypeOK, PassTypeOK

LEMMA InitIInv == Init => IInv
<1> SUFFICES ASSUME Init PROVE IInv
  OBVIOUS
<1>1. TypeOK
  <2>1. log \in [Files -> Seq(Line)]
    BY DEF Init
  <2>2. QED
    BY <2>1, CollectorsAssumption DEF Init, TypeOK, StoreTypeOK, PassTypeOK, Phase
<1>2. CursorCoversOnlyStored /\ OffsetsInFiles
  BY DEF Init, CursorCoversOnlyStored, OffsetsInFiles
<1>3. OutputCovers /\ LoadedStored /\ PhaseOrder /\ RecsWritten
  BY DEF Init, OutputCovers, InPass, LoadedStored, PhaseOrder, RecsWritten
<1>4. QED
  BY <1>1, <1>2, <1>3 DEF IInv

LEMMA StoreTypeStep ==
  ASSUME TypeOK, [Next]_vars
  PROVE  StoreTypeOK'
<1> USE DEF TypeOK, StoreTypeOK
<1>1. ASSUME NEW f \in Files, NEW l \in Line, AppendLine(f, l) PROVE StoreTypeOK'
  BY <1>1, AppendKeeps DEF AppendLine, stored
<1>2. CASE InsertUsageBatch
  BY <1>2, InsertIgnoreFacts DEF InsertUsageBatch, PassTypeOK
<1>3. ASSUME NEW p \in snaps, InsertQuotaSnapshot(p) PROVE StoreTypeOK'
  <2> DEFINE q == log[p[1]][p[2]]
  <2>1. snapshots' = [snapshots EXCEPT ![q] = @ + 1]
    BY <1>3 DEF InsertQuotaSnapshot
  <2>2. snapshots' \in [QuotaKeys -> Nat]
    <3> HIDE DEF q
    <3>1. CASE q \in QuotaKeys
      BY <2>1, <3>1
    <3>2. CASE q \notin QuotaKeys
      BY <2>1, <3>2
    <3>3. QED
      BY <3>1, <3>2
  <2>3. QED
    BY <1>3, <2>2 DEF InsertQuotaSnapshot
<1>4. ASSUME NEW h \in HitKeys, InsertQuotaHit(h) PROVE StoreTypeOK'
  BY <1>4, InsertIgnoreFacts DEF InsertQuotaHit
<1>5. ASSUME NEW f \in Files, SetCursor(f) PROVE StoreTypeOK'
  BY <1>5 DEF SetCursor, PassTypeOK
<1>6. CASE DeleteSessions
  BY <1>6 DEF DeleteSessions
<1>7. CASE InsertSessions
  BY <1>7 DEF InsertSessions
<1>8. CASE UNCHANGED <<log, stored>>
  BY <1>8 DEF stored
<1>9. QED
  BY <1>1, <1>2, <1>3, <1>4, <1>5, <1>6, <1>7, <1>8
  DEF Next, Daemon, Store, vars, Tick, LoadCursor, ReadFile, EndCollect, SnapshotsDone,
      HitsDone, PassOk, SkipFile, PassFails, Crash, Restart

LEMMA PassTypeStep ==
  ASSUME TypeOK, [Next]_vars
  PROVE  PassTypeOK'
<1> USE CollectorsAssumption DEF PassTypeOK, Phase
<1> PassTypeOK
  BY DEF TypeOK
<1>1. CASE UNCHANGED volatile
  BY <1>1 DEF volatile, output
<1>2. CASE Tick
  BY <1>2 DEF Tick, output
<1>3. CASE LoadCursor
  BY <1>3 DEF LoadCursor, Walked, TypeOK, StoreTypeOK
<1>4. ASSUME NEW f \in Files, ReadFile(f) PROVE PassTypeOK'
  <2>1. Len(log[f]) \in Nat
    BY DEF TypeOK, StoreTypeOK
  <2>2. snaps' \subseteq Files \X Nat
    BY <1>4, <2>1 DEF ReadFile, NewLines
  <2>3. next' \in [Files -> Nat]
    BY <1>4, <2>1 DEF ReadFile, NewOffset
  <2>4. recs' \subseteq UsageKeys /\ newHits' \subseteq HitKeys
    BY <1>4 DEF ReadFile
  <2>5. QED
    BY <1>4, <2>2, <2>3, <2>4 DEF ReadFile
<1>5. CASE EndCollect
  BY <1>5 DEF EndCollect, output
<1>6. CASE InsertUsageBatch
  BY <1>6 DEF InsertUsageBatch, output
<1>7. ASSUME NEW p \in snaps, InsertQuotaSnapshot(p) PROVE PassTypeOK'
  BY <1>7 DEF InsertQuotaSnapshot
<1>8. CASE SnapshotsDone
  BY <1>8 DEF SnapshotsDone, output
<1>9. ASSUME NEW h \in HitKeys, InsertQuotaHit(h) PROVE PassTypeOK'
  BY <1>9 DEF InsertQuotaHit
<1>10. CASE HitsDone
  BY <1>10 DEF HitsDone, output
<1>11. ASSUME NEW f \in Files, SetCursor(f) PROVE PassTypeOK'
  BY <1>11 DEF SetCursor
<1>12. CASE PassOk
  BY <1>12, NextCollectorFacts DEF PassOk, output
<1>13. CASE DeleteSessions
  BY <1>13 DEF DeleteSessions, output
<1>14. CASE InsertSessions
  BY <1>14, NextCollectorFacts DEF InsertSessions, output
<1>15. ASSUME NEW f \in Files, SkipFile(f) PROVE PassTypeOK'
  BY <1>15 DEF SkipFile
<1>16. CASE PassFails
  BY <1>16, NextCollectorFacts DEF PassFails, output
<1>17. CASE Crash
  BY <1>17 DEF Crash
<1>18. CASE Restart
  BY <1>18 DEF Restart, output
<1>19. QED
  BY <1>1, <1>2, <1>3, <1>4, <1>5, <1>6, <1>7, <1>8, <1>9, <1>10, <1>11, <1>12, <1>13,
     <1>14, <1>15, <1>16, <1>17, <1>18 DEF Next, Daemon, Store, AppendLine, vars

(* Every variable keeps its type. *)
LEMMA TypeStep ==
  ASSUME TypeOK, [Next]_vars
  PROVE  TypeOK'
<1>1. faults' \in Nat /\ crashes' \in Nat
  <2>1. /\ faults' \in {faults, faults + 1}
        /\ crashes' \in {crashes, crashes + 1}
    BY DEF Next, Daemon, Store, vars, AppendLine, Tick, LoadCursor, ReadFile, SkipFile,
           EndCollect, InsertUsageBatch, InsertQuotaSnapshot, SnapshotsDone, InsertQuotaHit,
           HitsDone, SetCursor, PassOk, PassFails, DeleteSessions, InsertSessions, Crash,
           Restart
  <2>2. QED
    BY <2>1 DEF TypeOK
<1>2. orphans' \subseteq UsageKeys
  <2>1. Unsummarised \subseteq UsageKeys
    BY DEF Unsummarised, TypeOK, PassTypeOK
  <2>2. orphans' \in {orphans, orphans \cup Unsummarised, {}}
    BY DEF Next, Daemon, Store, vars, AppendLine, Tick, LoadCursor, ReadFile, SkipFile,
           EndCollect, InsertUsageBatch, InsertQuotaSnapshot, SnapshotsDone, InsertQuotaHit,
           HitsDone, SetCursor, PassOk, PassFails, DeleteSessions, InsertSessions, Crash,
           Restart
  <2>3. QED
    BY <2>1, <2>2 DEF TypeOK
<1>3. QED
  BY <1>1, <1>2, StoreTypeStep, PassTypeStep DEF TypeOK

(* Type correctness of the ingestion loop (run_loop, run_once, Storage). *)
THEOREM TypeCorrect == Spec => []TypeOK
<1>1. Init => TypeOK
  BY InitIInv DEF IInv
<1>2. TypeOK /\ [Next]_vars => TypeOK'
  BY TypeStep
<1>3. QED
  BY <1>1, <1>2, PTL DEF Spec

-----------------------------------------------------------------------------
(* Files only grow at the end. *)
LEMMA LogGrows ==
  ASSUME TypeOK, [Next]_vars, NEW f \in Files
  PROVE  /\ Len(log'[f]) >= Len(log[f])
         /\ \A i \in 1..Len(log[f]) : log'[f][i] = log[f][i]
<1> DEFINE Kept == /\ Len(log'[f]) >= Len(log[f])
                   /\ \A i \in 1..Len(log[f]) : log'[f][i] = log[f][i]
<1>1. ASSUME NEW g \in Files, NEW l \in Line, AppendLine(g, l) PROVE Kept
  BY <1>1, AppendKeeps
<1>2. CASE UNCHANGED log
  BY <1>2 DEF TypeOK, StoreTypeOK
<1>3. QED
  BY <1>1, <1>2
  DEF Next, Daemon, Store, vars, stored, Tick, LoadCursor, ReadFile, EndCollect,
      InsertUsageBatch, InsertQuotaSnapshot, SnapshotsDone, InsertQuotaHit, HitsDone,
      SetCursor, PassOk, DeleteSessions, InsertSessions, SkipFile, PassFails, Crash, Restart

(* No step takes a row away. *)
LEMMA TablesGrow ==
  ASSUME TypeOK, [Next]_vars
  PROVE  /\ \A k \in UsageKeys : usage'[k] >= usage[k]
         /\ \A q \in QuotaKeys : snapshots'[q] >= snapshots[q]
         /\ \A h \in HitKeys : hits'[h] >= hits[h]
<1> DEFINE Grows == /\ \A k \in UsageKeys : usage'[k] >= usage[k]
                    /\ \A q \in QuotaKeys : snapshots'[q] >= snapshots[q]
                    /\ \A h \in HitKeys : hits'[h] >= hits[h]
<1>1. CASE InsertUsageBatch
  <2>1. usage' = InsertIgnore(usage, recs) /\ UNCHANGED <<snapshots, hits>>
    BY <1>1 DEF InsertUsageBatch
  <2>2. /\ usage \in [UsageKeys -> Nat]
        /\ snapshots \in [QuotaKeys -> Nat]
        /\ hits \in [HitKeys -> Nat]
    BY DEF TypeOK, StoreTypeOK
  <2>3. \A k \in UsageKeys : usage'[k] >= usage[k]
    BY <2>1, <2>2, InsertIgnoreFacts
  <2>4. QED
    BY <2>1, <2>2, <2>3
<1>2. ASSUME NEW p \in snaps, InsertQuotaSnapshot(p) PROVE Grows
  <2> DEFINE q == log[p[1]][p[2]]
  <2>1. /\ snapshots' = [snapshots EXCEPT ![q] = @ + 1]
        /\ UNCHANGED <<usage, hits>>
    BY <1>2 DEF InsertQuotaSnapshot
  <2> HIDE DEF q
  <2>2. QED
    BY <2>1 DEF TypeOK, StoreTypeOK
<1>3. ASSUME NEW h \in HitKeys, InsertQuotaHit(h) PROVE Grows
  <2>1. \A k \in HitKeys : hits'[k] >= hits[k]
    BY <1>3, InsertIgnoreFacts DEF InsertQuotaHit, TypeOK, StoreTypeOK
  <2>2. UNCHANGED <<usage, snapshots>>
    BY <1>3 DEF InsertQuotaHit
  <2>3. QED
    BY <2>1, <2>2 DEF TypeOK, StoreTypeOK
<1>4. CASE UNCHANGED <<usage, snapshots, hits>>
  BY <1>4 DEF TypeOK, StoreTypeOK
<1>5. QED
  BY <1>1, <1>2, <1>3, <1>4
  DEF Next, Daemon, Store, vars, stored, AppendLine, Tick, LoadCursor, ReadFile, EndCollect,
      SnapshotsDone, HitsDone, SetCursor, PassOk, DeleteSessions, InsertSessions, SkipFile,
      PassFails, Crash, Restart

(* A line once stored stays stored, in its place. *)
LEMMA StoredGrows ==
  ASSUME TypeOK, [Next]_vars, NEW f \in Files, NEW i \in 1..Len(log[f])
  PROVE  /\ Len(log'[f]) >= Len(log[f]) /\ log'[f][i] = log[f][i]
         /\ IsStored(log[f][i]) => IsStored(log[f][i])'
         /\ Written(log[f][i])'
<1>1. /\ \A k \in UsageKeys : usage'[k] >= usage[k]
      /\ \A q \in QuotaKeys : snapshots'[q] >= snapshots[q]
      /\ \A h \in HitKeys : hits'[h] >= hits[h]
  BY TablesGrow
<1>2. Len(log'[f]) >= Len(log[f]) /\ log'[f][i] = log[f][i]
  BY LogGrows
<1>3. IsStored(log[f][i]) => IsStored(log[f][i])'
  BY <1>1, <1>2, StoreTypeStep DEF IsStored, TypeOK, StoreTypeOK
<1>4. Written(log[f][i])'
  <2>1. log \in [Files -> Seq(Line)] /\ log' \in [Files -> Seq(Line)]
    BY StoreTypeStep DEF TypeOK, StoreTypeOK
  <2>2. Len(log[f]) \in Nat /\ Len(log'[f]) \in Nat
    BY <2>1
  <2>3. i \in 1..Len(log'[f])
    BY <1>2, <2>2
  <2>4. QED
    BY <1>2, <2>3 DEF Written
<1>5. QED
  BY <1>2, <1>3, <1>4

-----------------------------------------------------------------------------
(* Each part of IInv is kept by every step. *)
LEMMA OffsetsStep ==
  ASSUME IInv, [Next]_vars
  PROVE  OffsetsInFiles'
<1> USE DEF OffsetsInFiles
<1>1. TypeOK /\ TypeOK' /\ OffsetsInFiles /\ CursorCoversOnlyStored
  BY TypeStep DEF IInv
<1>2. \A f \in Files : Len(log[f]) \in Nat /\ Len(log'[f]) \in Nat
  BY <1>1 DEF TypeOK, StoreTypeOK
<1>3. ASSUME NEW f \in Files, NEW l \in Line, AppendLine(f, l) PROVE OffsetsInFiles'
  BY <1>1, <1>2, <1>3, AppendKeeps DEF AppendLine, volatile, output, TypeOK, PassTypeOK
<1>4. CASE LoadCursor
  BY <1>1, <1>4 DEF LoadCursor, CursorCoversOnlyStored
<1>5. ASSUME NEW f \in Files, ReadFile(f) PROVE OffsetsInFiles'
  BY <1>1, <1>2, <1>5 DEF ReadFile, NewOffset, TypeOK, PassTypeOK
<1>6. CASE Crash
  BY <1>2, <1>6 DEF Crash
<1>7. CASE UNCHANGED <<log, loaded, next>>
  BY <1>1, <1>7
<1>8. QED
  BY <1>3, <1>4, <1>5, <1>6, <1>7
  DEF Next, Daemon, Store, vars, volatile, stored, output, Tick, EndCollect, InsertUsageBatch,
      InsertQuotaSnapshot, SnapshotsDone, InsertQuotaHit, HitsDone, SetCursor, PassOk,
      DeleteSessions, InsertSessions, SkipFile, PassFails, Restart

LEMMA CursorStep ==
  ASSUME IInv, [Next]_vars
  PROVE  CursorCoversOnlyStored'
<1>1. TypeOK /\ TypeOK' /\ CursorCoversOnlyStored /\ OffsetsInFiles
  BY TypeStep DEF IInv
<1>2. SUFFICES ASSUME NEW f \in Files
               PROVE  cursor'[f] <= Len(log'[f]) /\ \A i \in 1..cursor'[f] : IsStored(log[f][i])'
  BY DEF CursorCoversOnlyStored
<1>3. /\ cursor[f] \in Nat /\ next[f] \in Nat /\ Len(log[f]) \in Nat /\ Len(log'[f]) \in Nat
      /\ cursor[f] <= Len(log[f]) /\ next[f] <= Len(log[f])
  BY <1>1 DEF TypeOK, StoreTypeOK, PassTypeOK, CursorCoversOnlyStored, OffsetsInFiles
<1>4. Len(log'[f]) >= Len(log[f])
  BY <1>1, LogGrows
<1>5. CASE cursor'[f] = cursor[f]
  BY <1>1, <1>3, <1>4, <1>5, StoredGrows DEF CursorCoversOnlyStored
<1>6. ASSUME NEW g \in Files, SetCursor(g), cursor'[f] # cursor[f]
      PROVE  cursor'[f] <= Len(log'[f]) /\ \A i \in 1..cursor'[f] : IsStored(log[f][i])'
  <2>1. g = f /\ cursor'[f] = next[f] /\ pc = "cursors"
    BY <1>1, <1>6 DEF SetCursor, TypeOK, StoreTypeOK
  <2>2. UNCHANGED <<log, usage, snapshots, hits>>
    BY <1>6 DEF SetCursor
  <2>3. \A i \in 1..next[f] : Covered(f, i)
    BY <2>1 DEF IInv, OutputCovers, InPass
  <2>4. (\A k \in recs : usage[k] > 0) /\ snaps = {} /\ newHits = {}
    BY <2>1 DEF IInv, PhaseOrder
  <2>5. \A i \in 1..next[f] : IsStored(log[f][i])
    BY <2>3, <2>4 DEF Covered, IsStored
  <2>6. QED
    BY <1>3, <2>1, <2>2, <2>5 DEF IsStored
<1>7. cursor' = cursor \/ \E g \in Files : SetCursor(g)
  BY DEF Next, Daemon, Store, vars, stored, AppendLine, Tick, LoadCursor, ReadFile, EndCollect,
      InsertUsageBatch, InsertQuotaSnapshot, SnapshotsDone, InsertQuotaHit, HitsDone,
      PassOk, DeleteSessions, InsertSessions, SkipFile, PassFails, Crash, Restart
<1>8. QED
  BY <1>5, <1>6, <1>7

LEMMA WrittenStep ==
  ASSUME IInv, [Next]_vars
  PROVE  RecsWritten'
<1>1. TypeOK /\ TypeOK' /\ RecsWritten
  BY TypeStep DEF IInv
<1>2. ASSUME NEW k \in UsageKeys, Written(k) PROVE Written(k)'
  BY <1>1, <1>2, StoredGrows DEF Written
<1>3. CASE recs' \subseteq recs
  BY <1>1, <1>2, <1>3 DEF RecsWritten, TypeOK, PassTypeOK
<1>4. ASSUME NEW f \in Files, ReadFile(f) PROVE RecsWritten'
  <2>1. log' = log /\ recs' = recs \cup ({log[f][i] : i \in NewLines(f)} \cap UsageKeys)
    BY <1>4 DEF ReadFile
  <2>2. NewLines(f) \subseteq 1..Len(log[f])
    BY <1>1 DEF NewLines, TypeOK, StoreTypeOK, PassTypeOK
  <2>3. QED
    BY <1>1, <2>1, <2>2 DEF RecsWritten, Written
<1>5. recs' \subseteq recs \/ \E f \in Files : ReadFile(f)
  BY DEF Next, Daemon, Store, vars, volatile, output, AppendLine, Tick, LoadCursor, EndCollect,
      InsertUsageBatch, InsertQuotaSnapshot, SnapshotsDone, InsertQuotaHit, HitsDone, SetCursor,
      PassOk, DeleteSessions, InsertSessions, SkipFile, PassFails, Crash, Restart
<1>6. QED
  BY <1>3, <1>4, <1>5

LEMMA PhaseStep ==
  ASSUME IInv, [Next]_vars
  PROVE  PhaseOrder'
<1> USE DEF PhaseOrder
<1>1. TypeOK /\ TypeOK' /\ PhaseOrder
  BY TypeStep DEF IInv
<1>2. CASE pc' \notin {"snapshots", "hits", "cursors"}
  BY <1>2
<1>3. CASE UNCHANGED <<pc, recs, snaps, newHits, usage>>
  BY <1>1, <1>3
<1>4. CASE InsertUsageBatch
  <2>1. \A k \in recs : usage'[k] > 0
    BY <1>1, <1>4, InsertIgnoreFacts DEF InsertUsageBatch, TypeOK, StoreTypeOK, PassTypeOK
  <2>2. QED
    BY <1>4, <2>1 DEF InsertUsageBatch, output
<1>5. ASSUME NEW p \in snaps, InsertQuotaSnapshot(p) PROVE PhaseOrder'
  BY <1>1, <1>5 DEF InsertQuotaSnapshot
<1>6. CASE SnapshotsDone \/ HitsDone
  BY <1>1, <1>6 DEF SnapshotsDone, HitsDone, stored, output
<1>7. ASSUME NEW h \in HitKeys, InsertQuotaHit(h) PROVE PhaseOrder'
  BY <1>1, <1>7 DEF InsertQuotaHit
<1>8. CASE PassOk \/ PassFails \/ InsertSessions
  BY <1>1, <1>2, <1>8, NextCollectorFacts DEF PassOk, PassFails, InsertSessions
<1>9. QED
  BY <1>2, <1>3, <1>4, <1>5, <1>6, <1>7, <1>8
  DEF Next, Daemon, Store, vars, volatile, stored, output, AppendLine, Tick, LoadCursor,
      ReadFile, EndCollect, SetCursor, DeleteSessions, SkipFile, Crash, Restart

(* What a step neither stores nor drops stays covered. *)
LEMMA CoveredKept ==
  ASSUME TypeOK, [Next]_vars, NEW f \in Files, NEW i \in 1..Len(log[f]), Covered(f, i),
         recs \subseteq recs', snaps \subseteq snaps', newHits \subseteq newHits'
  PROVE  Covered(f, i)'
<1>1. log'[f][i] = log[f][i] /\ (IsStored(log[f][i]) => IsStored(log[f][i])')
  BY StoredGrows
<1>2. /\ \A k \in UsageKeys : usage[k] > 0 => usage'[k] > 0
      /\ \A q \in QuotaKeys : snapshots[q] > 0 => snapshots'[q] > 0
      /\ \A h \in HitKeys : hits[h] > 0 => hits'[h] > 0
  BY TablesGrow, StoreTypeStep DEF TypeOK, StoreTypeOK
<1>3. QED
  BY <1>1, <1>2 DEF Covered

LEMMA LoadedStep ==
  ASSUME IInv, [Next]_vars
  PROVE  LoadedStored'
<1>1. TypeOK /\ OffsetsInFiles /\ LoadedStored /\ CursorCoversOnlyStored
  BY DEF IInv
<1>2. CASE LoadCursor
  <2>1. UNCHANGED <<log, usage, snapshots, hits>> /\ loaded' = cursor
    BY <1>2 DEF LoadCursor, stored
  <2>2. QED
    BY <1>1, <2>1 DEF LoadedStored, CursorCoversOnlyStored, IsStored
<1>3. CASE pc = "read" /\ loaded' = loaded
  <2>1. ASSUME NEW f \in Files, NEW i \in 1..loaded[f] PROVE IsStored(log[f][i])'
    <3>1. i \in 1..Len(log[f]) /\ IsStored(log[f][i])
      BY <1>1, <1>3 DEF OffsetsInFiles, LoadedStored, TypeOK, StoreTypeOK, PassTypeOK
    <3>2. QED
      BY <1>1, <3>1, StoredGrows
  <2>2. QED
    BY <1>3, <2>1 DEF LoadedStored
<1>4. LoadCursor \/ pc' # "read" \/ (pc = "read" /\ loaded' = loaded)
  BY NextCollectorFacts, <1>1
  DEF Next, Daemon, Store, vars, volatile, stored, output, AppendLine, Tick, ReadFile, EndCollect,
      InsertUsageBatch, InsertQuotaSnapshot, SnapshotsDone, InsertQuotaHit, HitsDone, SetCursor,
      PassOk, DeleteSessions, InsertSessions, SkipFile, PassFails, Crash, Restart
<1>5. QED
  BY <1>2, <1>3, <1>4 DEF LoadedStored

LEMMA CoversStep ==
  ASSUME IInv, [Next]_vars
  PROVE  OutputCovers'
<1>1. /\ TypeOK /\ TypeOK' /\ OffsetsInFiles /\ OutputCovers /\ LoadedStored
      /\ CursorCoversOnlyStored
  BY TypeStep DEF IInv
<1>2. ASSUME NEW f \in Files
      PROVE  Len(log[f]) \in Nat /\ loaded[f] \in Nat /\ next[f] \in 0..Len(log[f])
  BY <1>1 DEF TypeOK, StoreTypeOK, PassTypeOK, OffsetsInFiles
<1>3. CASE LoadCursor
  <2>1. UNCHANGED <<log, usage, snapshots, hits>> /\ next' = cursor
    BY <1>3 DEF LoadCursor, stored
  <2>2. QED
    BY <1>1, <2>1 DEF OutputCovers, CursorCoversOnlyStored, IsStored, Covered
<1>4. ASSUME NEW f \in Files, ReadFile(f) PROVE OutputCovers'
  <2>1. /\ UNCHANGED <<log, usage, snapshots, hits>> /\ pc = "read"
        /\ recs \subseteq recs' /\ snaps \subseteq snaps' /\ newHits \subseteq newHits'
        /\ next' = [next EXCEPT ![f] = Len(log[f])]
    BY <1>4 DEF ReadFile, NewOffset, stored
  <2>2. ASSUME NEW i \in 1..Len(log[f]) PROVE Covered(f, i)'
    <3>1. CASE i \in 1..loaded[f]
      BY <1>1, <2>1, <3>1 DEF LoadedStored, IsStored, Covered
    <3>2. CASE i \in NewLines(f)
      BY <1>4, <2>1, <3>2 DEF ReadFile, Covered
    <3>3. QED
      BY <1>2, <3>1, <3>2 DEF NewLines
  <2>3. ASSUME NEW g \in Files, g # f, NEW i \in 1..next[g] PROVE Covered(g, i)'
    <3>1. i \in 1..Len(log[g]) /\ Covered(g, i)
      BY <1>1, <1>2, <2>1, <2>3 DEF OutputCovers, InPass
    <3>2. QED
      BY <1>1, <2>1, <3>1, CoveredKept
  <2>4. QED
    BY <1>1, <2>1, <2>2, <2>3 DEF OutputCovers, TypeOK, PassTypeOK
<1>5. ASSUME NEW p \in snaps, InsertQuotaSnapshot(p) PROVE OutputCovers'
  <2>1. /\ UNCHANGED <<log, usage, hits, recs, newHits, next, pc>>
        /\ snapshots' = [snapshots EXCEPT ![log[p[1]][p[2]]] = @ + 1]
        /\ snaps' = snaps \ {p} /\ pc = "snapshots"
    BY <1>5 DEF InsertQuotaSnapshot
  <2>2. ASSUME NEW f \in Files, NEW i \in 1..next[f] PROVE Covered(f, i)'
    <3>1. i \in 1..Len(log[f]) /\ Covered(f, i)
      BY <1>1, <1>2, <2>1 DEF OutputCovers, InPass
    <3>2. ASSUME log[f][i] \in QuotaKeys PROVE snapshots'[log[f][i]] > 0 \/ <<f, i>> \in snaps'
      <4>1. CASE <<f, i>> = p
        BY <1>1, <2>1, <3>2, <4>1 DEF TypeOK, StoreTypeOK
      <4>2. CASE <<f, i>> # p
        <5>1. snapshots[log[f][i]] > 0 => snapshots'[log[f][i]] > 0
          BY <1>1, <3>2, TablesGrow DEF TypeOK, StoreTypeOK
        <5>2. QED
          BY <2>1, <3>1, <3>2, <4>2, <5>1 DEF Covered
      <4>3. QED
        BY <4>1, <4>2
    <3>3. QED
      BY <2>1, <3>1, <3>2 DEF Covered
  <2>3. QED
    BY <2>1, <2>2 DEF OutputCovers
<1>6. ASSUME NEW h \in HitKeys, InsertQuotaHit(h) PROVE OutputCovers'
  <2>1. /\ UNCHANGED <<log, usage, snapshots, recs, snaps, next, pc>>
        /\ newHits' = newHits \ {h} /\ pc = "hits" /\ hits' = InsertIgnore(hits, {h})
    BY <1>6 DEF InsertQuotaHit
  <2>2. hits'[h] > 0 /\ \A k \in HitKeys : hits[k] > 0 => hits'[k] > 0
    <3>1. hits'[h] > 0
      BY <1>1, <2>1 DEF InsertIgnore, TypeOK, StoreTypeOK
    <3>2. \A k \in HitKeys : hits[k] > 0 => hits'[k] > 0
      BY <1>1, TablesGrow DEF TypeOK, StoreTypeOK
    <3>3. QED
      BY <3>1, <3>2
  <2>3. ASSUME NEW f \in Files, NEW i \in 1..next[f] PROVE Covered(f, i)'
    <3>1. Covered(f, i)
      BY <1>1, <2>1 DEF OutputCovers, InPass
    <3>2. QED
      BY <2>1, <2>2, <3>1 DEF Covered
  <2>4. QED
    BY <2>1, <2>3 DEF OutputCovers
<1>7. CASE InPass /\ UNCHANGED <<next, recs, snaps, newHits>>
  <2>1. ASSUME NEW f \in Files, NEW i \in 1..next[f] PROVE Covered(f, i)'
    <3>1. i \in 1..Len(log[f]) /\ Covered(f, i)
      BY <1>1, <1>2, <1>7 DEF OutputCovers
    <3>2. QED
      BY <1>1, <1>7, <3>1, CoveredKept
  <2>2. QED
    BY <1>7, <2>1 DEF OutputCovers
<1>8. CASE ~InPass'
  BY <1>8 DEF OutputCovers
<1>9. CASE PassOk \/ PassFails \/ InsertSessions
  BY <1>1, <1>9, NextCollectorFacts DEF PassOk, PassFails, InsertSessions, OutputCovers, InPass
<1>10. \/ LoadCursor \/ PassOk \/ PassFails \/ InsertSessions
       \/ \E f \in Files : ReadFile(f)
       \/ \E p \in snaps : InsertQuotaSnapshot(p)
       \/ \E h \in HitKeys : InsertQuotaHit(h)
       \/ ~InPass' \/ (InPass /\ UNCHANGED <<next, recs, snaps, newHits>>)
  BY DEF Next, Daemon, Store, vars, volatile, stored, output, AppendLine, Tick, EndCollect,
      InsertUsageBatch, SnapshotsDone, HitsDone, SetCursor, DeleteSessions, SkipFile, Crash,
      Restart, InPass
<1>11. QED
  BY <1>3, <1>4, <1>5, <1>6, <1>7, <1>8, <1>9, <1>10

LEMMA IInvStep == IInv /\ [Next]_vars => IInv'
  BY TypeStep, OffsetsStep, CursorStep, CoversStep, LoadedStep, PhaseStep, WrittenStep DEF IInv

LEMMA Invariance == Spec => []IInv
<1>1. Init => IInv
  BY InitIInv
<1>2. QED
  BY <1>1, IInvStep, PTL DEF Spec

(* No failure, crash or interleaving with the agents lets a stored offset  *)
(* (collector_cursors) get ahead of the data it stands for.                *)
THEOREM CursorSafety == Spec => []CursorCoversOnlyStored
<1>1. IInv => CursorCoversOnlyStored
  BY DEF IInv
<1>2. QED
  BY <1>1, Invariance, PTL

-----------------------------------------------------------------------------
LEMMA NoDoubleCountStep == TypeOK /\ NoDoubleCount /\ [Next]_vars => NoDoubleCount'
<1> SUFFICES ASSUME TypeOK, NoDoubleCount, [Next]_vars PROVE NoDoubleCount'
  OBVIOUS
<1>1. CASE InsertUsageBatch
  BY <1>1, InsertIgnoreFacts DEF InsertUsageBatch, NoDoubleCount, TypeOK, StoreTypeOK
<1>2. ASSUME NEW h \in HitKeys, InsertQuotaHit(h) PROVE NoDoubleCount'
  <2>1. usage' = usage /\ hits' = InsertIgnore(hits, {h})
    BY <1>2 DEF InsertQuotaHit
  <2>2. \A k \in HitKeys : hits'[k] <= 1
    BY <2>1, InsertIgnoreFacts DEF NoDoubleCount, TypeOK, StoreTypeOK
  <2>3. QED
    BY <2>1, <2>2 DEF NoDoubleCount
<1>3. CASE UNCHANGED <<usage, hits>>
  BY <1>3 DEF NoDoubleCount
<1>4. QED
  BY <1>1, <1>2, <1>3
  DEF Next, Daemon, Store, vars, stored, AppendLine, Tick, LoadCursor, ReadFile, EndCollect,
      InsertQuotaSnapshot, SnapshotsDone, HitsDone, SetCursor, PassOk, DeleteSessions,
      InsertSessions, SkipFile, PassFails, Crash, Restart

(* Repeated lines, rescans and retries never count a record or a hit twice *)
(* (INSERT OR IGNORE under the unique dedup keys).                         *)
THEOREM ExactlyOnce == Spec => []NoDoubleCount
<1>1. Init => NoDoubleCount
  BY DEF Init, NoDoubleCount
<1>2. QED
  BY <1>1, NoDoubleCountStep, TypeCorrect, PTL DEF Spec

-----------------------------------------------------------------------------
(* Every step of the pipeline is a step of the ledger or leaves it alone.  *)
LEMMA LedgerStep ==
  ASSUME IInv, [Next]_vars
  PROVE  [Ledger!Next]_Ledger!ledgerVars
<1> DEFINE W == {k \in UsageKeys : Written(k)}
<1>1. TypeOK /\ TypeOK' /\ RecsWritten
  BY TypeStep DEF IInv
<1>2. ASSUME NEW f \in Files, NEW l \in Line, AppendLine(f, l)
      PROVE  [Ledger!Next]_Ledger!ledgerVars
  <2>1. usage' = usage
    BY <1>2 DEF AppendLine, stored
  <2>2. W' = W \cup ({l} \cap UsageKeys)
    <3>1. ASSUME NEW k \in UsageKeys PROVE Written(k)' <=> Written(k) \/ k = l
      <4>1. Written(k) => Written(k)'
        BY <1>1, StoredGrows DEF Written
      <4>2. k = l => Written(k)'
        BY <1>1, <1>2, AppendKeeps DEF Written, TypeOK, StoreTypeOK
      <4>3. ASSUME NEW g \in Files, NEW i \in 1..Len(log'[g]), log'[g][i] = k, k # l
            PROVE  Written(k)
        <5>1. g = f => i \in 1..Len(log[f]) /\ log'[f][i] = log[f][i]
          BY <1>1, <1>2, <4>3, AppendKeeps DEF TypeOK, StoreTypeOK
        <5>2. g # f => log'[g] = log[g]
          BY <1>1, <1>2, AppendKeeps
        <5>3. QED
          BY <4>3, <5>1, <5>2 DEF Written
      <4>4. QED
        BY <4>1, <4>2, <4>3 DEF Written
    <3>2. QED
      BY <3>1
  <2>3. CASE l \in UsageKeys \ W
    BY <2>1, <2>2, <2>3 DEF Ledger!Next, Ledger!Write
  <2>4. CASE l \notin UsageKeys \ W
    BY <2>1, <2>2, <2>4 DEF Ledger!ledgerVars
  <2>5. QED
    BY <2>3, <2>4
<1>3. CASE InsertUsageBatch
  <2> DEFINE batch == {k \in recs : usage[k] = 0}
  <2>1. log' = log /\ usage' = InsertIgnore(usage, recs)
    BY <1>3 DEF InsertUsageBatch
  <2>2. W' = W
    BY <2>1 DEF Written
  <2>3. usage' = [k \in UsageKeys |-> IF k \in batch THEN 1 ELSE usage[k]]
    BY <1>1, <2>1 DEF InsertIgnore, TypeOK, StoreTypeOK
  <2>4. batch \in SUBSET UsageKeys /\ batch \subseteq W
    BY <1>1 DEF RecsWritten, TypeOK, PassTypeOK
  <2>5. CASE batch = {}
    <3>1. usage' = usage
      BY <1>1, <2>3, <2>5 DEF TypeOK, StoreTypeOK
    <3>2. QED
      BY <2>2, <3>1 DEF Ledger!ledgerVars
  <2>6. CASE batch # {}
    BY <2>2, <2>3, <2>4, <2>6 DEF Ledger!Next, Ledger!Record
  <2>7. QED
    BY <2>5, <2>6
<1>4. CASE UNCHANGED <<log, usage>>
  BY <1>4 DEF Ledger!ledgerVars, Written
<1>5. QED
  BY <1>2, <1>3, <1>4
  DEF Next, Daemon, Store, vars, stored, Tick, LoadCursor, ReadFile, EndCollect,
      InsertQuotaSnapshot, SnapshotsDone, InsertQuotaHit, HitsDone, SetCursor, PassOk,
      DeleteSessions, InsertSessions, SkipFile, PassFails, Crash, Restart

(* run_loop and run_once implement the ledger: a batch of written records  *)
(* appears at once, each record is recorded once and never taken back.     *)
THEOREM LedgerRefinement == Spec => ImplementsLedger
<1>1. Init => Ledger!Init
  BY DEF Init, Ledger!Init, Written
<1>2. IInv /\ [Next]_vars => [Ledger!Next]_Ledger!ledgerVars
  BY LedgerStep
<1>3. QED
  BY <1>1, <1>2, Invariance, PTL DEF Spec, ImplementsLedger, Ledger!Spec

-----------------------------------------------------------------------------
\* The offset a pass is about to persist is not behind the persisted one.
NextAhead == InPass => \A f \in Files : cursor[f] <= next[f]

LEMMA NextAheadStep ==
  ASSUME IInv, NextAhead, [Next]_vars
  PROVE  NextAhead'
<1> USE DEF NextAhead
<1>1. TypeOK /\ TypeOK' /\ CursorCoversOnlyStored
  BY TypeStep DEF IInv
<1>2. \A f \in Files : cursor[f] \in Nat /\ next[f] \in Nat /\ cursor[f] <= Len(log[f])
  BY <1>1 DEF TypeOK, StoreTypeOK, PassTypeOK, CursorCoversOnlyStored
<1>3. CASE LoadCursor
  BY <1>2, <1>3 DEF LoadCursor, stored
<1>4. ASSUME NEW f \in Files, ReadFile(f) PROVE NextAhead'
  BY <1>1, <1>2, <1>4 DEF ReadFile, NewOffset, InPass, stored, TypeOK, PassTypeOK
<1>5. ASSUME NEW f \in Files, SetCursor(f) PROVE NextAhead'
  BY <1>1, <1>2, <1>5 DEF SetCursor, InPass, TypeOK, StoreTypeOK
<1>6. CASE InPass /\ UNCHANGED <<cursor, next>>
  BY <1>6
<1>7. CASE ~InPass'
  BY <1>7
<1>8. CASE PassOk \/ PassFails \/ InsertSessions
  BY <1>1, <1>8, NextCollectorFacts DEF PassOk, PassFails, InsertSessions, InPass
<1>9. QED
  BY <1>3, <1>4, <1>5, <1>6, <1>7, <1>8
  DEF Next, Daemon, Store, vars, volatile, stored, output, InPass, AppendLine, Tick, EndCollect,
      InsertUsageBatch, InsertQuotaSnapshot, SnapshotsDone, InsertQuotaHit, HitsDone,
      DeleteSessions, SkipFile, Crash, Restart

(* What a reader of the database has seen is never taken back: no pass, be *)
(* it a retry or after a restart, removes a row or sets an offset back.    *)
THEOREM GrowsOnly == Spec => StoreOnlyGrows
<1>1. Init => IInv /\ NextAhead
  BY InitIInv DEF Init, NextAhead, InPass
<1>2. IInv /\ NextAhead /\ [Next]_vars => (IInv /\ NextAhead)'
  BY IInvStep, NextAheadStep
<1>3. IInv /\ NextAhead /\ [Next]_vars
      => [/\ \A k \in UsageKeys : usage'[k] >= usage[k]
          /\ \A q \in QuotaKeys : snapshots'[q] >= snapshots[q]
          /\ \A h \in HitKeys : hits'[h] >= hits[h]
          /\ \A f \in Files : cursor'[f] >= cursor[f]]_stored
  <2> SUFFICES ASSUME IInv, NextAhead, [Next]_vars
               PROVE  \A f \in Files : cursor'[f] >= cursor[f]
    BY TablesGrow DEF IInv
  <2>1. TypeOK
    BY DEF IInv
  <2>2. \A f \in Files : cursor[f] \in Nat
    BY <2>1 DEF TypeOK, StoreTypeOK
  <2>3. ASSUME NEW f \in Files, SetCursor(f) PROVE \A g \in Files : cursor'[g] >= cursor[g]
    BY <2>1, <2>2, <2>3 DEF SetCursor, NextAhead, InPass, TypeOK, StoreTypeOK
  <2>4. cursor' = cursor \/ \E f \in Files : SetCursor(f)
    BY DEF Next, Daemon, Store, vars, stored, AppendLine, Tick, LoadCursor, ReadFile,
       EndCollect, InsertUsageBatch, InsertQuotaSnapshot, SnapshotsDone, InsertQuotaHit,
       HitsDone, PassOk, DeleteSessions, InsertSessions, SkipFile, PassFails, Crash, Restart
  <2>5. QED
    BY <2>2, <2>3, <2>4
<1>4. QED
  BY <1>1, <1>2, <1>3, PTL DEF Spec, StoreOnlyGrows

-----------------------------------------------------------------------------
(* Snapshots are not deduplicated: what is stored of an observation, and   *)
(* what the pass still owes of it, is counted together.                    *)

Positions(q) == {p \in UNION {{f} \X DOMAIN log[f] : f \in Files} : log[p[1]][p[2]] = q}

\* Where what has not been read begins; for a pass, above what it has read itself.
Begin == IF InPass THEN next ELSE cursor

\* The positions of q that will be stored if nothing fails.
Owed(q) == {p \in Positions(q) : p[2] > Begin[p[1]] \/ (InPass /\ p \in snaps)}

\* What a pass has not read, or has persisted, begins at the persisted offset; what it has
\* in hand lies below the offset it will persist.
OffsetsKept ==
  InPass =>
    /\ \A f \in Files \ unsaved : next[f] = cursor[f]
    /\ pc = "read" => \A f \in todo : next[f] = loaded[f]
    /\ \A p \in snaps : p[2] <= next[p[1]]

SnapshotsCounted ==
  \A q \in QuotaKeys :
    /\ IsFiniteSet(Positions(q))
    /\ snapshots[q] + Cardinality(Owed(q)) <= Lines(q) * (1 + faults + crashes)

LEMMA OffsetsKeptStep ==
  ASSUME IInv, OffsetsKept, [Next]_vars
  PROVE  OffsetsKept'
<1> USE DEF OffsetsKept
<1>1. TypeOK /\ TypeOK' /\ OffsetsInFiles
  BY TypeStep DEF IInv
<1>2. \A f \in Files : next[f] \in Nat /\ Len(log[f]) \in Nat /\ next[f] <= Len(log[f])
  BY <1>1 DEF TypeOK, StoreTypeOK, PassTypeOK, OffsetsInFiles
<1>3. CASE LoadCursor
  <2>1. next' = cursor /\ loaded' = cursor /\ cursor' = cursor /\ snaps' = {}
    BY <1>3 DEF LoadCursor, stored
  <2>2. Walked(turn) \subseteq Files /\ todo' = Walked(turn)
    BY <1>3 DEF LoadCursor, Walked
  <2> QED BY <2>1, <2>2
<1>4. ASSUME NEW f \in Files, ReadFile(f) PROVE OffsetsKept'
  <2>1. /\ next' = [next EXCEPT ![f] = Len(log[f])]
        /\ unsaved' = unsaved \cup {f} /\ todo' = todo \ {f}
        /\ pc = "read" /\ pc' = pc /\ UNCHANGED <<cursor, loaded>>
    BY <1>4 DEF ReadFile, NewOffset, stored
  <2>2. \A g \in Files : next'[g] = IF g = f THEN Len(log[f]) ELSE next[g]
    BY <1>1, <2>1 DEF TypeOK, PassTypeOK
  <2>3. ASSUME NEW p \in snaps' PROVE p[2] <= next'[p[1]]
    <3>1. CASE p \in snaps
      <4>1. p[1] \in Files /\ p[2] \in Nat /\ p[2] <= next[p[1]]
        BY <1>1, <2>1, <3>1 DEF TypeOK, PassTypeOK, InPass
      <4> QED BY <1>2, <2>2, <4>1
    <3>2. ASSUME NEW i \in NewLines(f), p = <<f, i>> PROVE p[2] <= next'[p[1]]
      BY <1>1, <1>2, <2>2, <3>2 DEF NewLines, TypeOK, PassTypeOK
    <3> QED BY <1>4, <3>1, <3>2 DEF ReadFile
  <2>4. \A g \in Files \ unsaved' : next'[g] = cursor'[g]
    BY <2>1, <2>2 DEF InPass
  <2>5. \A g \in todo' : next'[g] = loaded'[g]
    BY <1>1, <2>1, <2>2 DEF TypeOK, PassTypeOK, InPass
  <2> QED BY <2>3, <2>4, <2>5
<1>5. ASSUME NEW f \in Files, SetCursor(f) PROVE OffsetsKept'
  <2>1. /\ cursor' = [cursor EXCEPT ![f] = next[f]] /\ unsaved' = unsaved \ {f}
        /\ pc = "cursors" /\ pc' = pc /\ UNCHANGED <<next, snaps>>
    BY <1>5 DEF SetCursor
  <2>2. \A g \in Files : cursor'[g] = IF g = f THEN next[f] ELSE cursor[g]
    BY <1>1, <2>1 DEF TypeOK, StoreTypeOK
  <2> QED BY <2>1, <2>2 DEF InPass
<1>6. CASE /\ InPass /\ UNCHANGED <<next, cursor, unsaved, loaded>>
           /\ (pc' = "read" => pc = "read")
           /\ todo' \subseteq todo /\ snaps' \subseteq snaps
  BY <1>6
<1>7. CASE ~InPass'
  BY <1>7
<1>8. CASE PassOk \/ PassFails \/ InsertSessions
  BY <1>1, <1>8, NextCollectorFacts DEF PassOk, PassFails, InsertSessions, InPass
<1>9. QED
  BY <1>3, <1>4, <1>5, <1>6, <1>7, <1>8
  DEF Next, Daemon, Store, vars, volatile, stored, output, InPass, AppendLine, Tick, EndCollect,
      InsertUsageBatch, InsertQuotaSnapshot, SnapshotsDone, InsertQuotaHit, HitsDone,
      DeleteSessions, SkipFile, Crash, Restart

(* How the bound grows with faults and crashes.                            *)
LEMMA BoundGrows ==
  ASSUME NEW n \in Nat, NEW a \in Nat, NEW b \in Nat, NEW c \in Nat, NEW d \in Nat
  PROVE  /\ n * (1 + a + b) \in Nat
         /\ c >= a /\ d >= b => n * (1 + c + d) >= n * (1 + a + b)
         /\ c + d = a + b + 1 => n * (1 + c + d) = n * (1 + a + b) + n
<1>1. n * (1 + a + b) \in Nat
  OBVIOUS
<1>2. ASSUME c >= a, d >= b PROVE n * (1 + c + d) >= n * (1 + a + b)
  <2>1. PICK m \in Nat : 1 + c + d = (1 + a + b) + m
    <3>1. (c - a) + (d - b) \in Nat
      BY <1>2
    <3>2. 1 + c + d = (1 + a + b) + ((c - a) + (d - b))
      OBVIOUS
    <3> QED BY <3>1, <3>2
  <2>2. n * m \in Nat /\ n * ((1 + a + b) + m) = n * (1 + a + b) + n * m
    OBVIOUS
  <2> QED BY <1>1, <2>1, <2>2
<1>3. ASSUME c + d = a + b + 1 PROVE n * (1 + c + d) = n * (1 + a + b) + n
  <2>1. 1 + c + d = (1 + a + b) + 1
    BY <1>3
  <2>2. n * ((1 + a + b) + 1) = n * (1 + a + b) + n
    OBVIOUS
  <2> QED BY <2>1, <2>2
<1> QED BY <1>1, <1>2, <1>3

(* The lines of an observation are finitely many, and so is what is owed.  *)
LEMMA OwedCounts ==
  ASSUME SnapshotsCounted, NEW q \in QuotaKeys
  PROVE  /\ IsFiniteSet(Positions(q)) /\ Lines(q) = Cardinality(Positions(q)) /\ Lines(q) \in Nat
         /\ IsFiniteSet(Owed(q)) /\ Cardinality(Owed(q)) \in 0..Lines(q)
<1>1. IsFiniteSet(Positions(q)) /\ Owed(q) \subseteq Positions(q)
  BY DEF SnapshotsCounted, Owed
<1>2. Lines(q) = Cardinality(Positions(q))
  BY DEF Lines, Positions
<1>3. /\ IsFiniteSet(Owed(q)) /\ Cardinality(Owed(q)) \in Nat
      /\ Cardinality(Positions(q)) \in Nat /\ Cardinality(Owed(q)) <= Cardinality(Positions(q))
  BY <1>1, FS_Subset, FS_CardinalityType
<1> QED BY <1>1, <1>2, <1>3

Counted(q) ==
  /\ IsFiniteSet(Positions(q))
  /\ snapshots[q] + Cardinality(Owed(q)) <= Lines(q) * (1 + faults + crashes)

(* Steps that leave rows and files alone, and owe no more than before.     *)
LEMMA OwesNoMore ==
  ASSUME SnapshotsCounted, TypeOK, TypeOK', UNCHANGED <<log, snapshots>>,
         faults' >= faults, crashes' >= crashes, NEW q \in QuotaKeys,
         Owed(q)' \subseteq Owed(q)
  PROVE  Counted(q)'
<1>1. Positions(q)' = Positions(q) /\ Lines(q)' = Lines(q)
  BY DEF Positions, Lines
<1>2. IsFiniteSet(Positions(q)) /\ IsFiniteSet(Owed(q)) /\ Lines(q) \in Nat
  BY OwedCounts
<1>3. /\ Cardinality(Owed(q)') <= Cardinality(Owed(q))
      /\ Cardinality(Owed(q)) \in Nat /\ Cardinality(Owed(q)') \in Nat
  BY <1>2, FS_Subset, FS_CardinalityType
<1>4. faults \in Nat /\ crashes \in Nat /\ faults' \in Nat /\ crashes' \in Nat
  BY DEF TypeOK
<1>5. /\ Lines(q) * (1 + faults' + crashes') >= Lines(q) * (1 + faults + crashes)
      /\ Lines(q) * (1 + faults + crashes) \in Nat
      /\ Lines(q) * (1 + faults' + crashes') \in Nat
  BY <1>2, <1>4, BoundGrows
<1>6. /\ snapshots[q] \in Nat /\ snapshots'[q] = snapshots[q]
      /\ snapshots[q] + Cardinality(Owed(q)) <= Lines(q) * (1 + faults + crashes)
  BY DEF SnapshotsCounted, TypeOK, StoreTypeOK
<1>7. snapshots'[q] + Cardinality(Owed(q)') <= Lines(q) * (1 + faults' + crashes')
  BY <1>3, <1>5, <1>6
<1> QED BY <1>1, <1>2, <1>7 DEF Counted

(* A fault or a crash may make a pass owe all it has done again.           *)
LEMMA OwesAllAgain ==
  ASSUME SnapshotsCounted, TypeOK, UNCHANGED <<log, snapshots>>,
         faults' + crashes' = faults + crashes + 1, faults' \in Nat, crashes' \in Nat,
         NEW q \in QuotaKeys
  PROVE  Counted(q)'
<1>1. Positions(q)' = Positions(q) /\ Lines(q)' = Lines(q) /\ Owed(q)' \subseteq Positions(q)
  BY DEF Positions, Lines, Owed
<1>2. /\ IsFiniteSet(Positions(q)) /\ Lines(q) = Cardinality(Positions(q)) /\ Lines(q) \in Nat
      /\ Cardinality(Owed(q)) \in Nat
  BY OwedCounts
<1>3. Cardinality(Owed(q)') <= Lines(q) /\ Cardinality(Owed(q)') \in Nat
  BY <1>1, <1>2, FS_Subset, FS_CardinalityType
<1>4. faults \in Nat /\ crashes \in Nat
  BY DEF TypeOK
<1>5. /\ Lines(q) * (1 + faults' + crashes') = Lines(q) * (1 + faults + crashes) + Lines(q)
      /\ Lines(q) * (1 + faults + crashes) \in Nat
  <2>1. PICK n \in Nat, a \in Nat, b \in Nat, c \in Nat, d \in Nat :
          n = Lines(q) /\ a = faults /\ b = crashes /\ c = faults' /\ d = crashes'
    BY <1>2, <1>4
  <2>2. c + d = a + b + 1
    BY <2>1
  <2>3. n * (1 + c + d) = n * (1 + a + b) + n /\ n * (1 + a + b) \in Nat
    BY <2>2, BoundGrows
  <2> QED BY <2>1, <2>3
<1>6. /\ snapshots[q] \in Nat /\ snapshots'[q] = snapshots[q]
      /\ snapshots[q] + Cardinality(Owed(q)) <= Lines(q) * (1 + faults + crashes)
  BY DEF SnapshotsCounted, TypeOK, StoreTypeOK
<1>7. snapshots'[q] + Cardinality(Owed(q)') <= Lines(q) * (1 + faults' + crashes')
  BY <1>2, <1>3, <1>5, <1>6
<1> QED BY <1>1, <1>2, <1>7 DEF Counted

(* A line that is appended is one more of its kind, and owed once more.    *)
LEMMA AppendCounted ==
  ASSUME IInv, SnapshotsCounted, NEW f \in Files, NEW l \in Line, AppendLine(f, l),
         NEW q \in QuotaKeys
  PROVE  Counted(q)'
<1> DEFINE new == <<f, Len(log[f]) + 1>>
<1>1. TypeOK /\ UNCHANGED <<snapshots, cursor, pc, next, snaps, faults, crashes>>
  BY DEF IInv, AppendLine, stored, volatile, output
<1>2. /\ \A g \in Files : /\ Len(log[g]) \in Nat /\ DOMAIN log[g] = 1..Len(log[g])
                          /\ DOMAIN log'[g] = 1..Len(log'[g])
      /\ \A g \in Files : \A i \in 1..Len(log[g]) : log'[g][i] = log[g][i]
      /\ Len(log'[f]) = Len(log[f]) + 1 /\ log'[f][Len(log[f]) + 1] = l
      /\ \A g \in Files \ {f} : log'[g] = log[g]
  BY <1>1, AppendKeeps DEF TypeOK, StoreTypeOK
<1>3. Positions(q)' = IF l = q THEN Positions(q) \cup {new} ELSE Positions(q)
  <2>1. ASSUME NEW g \in Files, NEW i
        PROVE  <<g, i>> \in Positions(q)' <=>
                 <<g, i>> \in Positions(q) \/ (l = q /\ <<g, i>> = new)
    <3>1. /\ <<g, i>> \in Positions(q) <=> i \in 1..Len(log[g]) /\ log[g][i] = q
          /\ <<g, i>> \in Positions(q)' <=> i \in 1..Len(log'[g]) /\ log'[g][i] = q
      BY <1>2 DEF Positions
    <3>2. CASE g # f
      BY <1>2, <3>1, <3>2
    <3>3. CASE g = f
      <4>1. PICK n \in Nat : n = Len(log[f])
        BY <1>2
      <4> QED BY <1>2, <3>1, <3>3, <4>1
    <3> QED BY <3>2, <3>3
  <2>2. /\ \A p \in Positions(q) : p[1] \in Files /\ p = <<p[1], p[2]>>
        /\ \A p \in Positions(q)' : p[1] \in Files /\ p = <<p[1], p[2]>>
    BY DEF Positions
  <2>3. new[1] \in Files /\ new = <<new[1], new[2]>>
    OBVIOUS
  <2> HIDE DEF new
  <2> QED BY <2>1, <2>2, <2>3
<1>4. new \notin Positions(q)
  BY <1>2 DEF Positions
<1>5. Begin' = Begin /\ (InPass' <=> InPass) /\ snaps' = snaps
  BY <1>1 DEF Begin, InPass
<1>6. Owed(q)' \subseteq IF l = q THEN Owed(q) \cup {new} ELSE Owed(q)
  <2> HIDE DEF new
  <2> QED BY <1>3, <1>5 DEF Owed
<1>7. /\ IsFiniteSet(Positions(q)) /\ Lines(q) = Cardinality(Positions(q)) /\ Lines(q) \in Nat
      /\ IsFiniteSet(Owed(q)) /\ Cardinality(Owed(q)) \in Nat
  BY OwedCounts
<1>8. Lines(q)' = Cardinality(Positions(q)')
  BY DEF Lines, Positions
<1>9. faults \in Nat /\ crashes \in Nat /\ snapshots[q] \in Nat
  BY <1>1 DEF TypeOK, StoreTypeOK
<1>10. snapshots[q] + Cardinality(Owed(q)) <= Lines(q) * (1 + faults + crashes)
  BY DEF SnapshotsCounted
<1> HIDE DEF new
<1>11. CASE l = q
  <2>1. IsFiniteSet(Positions(q)') /\ Lines(q)' = Lines(q) + 1
    BY <1>3, <1>4, <1>7, <1>8, <1>11, FS_AddElement
  <2>2. /\ IsFiniteSet(Owed(q) \cup {new})
        /\ Cardinality(Owed(q) \cup {new}) \in Nat
        /\ Cardinality(Owed(q) \cup {new}) <= Cardinality(Owed(q)) + 1
    BY <1>7, FS_AddElement
  <2>3. Cardinality(Owed(q)') \in Nat /\ Cardinality(Owed(q)') <= Cardinality(Owed(q)) + 1
    <3>1. Owed(q)' \in SUBSET (Owed(q) \cup {new})
      BY <1>6, <1>11
    <3>2. IsFiniteSet(Owed(q)') /\ Cardinality(Owed(q)') <= Cardinality(Owed(q) \cup {new})
      BY <2>2, <3>1, FS_Subset
    <3> QED BY <1>7, <2>2, <3>2, FS_CardinalityType
  <2>4. (Lines(q) + 1) * (1 + faults + crashes) >= Lines(q) * (1 + faults + crashes) + 1
    <3>1. PICK n \in Nat, k \in Nat : n = Lines(q) /\ k = 1 + faults + crashes /\ k >= 1
      BY <1>7, <1>9
    <3>2. (n + 1) * k = n * k + k
      OBVIOUS
    <3> QED BY <3>1, <3>2
  <2>5. Lines(q) * (1 + faults + crashes) \in Nat /\ (Lines(q) + 1) * (1 + faults + crashes) \in Nat
    BY <1>7, <1>9, BoundGrows
  <2>6. snapshots[q] + Cardinality(Owed(q)') <= (Lines(q) + 1) * (1 + faults + crashes)
    BY <1>7, <1>9, <1>10, <2>3, <2>4, <2>5
  <2> QED BY <1>1, <2>1, <2>6 DEF Counted
<1>12. CASE l # q
  <2>1. Positions(q)' = Positions(q) /\ Lines(q)' = Lines(q) /\ Owed(q)' \in SUBSET Owed(q)
    BY <1>3, <1>6, <1>7, <1>8, <1>12
  <2>2. Cardinality(Owed(q)') \in Nat /\ Cardinality(Owed(q)') <= Cardinality(Owed(q))
    BY <1>7, <2>1, FS_Subset, FS_CardinalityType
  <2>3. Lines(q) * (1 + faults + crashes) \in Nat
    BY <1>7, <1>9, BoundGrows
  <2>4. snapshots[q] + Cardinality(Owed(q)') <= Lines(q) * (1 + faults + crashes)
    BY <1>7, <1>9, <1>10, <2>2, <2>3
  <2> QED BY <1>1, <1>7, <2>1, <2>4 DEF Counted
<1> QED BY <1>11, <1>12

(* A snapshot that is stored is owed no more.                              *)
LEMMA InsertCounted ==
  ASSUME IInv, IInv', OffsetsKept, SnapshotsCounted, NEW p \in snaps, InsertQuotaSnapshot(p),
         log[p[1]][p[2]] \in QuotaKeys, p[2] \in 1..Len(log[p[1]]), NEW q \in QuotaKeys
  PROVE  Counted(q)'
<1>1. /\ pc = "snapshots" /\ snaps' = snaps \ {p}
      /\ snapshots' = [snapshots EXCEPT ![log[p[1]][p[2]]] = @ + 1]
      /\ UNCHANGED <<log, cursor, pc, next, faults, crashes>>
  BY DEF InsertQuotaSnapshot
<1>2. InPass /\ InPass' /\ Begin' = Begin /\ Begin = next
  BY <1>1 DEF InPass, Begin
<1>3. Positions(q)' = Positions(q) /\ Lines(q)' = Lines(q)
  BY <1>1 DEF Positions, Lines
<1>4. Owed(q)' \in SUBSET Owed(q)
  BY <1>1, <1>2, <1>3 DEF Owed
<1>5. /\ IsFiniteSet(Positions(q)) /\ Lines(q) \in Nat
      /\ IsFiniteSet(Owed(q)) /\ Cardinality(Owed(q)) \in Nat
  BY OwedCounts
<1>6. /\ snapshots \in [QuotaKeys -> Nat] /\ log \in [Files -> Seq(Line)]
      /\ faults \in Nat /\ crashes \in Nat /\ p \in Files \X Nat
      /\ next \in [Files -> Nat]
  BY DEF IInv, TypeOK, StoreTypeOK, PassTypeOK
<1>7. snapshots[q] + Cardinality(Owed(q)) <= Lines(q) * (1 + faults + crashes)
  BY DEF SnapshotsCounted
<1>8. Lines(q) * (1 + faults + crashes) \in Nat
  BY <1>5, <1>6, BoundGrows
<1>9. CASE log[p[1]][p[2]] = q
  <2>1. p \in Owed(q)
    <3>1. p = <<p[1], p[2]>> /\ p[1] \in Files /\ p[2] \in DOMAIN log[p[1]]
      BY <1>6
    <3>2. p \in Positions(q)
      BY <1>9, <3>1 DEF Positions
    <3> QED BY <1>2, <3>2 DEF Owed
  <2>2. p \notin Owed(q)'
    <3>1. ~ (p[2] > next[p[1]])
      BY <1>2, <1>6 DEF OffsetsKept
    <3> QED BY <1>1, <1>2, <3>1 DEF Owed
  <2>3. Owed(q)' \in SUBSET (Owed(q) \ {p})
    BY <1>4, <2>2
  <2>4. /\ IsFiniteSet(Owed(q) \ {p})
        /\ Cardinality(Owed(q) \ {p}) = Cardinality(Owed(q)) - 1
    BY <1>5, <2>1, FS_RemoveElement
  <2>5. /\ IsFiniteSet(Owed(q)') /\ Cardinality(Owed(q)') \in Nat
        /\ Cardinality(Owed(q)') <= Cardinality(Owed(q)) - 1
    BY <2>3, <2>4, FS_Subset, FS_CardinalityType
  <2>6. snapshots'[q] = snapshots[q] + 1 /\ snapshots[q] \in Nat
    BY <1>1, <1>6, <1>9
  <2>7. snapshots'[q] + Cardinality(Owed(q)') <= Lines(q) * (1 + faults + crashes)
    BY <1>5, <1>7, <1>8, <2>5, <2>6
  <2> QED BY <1>1, <1>3, <1>5, <2>7 DEF Counted
<1>10. CASE log[p[1]][p[2]] # q
  <2>1. snapshots'[q] = snapshots[q] /\ snapshots[q] \in Nat
    BY <1>1, <1>6, <1>10
  <2>2. Cardinality(Owed(q)') \in Nat /\ Cardinality(Owed(q)') <= Cardinality(Owed(q))
    BY <1>4, <1>5, FS_Subset, FS_CardinalityType
  <2>3. snapshots'[q] + Cardinality(Owed(q)') <= Lines(q) * (1 + faults + crashes)
    BY <1>5, <1>7, <1>8, <2>1, <2>2
  <2> QED BY <1>1, <1>3, <1>5, <2>3 DEF Counted
<1> QED BY <1>9, <1>10

\* Snapshots in hand are lines of the files.
SnapsAreLines ==
  InPass => \A p \in snaps : p[2] \in 1..Len(log[p[1]]) /\ log[p[1]][p[2]] \in QuotaKeys

LEMMA SnapsAreLinesStep ==
  ASSUME IInv, SnapsAreLines, [Next]_vars
  PROVE  SnapsAreLines'
<1>1. TypeOK /\ TypeOK'
  BY TypeStep DEF IInv
<1>2. ASSUME NEW f \in Files, ReadFile(f) PROVE SnapsAreLines'
  <2>1. /\ log' = log /\ pc = "read" /\ InPass
        /\ snaps' = snaps \cup {<<f, i>> : i \in {j \in NewLines(f) : log[f][j] \in QuotaKeys}}
    BY <1>2 DEF ReadFile, InPass
  <2>2. ASSUME NEW i \in NewLines(f) PROVE i \in 1..Len(log[f])
    BY <1>1, <2>2 DEF NewLines, TypeOK, StoreTypeOK, PassTypeOK
  <2> QED BY <2>1, <2>2 DEF SnapsAreLines
<1>3. CASE InPass /\ snaps' \subseteq snaps
  <2>1. ASSUME NEW p \in snaps
        PROVE  p[2] \in 1..Len(log'[p[1]]) /\ log'[p[1]][p[2]] \in QuotaKeys
    <3>1. p[1] \in Files /\ p[2] \in 1..Len(log[p[1]]) /\ log[p[1]][p[2]] \in QuotaKeys
      BY <1>1, <1>3 DEF SnapsAreLines, TypeOK, PassTypeOK
    <3>2. Len(log'[p[1]]) >= Len(log[p[1]]) /\ log'[p[1]][p[2]] = log[p[1]][p[2]]
      BY <1>1, <3>1, LogGrows
    <3>3. Len(log'[p[1]]) \in Nat /\ Len(log[p[1]]) \in Nat
      BY <1>1, <3>1 DEF TypeOK, StoreTypeOK
    <3> QED BY <3>1, <3>2, <3>3
  <2> QED BY <1>3, <2>1 DEF SnapsAreLines
<1>4. CASE snaps' = {} \/ ~InPass'
  BY <1>4 DEF SnapsAreLines
<1>5. CASE PassOk \/ PassFails \/ InsertSessions
  BY <1>1, <1>5, NextCollectorFacts DEF PassOk, PassFails, InsertSessions, InPass, SnapsAreLines
<1>6. QED
  BY <1>2, <1>3, <1>4, <1>5
  DEF Next, Daemon, Store, vars, volatile, stored, output, InPass, AppendLine, Tick, LoadCursor,
      EndCollect, InsertUsageBatch, InsertQuotaSnapshot, SnapshotsDone, InsertQuotaHit, HitsDone,
      SetCursor, DeleteSessions, SkipFile, Crash, Restart

(* What begins where, or is in hand, is owed no more than it was.          *)
LEMMA OwedShrinks ==
  ASSUME TypeOK, UNCHANGED log, NEW q \in QuotaKeys,
         \A p \in Positions(q) :
           p[2] > Begin'[p[1]] \/ (InPass' /\ p \in snaps') =>
             p[2] > Begin[p[1]] \/ (InPass /\ p \in snaps)
  PROVE  Owed(q)' \subseteq Owed(q)
<1>1. Positions(q)' = Positions(q)
  BY DEF Positions
<1> QED BY <1>1 DEF Owed

LEMMA ReadOwes ==
  ASSUME IInv, OffsetsKept, NEW f \in Files, ReadFile(f), NEW q \in QuotaKeys
  PROVE  Owed(q)' \subseteq Owed(q)
<1>1. TypeOK
  BY DEF IInv
<1>2. /\ pc = "read" /\ pc' = pc /\ log' = log /\ f \in todo
      /\ next' = [next EXCEPT ![f] = Len(log[f])]
      /\ snaps' = snaps \cup {<<f, i>> : i \in {j \in NewLines(f) : log[f][j] \in QuotaKeys}}
  BY DEF ReadFile, NewOffset
<1>3. InPass /\ InPass' /\ Begin = next /\ Begin' = next'
  BY <1>2 DEF InPass, Begin
<1>4. next[f] = loaded[f] /\ loaded[f] \in Nat /\ next \in [Files -> Nat] /\ Len(log[f]) \in Nat
  BY <1>1, <1>2, <1>3 DEF OffsetsKept, TypeOK, StoreTypeOK, PassTypeOK
<1>5. ASSUME NEW p \in Positions(q), p[2] > next'[p[1]] \/ p \in snaps'
      PROVE  p[2] > next[p[1]] \/ p \in snaps
  <2>1. p[1] \in Files /\ p[2] \in DOMAIN log[p[1]]
    BY DEF Positions
  <2>2. CASE p[2] > next'[p[1]]
    <3>1. CASE p[1] = f
      <4>1. next'[p[1]] = Len(log[f]) /\ p[2] \in 1..Len(log[f])
        BY <1>1, <1>2, <1>4, <2>1, <3>1 DEF TypeOK, StoreTypeOK
      <4> QED BY <1>4, <2>2, <4>1
    <3>2. CASE p[1] # f
      BY <1>2, <1>4, <2>1, <2>2, <3>2
    <3> QED BY <3>1, <3>2
  <2>3. ASSUME NEW i \in NewLines(f), p = <<f, i>> PROVE p[2] > next[p[1]]
    BY <1>4, <2>3 DEF NewLines
  <2> QED BY <1>2, <1>5, <2>2, <2>3
<1>6. \A p \in Positions(q) : p[2] > Begin'[p[1]] \/ (InPass' /\ p \in snaps') =>
                                p[2] > Begin[p[1]] \/ (InPass /\ p \in snaps)
  BY <1>3, <1>5
<1> QED BY <1>1, <1>2, <1>6, OwedShrinks

(* Where a pass ends well, what it has persisted is what it has read.      *)
LEMMA PassOkOwes ==
  ASSUME IInv, OffsetsKept, PassOk, NEW q \in QuotaKeys
  PROVE  Owed(q)' \subseteq Owed(q)
<1>1. TypeOK /\ PhaseOrder
  BY DEF IInv
<1>2. pc = "cursors" /\ unsaved = {} /\ UNCHANGED <<log, cursor, next, snaps>>
  BY DEF PassOk, stored, output
<1>3. InPass /\ Begin = next /\ \A f \in Files : next[f] = cursor[f]
  BY <1>2 DEF InPass, Begin, OffsetsKept
<1>4. ~InPass' /\ Begin' = cursor
  BY <1>1, <1>2, NextCollectorFacts DEF PassOk, InPass, Begin
<1>5. \A p \in Positions(q) : p[1] \in Files
  BY DEF Positions
<1>6. \A p \in Positions(q) : p[2] > Begin'[p[1]] \/ (InPass' /\ p \in snaps') =>
                                p[2] > Begin[p[1]] \/ (InPass /\ p \in snaps)
  BY <1>3, <1>4, <1>5
<1> QED BY <1>1, <1>2, <1>6, OwedShrinks

LEMMA CountedStep ==
  ASSUME IInv, IInv', OffsetsKept, SnapsAreLines, SnapshotsCounted, [Next]_vars
  PROVE  SnapshotsCounted'
<1> SUFFICES ASSUME NEW q \in QuotaKeys PROVE Counted(q)'
  BY DEF SnapshotsCounted, Counted
<1>1. TypeOK /\ TypeOK' /\ faults \in Nat /\ crashes \in Nat
  BY DEF IInv, TypeOK
<1>2. ASSUME NEW f \in Files, NEW l \in Line, AppendLine(f, l) PROVE Counted(q)'
  BY <1>2, AppendCounted
<1>3. ASSUME NEW p \in snaps, InsertQuotaSnapshot(p) PROVE Counted(q)'
  <2>1. log[p[1]][p[2]] \in QuotaKeys /\ p[2] \in 1..Len(log[p[1]])
    BY <1>3 DEF InsertQuotaSnapshot, InPass, SnapsAreLines
  <2> QED BY <1>3, <2>1, InsertCounted
<1>4. CASE PassFails \/ Crash
  <2>1. /\ UNCHANGED <<log, snapshots>> /\ faults' + crashes' = faults + crashes + 1
        /\ faults' \in Nat /\ crashes' \in Nat
    BY <1>1, <1>4 DEF PassFails, Crash, stored
  <2> QED BY <1>1, <2>1, OwesAllAgain
<1>5. ASSUME NEW f \in Files, ReadFile(f) PROVE Counted(q)'
  <2>1. UNCHANGED <<log, snapshots, faults, crashes>>
    BY <1>5 DEF ReadFile, stored
  <2> QED BY <1>1, <1>5, <2>1, ReadOwes, OwesNoMore
<1>6. CASE PassOk
  <2>1. UNCHANGED <<log, snapshots, faults, crashes>>
    BY <1>6 DEF PassOk, stored
  <2> QED BY <1>1, <1>6, <2>1, PassOkOwes, OwesNoMore
<1>7. CASE \/ LoadCursor
           \/ /\ UNCHANGED <<cursor, next, snaps>> /\ (InPass' <=> InPass)
              /\ UNCHANGED <<log, snapshots, crashes>> /\ faults' \in {faults, faults + 1}
           \/ \E f \in Files : SetCursor(f)
  <2>1. /\ UNCHANGED <<log, snapshots, crashes>> /\ faults' >= faults /\ crashes' >= crashes
        /\ Begin' = Begin /\ (InPass' => snaps' = {} \/ (InPass /\ snaps' = snaps))
    <3>1. CASE LoadCursor
      BY <1>1, <3>1 DEF LoadCursor, stored, InPass, Begin
    <3>2. ASSUME NEW f \in Files, SetCursor(f)
          PROVE  /\ UNCHANGED <<log, snapshots, crashes, faults, snaps>>
                 /\ Begin' = Begin /\ InPass /\ InPass'
      BY <3>2 DEF SetCursor, InPass, Begin
    <3>3. CASE /\ UNCHANGED <<cursor, next, snaps>> /\ (InPass' <=> InPass)
               /\ UNCHANGED <<log, snapshots, crashes>> /\ faults' \in {faults, faults + 1}
      BY <1>1, <3>3 DEF Begin
    <3> QED BY <1>1, <1>7, <3>1, <3>2, <3>3
  <2>2. Owed(q)' \subseteq Owed(q)
    BY <1>1, <2>1, OwedShrinks
  <2> QED BY <1>1, <2>1, <2>2, OwesNoMore
<1>8. CASE InsertSessions
  BY <1>1, <1>7, <1>8, NextCollectorFacts DEF InsertSessions, InPass, output
<1>9. QED
  BY <1>2, <1>3, <1>4, <1>5, <1>6, <1>7, <1>8
  DEF Next, Daemon, Store, vars, volatile, stored, output, InPass, Tick, EndCollect,
      InsertUsageBatch, SnapshotsDone, InsertQuotaHit, HitsDone, DeleteSessions, SkipFile, Restart

(* A quota observation is stored once for each line that carries it, and   *)
(* once more for each pass that failed or died: insert_quota_snapshot does *)
(* not look for duplicates, so only the order of run_once prevents them.   *)
THEOREM SnapshotsBounded == Spec => []SnapshotsRepeatOnlyOnRetry
<1> DEFINE CInv == OffsetsKept /\ SnapsAreLines /\ SnapshotsCounted
<1>1. Init => IInv /\ CInv
  <2> SUFFICES ASSUME Init PROVE OffsetsKept /\ SnapsAreLines /\ SnapshotsCounted
    BY InitIInv
  <2>1. ~InPass
    BY DEF Init, InPass
  <2>2. ASSUME NEW q \in QuotaKeys PROVE Positions(q) = {} /\ Owed(q) = {} /\ snapshots[q] = 0
    BY DEF Init, Positions, Owed
  <2>3. SnapshotsCounted
    <3>1. ASSUME NEW q \in QuotaKeys
          PROVE  /\ IsFiniteSet(Positions(q))
                 /\ snapshots[q] + Cardinality(Owed(q)) <= Lines(q) * (1 + faults + crashes)
      <4>1. Lines(q) = Cardinality(Positions(q))
        BY DEF Lines, Positions
      <4>2. /\ IsFiniteSet(Positions(q)) /\ Lines(q) = 0 /\ Cardinality(Owed(q)) = 0
            /\ faults = 0 /\ crashes = 0
        BY <2>2, <4>1, FS_EmptySet DEF Init
      <4> QED BY <2>2, <4>2
    <3> QED BY <3>1 DEF SnapshotsCounted
  <2> QED BY <2>1, <2>3 DEF OffsetsKept, SnapsAreLines
<1>2. IInv /\ CInv /\ [Next]_vars => (IInv /\ CInv)'
  BY IInvStep, OffsetsKeptStep, SnapsAreLinesStep, CountedStep
<1>3. IInv /\ CInv => SnapshotsRepeatOnlyOnRetry
  <2> SUFFICES ASSUME IInv, SnapshotsCounted, NEW q \in QuotaKeys
               PROVE  snapshots[q] <= Lines(q) * (1 + faults + crashes)
    BY DEF SnapshotsRepeatOnlyOnRetry
  <2>1. snapshots[q] \in Nat /\ faults \in Nat /\ crashes \in Nat
    BY DEF IInv, TypeOK, StoreTypeOK
  <2>2. Lines(q) \in Nat /\ Cardinality(Owed(q)) \in Nat
    BY OwedCounts
  <2>3. Lines(q) * (1 + faults + crashes) \in Nat
    BY <2>1, <2>2, BoundGrows
  <2> QED BY <2>1, <2>2, <2>3 DEF SnapshotsCounted
<1>4. QED
  BY <1>1, <1>2, <1>3, PTL DEF Spec

-----------------------------------------------------------------------------
(* Who is owed a rebuild of the sessions.                                  *)

\* A file whose offset this pass has not moved yet has the offset the pass began with.
OffsetsAsLoaded ==
  /\ pc \in {"read", "usage", "snapshots", "hits"} => cursor = loaded
  /\ pc = "cursors" => \A f \in unsaved : cursor[f] = loaded[f]

\* The records in hand are those of the lines between the two offsets.
RecsOfNewLines ==
  /\ InPass => \A f \in Files : \A i \in (loaded[f] + 1)..next[f] :
                 log[f][i] \in UsageKeys => log[f][i] \in recs
  /\ pc \in {"read", "usage"} =>
       \A k \in recs : \E f \in Files : \E i \in (loaded[f] + 1)..next[f] : log[f][i] = k

\* A record that is stored and not summarised is read again, or this pass owes it a rebuild,
\* or nobody does.
Accounted ==
  \A k \in UsageKeys : usage[k] > 0 =>
    k \in sessions \/ Unread(k) \/ k \in orphans \/ k \in Unsummarised

LEMMA OffsetsAsLoadedStep ==
  ASSUME IInv, OffsetsAsLoaded, [Next]_vars
  PROVE  OffsetsAsLoaded'
<1> USE DEF OffsetsAsLoaded
<1>1. TypeOK
  BY DEF IInv
<1>2. CASE LoadCursor
  BY <1>2 DEF LoadCursor, stored
<1>3. ASSUME NEW f \in Files, ReadFile(f) PROVE OffsetsAsLoaded'
  BY <1>3 DEF ReadFile, stored
<1>4. ASSUME NEW f \in Files, SetCursor(f) PROVE OffsetsAsLoaded'
  BY <1>1, <1>4 DEF SetCursor, TypeOK, StoreTypeOK, PassTypeOK
<1>5. CASE PassOk \/ PassFails \/ InsertSessions
  BY <1>1, <1>5, NextCollectorFacts DEF PassOk, PassFails, InsertSessions
<1>6. CASE Tick \/ Crash \/ Restart \/ DeleteSessions
  BY <1>6 DEF Tick, Crash, Restart, DeleteSessions
<1>7. CASE EndCollect \/ InsertUsageBatch \/ SnapshotsDone \/ HitsDone
  BY <1>7 DEF EndCollect, InsertUsageBatch, SnapshotsDone, HitsDone, stored, output
<1>8. CASE UNCHANGED <<pc, cursor, loaded, unsaved>>
  BY <1>8
<1>9. ASSUME NEW f \in Files, SkipFile(f) PROVE OffsetsAsLoaded'
  BY <1>9 DEF SkipFile, stored
<1>10. QED
  BY <1>2, <1>3, <1>4, <1>5, <1>6, <1>7, <1>8, <1>9
  DEF Next, Daemon, Store, vars, volatile, stored, output, AppendLine,
      InsertQuotaSnapshot, InsertQuotaHit

LEMMA RecsOfNewLinesStep ==
  ASSUME IInv, RecsOfNewLines, [Next]_vars
  PROVE  RecsOfNewLines'
<1> USE DEF RecsOfNewLines, InPass
<1>1. TypeOK /\ OffsetsInFiles
  BY DEF IInv
<1>2. \A f \in Files : /\ Len(log[f]) \in Nat /\ loaded[f] \in Nat /\ next[f] \in Nat
                       /\ loaded[f] <= Len(log[f]) /\ next[f] <= Len(log[f])
  BY <1>1 DEF TypeOK, StoreTypeOK, PassTypeOK, OffsetsInFiles
<1>3. ASSUME NEW f \in Files, NEW l \in Line, AppendLine(f, l) PROVE RecsOfNewLines'
  <2>1. UNCHANGED <<pc, recs, loaded, next>>
    BY <1>3 DEF AppendLine, volatile, output
  <2>2. \A g \in Files : \A i \in (loaded[g] + 1)..next[g] : log'[g][i] = log[g][i]
    BY <1>1, <1>2, <1>3, AppendKeeps
  <2>3. QED
    BY <2>1, <2>2
<1>4. CASE LoadCursor
  BY <1>4, <1>1 DEF LoadCursor, TypeOK, StoreTypeOK
<1>5. ASSUME NEW f \in Files, ReadFile(f) PROVE RecsOfNewLines'
  <2>1. /\ pc = "read" /\ pc' = pc /\ log' = log /\ loaded' = loaded
        /\ recs' = recs \cup ({log[f][i] : i \in NewLines(f)} \cap UsageKeys)
        /\ next' = [next EXCEPT ![f] = Len(log[f])]
    BY <1>5 DEF ReadFile, NewOffset
  <2>2. next'[f] = Len(log[f]) /\ \A g \in Files \ {f} : next'[g] = next[g]
    BY <1>1, <2>1 DEF TypeOK, PassTypeOK
  <2>3. ASSUME NEW g \in Files, NEW i \in (loaded[g] + 1)..next'[g], log[g][i] \in UsageKeys
        PROVE  log[g][i] \in recs'
    <3>1. CASE g = f
      BY <2>1, <2>2, <2>3, <3>1 DEF NewLines
    <3>2. CASE g # f
      BY <2>1, <2>2, <2>3, <3>2
    <3>3. QED
      BY <3>1, <3>2
  <2>4. ASSUME NEW k \in recs'
        PROVE  \E g \in Files : \E i \in (loaded[g] + 1)..next'[g] : log[g][i] = k
    <3>1. CASE k \in recs
      <4>1. PICK g \in Files : \E i \in (loaded[g] + 1)..next[g] : log[g][i] = k
        BY <2>1, <3>1
      <4>2. PICK i \in (loaded[g] + 1)..next[g] : log[g][i] = k
        BY <4>1
      <4>3. i \in (loaded[g] + 1)..next'[g]
        BY <1>2, <2>2, <4>2
      <4>4. QED
        BY <4>2, <4>3
    <3>2. CASE k \notin recs
      <4>1. PICK i \in NewLines(f) : k = log[f][i]
        BY <2>1, <2>4, <3>2
      <4>2. i \in (loaded[f] + 1)..next'[f]
        BY <2>2, <4>1 DEF NewLines
      <4>3. QED
        BY <4>1, <4>2
    <3>3. QED
      BY <3>1, <3>2
  <2>5. QED
    BY <2>1, <2>3, <2>4
<1>6. CASE PassOk \/ PassFails \/ InsertSessions
  BY <1>1, <1>6, NextCollectorFacts DEF PassOk, PassFails, InsertSessions
<1>7. CASE Tick \/ Crash \/ Restart \/ DeleteSessions
  BY <1>7 DEF Tick, Crash, Restart, DeleteSessions
<1>8. CASE UNCHANGED <<log, loaded, next, recs>> /\ (pc' = pc \/ (InPass /\ pc' \notin {"read", "usage"}))
  BY <1>8
<1>9. CASE EndCollect
  BY <1>9 DEF EndCollect, output
<1>10. QED
  BY <1>3, <1>4, <1>5, <1>6, <1>7, <1>8, <1>9
  DEF Next, Daemon, Store, vars, volatile, stored, output, InsertUsageBatch, SnapshotsDone,
      HitsDone, InsertQuotaSnapshot, InsertQuotaHit, SetCursor, SkipFile

\* What a pass owes it owes until it ends.
LEMMA OwedKept ==
  ASSUME TypeOK, OffsetsInFiles, [Next]_vars, NEW k \in Unsummarised, pc' = pc,
         UNCHANGED <<loaded, next, recs>>, unsaved' \subseteq unsaved,
         \A j \in UsageKeys : usage'[j] >= usage[j]
  PROVE  k \in Unsummarised'
<1> USE DEF Unsummarised
<1>1. CASE pc = "insert"
  <2>1. k \in UsageKeys /\ usage[k] > 0
    BY <1>1
  <2>2. usage[k] \in Nat /\ usage'[k] \in Nat
    BY <2>1, StoreTypeStep DEF TypeOK, StoreTypeOK
  <2>3. usage'[k] > 0
    BY <2>1, <2>2
  <2>4. QED
    BY <1>1, <2>1, <2>3
<1>2. CASE pc # "insert"
  <2>1. PICK f \in Passed : \E i \in (loaded[f] + 1)..next[f] : log[f][i] = k
    BY <1>2
  <2>2. PICK i \in (loaded[f] + 1)..next[f] : log[f][i] = k
    BY <2>1
  <2>3. f \in Files /\ f \in Passed'
    BY <2>1 DEF Passed
  <2>4. i \in 1..Len(log[f])
    BY <2>3 DEF TypeOK, StoreTypeOK, PassTypeOK, OffsetsInFiles
  <2>5. log'[f][i] = k
    BY <2>2, <2>3, <2>4, LogGrows
  <2>6. k \in recs' /\ pc' # "insert"
    BY <1>2
  <2>7. QED
    BY <2>2, <2>3, <2>5, <2>6
<1>3. QED
  BY <1>1, <1>2

\* A line that is unread stays so until its file's offset moves.
LEMMA UnreadKept ==
  ASSUME TypeOK, TypeOK', [Next]_vars, NEW k, NEW f \in Files,
         NEW i \in (cursor[f] + 1)..Len(log[f]), log[f][i] = k, cursor'[f] = cursor[f]
  PROVE  Unread(k)'
<1>1. i \in 1..Len(log[f]) /\ Len(log[f]) \in Nat /\ Len(log'[f]) \in Nat
  BY DEF TypeOK, StoreTypeOK
<1>2. Len(log'[f]) >= Len(log[f]) /\ log'[f][i] = k
  BY <1>1, LogGrows
<1>3. i \in (cursor'[f] + 1)..Len(log'[f])
  BY <1>1, <1>2 DEF TypeOK, StoreTypeOK
<1>4. QED
  BY <1>2, <1>3 DEF Unread

\* The records a pass stores are those of lines it has not put behind an offset yet.
LEMMA StoredUnread ==
  ASSUME IInv, OffsetsAsLoaded, RecsOfNewLines, InsertUsageBatch, NEW k \in recs
  PROVE  Unread(k)'
<1>1. pc = "usage" /\ UNCHANGED <<log, cursor>>
  BY DEF InsertUsageBatch
<1>2. PICK f \in Files : \E i \in (loaded[f] + 1)..next[f] : log[f][i] = k
  BY <1>1 DEF RecsOfNewLines
<1>3. PICK i \in (loaded[f] + 1)..next[f] : log[f][i] = k
  BY <1>2
<1>4. /\ cursor = loaded /\ next[f] <= Len(log[f]) /\ next[f] \in Nat
      /\ loaded[f] \in Nat /\ Len(log[f]) \in Nat
  BY <1>1 DEF OffsetsAsLoaded, IInv, OffsetsInFiles, TypeOK, StoreTypeOK, PassTypeOK
<1>5. i \in (cursor[f] + 1)..Len(log[f])
  BY <1>3, <1>4
<1>6. QED
  BY <1>1, <1>3, <1>5 DEF Unread

\* An offset that moves past a line makes the pass owe its record.
LEMMA CursorOwes ==
  ASSUME IInv, OffsetsAsLoaded, RecsOfNewLines, [Next]_vars, NEW f \in Files, SetCursor(f),
         NEW k \in UsageKeys, Unread(k)
  PROVE  Unread(k)' \/ k \in Unsummarised'
<1>1. TypeOK /\ TypeOK' /\ OffsetsInFiles
  BY TypeStep DEF IInv
<1>2. /\ pc = "cursors" /\ f \in unsaved /\ cursor' = [cursor EXCEPT ![f] = next[f]]
      /\ unsaved' = unsaved \ {f} /\ UNCHANGED <<log, pc, loaded, next, recs>>
  BY DEF SetCursor
<1>3. PICK g \in Files : \E i \in (cursor[g] + 1)..Len(log[g]) : log[g][i] = k
  BY DEF Unread
<1>4. PICK i \in (cursor[g] + 1)..Len(log[g]) : log[g][i] = k
  BY <1>3
<1>5. CASE g # f
  <2>1. cursor'[g] = cursor[g]
    BY <1>1, <1>2, <1>5 DEF TypeOK, StoreTypeOK
  <2>2. QED
    BY <1>1, <1>4, <2>1, UnreadKept
<1>6. CASE g = f
  <2>1. /\ cursor[f] = loaded[f] /\ cursor'[f] = next[f] /\ next[f] \in Nat
        /\ loaded[f] \in Nat /\ Len(log[f]) \in Nat
    BY <1>1, <1>2 DEF OffsetsAsLoaded, TypeOK, StoreTypeOK, PassTypeOK
  <2>2. CASE i > next[f]
    <3>1. i \in (cursor'[f] + 1)..Len(log'[f]) /\ log'[f][i] = k
      BY <1>2, <1>4, <1>6, <2>1, <2>2
    <3>2. QED
      BY <3>1 DEF Unread
  <2>3. CASE ~ (i > next[f])
    <3>1. i \in (loaded[f] + 1)..next[f] /\ loaded[f] < next[f]
      BY <1>4, <1>6, <2>1, <2>3
    <3>2. k \in recs
      BY <1>2, <1>4, <1>6, <3>1 DEF RecsOfNewLines, InPass
    <3>3. f \in Passed'
      BY <1>2, <3>1 DEF Passed
    <3>4. QED
      BY <1>2, <1>4, <1>6, <3>1, <3>2, <3>3 DEF Unsummarised
  <2>4. QED
    BY <2>2, <2>3
<1>7. QED
  BY <1>5, <1>6

LEMMA AccountedStep ==
  ASSUME IInv, OffsetsAsLoaded, RecsOfNewLines, Accounted, [Next]_vars
  PROVE  Accounted'
<1>1. TypeOK /\ TypeOK' /\ OffsetsInFiles /\ PhaseOrder
  BY TypeStep DEF IInv
<1> SUFFICES ASSUME NEW k \in UsageKeys, usage'[k] > 0
             PROVE  k \in sessions' \/ Unread(k)' \/ k \in orphans' \/ k \in Unsummarised'
  BY DEF Accounted
<1>2. \A j \in UsageKeys : usage'[j] >= usage[j]
  BY <1>1, TablesGrow
<1>3. ASSUME cursor' = cursor, Unread(k) PROVE Unread(k)'
  <2>1. PICK f \in Files : \E i \in (cursor[f] + 1)..Len(log[f]) : log[f][i] = k
    BY <1>3 DEF Unread
  <2>2. PICK i \in (cursor[f] + 1)..Len(log[f]) : log[f][i] = k
    BY <2>1
  <2>3. QED
    BY <1>1, <1>3, <2>2, UnreadKept
<1>4. CASE InsertUsageBatch
  <2>1. CASE k \in recs
    BY <1>4, <2>1, StoredUnread
  <2>2. CASE k \notin recs
    <3>1. usage[k] > 0
      BY <1>1, <1>4, <2>2 DEF InsertUsageBatch, InsertIgnore, TypeOK, StoreTypeOK
    <3>2. k \notin Unsummarised
      BY <1>4 DEF InsertUsageBatch, Unsummarised, Passed
    <3>3. cursor' = cursor /\ sessions' = sessions /\ orphans' = orphans
      BY <1>4 DEF InsertUsageBatch
    <3>4. QED
      BY <1>3, <3>1, <3>2, <3>3 DEF Accounted
  <2>3. QED
    BY <2>1, <2>2
<1>5. CASE InsertSessions
  BY <1>5 DEF InsertSessions
<1>6. CASE DeleteSessions
  BY <1>6 DEF DeleteSessions, Unsummarised
<1>7. ASSUME ~InsertUsageBatch PROVE usage[k] > 0
  BY <1>7 DEF Next, Daemon, Store, vars, stored, AppendLine, Tick, LoadCursor, ReadFile,
       EndCollect, InsertQuotaSnapshot, SnapshotsDone, InsertQuotaHit, HitsDone, SetCursor,
       PassOk, DeleteSessions, InsertSessions, SkipFile, PassFails, Crash, Restart
<1>8. ASSUME NEW f \in Files, SetCursor(f)
      PROVE  k \in sessions' \/ Unread(k)' \/ k \in orphans' \/ k \in Unsummarised'
  <2>1. /\ UNCHANGED <<usage, sessions, orphans, pc, loaded, next, recs>>
        /\ unsaved' \subseteq unsaved
    BY <1>8 DEF SetCursor
  <2>2. k \in Unsummarised => k \in Unsummarised'
    BY <1>1, <1>2, <2>1, OwedKept
  <2>3. Unread(k) => Unread(k)' \/ k \in Unsummarised'
    BY <1>8, CursorOwes
  <2>4. QED
    BY <2>1, <2>2, <2>3 DEF Accounted
<1>9. CASE PassFails \/ Crash
  <2>1. UNCHANGED <<usage, sessions, cursor>> /\ orphans' = orphans \cup Unsummarised
    BY <1>9 DEF PassFails, Crash, stored
  <2>2. QED
    BY <1>3, <2>1 DEF Accounted
<1>10. CASE PassOk
  <2>1. UNCHANGED <<usage, sessions, cursor, orphans, loaded, next, recs, unsaved, log>> /\ pc = "cursors"
    BY <1>10 DEF PassOk, stored, output
  <2>2. k \in Unsummarised => pc' = "delete"
    BY <1>10, <2>1 DEF PassOk, Unsummarised
  <2>3. k \in Unsummarised => k \in Unsummarised'
    BY <2>1, <2>2 DEF Unsummarised, Passed
  <2>4. QED
    BY <1>3, <2>1, <2>3 DEF Accounted
<1>11. CASE /\ UNCHANGED <<usage, sessions, cursor, orphans>>
            /\ k \in Unsummarised => k \in Unsummarised'
  BY <1>3, <1>11 DEF Accounted
<1>12. ASSUME NEW f \in Files, NEW l \in Line, AppendLine(f, l)
       PROVE  k \in sessions' \/ Unread(k)' \/ k \in orphans' \/ k \in Unsummarised'
  <2>1. /\ UNCHANGED <<usage, sessions, cursor, orphans, pc, loaded, next, recs, unsaved>>
    BY <1>12 DEF AppendLine, stored, volatile, output
  <2>2. k \in Unsummarised => k \in Unsummarised'
    BY <1>1, <1>2, <2>1, OwedKept
  <2>3. QED
    BY <1>11, <2>1, <2>2
<1>13. CASE \/ Tick \/ LoadCursor \/ EndCollect \/ SnapshotsDone \/ HitsDone \/ Restart
            \/ (\E f \in Files : ReadFile(f) \/ SkipFile(f))
            \/ (\E p \in snaps : InsertQuotaSnapshot(p))
            \/ (\E h \in HitKeys : InsertQuotaHit(h))
  <2>1. pc \notin {"cursors", "delete", "insert"} /\ UNCHANGED <<usage, sessions, cursor, orphans>>
    BY <1>13 DEF Tick, LoadCursor, EndCollect, SnapshotsDone, HitsDone, Restart, ReadFile,
                 SkipFile, InsertQuotaSnapshot, InsertQuotaHit, stored
  <2>2. k \notin Unsummarised
    BY <2>1 DEF Unsummarised, Passed
  <2>3. QED
    BY <1>11, <2>1, <2>2
<1>14. CASE UNCHANGED vars
  <2>1. UNCHANGED <<usage, sessions, cursor, orphans, pc, loaded, next, recs, unsaved>>
    BY <1>14 DEF vars, stored, volatile, output
  <2>2. k \in Unsummarised => k \in Unsummarised'
    BY <1>1, <1>2, <2>1, OwedKept
  <2>3. QED
    BY <1>11, <2>1, <2>2
<1>15. QED
  BY <1>4, <1>5, <1>6, <1>8, <1>9, <1>10, <1>12, <1>13, <1>14 DEF Next, Daemon, Store

\* No stored record is forgotten by the sessions table but for the named orphans: while its
\* line is unread the next pass collects it again and rebuilds, and a pass that has put it
\* behind an offset rebuilds before it ends, fails or dies (run_once, run_loop).
THEOREM Summarised == Spec => []NoSummaryForgotten
<1> DEFINE SInv == IInv /\ OffsetsAsLoaded /\ RecsOfNewLines /\ Accounted
<1>1. Init => SInv
  <2>1. Init => OffsetsAsLoaded /\ RecsOfNewLines /\ Accounted
    BY DEF Init, OffsetsAsLoaded, RecsOfNewLines, InPass, Accounted
  <2>2. QED
    BY <2>1, InitIInv
<1>2. SInv /\ [Next]_vars => SInv'
  BY IInvStep, OffsetsAsLoadedStep, RecsOfNewLinesStep, AccountedStep
<1>3. SInv => NoSummaryForgotten
  BY DEF Accounted, NoSummaryForgotten, Unsummarised, Passed
<1>4. QED
  BY <1>1, <1>2, <1>3, PTL DEF Spec
=============================================================================
