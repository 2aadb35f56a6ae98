---------------------------- MODULE DaemonProofs ----------------------------
(***************************************************************************)
(* What the daemon keeps, for any number of processes, entries and reads:  *)
(* a process that serves is found at the socket path unless another one    *)
(* removed its socket (DaemonLifecycle), and what its readers see of the   *)
(* tables is neither older than what they saw nor more than was written    *)
(* (UsageViews).                                                           *)
(***************************************************************************)
EXTENDS UsageViews, DaemonState, FiniteSetTheorems, WellFoundedInduction, TLAPS

Life == INSTANCE DaemonLifecycle

-----------------------------------------------------------------------------
(* The process that serves *)

MainType == main \in [Daemons -> {"off", "unlink", "bind", "chmod", "serve", "join", "cleanup"}]

\* From its bind to the end of its serving a process has the path, or was evicted from it.
HasSocket == \A d \in Daemons : main[d] \in {"chmod", "serve"} => path = d \/ d \in evicted

\* The socket is removed, and the process ends, only when its collectors have stopped.
Joined == \A d \in Daemons : main[d] = "cleanup" => collector[d] = "off"

-----------------------------------------------------------------------------
LEMMA TypeStep == TypeOK /\ Joined /\ [Life!Next]_(Life!vars) => TypeOK' /\ Joined'
<1> SUFFICES ASSUME TypeOK, Joined, [Life!Next]_(Life!vars) PROVE TypeOK' /\ Joined'
  OBVIOUS
<1> USE PathAssumption, BoundAssumption DEF TypeOK, Joined, Life!Goto, Life!Fault, Life!Evicts
<1>1. ASSUME NEW d \in Daemons, Life!Start(d) PROVE TypeOK' /\ Joined'
  BY <1>1 DEF Life!Start
<1>2. ASSUME NEW d \in Daemons, Life!Main(d) PROVE TypeOK' /\ Joined'
  <2>1. CASE Life!Unlink(d) \/ Life!Bind(d)
    BY <2>1 DEF Life!Unlink, Life!Bind
  <2>2. CASE Life!BindFails(d) \/ Life!SetMode(d)
    BY <2>2 DEF Life!BindFails, Life!SetMode
  <2>3. CASE Life!StopServing(d) \/ Life!Join(d)
    BY <2>3 DEF Life!StopServing, Life!Join
  <2>4. CASE Life!Cleanup(d)
    BY <2>4 DEF Life!Cleanup
  <2>5. QED
    BY <1>2, <2>1, <2>2, <2>3, <2>4 DEF Life!Main
<1>3. ASSUME NEW d \in Daemons, Life!UnlinkFails(d) PROVE TypeOK' /\ Joined'
  BY <1>3 DEF Life!UnlinkFails
<1>4. ASSUME NEW d \in Daemons, Life!Collect(d) \/ Life!StopCollector(d) PROVE TypeOK' /\ Joined'
  BY <1>4 DEF Life!Collect, Life!Tick, Life!EndPass, Life!StopCollector
<1>5. ASSUME NEW d \in Daemons, Life!Signal(d) PROVE TypeOK' /\ Joined'
  BY <1>5 DEF Life!Signal
<1>6. ASSUME NEW d \in Daemons, Life!Kill(d) PROVE TypeOK' /\ Joined'
  BY <1>6 DEF Life!Kill
<1>7. CASE UNCHANGED Life!vars
  BY <1>7 DEF Life!vars
<1>8. QED
  BY <1>1, <1>2, <1>3, <1>4, <1>5, <1>6, <1>7 DEF Life!Next

(* main() keeps its control points, and a process that has ended has left  *)
(* no collector running: TypeOK needs Joined to be inductive, as Cleanup   *)
(* ends the process without looking at the task main() awaited before.     *)
THEOREM TypeCorrect == Life!Spec => []TypeOK
<1>1. Life!Init => TypeOK /\ Joined
  BY DEF Life!Init, TypeOK, Joined
<1>2. QED
  BY <1>1, TypeStep, PTL DEF Life!Spec

-----------------------------------------------------------------------------
LEMMA HasSocketStep ==
  ASSUME MainType, HasSocket, [Life!Next]_(Life!vars)
  PROVE  MainType' /\ HasSocket'
<1> USE PathAssumption DEF MainType, HasSocket, Life!Goto
<1>1. ASSUME NEW d \in Daemons, Life!Start(d) PROVE MainType' /\ HasSocket'
  BY <1>1 DEF Life!Start
<1>2. ASSUME NEW d \in Daemons, Life!Unlink(d) \/ Life!Cleanup(d) PROVE MainType' /\ HasSocket'
  <2>1. main' = [main EXCEPT ![d] = "bind"] \/ main' = [main EXCEPT ![d] = "off"]
    BY <1>2 DEF Life!Unlink, Life!Cleanup
  <2>2. MainType' /\ \A e \in Daemons : main'[e] \in {"chmod", "serve"} => e # d /\ main'[e] = main[e]
    BY <2>1
  <2>3. \A e \in Daemons \ {d} : e \in evicted \/ e \in Life!Evicts(d) => e \in evicted'
    BY <1>2 DEF Life!Unlink, Life!Cleanup
  <2>4. ASSUME NEW e \in Daemons, main'[e] \in {"chmod", "serve"} PROVE e \in evicted'
    BY <2>2, <2>3, <2>4 DEF Life!Evicts
  <2> QED BY <2>2, <2>4
<1>3. ASSUME NEW d \in Daemons, Life!Bind(d) PROVE MainType' /\ HasSocket'
  BY <1>3 DEF Life!Bind
<1>4. ASSUME NEW d \in Daemons, Life!BindFails(d) \/ Life!UnlinkFails(d) PROVE MainType' /\ HasSocket'
  BY <1>4 DEF Life!BindFails, Life!UnlinkFails
<1>5. ASSUME NEW d \in Daemons, Life!SetMode(d) \/ Life!StopServing(d) \/ Life!Join(d)
      PROVE  MainType' /\ HasSocket'
  BY <1>5 DEF Life!SetMode, Life!StopServing, Life!Join
<1>6. ASSUME NEW d \in Daemons, Life!Kill(d) PROVE MainType' /\ HasSocket'
  BY <1>6 DEF Life!Kill
<1>7. CASE UNCHANGED <<main, path, evicted>>
  BY <1>7
<1>8. QED
  BY <1>1, <1>2, <1>3, <1>4, <1>5, <1>6, <1>7
  DEF Life!Next, Life!Main, Life!Collect, Life!Tick, Life!EndPass, Life!StopCollector, Life!Signal, Life!vars

(* However many daemons are started, killed and end beside each other:     *)
(* whoever serves is at the socket path, unless the "Clean up stale socket *)
(* file" of a start or the "Clean up socket file" of an end took it away.  *)
THEOREM Reachable == Life!Spec => []ServingIsReachable
<1>1. Life!Init => MainType /\ HasSocket
  BY DEF Life!Init, MainType, HasSocket
<1>2. HasSocket => ServingIsReachable
  BY DEF HasSocket, ServingIsReachable
<1>3. QED
  BY <1>1, <1>2, HasSocketStep, PTL DEF Life!Spec

-----------------------------------------------------------------------------
(* Every set of numbers has a least one, a bounded one a largest *)

LEMMA LeastExists ==
  ASSUME NEW S, S \subseteq Nat, S # {}
  PROVE  \E x \in S : \A y \in S : x <= y
<1> DEFINE R == {p \in Nat \X Nat : p[1] < p[2]}
<1>1. IsWellFoundedOn(R, Nat)
  BY NatLessThanWellFounded DEF OpToRel
<1>2. PICK x \in S : \A y \in S : ~ (<<y, x>> \in R)
  <2> HIDE DEF R
  <2> QED BY <1>1, WFMin
<1>3. ASSUME NEW y \in S PROVE x <= y
  <2>1. x \in Nat /\ y \in Nat
    OBVIOUS
  <2>2. ~ (y < x)
    BY <1>2, <2>1
  <2> QED BY <2>1, <2>2
<1> QED BY <1>3

LEMMA LargestExists ==
  ASSUME NEW B \in Nat, NEW S, S \subseteq 0..B, S # {}
  PROVE  \E x \in S : \A y \in S : y <= x
<1> DEFINE T == {B - x : x \in S}
<1>1. T \subseteq Nat /\ T # {}
  <2>1. \A x \in S : B - x \in Nat
    OBVIOUS
  <2>2. PICK x \in S : TRUE
    OBVIOUS
  <2>3. B - x \in T
    OBVIOUS
  <2>4. T \subseteq Nat
    BY <2>1
  <2> QED BY <2>3, <2>4
<1>2. PICK d \in T : \A e \in T : d <= e
  <2> HIDE DEF T
  <2> QED BY <1>1, LeastExists
<1>3. PICK x \in S : d = B - x
  OBVIOUS
<1>4. ASSUME NEW y \in S PROVE y <= x
  <2>1. B - y \in T
    OBVIOUS
  <2> HIDE DEF T
  <2>2. d <= B - y
    BY <1>2, <2>1
  <2> QED BY <1>3, <2>2
<1> QED BY <1>4

-----------------------------------------------------------------------------
(* Sums *)

\* A smallest set of a kind: what an induction over finite sets begins from.
LEMMA SmallestSet ==
  ASSUME NEW S, IsFiniteSet(S), NEW bad \in SUBSET (SUBSET S), bad # {}
  PROVE  \E s \in bad : IsFiniteSet(s) /\ \A x \in s : s \ {x} \notin bad
<1> DEFINE sizes == {Cardinality(s) : s \in bad}
<1>1. \A s \in bad : IsFiniteSet(s) /\ Cardinality(s) \in Nat
  BY FS_Subset, FS_CardinalityType
<1>2. sizes \subseteq Nat /\ sizes # {}
  BY <1>1
<1>3. PICK m \in sizes : \A n \in sizes : m <= n
  <2> HIDE DEF sizes
  <2> QED BY <1>2, LeastExists
<1>4. PICK s \in bad : m = Cardinality(s)
  BY <1>3
<1>5. ASSUME NEW x \in s PROVE s \ {x} \notin bad
  <2>1. Cardinality(s \ {x}) = m - 1
    BY <1>1, <1>4, FS_RemoveElement
  <2>2. m \in Nat
    BY <1>2, <1>3
  <2> QED BY <1>3, <2>1, <2>2
<1> QED BY <1>1, <1>5

Pick(s) == CHOOSE x \in s : TRUE

\* A function of the subsets of S that adds up f, one element after the other.
Solves(g, f, S) ==
  \A s \in SUBSET S : g[s] = IF s = {} THEN 0 ELSE f[Pick(s)] + g[s \ {Pick(s)}]

\* The one that SumFunction is defined by.
Iter(f, S) ==
  CHOOSE g : g = [s \in SUBSET S |-> IF s = {} THEN 0 ELSE LET x == CHOOSE x \in s : TRUE
                                                           IN  f[x] + g[s \ {x}]]

LEMMA SumIsIter ==
  ASSUME NEW f
  PROVE  SumFunction(f) = Iter(f, DOMAIN f)[DOMAIN f]
BY DEF SumFunction, SumFunctionOnSet, FoldFunctionOnSet, MapThenFoldSet, Iter

LEMMA SolutionsAgree ==
  ASSUME NEW S, NEW T, NEW f, NEW h, NEW g, NEW e, Solves(g, f, S), Solves(e, h, T),
         NEW R \in SUBSET (S \cap T), IsFiniteSet(R), \A x \in R : f[x] = h[x]
  PROVE  g[R] = e[R]
<1> DEFINE bad == {s \in SUBSET R : g[s] # e[s]}
<1>1. SUFFICES ASSUME bad # {} PROVE FALSE
  OBVIOUS
<1>2. PICK s \in bad : \A x \in s : s \ {x} \notin bad
  <2>1. bad \in SUBSET (SUBSET R)
    OBVIOUS
  <2> HIDE DEF bad
  <2> QED BY <1>1, <2>1, SmallestSet
<1>3. s \in SUBSET S /\ s \in SUBSET T /\ s \subseteq R
  OBVIOUS
<1>4. s # {} /\ Pick(s) \in s
  <2>1. s # {}
    BY <1>3 DEF Solves
  <2> QED BY <2>1 DEF Pick
<1>5. g[s \ {Pick(s)}] = e[s \ {Pick(s)}]
  BY <1>2, <1>3, <1>4
<1>6. g[s] = f[Pick(s)] + g[s \ {Pick(s)}] /\ e[s] = h[Pick(s)] + e[s \ {Pick(s)}]
  BY <1>3, <1>4 DEF Solves
<1> QED BY <1>2, <1>3, <1>4, <1>5, <1>6

\* There is such a function: it is extended from sets of n elements to sets of n + 1.
LEMMA SolutionExists ==
  ASSUME NEW S, IsFiniteSet(S), NEW f \in [S -> Nat]
  PROVE  \E g \in [SUBSET S -> Nat] : Solves(g, f, S)
<1> DEFINE Upto(n) == {s \in SUBSET S : Cardinality(s) <= n}
           Value(g, s) == IF s = {} THEN 0 ELSE f[Pick(s)] + g[s \ {Pick(s)}]
           Found(n) == \E g \in [Upto(n) -> Nat] : \A s \in Upto(n) : g[s] = Value(g, s)
           bad == {n \in Nat : ~ Found(n)}
<1>1. \A s \in SUBSET S : IsFiniteSet(s) /\ Cardinality(s) \in Nat /\ Cardinality(s) <= Cardinality(S)
  BY FS_Subset, FS_CardinalityType
<1>2. ASSUME NEW s \in SUBSET S, s # {}
      PROVE  Pick(s) \in S /\ Cardinality(s \ {Pick(s)}) = Cardinality(s) - 1
  <2>1. Pick(s) \in s
    BY <1>2 DEF Pick
  <2> QED BY <1>1, <2>1, FS_RemoveElement
<1>3. Found(0)
  <2>1. \A s \in Upto(0) : s = {}
    BY <1>1, FS_EmptySet
  <2> DEFINE g == [s \in Upto(0) |-> 0]
  <2>2. g \in [Upto(0) -> Nat] /\ \A s \in Upto(0) : g[s] = Value(g, s)
    BY <2>1
  <2> QED BY <2>2
<1>4. ASSUME NEW n \in Nat, Found(n) PROVE Found(n + 1)
  <2>1. PICK g \in [Upto(n) -> Nat] : \A s \in Upto(n) : g[s] = Value(g, s)
    BY <1>4
  <2> DEFINE h == [s \in Upto(n + 1) |-> Value(g, s)]
  <2>2. ASSUME NEW s \in Upto(n + 1), s # {}
        PROVE  s \ {Pick(s)} \in Upto(n) /\ s \ {Pick(s)} \in Upto(n + 1) /\ f[Pick(s)] \in Nat
    BY <1>1, <1>2, <2>2
  <2>3. \A s \in Upto(n) : s \in Upto(n + 1) /\ h[s] = g[s]
    BY <1>1, <2>1
  <2>4. h \in [Upto(n + 1) -> Nat]
    <3> HIDE DEF Upto
    <3> QED BY <2>2
  <2>5. \A s \in Upto(n + 1) : h[s] = Value(h, s)
    <3> HIDE DEF Upto
    <3> QED BY <2>2, <2>3
  <2> HIDE DEF h, Upto, Value
  <2> QED BY <2>4, <2>5
<1>5. bad = {}
  <2> SUFFICES ASSUME bad # {} PROVE FALSE
    OBVIOUS
  <2>1. PICK n \in bad : \A m \in bad : n <= m
    <3>1. bad \subseteq Nat
      OBVIOUS
    <3> HIDE DEF bad
    <3> QED BY <3>1, LeastExists
  <2> HIDE DEF Found
  <2>2. n # 0 /\ n \in Nat
    BY <1>3
  <2>3. n - 1 \in Nat /\ n - 1 \notin bad
    BY <2>1, <2>2
  <2>4. Found(n - 1 + 1)
    BY <1>4, <2>3
  <2> QED BY <2>2, <2>4
<1>6. Found(Cardinality(S)) /\ Upto(Cardinality(S)) = SUBSET S
  <2>1. Cardinality(S) \in Nat
    BY <1>1
  <2>2. Upto(Cardinality(S)) = SUBSET S
    BY <1>1
  <2> HIDE DEF Found
  <2> QED BY <1>5, <2>1, <2>2
<1> QED BY <1>6 DEF Solves

LEMMA IterSolves ==
  ASSUME NEW S, IsFiniteSet(S), NEW f \in [S -> Nat]
  PROVE  Iter(f, S) \in [SUBSET S -> Nat] /\ Solves(Iter(f, S), f, S)
<1>1. PICK g \in [SUBSET S -> Nat] : Solves(g, f, S)
  BY SolutionExists
<1>2. g = [s \in SUBSET S |-> IF s = {} THEN 0 ELSE LET x == CHOOSE x \in s : TRUE
                                                  IN  f[x] + g[s \ {x}]]
  BY <1>1 DEF Solves, Pick
<1>3. Iter(f, S) = [s \in SUBSET S |-> IF s = {} THEN 0 ELSE LET x == CHOOSE x \in s : TRUE
                                                  IN  f[x] + Iter(f, S)[s \ {x}]]
  BY <1>2 DEF Iter
<1>4. Solves(Iter(f, S), f, S) /\ DOMAIN Iter(f, S) = SUBSET S
  BY <1>3 DEF Solves, Pick
<1>5. \A s \in SUBSET S : Iter(f, S)[s] = g[s]
  <2> SUFFICES ASSUME NEW s \in SUBSET S PROVE Iter(f, S)[s] = g[s]
    OBVIOUS
  <2>1. IsFiniteSet(s)
    BY FS_Subset
  <2>2. s \in SUBSET (S \cap S)
    OBVIOUS
  <2> QED BY <1>1, <1>4, <2>1, <2>2, SolutionsAgree
<1>6. Iter(f, S) = [s \in SUBSET S |-> Iter(f, S)[s]]
  BY <1>3
<1> QED BY <1>4, <1>5, <1>6

\* The sum over a part of a function is what its own SumFunction says.
Part(f, T) == [x \in T |-> f[x]]

LEMMA SumOfPart ==
  ASSUME NEW S, IsFiniteSet(S), NEW f \in [S -> Nat], NEW T \in SUBSET S
  PROVE  SumFunction(Part(f, T)) = Iter(f, S)[T] /\ SumFunction(Part(f, T)) \in Nat
<1>1. Part(f, T) \in [T -> Nat] /\ DOMAIN Part(f, T) = T /\ \A x \in T : Part(f, T)[x] = f[x]
  BY DEF Part
<1>2. IsFiniteSet(T)
  BY FS_Subset
<1>3. Solves(Iter(Part(f, T), T), Part(f, T), T) /\ Iter(Part(f, T), T) \in [SUBSET T -> Nat]
  BY <1>1, <1>2, IterSolves
<1>4. Solves(Iter(f, S), f, S)
  BY IterSolves
<1>5. Iter(Part(f, T), T)[T] = Iter(f, S)[T]
  <2>1. T \in SUBSET (T \cap S)
    OBVIOUS
  <2> QED BY <1>1, <1>2, <1>3, <1>4, <2>1, SolutionsAgree
<1> QED BY <1>1, <1>3, <1>5, SumIsIter

LEMMA SumOfAll ==
  ASSUME NEW S, IsFiniteSet(S), NEW f \in [S -> Nat]
  PROVE  SumFunction(f) = Iter(f, S)[S] /\ SumFunction(f) \in Nat
<1>1. Part(f, S) = f
  BY DEF Part
<1> QED BY <1>1, SumOfPart

\* The order of the elements does not matter.
LEMMA TakeOut ==
  ASSUME NEW S, IsFiniteSet(S), NEW f \in [S -> Nat], NEW t \in SUBSET S, NEW y \in t
  PROVE  Iter(f, S)[t] = f[y] + Iter(f, S)[t \ {y}]
<1> DEFINE g == Iter(f, S)
           bad == {s \in SUBSET S : \E z \in s : g[s] # f[z] + g[s \ {z}]}
<1>1. SUFFICES ASSUME bad # {} PROVE FALSE
  OBVIOUS
<1>2. PICK s \in bad : \A x \in s : s \ {x} \notin bad
  <2>1. bad \in SUBSET (SUBSET S)
    OBVIOUS
  <2> HIDE DEF bad
  <2> QED BY <1>1, <2>1, SmallestSet
<1>3. g \in [SUBSET S -> Nat] /\ Solves(g, f, S)
  BY IterSolves
<1> HIDE DEF g
<1>4. PICK z \in s : g[s] # f[z] + g[s \ {z}]
  BY <1>2
<1> DEFINE x == Pick(s)
<1>5. x \in s /\ g[s] = f[x] + g[s \ {x}]
  BY <1>3, <1>4 DEF Solves, Pick
<1> HIDE DEF x
<1>6. x # z
  BY <1>4, <1>5
<1>7. g[s \ {x}] = f[z] + g[(s \ {x}) \ {z}]
  BY <1>2, <1>4, <1>5, <1>6
<1>8. g[s \ {z}] = f[x] + g[(s \ {z}) \ {x}]
  BY <1>2, <1>4, <1>5, <1>6
<1>9. (s \ {x}) \ {z} = (s \ {z}) \ {x}
  OBVIOUS
<1>10. f[x] \in Nat /\ f[z] \in Nat /\ g[(s \ {x}) \ {z}] \in Nat
  BY <1>3, <1>4, <1>5
<1> DEFINE c == g[(s \ {x}) \ {z}]
<1>11. g[s \ {x}] = f[z] + c /\ g[s \ {z}] = f[x] + c /\ c \in Nat
  BY <1>7, <1>8, <1>9, <1>10
<1> HIDE DEF c
<1>12. g[s] = f[z] + g[s \ {z}]
  BY <1>5, <1>10, <1>11
<1> QED BY <1>4, <1>12

LEMMA PartIsLess ==
  ASSUME NEW S, IsFiniteSet(S), NEW f \in [S -> Nat], NEW T \in SUBSET S
  PROVE  SumFunction(Part(f, T)) <= SumFunction(f)
<1> DEFINE g == Iter(f, S)
           bad == {s \in SUBSET S : T \subseteq s /\ ~ (g[T] <= g[s])}
<1>1. g \in [SUBSET S -> Nat]
  BY IterSolves
<1>2. bad = {}
  <2> SUFFICES ASSUME bad # {} PROVE FALSE
    OBVIOUS
  <2>1. PICK s \in bad : \A x \in s : s \ {x} \notin bad
    <3>1. bad \in SUBSET (SUBSET S)
      OBVIOUS
    <3> HIDE DEF bad
    <3> QED BY <3>1, SmallestSet
  <2>2. s \in SUBSET S /\ T \subseteq s /\ ~ (g[T] <= g[s])
    OBVIOUS
  <2>3. T # s
    BY <1>1, <2>2
  <2>4. PICK x \in s : x \notin T
    BY <2>2, <2>3
  <2>5. g[s] = f[x] + g[s \ {x}]
    BY <2>2, TakeOut
  <2>6. g[T] <= g[s \ {x}]
    BY <2>1, <2>2, <2>4
  <2>7. f[x] \in Nat /\ g[s \ {x}] \in Nat /\ g[T] \in Nat
    BY <1>1, <2>2
  <2> HIDE DEF g
  <2> QED BY <2>2, <2>5, <2>6, <2>7
<1>3. g[T] <= g[S]
  <2> HIDE DEF g
  <2> QED BY <1>2
<1> QED BY <1>3, SumOfPart, SumOfAll

LEMMA SumOfZeros ==
  ASSUME NEW S, IsFiniteSet(S), NEW f \in [S -> Nat], \A x \in S : f[x] = 0
  PROVE  SumFunction(f) = 0
<1> DEFINE g == Iter(f, S)
           bad == {s \in SUBSET S : g[s] # 0}
<1>1. Solves(g, f, S)
  BY IterSolves
<1>2. bad = {}
  <2> SUFFICES ASSUME bad # {} PROVE FALSE
    OBVIOUS
  <2>1. PICK s \in bad : \A x \in s : s \ {x} \notin bad
    <3>1. bad \in SUBSET (SUBSET S)
      OBVIOUS
    <3> HIDE DEF bad
    <3> QED BY <3>1, SmallestSet
  <2>2. s # {} /\ Pick(s) \in s /\ g[s] = f[Pick(s)] + g[s \ {Pick(s)}]
    <3>1. s # {}
      BY <1>1 DEF Solves
    <3> QED BY <1>1, <3>1 DEF Solves, Pick
  <2>3. g[s \ {Pick(s)}] = 0
    BY <2>1, <2>2
  <2> QED BY <2>2, <2>3
<1>3. g[S] = 0
  BY <1>2
<1> QED BY <1>3, SumOfAll

LEMMA SumWithMore ==
  ASSUME NEW K, IsFiniteSet(K), NEW h \in [K -> Nat], NEW e \in [K -> Nat], NEW k \in K, NEW d \in Nat,
         e[k] = d + h[k], \A x \in K \ {k} : e[x] = h[x]
  PROVE  SumFunction(e) = d + SumFunction(h)
<1>1. K \in SUBSET K /\ K \ {k} \in SUBSET K
  OBVIOUS
<1>2. /\ SumFunction(e) = e[k] + SumFunction(Part(e, K \ {k}))
      /\ SumFunction(h) = h[k] + SumFunction(Part(h, K \ {k}))
  <2>1. ASSUME NEW f \in [K -> Nat] PROVE SumFunction(f) = f[k] + SumFunction(Part(f, K \ {k}))
    <3>1. Iter(f, K)[K] = f[k] + Iter(f, K)[K \ {k}]
      BY <1>1, TakeOut
    <3> QED BY <1>1, <3>1, SumOfAll, SumOfPart
  <2> QED BY <2>1
<1>3. Part(e, K \ {k}) = Part(h, K \ {k})
  BY DEF Part
<1>4. SumFunction(Part(h, K \ {k})) \in Nat /\ h[k] \in Nat
  BY <1>1, SumOfPart
<1> HIDE DEF Part
<1> QED BY <1>2, <1>3, <1>4

\* A sum is the sum of the sums of its groups.
LEMMA SumOfGroups ==
  ASSUME NEW S, IsFiniteSet(S), NEW f \in [S -> Nat], NEW K, IsFiniteSet(K), NEW key \in [S -> K]
  PROVE  SumFunction(f) = SumFunction([k \in K |-> SumFunction(Part(f, {x \in S : key[x] = k}))])
<1> DEFINE g == Iter(f, S)
           Group(s, k) == {x \in s : key[x] = k}
           H(s) == [k \in K |-> g[Group(s, k)]]
           bad == {s \in SUBSET S : SumFunction(H(s)) # g[s]}
<1>1. g \in [SUBSET S -> Nat] /\ Solves(g, f, S)
  BY IterSolves
<1>2. \A s \in SUBSET S : H(s) \in [K -> Nat]
  <2>1. \A s \in SUBSET S : \A k \in K : Group(s, k) \in SUBSET S
    OBVIOUS
  <2> HIDE DEF g, Group
  <2> QED BY <1>1, <2>1
<1>3. bad = {}
  <2> SUFFICES ASSUME bad # {} PROVE FALSE
    OBVIOUS
  <2>1. PICK s \in bad : \A x \in s : s \ {x} \notin bad
    <3>1. bad \in SUBSET (SUBSET S)
      OBVIOUS
    <3> HIDE DEF bad
    <3> QED BY <3>1, SmallestSet
  <2>2. s \in SUBSET S /\ SumFunction(H(s)) # g[s]
    BY <2>1
  <2>3. s # {}
    <3>1. g[{}] = 0
      BY <1>1 DEF Solves
    <3>2. \A k \in K : Group({}, k) = {}
      OBVIOUS
    <3>3. \A k \in K : H({})[k] = 0
      BY <3>1, <3>2
    <3>4. H({}) \in [K -> Nat]
      BY <1>2
    <3>5. SumFunction(H({})) = 0
      <4> HIDE DEF H
      <4> QED BY <3>3, <3>4, SumOfZeros
    <3> QED BY <2>2, <3>1, <3>5
  <2>4. PICK y \in s : TRUE
    BY <2>3
  <2> DEFINE r == s \ {y}
             k == key[y]
  <2>5. r \in SUBSET S /\ k \in K /\ f[y] \in Nat /\ y \in S
    BY <2>2, <2>4
  <2>6. SumFunction(H(r)) = g[r]
    BY <2>1, <2>4, <2>5
  <2>7. g[s] = f[y] + g[r]
    BY <2>2, <2>4, TakeOut
  <2>8. H(s)[k] = f[y] + H(r)[k]
    <3>1. y \in Group(s, k) /\ Group(s, k) \ {y} = Group(r, k) /\ Group(s, k) \in SUBSET S
      BY <2>2, <2>4
    <3>2. g[Group(s, k)] = f[y] + g[Group(s, k) \ {y}]
      <4> HIDE DEF Group, r, k
      <4> QED BY <3>1, TakeOut
    <3> QED BY <2>5, <3>1, <3>2
  <2>9. \A j \in K \ {k} : H(s)[j] = H(r)[j]
    <3>1. \A j \in K \ {k} : Group(s, j) = Group(r, j)
      OBVIOUS
    <3> HIDE DEF g, Group
    <3> QED BY <3>1
  <2>10. H(s) \in [K -> Nat] /\ H(r) \in [K -> Nat]
    BY <1>2, <2>2, <2>5
  <2>11. SumFunction(H(s)) = f[y] + SumFunction(H(r))
    <3> HIDE DEF H, k, r
    <3> QED BY <2>5, <2>8, <2>9, <2>10, SumWithMore
  <2> QED BY <2>2, <2>6, <2>7, <2>11
<1>4. SumFunction(H(S)) = g[S]
  <2> HIDE DEF H, g
  <2> QED BY <1>3
<1>5. H(S) = [k \in K |-> SumFunction(Part(f, Group(S, k)))]
  <2>1. \A k \in K : Group(S, k) \in SUBSET S
    OBVIOUS
  <2> HIDE DEF Group
  <2> QED BY <2>1, SumOfPart
<1> QED BY <1>4, <1>5, SumOfAll

-----------------------------------------------------------------------------
(* What the tables hold *)

Possible == UNION {UsageOf(e, now) : e \in Entries, now \in Int}

SnapshotRow ==
  [subscription : {"claude", "chatgpt"}, window : STRING, used : {None} \union Int,
   resets : {None} \union Int, source : {"claude-quota", "codex-rollout"}, observed : Int]

FilesInv ==
  /\ clock \in Int /\ Start <= clock /\ clock <= End /\ unread \subseteq Entries
  /\ statusFile # None =>
       statusFile.mtime \in Int /\ statusFile.mtime <= clock /\ statusFile.limits \in StatusLimits
  /\ cache # None => cache \in Caches /\ cache.at <= clock

\* Nothing observed is later than the clock.
Snapshots(some, now) == some \in Seq(SnapshotRow) /\ \A i \in DOMAIN some : some[i].observed <= now

BatchInv ==
  /\ batch = [usage |-> batch.usage, snapshots |-> batch.snapshots, hits |-> batch.hits]
  /\ IsFiniteSet(batch.usage) /\ batch.usage \subseteq Possible
  /\ Snapshots(batch.snapshots, clock)

Feed == FilesInv /\ BatchInv /\ rows \in Seq(Possible) /\ Snapshots(snapshots, clock)

\* A row with a cost knows where it is from.
LEMMA PossibleRows ==
  ASSUME NEW r \in Possible
  PROVE  /\ r.at \in Int /\ r.tokens \in Nat
         /\ r.costSource \in {"reported", "computed", "unknown"}
         /\ r.cost # None => r.costSource # "unknown"
<1>1. PICK e \in Entries, now \in Int : r \in UsageOf(e, now)
  BY DEF Possible
<1>2. e.source \in {"log", "codex-rollout", "pi-session", "opencode-db"} /\ e.at \in Int /\ e.tokens \in Nat
  BY EntryAssumption DEF Source
<1> USE DEF UsageOf, Record, CostSource
<1>3. CASE e.source = "log"
  BY <1>1, <1>2, <1>3 DEF ClaudeRecord
<1>4. CASE e.source = "codex-rollout"
  BY <1>1, <1>2, <1>4 DEF CodexRecord
<1>5. CASE e.source = "pi-session"
  BY <1>1, <1>2, <1>5 DEF PiRecord
<1>6. CASE e.source = "opencode-db"
  BY <1>1, <1>2, <1>6 DEF OpencodeRecord
<1> QED BY <1>2, <1>3, <1>4, <1>5, <1>6

LEMMA UsageOfEntry ==
  ASSUME NEW e \in Entries, NEW now \in Int
  PROVE  UsageOf(e, now) \subseteq Possible /\ IsFiniteSet(UsageOf(e, now))
<1>1. UsageOf(e, now) \subseteq Possible
  BY DEF Possible
<1>2. UsageOf(e, now) = {} \/ \E r : UsageOf(e, now) = {r}
  <2>1. e.source \in {"log", "codex-rollout", "pi-session", "opencode-db"}
    BY EntryAssumption DEF Source
  <2> QED BY <2>1 DEF UsageOf, ClaudeRecord, CodexRecord, PiRecord, OpencodeRecord
<1> QED BY <1>1, <1>2, FS_EmptySet, FS_Singleton

\* The windows of a rollout line are ChatGPT's, and of its time.
LEMMA RateLimitsOfEntry ==
  ASSUME NEW e \in Entries
  PROVE  /\ RateLimits(e) \in Seq(SnapshotRow)
         /\ \A i \in DOMAIN RateLimits(e) :
              RateLimits(e)[i].observed = e.at /\ RateLimits(e)[i].subscription = "chatgpt"
<1>1. e.at \in Int /\ e.limits \in Seq(Limits)
  BY EntryAssumption
<1>2. CASE e.source # "codex-rollout"
  BY <1>2 DEF RateLimits
<1>3. CASE e.source = "codex-rollout"
  <2> DEFINE Row(i) == Snapshot("codex-rollout", e.limits[i], e.limits[i].used, e.at)
  <2>1. PICK n \in Nat : n = Len(e.limits)
    BY <1>1
  <2>2. ASSUME NEW i \in 1..n
        PROVE  Row(i) \in SnapshotRow /\ Row(i).observed = e.at /\ Row(i).subscription = "chatgpt"
    <3>1. e.limits[i] \in Limits
      BY <1>1, <2>1
    <3> QED BY <1>1, <3>1 DEF Snapshot, SubscriptionFor, SnapshotRow, Limits
  <2>3. RateLimits(e) = [i \in 1..n |-> Row(i)]
    BY <1>3, <2>1 DEF RateLimits
  <2> HIDE DEF Row
  <2> QED BY <2>2, <2>3
<1> QED BY <1>2, <1>3

\* Those of the quota collector are Claude's, none of them has both a percentage and a reset
\* that has passed.
Cleared(w, now) == w.resets # None /\ w.resets <= now => w.used = None

LEMMA WindowsOfFile ==
  ASSUME NEW limits \in Seq(Limits), NEW observed \in Int, observed <= clock, clock \in Int
  PROVE  LET ws == [i \in 1..Len(limits) |-> ClaudeWindow(limits[i], observed, clock)]
         IN  /\ Snapshots(ws, clock)
             /\ \A i \in DOMAIN ws : ws[i].subscription = "claude" /\ Cleared(ws[i], clock)
<1> DEFINE Row(i) == ClaudeWindow(limits[i], observed, clock)
<1>1. PICK n \in Nat : n = Len(limits)
  OBVIOUS
<1>2. ASSUME NEW i \in 1..n
      PROVE  /\ Row(i) \in SnapshotRow /\ Row(i).observed = observed
             /\ Row(i).subscription = "claude" /\ Cleared(Row(i), clock)
  <2>1. limits[i] \in Limits
    BY <1>1
  <2> QED BY <2>1 DEF ClaudeWindow, Snapshot, SubscriptionFor, SnapshotRow, Limits, Cleared
<1> HIDE DEF Row
<1>3. [i \in 1..n |-> Row(i)] \in Seq(SnapshotRow)
  BY <1>2
<1>4. /\ Snapshots([i \in 1..n |-> Row(i)], clock)
      /\ \A i \in 1..n : [j \in 1..n |-> Row(j)][i].subscription = "claude"
                         /\ Cleared([j \in 1..n |-> Row(j)][i], clock)
  BY <1>2, <1>3 DEF Snapshots
<1> QED BY <1>1, <1>4 DEF Row

LEMMA QuotaSnapshotsRead ==
  ASSUME FilesInv
  PROVE  /\ Snapshots(QuotaSnapshots, clock)
         /\ \A i \in DOMAIN QuotaSnapshots :
              QuotaSnapshots[i].subscription = "claude" /\ Cleared(QuotaSnapshots[i], clock)
<1>1. CASE StatusReadable
  <2>1. statusFile.limits \in Seq(Limits) /\ statusFile.mtime \in Int /\ statusFile.mtime <= clock
    BY <1>1, EntryAssumption DEF StatusReadable, FilesInv
  <2>2. QuotaSnapshots = [i \in 1..Len(statusFile.limits) |->
                            ClaudeWindow(statusFile.limits[i], statusFile.mtime, clock)]
    BY <1>1 DEF QuotaSnapshots
  <2> QED BY <2>1, <2>2, WindowsOfFile DEF FilesInv
<1>2. CASE ~ StatusReadable /\ cache # None
  <2>1. cache.limits \in Seq(Limits) /\ cache.at \in Int /\ cache.at <= clock
    BY <1>2, EntryAssumption DEF FilesInv
  <2>2. QuotaSnapshots = [i \in 1..Len(cache.limits) |->
                            ClaudeWindow(cache.limits[i], cache.at, clock)]
    BY <1>2 DEF QuotaSnapshots
  <2> QED BY <2>1, <2>2, WindowsOfFile DEF FilesInv
<1>3. CASE ~ StatusReadable /\ cache = None
  BY <1>3 DEF QuotaSnapshots, Snapshots
<1> QED BY <1>1, <1>2, <1>3

-----------------------------------------------------------------------------
(* Steps of the readers and of the writers *)

ReadNext ==
  \/ ReadToday \/ ReadWeek \/ ReadTools \/ ReadUsageUpdates \/ ReadSnapshotUpdates
  \/ \E s \in Range(Subscriptions) : ReadQuota(s) \/ ReadHit(s)
  \/ FindOther

Reader == Ask \/ ReadNext \/ Deliver \/ GiveUp \/ OpenPages \/ ReadPage \/ ClosePages

Writer ==
  \/ WriteStatus \/ RemoveStatus \/ WriteCache \/ Tick
  \/ \E e \in Entries : Collect(e)
  \/ PollQuota
  \/ InsertUsage \/ InsertSnapshot \/ InsertHit

LEMMA ReaderOrWriter == [Next]_vars => Reader \/ Writer \/ UNCHANGED vars
BY DEF Next, Reader, ReadNext, Writer

LEMMA ReadersOnlyRead ==
  ASSUME Reader \/ UNCHANGED vars
  PROVE  UNCHANGED <<clock, unread, statusFile, cache, seen, batch, rows, snapshots>>
BY DEF Reader, ReadNext, Ask, At, ReadToday, ReadWeek, ReadTools, ReadUsageUpdates,
   ReadSnapshotUpdates, ReadQuota, ReadHit, FindOther, Deliver, GiveUp, OpenPages, ReadPage,
   ClosePages, vars, tables

LEMMA WritersKeepReaders ==
  ASSUME Writer
  PROVE  UNCHANGED <<request, shown>>
BY DEF Writer, WriteStatus, RemoveStatus, WriteCache, Tick, Collect, PollQuota, InsertUsage,
   InsertSnapshot, InsertHit

\* A table is only appended to.
Extends(t, s) == Len(s) <= Len(t) /\ \A i \in DOMAIN s : i \in DOMAIN t /\ t[i] = s[i]

LEMMA SetInSequence ==
  ASSUME NEW X, NEW S \in SUBSET X, IsFiniteSet(S)
  PROVE  SetToSeq(S) \in Seq(X)
<1>1. PICK n \in Nat : n = Cardinality(S) /\ ExistsBijection(1..n, S)
  BY FS_CardinalityType
<1>2. PICK f \in [1..n -> S] : IsInjective(f)
  BY <1>1 DEF ExistsBijection, Bijection, Injection, IsInjective
<1>3. SetToSeq(S) \in [1..n -> S]
  BY <1>1, <1>2 DEF SetToSeq
<1> QED BY <1>1, <1>3

LEMMA RowsGrow ==
  ASSUME Feed, InsertUsage
  PROVE  rows' \in Seq(Possible) /\ Extends(rows', rows)
<1> DEFINE new == {r \in batch.usage :
                     \A x \in Range(rows) : <<x.provider, x.key>> # <<r.provider, r.key>>}
<1>1. new \in SUBSET Possible /\ IsFiniteSet(new)
  BY FS_Subset DEF Feed, BatchInv
<1>2. SetToSeq(new) \in Seq(Possible)
  <2> HIDE DEF new
  <2> QED BY <1>1, SetInSequence
<1>3. rows' = rows \o SetToSeq(new)
  BY DEF InsertUsage
<1> HIDE DEF new
<1> QED BY <1>2, <1>3 DEF Feed, Extends

LEMMA SnapshotsGrow ==
  ASSUME Feed, InsertSnapshot
  PROVE  /\ Snapshots(snapshots', clock) /\ Extends(snapshots', snapshots)
         /\ Len(snapshots') = Len(snapshots) + 1
         /\ snapshots'[Len(snapshots) + 1] = batch.snapshots[1]
         /\ Snapshots(batch'.snapshots, clock)
         /\ \A i \in DOMAIN batch'.snapshots :
              i + 1 \in DOMAIN batch.snapshots /\ batch'.snapshots[i] = batch.snapshots[i + 1]
         /\ \A i \in DOMAIN batch.snapshots :
              i = 1 \/ (i - 1 \in DOMAIN batch'.snapshots /\ batch'.snapshots[i - 1] = batch.snapshots[i])
<1> DEFINE ss == batch.snapshots
<1>1. ss \in Seq(SnapshotRow) /\ ss # <<>> /\ snapshots \in Seq(SnapshotRow)
  BY DEF Feed, BatchInv, Snapshots, InsertSnapshot
<1>2. snapshots' = Append(snapshots, Head(ss)) /\ batch'.snapshots = Tail(ss)
  BY DEF InsertSnapshot, Feed, BatchInv
<1>3. \A i \in DOMAIN ss : ss[i].observed <= clock
  BY DEF Feed, BatchInv, Snapshots
<1>4. \A i \in DOMAIN snapshots : snapshots[i].observed <= clock
  BY DEF Feed, Snapshots
<1> HIDE DEF ss
<1>5. Head(ss) = ss[1] /\ 1 \in DOMAIN ss /\ Len(ss) \in Nat \ {0} /\ DOMAIN ss = 1..Len(ss)
  BY <1>1
<1>6. /\ Tail(ss) \in Seq(SnapshotRow) /\ DOMAIN Tail(ss) = 1..(Len(ss) - 1)
      /\ \A i \in 1..(Len(ss) - 1) : Tail(ss)[i] = ss[i + 1]
  BY <1>1, <1>5
<1>7. Snapshots(Tail(ss), clock)
  BY <1>3, <1>5, <1>6 DEF Snapshots
<1>8. Snapshots(Append(snapshots, Head(ss)), clock)
  BY <1>1, <1>3, <1>4, <1>5 DEF Snapshots
<1>9. Extends(snapshots', snapshots) /\ Len(snapshots') = Len(snapshots) + 1
  BY <1>1, <1>2, <1>5 DEF Extends
<1>10. snapshots'[Len(snapshots) + 1] = ss[1]
  BY <1>1, <1>2, <1>5
<1>11. \A i \in DOMAIN ss : i = 1 \/ (i - 1 \in 1..(Len(ss) - 1) /\ Tail(ss)[i - 1] = ss[i])
  BY <1>5, <1>6
<1>12. \A i \in 1..(Len(ss) - 1) : i + 1 \in DOMAIN ss /\ Tail(ss)[i] = ss[i + 1]
  BY <1>5, <1>6
<1> QED
  <2>1. /\ Snapshots(snapshots', clock) /\ Snapshots(batch'.snapshots, clock)
    BY <1>2, <1>7, <1>8
  <2> QED BY <1>2, <1>6, <1>9, <1>10, <1>11, <1>12, <2>1 DEF ss

LEMMA TablesGrow ==
  ASSUME Feed, [Next]_vars
  PROVE  Extends(rows', rows) /\ Extends(snapshots', snapshots)
<1>1. Extends(rows, rows) /\ Extends(snapshots, snapshots)
  BY DEF Extends, Feed, Snapshots
<1>2. CASE InsertUsage
  BY <1>1, <1>2, RowsGrow DEF InsertUsage
<1>3. CASE InsertSnapshot
  BY <1>1, <1>3, SnapshotsGrow DEF InsertSnapshot
<1>4. CASE UNCHANGED <<rows, snapshots>>
  BY <1>1, <1>4
<1>5. CASE Writer /\ ~ InsertUsage /\ ~ InsertSnapshot
  BY <1>4, <1>5 DEF Writer, WriteStatus, RemoveStatus, WriteCache, Tick, Collect, PollQuota,
     InsertHit, tables
<1> QED BY <1>2, <1>3, <1>4, <1>5, ReaderOrWriter, ReadersOnlyRead

LEMMA FeedInit == Init => Feed
<1> SUFFICES ASSUME Init PROVE Feed
  OBVIOUS
<1> USE DEF Init, Stored
<1>1. FilesInv
  BY FeedAssumption DEF FilesInv
<1>2. BatchInv
  BY FS_EmptySet DEF BatchInv, Snapshots
<1> QED BY <1>1, <1>2 DEF Feed, Snapshots

LEMMA LaterClock ==
  ASSUME NEW some, NEW now \in Int, NEW then \in Int, now <= then, Snapshots(some, now)
  PROVE  Snapshots(some, then)
<1>1. ASSUME NEW i \in DOMAIN some PROVE some[i].observed \in Int
  <2>1. some[i] \in SnapshotRow
    BY DEF Snapshots
  <2> QED BY <2>1 DEF SnapshotRow
<1> QED BY <1>1 DEF Snapshots

LEMMA FeedStep ==
  ASSUME Feed, [Next]_vars
  PROVE  Feed'
<1> USE DEF Feed
<1>1. CASE WriteStatus \/ RemoveStatus \/ WriteCache
  <2>1. FilesInv'
    BY <1>1 DEF WriteStatus, RemoveStatus, WriteCache, FilesInv
  <2>2. UNCHANGED <<clock, batch, rows, snapshots>>
    BY <1>1 DEF WriteStatus, RemoveStatus, WriteCache, tables
  <2> QED BY <2>1, <2>2 DEF BatchInv
<1>2. CASE Tick
  <2>1. /\ clock \in Int /\ clock' = clock + Step /\ clock' \in Int /\ clock <= clock'
        /\ Start <= clock' /\ clock' <= End
    BY <1>2, FeedAssumption DEF Tick, FilesInv
  <2>2. UNCHANGED <<unread, statusFile, cache, batch, rows, snapshots>>
    BY <1>2 DEF Tick, tables
  <2>3. FilesInv'
    <3>1. cache # None => cache.at \in Int
      BY EntryAssumption DEF FilesInv
    <3> QED BY <2>1, <2>2, <3>1 DEF FilesInv
  <2>4. Snapshots(batch.snapshots, clock') /\ Snapshots(snapshots, clock')
    BY <2>1, LaterClock DEF BatchInv
  <2> QED BY <2>2, <2>3, <2>4 DEF BatchInv
<1>3. ASSUME NEW e \in Entries, Collect(e) PROVE Feed'
  <2>1. /\ batch' = [usage |-> UsageOf(e, clock), snapshots |-> RateLimits(e), hits |-> HitOf(e)]
        /\ e.at <= clock /\ unread' = unread \ {e}
        /\ UNCHANGED <<clock, statusFile, cache, rows, snapshots>>
    BY <1>3 DEF Collect, tables
  <2>2. UsageOf(e, clock) \subseteq Possible /\ IsFiniteSet(UsageOf(e, clock))
    BY UsageOfEntry DEF FilesInv
  <2>3. Snapshots(RateLimits(e), clock)
    BY <2>1, RateLimitsOfEntry DEF Snapshots
  <2>4. BatchInv'
    BY <2>1, <2>2, <2>3 DEF BatchInv
  <2>5. FilesInv'
    BY <2>1 DEF FilesInv
  <2> QED BY <2>1, <2>4, <2>5
<1>4. CASE PollQuota
  <2>1. /\ batch' = [usage |-> {}, snapshots |-> QuotaSnapshots, hits |-> {}]
        /\ UNCHANGED <<clock, unread, statusFile, cache, rows, snapshots>>
    BY <1>4 DEF PollQuota, Stored, tables
  <2>2. BatchInv'
    BY <2>1, QuotaSnapshotsRead, FS_EmptySet DEF BatchInv
  <2> QED BY <2>1, <2>2 DEF FilesInv
<1>5. CASE InsertUsage
  <2>1. /\ batch' = [usage |-> {}, snapshots |-> batch.snapshots, hits |-> batch.hits]
        /\ UNCHANGED <<clock, unread, statusFile, cache, snapshots>>
    BY <1>5 DEF InsertUsage, BatchInv
  <2>2. BatchInv'
    BY <2>1, FS_EmptySet DEF BatchInv
  <2> QED BY <1>5, <2>1, <2>2, RowsGrow DEF FilesInv
<1>6. CASE InsertSnapshot
  <2>1. /\ batch' = [usage |-> batch.usage, snapshots |-> batch'.snapshots, hits |-> batch.hits]
        /\ UNCHANGED <<clock, unread, statusFile, cache, rows>>
    BY <1>6 DEF InsertSnapshot, BatchInv
  <2>2. batch'.usage = batch.usage
    BY <2>1
  <2>3. BatchInv'
    BY <1>6, <2>1, <2>2, SnapshotsGrow DEF BatchInv
  <2> QED BY <1>6, <2>1, <2>3, SnapshotsGrow DEF FilesInv
<1>7. CASE InsertHit
  <2>1. /\ batch' = [usage |-> {}, snapshots |-> <<>>, hits |-> {}]
        /\ UNCHANGED <<clock, unread, statusFile, cache, rows, snapshots>>
    BY <1>7 DEF InsertHit, Stored
  <2>2. BatchInv'
    BY <2>1, FS_EmptySet DEF BatchInv, Snapshots
  <2> QED BY <2>1, <2>2 DEF FilesInv
<1>8. CASE Reader \/ UNCHANGED vars
  BY <1>8, ReadersOnlyRead DEF FilesInv, BatchInv
<1> QED BY <1>1, <1>2, <1>3, <1>4, <1>5, <1>6, <1>7, <1>8, ReaderOrWriter DEF Writer

-----------------------------------------------------------------------------
(* Requests *)

\* A request, field by field.
Fields == {"today", "last_7d", "by_tool", "updates", "quota", "hit", "listed"}

Form ==
  /\ request.kind = "status" =>
       /\ request = [f \in {"kind", "next", "answer"} |-> request[f]]
       /\ request.answer = [f \in Fields |-> request.answer[f]]
       /\ request.next \in 1..15
  /\ request.kind = "pages" =>
       request = [f \in {"kind", "offset", "got", "expected", "done"} |-> request[f]]

LEMMA StepsInOrder ==
  /\ Len(Steps) = 14
  /\ Steps[1] = <<"today">> /\ Steps[2] = <<"last_7d">> /\ Steps[3] = <<"by_tool">>
  /\ Steps[4] = <<"usage">> /\ Steps[5] = <<"snapshots">>
  /\ Steps[6] = <<"quota", "claude">> /\ Steps[7] = <<"hit", "claude">>
  /\ Steps[8] = <<"quota", "chatgpt">> /\ Steps[9] = <<"hit", "chatgpt">>
  /\ Steps[10] = <<"quota", "opencode-go">> /\ Steps[11] = <<"hit", "opencode-go">>
  /\ Steps[12] = <<"any", "other">>
  /\ Steps[13] = <<"quota", "other">> /\ Steps[14] = <<"hit", "other">>
BY DEF Steps, Aggregates, QuotaAndHit

LEMMA FieldRead ==
  ASSUME Form, request.kind = "status", NEW field \in Fields, NEW value, Read(field, value)
  PROVE  /\ request' = [f \in {"kind", "next", "answer"} |-> request'[f]]
         /\ request'.kind = "status" /\ request'.next = request.next + 1
         /\ request'.answer = [f \in Fields |-> request'.answer[f]]
         /\ request'.answer[field] = value
         /\ \A f \in Fields \ {field} : request'.answer[f] = request.answer[f]
<1> DEFINE answer == [request.answer EXCEPT ![field] = value]
<1>1. /\ answer = [f \in Fields |-> answer[f]] /\ answer[field] = value
      /\ \A f \in Fields \ {field} : answer[f] = request.answer[f]
  BY DEF Form
<1>2. request' = [request EXCEPT !.next = request.next + 1, !.answer = answer]
  BY DEF Read
<1> HIDE DEF answer
<1>3. /\ request' = [f \in {"kind", "next", "answer"} |-> request'[f]]
      /\ request'.kind = "status" /\ request'.next = request.next + 1
      /\ request'.answer = answer
  BY <1>2 DEF Form
<1> QED BY <1>1, <1>3

\* Every read takes one step on and fills one field.
LEMMA ReadNextForm ==
  ASSUME Form, ReadNext
  PROVE  /\ request.kind = "status" /\ request'.kind = "status"
         /\ request' = [f \in {"kind", "next", "answer"} |-> request'[f]]
         /\ request'.answer = [f \in Fields |-> request'.answer[f]]
         /\ request.next \in 1..14 /\ request'.next \in {request.next + 1, 15}
<1> USE StepsInOrder DEF At, Fields
<1>1. request.kind = "status" /\ request.next \in 1..14
  BY DEF ReadNext, ReadToday, ReadWeek, ReadTools, ReadUsageUpdates, ReadSnapshotUpdates,
     ReadQuota, ReadHit, FindOther, Form
<1>2. ASSUME NEW field \in Fields, NEW value, Read(field, value)
      PROVE  /\ request'.kind = "status"
             /\ request' = [f \in {"kind", "next", "answer"} |-> request'[f]]
             /\ request'.answer = [f \in Fields |-> request'.answer[f]]
             /\ request'.next = request.next + 1
  BY <1>1, <1>2, FieldRead
<1>3. CASE ReadToday \/ ReadWeek \/ ReadTools \/ ReadUsageUpdates \/ ReadSnapshotUpdates
  BY <1>1, <1>2, <1>3 DEF ReadToday, ReadWeek, ReadTools, ReadUsageUpdates, ReadSnapshotUpdates
<1>4. ASSUME NEW s, ReadQuota(s) \/ ReadHit(s)
      PROVE  request'.next = request.next + 1 /\ request'.kind = "status"
             /\ request' = [f \in {"kind", "next", "answer"} |-> request'[f]]
             /\ request'.answer = [f \in Fields |-> request'.answer[f]]
  BY <1>1, <1>2, <1>4 DEF ReadQuota, ReadHit
<1>5. CASE FindOther
  <2>1. CASE request' = [request EXCEPT !.next = 15]
    <3>1. request'.kind = "status" /\ request'.next = 15 /\ request'.answer = request.answer
          /\ request' = [f \in {"kind", "next", "answer"} |-> request'[f]]
      BY <1>1, <2>1 DEF Form
    <3> QED BY <1>1, <3>1 DEF Form
  <2>2. CASE Read("listed", request.answer.listed \union {"other"})
    BY <1>1, <1>2, <2>2
  <2> QED BY <1>5, <2>1, <2>2 DEF FindOther
<1> QED BY <1>1, <1>3, <1>4, <1>5 DEF ReadNext

\* What fills a field.
LEMMA ReadNextFields ==
  ASSUME Form, ReadNext
  PROVE  /\ request'.answer.today = request.answer.today \/ ReadToday
         /\ request'.answer.last_7d = request.answer.last_7d \/ ReadWeek
         /\ request'.answer.quota = request.answer.quota \/ \E s \in Range(Subscriptions) : ReadQuota(s)
         /\ request'.answer.listed = request.answer.listed \/ FindOther
<1>1. request.kind = "status"
  BY ReadNextForm
<1>2. ASSUME NEW field \in Fields, NEW value, Read(field, value), NEW f \in Fields \ {field}
      PROVE  request'.answer[f] = request.answer[f]
  BY <1>1, <1>2, FieldRead
<1> DEFINE Kept(f) == request'.answer[f] = request.answer[f]
<1>3. CASE ReadToday
  <2>1. Kept("last_7d") /\ Kept("quota") /\ Kept("listed")
    BY <1>2, <1>3 DEF ReadToday, Fields
  <2> QED BY <1>3, <2>1
<1>4. CASE ReadWeek
  <2>1. Kept("today") /\ Kept("quota") /\ Kept("listed")
    BY <1>2, <1>4 DEF ReadWeek, Fields
  <2> QED BY <1>4, <2>1
<1>5. CASE ReadTools \/ ReadUsageUpdates \/ ReadSnapshotUpdates
  <2>1. Kept("today") /\ Kept("last_7d") /\ Kept("quota") /\ Kept("listed")
    BY <1>2, <1>5 DEF ReadTools, ReadUsageUpdates, ReadSnapshotUpdates, Fields
  <2> QED BY <2>1
<1>6. ASSUME NEW s \in Range(Subscriptions), ReadQuota(s)
      PROVE  Kept("today") /\ Kept("last_7d") /\ Kept("listed")
  BY <1>2, <1>6 DEF ReadQuota, Fields
<1>7. ASSUME NEW s \in Range(Subscriptions), ReadHit(s)
      PROVE  Kept("today") /\ Kept("last_7d") /\ Kept("quota") /\ Kept("listed")
  BY <1>2, <1>7 DEF ReadHit, Fields
<1>8. CASE FindOther
  <2>1. CASE request' = [request EXCEPT !.next = Len(Steps) + 1]
    BY <1>1, <2>1 DEF Form
  <2>2. CASE Read("listed", request.answer.listed \union {"other"})
    <3>1. Kept("today") /\ Kept("last_7d") /\ Kept("quota")
      BY <1>2, <2>2 DEF Fields
    <3> QED BY <1>8, <3>1
  <2> QED BY <1>8, <2>1, <2>2 DEF FindOther
<1>9. CASE \E s \in Range(Subscriptions) : ReadQuota(s) \/ ReadHit(s)
  BY <1>6, <1>7, <1>9
<1> QED BY <1>3, <1>4, <1>5, <1>8, <1>9 DEF ReadNext

LEMMA FormStep ==
  ASSUME Form, [Next]_vars
  PROVE  Form'
<1>1. CASE Writer \/ UNCHANGED vars
  BY <1>1, WritersKeepReaders DEF vars, Form
<1>2. CASE Ask
  <2>1. request' = [kind |-> "status", next |-> 1, answer |-> NoAnswer]
    BY <1>2 DEF Ask
  <2>2. NoAnswer = [f \in Fields |-> NoAnswer[f]]
    BY DEF NoAnswer, Fields
  <2> QED BY <2>1, <2>2 DEF Form
<1>3. CASE ReadNext
  BY <1>3, ReadNextForm DEF Form
<1>4. CASE Deliver \/ GiveUp \/ OpenPages \/ ClosePages
  BY <1>4 DEF Deliver, GiveUp, OpenPages, ClosePages, NoRequest, Form
<1>5. CASE ReadPage
  BY <1>5 DEF ReadPage, Form
<1> QED BY <1>1, <1>2, <1>3, <1>4, <1>5, ReaderOrWriter DEF Reader

-----------------------------------------------------------------------------
(* Paging *)

\* The rows in front of one.
InFront(t, i) == {j \in DOMAIN t : t[i].at < t[j].at \/ (t[i].at = t[j].at /\ i < j)}

LEMMA FrontOfPlace ==
  /\ Matches(Everything) = DOMAIN rows
  /\ \A i : Place(i, DOMAIN rows) = Cardinality(InFront(rows, i))
BY DEF Matches, Everything, Place, Ahead, InFront

LEMMA FrontFinite ==
  ASSUME NEW t \in Seq(Possible), NEW i \in DOMAIN t
  PROVE  /\ IsFiniteSet(InFront(t, i)) /\ i \notin InFront(t, i)
         /\ Cardinality(InFront(t, i)) \in 0..(Len(t) - 1)
<1>1. PICK n \in Nat : n = Len(t) /\ DOMAIN t = 1..n
  OBVIOUS
<1>2. IsFiniteSet(1..n) /\ Cardinality(1..n) = n
  BY FS_Interval
<1>3. i \notin InFront(t, i)
  <2>1. t[i].at \in Int
    BY PossibleRows
  <2> QED BY <2>1, <1>1 DEF InFront
<1>4. IsFiniteSet((1..n) \ {i}) /\ Cardinality((1..n) \ {i}) = n - 1
  BY <1>1, <1>2, FS_RemoveElement
<1>5. InFront(t, i) \in SUBSET ((1..n) \ {i})
  BY <1>1, <1>3 DEF InFront
<1>6. IsFiniteSet(InFront(t, i)) /\ Cardinality(InFront(t, i)) <= n - 1
  BY <1>4, <1>5, FS_Subset
<1>7. Cardinality(InFront(t, i)) \in Nat
  BY <1>6, FS_CardinalityType
<1> QED BY <1>1, <1>3, <1>6, <1>7

LEMMA FrontOrder ==
  ASSUME NEW t \in Seq(Possible), NEW i \in DOMAIN t, NEW j \in InFront(t, i)
  PROVE  Cardinality(InFront(t, j)) < Cardinality(InFront(t, i))
<1>1. j \in DOMAIN t /\ i \in Int /\ j \in Int
  BY DEF InFront
<1>2. InFront(t, j) \union {j} \in SUBSET InFront(t, i)
  <2>1. ASSUME NEW k \in InFront(t, j) PROVE k \in InFront(t, i)
    <3>1. k \in DOMAIN t /\ k \in Int
      BY DEF InFront
    <3>2. t[i].at \in Int /\ t[j].at \in Int /\ t[k].at \in Int
      BY <1>1, <3>1, PossibleRows
    <3> QED BY <1>1, <3>1, <3>2 DEF InFront
  <2> QED BY <2>1
<1>3. IsFiniteSet(InFront(t, j)) /\ j \notin InFront(t, j) /\ Cardinality(InFront(t, j)) \in Int
  BY <1>1, FrontFinite
<1>4. IsFiniteSet(InFront(t, i)) /\ Cardinality(InFront(t, i)) \in Int
  BY FrontFinite
<1>5. Cardinality(InFront(t, j) \union {j}) = Cardinality(InFront(t, j)) + 1
  BY <1>3, FS_AddElement
<1>6. Cardinality(InFront(t, j) \union {j}) <= Cardinality(InFront(t, i))
  BY <1>2, <1>4, FS_Subset
<1> QED BY <1>3, <1>4, <1>5, <1>6

\* The order has no gap and no two rows in one place.
LEMMA PlacesAreExact ==
  ASSUME NEW t \in Seq(Possible)
  PROVE  /\ \A i, j \in DOMAIN t :
              Cardinality(InFront(t, i)) = Cardinality(InFront(t, j)) => i = j
         /\ \A n \in 0..(Len(t) - 1) : \E i \in DOMAIN t : Cardinality(InFront(t, i)) = n
<1> DEFINE f == [i \in DOMAIN t |-> Cardinality(InFront(t, i))]
<1>1. \A i, j \in DOMAIN t : Cardinality(InFront(t, i)) = Cardinality(InFront(t, j)) => i = j
  <2> SUFFICES ASSUME NEW i \in DOMAIN t, NEW j \in DOMAIN t, i # j
               PROVE  Cardinality(InFront(t, i)) # Cardinality(InFront(t, j))
    OBVIOUS
  <2>1. t[i].at \in Int /\ t[j].at \in Int
    BY PossibleRows
  <2>2. i \in InFront(t, j) \/ j \in InFront(t, i)
    BY <2>1 DEF InFront
  <2>3. Cardinality(InFront(t, i)) \in Int /\ Cardinality(InFront(t, j)) \in Int
    BY FrontFinite
  <2> QED BY <2>2, <2>3, FrontOrder
<1>2. PICK n \in Nat : n = Len(t) /\ DOMAIN t = 1..n
  OBVIOUS
<1>3. f \in [1..n -> 0..(n - 1)]
  BY <1>2, FrontFinite
<1>4. f \in Injection(1..n, 0..(n - 1))
  BY <1>1, <1>2, <1>3 DEF Injection, IsInjective
<1>5. IsFiniteSet(0..(n - 1)) /\ Cardinality(0..(n - 1)) = n
  <2>1. 0 \in Int /\ n - 1 \in Int
    OBVIOUS
  <2> QED BY <2>1, FS_Interval
<1>6. Cardinality(1..n) = n
  BY FS_Interval
<1>7. f \in Surjection(1..n, 0..(n - 1))
  <2> HIDE DEF f
  <2> QED BY <1>4, <1>5, <1>6, FS_Injection
<1>8. \A k \in 0..(n - 1) : \E i \in 1..n : f[i] = k
  <2> HIDE DEF f
  <2> QED BY <1>7 DEF Surjection
<1> QED BY <1>1, <1>2, <1>8

LEMMA FrontGrows ==
  ASSUME NEW s \in Seq(Possible), NEW t \in Seq(Possible), Extends(t, s), NEW i \in DOMAIN s
  PROVE  i \in DOMAIN t /\ Cardinality(InFront(s, i)) <= Cardinality(InFront(t, i))
<1>1. i \in DOMAIN t
  BY DEF Extends
<1>2. InFront(s, i) \in SUBSET InFront(t, i)
  BY DEF InFront, Extends
<1>3. IsFiniteSet(InFront(t, i))
  BY <1>1, FrontFinite
<1> QED BY <1>1, <1>2, <1>3, FS_Subset

\* A row that a page leaves for later makes it a full one.
LEMMA PageIsFull ==
  ASSUME rows \in Seq(Possible), NEW offset \in Nat
  PROVE  LET page == Page(Everything, offset)
         IN  /\ Cardinality(page) \in 0..PageSize
             /\ \A i \in DOMAIN rows \ page :
                  offset <= Place(i, DOMAIN rows) =>
                    Cardinality(page) = PageSize /\ offset + PageSize <= Place(i, DOMAIN rows)
<1> DEFINE page == Page(Everything, offset)
           span == offset..(offset + PageSize - 1)
           f == [i \in page |-> Cardinality(InFront(rows, i))]
<1>1. page = {i \in DOMAIN rows : Cardinality(InFront(rows, i)) \in span}
  BY FrontOfPlace DEF Page
<1>2. PageSize \in Nat /\ IsFiniteSet(span) /\ Cardinality(span) = PageSize
  <2>1. PageSize \in Nat \ {0} /\ offset + PageSize - 1 \in Int
    BY FeedAssumption
  <2> QED BY <2>1, FS_Interval
<1>3. f \in Injection(page, span)
  <2> HIDE DEF span
  <2> QED BY <1>1, PlacesAreExact DEF Injection, IsInjective
<1>4. /\ IsFiniteSet(page) /\ Cardinality(page) <= PageSize
      /\ Cardinality(page) = PageSize <=> f \in Surjection(page, span)
  <2> HIDE DEF page, span, f
  <2> QED BY <1>2, <1>3, FS_Injection
<1>5. Cardinality(page) \in Nat
  BY <1>4, FS_CardinalityType
<1>6. ASSUME NEW i \in DOMAIN rows \ page, offset <= Place(i, DOMAIN rows)
      PROVE  Cardinality(page) = PageSize /\ offset + PageSize <= Place(i, DOMAIN rows)
  <2>1. PICK n \in Nat : n = Len(rows)
    OBVIOUS
  <2>2. Place(i, DOMAIN rows) = Cardinality(InFront(rows, i))
        /\ Cardinality(InFront(rows, i)) \in 0..(n - 1)
    BY <2>1, FrontOfPlace, FrontFinite
  <2>3. offset + PageSize <= Place(i, DOMAIN rows)
    BY <1>1, <1>2, <1>6, <2>2
  <2>4. \A k \in span : k \in 0..(n - 1)
    BY <1>2, <2>2, <2>3
  <2>5. \A k \in span : \E j \in page : f[j] = k
    <3> SUFFICES ASSUME NEW k \in span PROVE \E j \in page : f[j] = k
      OBVIOUS
    <3>1. PICK j \in DOMAIN rows : Cardinality(InFront(rows, j)) = k
      BY <2>1, <2>4, PlacesAreExact
    <3> QED BY <1>1, <3>1
  <2>6. f \in Surjection(page, span)
    <3> HIDE DEF span, page
    <3> QED BY <1>3, <2>5 DEF Injection, Surjection
  <2> QED BY <1>4, <2>3, <2>6
<1> QED BY <1>2, <1>4, <1>5, <1>6

\* What a client has yet to get is at its offset or behind it.
Pages ==
  request.kind = "pages" =>
    /\ request.offset \in Nat
    /\ request.expected \subseteq DOMAIN rows
    /\ \A i \in request.expected \ request.got :
         ~ request.done /\ request.offset <= Place(i, DOMAIN rows)

LEMMA PagesKept ==
  ASSUME Feed, Feed', Pages, UNCHANGED request, Extends(rows', rows)
  PROVE  Pages'
<1> SUFFICES ASSUME request.kind = "pages" PROVE Pages'
  BY DEF Pages
<1>1. rows \in Seq(Possible) /\ rows' \in Seq(Possible)
  BY DEF Feed
<1>2. request.expected \subseteq DOMAIN rows'
  BY DEF Pages, Extends
<1>3. ASSUME NEW i \in request.expected \ request.got
      PROVE  ~ request.done /\ request.offset <= Cardinality(InFront(rows', i))
  <2>1. ~ request.done /\ request.offset <= Cardinality(InFront(rows, i)) /\ i \in DOMAIN rows
    BY FrontOfPlace DEF Pages
  <2>2. Cardinality(InFront(rows, i)) <= Cardinality(InFront(rows', i)) /\ i \in DOMAIN rows'
    BY <1>1, <2>1, FrontGrows
  <2>3. Cardinality(InFront(rows, i)) \in Int /\ Cardinality(InFront(rows', i)) \in Int
    BY <1>1, <2>1, <2>2, FrontFinite
  <2> QED BY <2>1, <2>2, <2>3 DEF Pages
<1>4. \A i : Place(i, DOMAIN rows)' = Cardinality(InFront(rows', i))
  BY DEF Place, Ahead, InFront
<1> QED BY <1>2, <1>3, <1>4 DEF Pages

LEMMA PagesRead ==
  ASSUME Feed, Form, Pages, ReadPage
  PROVE  Pages'
<1> DEFINE page == Page(Everything, request.offset)
<1>1. /\ request.kind = "pages" /\ request.offset \in Nat /\ rows \in Seq(Possible)
      /\ UNCHANGED rows
    BY DEF Pages, ReadPage, Feed, tables
<1>2. request' = [kind |-> "pages", offset |-> request.offset + Cardinality(page),
                  got |-> request.got \union page, expected |-> request.expected,
                  done |-> Cardinality(page) < PageSize]
  BY DEF Form, ReadPage
<1>3. /\ Cardinality(page) \in 0..PageSize
      /\ \A i \in DOMAIN rows \ page :
           request.offset <= Place(i, DOMAIN rows) =>
             Cardinality(page) = PageSize /\ request.offset + PageSize <= Place(i, DOMAIN rows)
  BY <1>1, PageIsFull
<1> HIDE DEF page
<1>4. \A i : Place(i, DOMAIN rows)' = Place(i, DOMAIN rows)
  BY <1>1 DEF Place, Ahead
<1>5. ASSUME NEW i \in request'.expected \ request'.got
      PROVE  ~ request'.done /\ request'.offset <= Place(i, DOMAIN rows)
  <2>1. i \in DOMAIN rows \ page /\ request.offset <= Place(i, DOMAIN rows)
    BY <1>1, <1>2, <1>5 DEF Pages
  <2>2. Cardinality(page) = PageSize /\ request.offset + PageSize <= Place(i, DOMAIN rows)
    BY <1>3, <2>1
  <2>3. (Cardinality(page) < PageSize) = FALSE
    BY <2>2, FeedAssumption
  <2>4. request'.done = FALSE /\ request'.offset = request.offset + PageSize
    BY <1>2, <2>2, <2>3
  <2> QED BY <2>2, <2>4
<1>6. request'.expected \subseteq DOMAIN rows'
  BY <1>1, <1>2 DEF Pages
<1>7. request'.offset \in Nat
  BY <1>1, <1>2, <1>3
<1> QED BY <1>2, <1>4, <1>5, <1>6, <1>7 DEF Pages

LEMMA PagesStep ==
  ASSUME Feed, Feed', Form, Pages, [Next]_vars
  PROVE  Pages'
<1>1. CASE Writer \/ UNCHANGED vars
  BY <1>1, TablesGrow, WritersKeepReaders, PagesKept DEF vars
<1>2. CASE OpenPages
  <2>1. /\ request' = [kind |-> "pages", offset |-> 0, got |-> {}, expected |-> DOMAIN rows,
                       done |-> FALSE]
        /\ UNCHANGED rows
    BY <1>2, FrontOfPlace DEF OpenPages, tables
  <2>2. \A i : Place(i, DOMAIN rows)' = Cardinality(InFront(rows, i))
    BY <2>1 DEF Place, Ahead, InFront
  <2>3. \A i \in DOMAIN rows : 0 <= Cardinality(InFront(rows, i))
    BY FrontFinite DEF Feed
  <2> QED BY <2>1, <2>2, <2>3 DEF Pages
<1>3. CASE ReadPage
  BY <1>3, PagesRead
<1>4. CASE Ask \/ Deliver \/ GiveUp \/ ClosePages
  BY <1>4 DEF Ask, Deliver, GiveUp, ClosePages, NoRequest, Pages
<1>5. CASE ReadNext
  BY <1>5, ReadNextForm DEF Pages
<1> QED BY <1>1, <1>2, <1>3, <1>4, <1>5, ReaderOrWriter DEF Reader

-----------------------------------------------------------------------------
(* Costs *)

CostSources(t, s) == {t[i].costSource : i \in {j \in DOMAIN t : t[j].subscription = s}}

\* A total says that it was computed when it was, and only then.
Marked(totals, sources) ==
  /\ totals.costSource = "computed" => "computed" \in sources
  /\ totals.cost \notin {None, 0} /\ "reported" \notin sources => totals.costSource = "computed"

Marks ==
  request.kind = "status" =>
    /\ \A s \in DOMAIN request.answer.today :
         Marked(request.answer.today[s], CostSources(rows, s))
    /\ \A s \in DOMAIN request.answer.last_7d :
         Marked(request.answer.last_7d[s], CostSources(rows, s))

LEMMA TotalsMarked ==
  ASSUME rows \in Seq(Possible), NEW some \in SUBSET Range(rows)
  PROVE  LET f == WindowTotals(some)
         IN  \A s \in DOMAIN f : Marked(f[s], CostSources(rows, s))
<1> SUFFICES ASSUME NEW s \in DOMAIN WindowTotals(some)
             PROVE  Marked(WindowTotals(some)[s], CostSources(rows, s))
  OBVIOUS
<1> DEFINE mine == {r \in some : r.subscription = s}
<1>1. WindowTotals(some)[s] = TokenTotals(mine)
  BY DEF WindowTotals
<1>2. /\ TokenTotals(mine).cost = CostOf(mine)
      /\ TokenTotals(mine).costSource = Parts(mine)
  BY DEF TokenTotals
<1>3. \A r \in mine : r \in Possible /\ r.costSource \in CostSources(rows, s)
  BY DEF Range, CostSources
<1>4. Parts(mine) = "computed" <=> \E r \in mine : r.costSource = "computed"
  BY DEF Parts
<1>5. CostOf(mine) # None => \E r \in mine : r.cost # None
  BY DEF CostOf
<1> HIDE DEF mine
<1>6. Parts(mine) = "computed" => "computed" \in CostSources(rows, s)
  BY <1>3, <1>4
<1>7. ASSUME CostOf(mine) # None, "reported" \notin CostSources(rows, s)
      PROVE  Parts(mine) = "computed"
  <2>1. PICK r \in mine : r.cost # None
    BY <1>5, <1>7
  <2>2. r.costSource = "computed"
    BY <1>3, <1>7, <2>1, PossibleRows
  <2> QED BY <1>4, <2>2
<1> QED BY <1>1, <1>2, <1>6, <1>7 DEF Marked

LEMMA MarksStep ==
  ASSUME Feed, Form, Marks, [Next]_vars
  PROVE  Marks'
<1>1. \A s : CostSources(rows, s) \subseteq CostSources(rows', s)
  BY TablesGrow DEF CostSources, Extends
<1>2. \A s, totals : Marked(totals, CostSources(rows, s)) => Marked(totals, CostSources(rows', s))
  BY <1>1 DEF Marked
<1>3. CASE Writer \/ UNCHANGED vars
  BY <1>2, <1>3, WritersKeepReaders DEF vars, Marks
<1>4. CASE Ask
  <2>1. request' = [kind |-> "status", next |-> 1, answer |-> NoAnswer]
    BY <1>4 DEF Ask
  <2>2. request'.answer.today = <<>> /\ request'.answer.last_7d = <<>>
    BY <2>1 DEF NoAnswer
  <2> QED BY <2>2 DEF Marks
<1>5. CASE ReadNext
  <2>1. request.kind = "status" /\ rows' = rows
    BY <1>5, ReadNextForm, ReadersOnlyRead DEF Reader
  <2>2. \A s \in DOMAIN request'.answer.today :
          Marked(request'.answer.today[s], CostSources(rows, s))
    <3>1. CASE ReadToday
      <4>1. request'.answer.today = WindowTotals(Today)
        BY <2>1, <3>1, FieldRead DEF ReadToday, Fields
      <4>2. Today \in SUBSET Range(rows)
        BY DEF Today, RowsIn
      <4> QED BY <4>1, <4>2, TotalsMarked DEF Feed
    <3> QED BY <1>5, <2>1, <3>1, ReadNextFields DEF Marks
  <2>3. \A s \in DOMAIN request'.answer.last_7d :
          Marked(request'.answer.last_7d[s], CostSources(rows, s))
    <3>1. CASE ReadWeek
      <4>1. request'.answer.last_7d = WindowTotals(LastWeek)
        BY <2>1, <3>1, FieldRead DEF ReadWeek, Fields
      <4>2. LastWeek \in SUBSET Range(rows)
        BY DEF LastWeek, RowsIn
      <4> QED BY <4>1, <4>2, TotalsMarked DEF Feed
    <3> QED BY <1>5, <2>1, <3>1, ReadNextFields DEF Marks
  <2> QED BY <2>1, <2>2, <2>3 DEF Marks
<1>6. CASE Deliver \/ GiveUp \/ OpenPages \/ ClosePages
  BY <1>6 DEF Deliver, GiveUp, OpenPages, ClosePages, NoRequest, Marks
<1>7. CASE ReadPage
  BY <1>7 DEF ReadPage, Form, Marks
<1> QED BY <1>3, <1>4, <1>5, <1>6, <1>7, ReaderOrWriter DEF Reader

\* What is printed of a cost is one of the two totals of the answer.
LEMMA CostsArePrinted ==
  ASSUME NEW status, NEW text \in CostsPrinted(status)
  PROVE  \E totals \in {status.today, status.last_7d} :
           /\ totals.cost # None /\ text.cost = totals.cost
           /\ text.approximate <=> totals.costSource = "computed"
<1>1. ASSUME NEW totals, NEW stale, text \in CostText(totals, stale)
      PROVE  /\ totals.cost # None /\ text.cost = totals.cost
             /\ text.approximate <=> totals.costSource = "computed"
  <2>1. /\ totals.cost # None
        /\ text = [cost |-> totals.cost, approximate |-> totals.costSource = "computed",
                   unsure |-> stale]
    BY <1>1 DEF CostText
  <2>2. text.cost = totals.cost /\ text.approximate = (totals.costSource = "computed")
    BY <2>1
  <2> QED BY <2>1, <2>2
<1>2. \/ text \in CostText(status.today, FALSE)
      \/ text \in CostText(status.last_7d, FALSE)
      \/ text \in CostText(status.today, AllSourcesStale(status))
  <2>1. CASE \E segment \in FormatLine(<<status>>, clock) : text \in segment.parts.cost
    <3>1. PICK segment \in FormatLine(<<status>>, clock) : text \in segment.parts.cost
      BY <2>1
    <3>2. Range(<<status>>) = {status}
      BY DEF Range
    <3>3. segment = [tag |-> status.subscription, parts |-> SegmentParts(status, clock)]
      BY <3>1, <3>2 DEF FormatLine
    <3>4. text \in SegmentParts(status, clock).cost
      BY <3>1, <3>3
    <3> QED BY <3>4 DEF SegmentParts
  <2>2. Card(status).today = CostText(status.today, FALSE)
        /\ Card(status).last_7d = CostText(status.last_7d, FALSE)
    BY DEF Card
  <2> QED BY <2>1, <2>2 DEF CostsPrinted
<1> QED BY <1>1, <1>2

LEMMA MarksSeen ==
  ASSUME Feed, Marks
  PROVE  ApproximateIsMarked
<1> SUFFICES ASSUME Answered, NEW status \in Range(Answer),
                    NEW text \in CostsPrinted(status)
             PROVE  LET sources == {r.costSource : r \in {q \in Range(rows) :
                                                             q.subscription = status.subscription}}
                    IN  /\ text.approximate => "computed" \in sources
                        /\ text.cost > 0 /\ "reported" \notin sources => text.approximate
  BY DEF ApproximateIsMarked
<1> DEFINE a == request.answer
<1>1. PICK s : status = StatusFor(a, s)
  BY DEF Answer, Range
<1>2. /\ status.subscription = s
      /\ status.today = IF s \in DOMAIN a.today THEN a.today[s] ELSE EmptyTotals
      /\ status.last_7d = IF s \in DOMAIN a.last_7d THEN a.last_7d[s] ELSE EmptyTotals
  BY <1>1 DEF StatusFor
<1>3. {r.costSource : r \in {q \in Range(rows) : q.subscription = s}} = CostSources(rows, s)
  BY DEF Range, CostSources
<1>4. Marked(status.today, CostSources(rows, s)) /\ Marked(status.last_7d, CostSources(rows, s))
  <2>1. Marked(EmptyTotals, CostSources(rows, s))
    BY DEF EmptyTotals, Marked
  <2> QED BY <1>2, <2>1 DEF Marks, Answered
<1>5. PICK totals \in {status.today, status.last_7d} :
        /\ totals.cost # None /\ text.cost = totals.cost
        /\ text.approximate <=> totals.costSource = "computed"
  BY CostsArePrinted
<1>6. text.cost > 0 => totals.cost # 0
  BY <1>5
<1> QED BY <1>2, <1>3, <1>4, <1>5, <1>6 DEF Marked

-----------------------------------------------------------------------------
(* Windows that reset *)

\* What the quota collector read last is cleared.
SeenInv ==
  /\ seen.windows \in Seq(SnapshotRow)
  /\ \A i \in DOMAIN seen.windows :
       seen.windows[i].subscription = "claude" /\ Cleared(seen.windows[i], seen.at)

LastRead(w) == \E i \in DOMAIN seen.windows : seen.windows[i] = w

\* Since the row with id p, the collector has stored nothing but what it read last; the rest
\* of that is in the batch.
StoredSince(p) ==
  /\ \A j \in DOMAIN snapshots : p < j /\ snapshots[j].subscription = "claude" => LastRead(snapshots[j])
  /\ \A w : LastRead(w) => \/ \E j \in DOMAIN snapshots : p < j /\ snapshots[j] = w
                        \/ \E i \in DOMAIN batch.snapshots : batch.snapshots[i] = w

Resets ==
  /\ SeenInv
  /\ \A i \in DOMAIN batch.snapshots :
       batch.snapshots[i].subscription = "claude" => LastRead(batch.snapshots[i])
  /\ \E p \in 0..Len(snapshots) : StoredSince(p)

LEMMA ResetsStep ==
  ASSUME Feed, Resets, [Next]_vars
  PROVE  Resets'
<1>1. PICK p \in 0..Len(snapshots) : StoredSince(p)
  BY DEF Resets
<1>2. PICK n \in Nat : n = Len(snapshots) /\ DOMAIN snapshots = 1..n
  BY DEF Feed, Snapshots
<1>3. CASE UNCHANGED <<seen, batch.snapshots, snapshots>>
  <2>1. StoredSince(p)'
    BY <1>1, <1>3 DEF StoredSince, LastRead
  <2> QED BY <1>1, <1>3, <2>1 DEF Resets, SeenInv, LastRead
<1>4. CASE PollQuota
  <2>1. /\ seen' = [at |-> clock, windows |-> QuotaSnapshots]
        /\ batch' = [usage |-> {}, snapshots |-> QuotaSnapshots, hits |-> {}]
        /\ UNCHANGED <<clock, snapshots>>
    BY <1>4 DEF PollQuota, Stored, tables
  <2>2. SeenInv'
    <3>1. QuotaSnapshots \in Seq(SnapshotRow)
      BY QuotaSnapshotsRead DEF Feed, Snapshots
    <3> QED BY <2>1, <3>1, QuotaSnapshotsRead DEF SeenInv, Feed
  <2>3. StoredSince(n)'
    BY <1>2, <2>1 DEF StoredSince, LastRead
  <2>4. n \in 0..Len(snapshots')
    BY <1>2, <2>1
  <2> QED BY <2>1, <2>2, <2>3, <2>4 DEF Resets, LastRead
<1>5. ASSUME NEW e \in Entries, Collect(e) PROVE Resets'
  <2>1. /\ batch.snapshots = <<>> /\ batch'.snapshots = RateLimits(e)
        /\ UNCHANGED <<seen, snapshots>>
    BY <1>5 DEF Collect, Stored, tables
  <2>2. \A i \in DOMAIN RateLimits(e) : RateLimits(e)[i].subscription # "claude"
    BY RateLimitsOfEntry
  <2>3. StoredSince(p)'
    BY <1>1, <2>1 DEF StoredSince, LastRead
  <2> QED BY <1>1, <2>1, <2>2, <2>3 DEF Resets, SeenInv
<1>6. CASE InsertSnapshot
  <2> DEFINE ss == batch.snapshots
             tt == batch'.snapshots
  <2>1. /\ Extends(snapshots', snapshots) /\ Len(snapshots') = n + 1 /\ snapshots'[n + 1] = ss[1]
        /\ \A i \in DOMAIN tt : i + 1 \in DOMAIN ss /\ tt[i] = ss[i + 1]
        /\ \A i \in DOMAIN ss : i = 1 \/ (i - 1 \in DOMAIN tt /\ tt[i - 1] = ss[i])
        /\ DOMAIN snapshots' = 1..(n + 1)
    <3>1. snapshots' \in Seq(SnapshotRow)
      BY <1>6, SnapshotsGrow DEF Snapshots
    <3> QED BY <1>2, <1>6, <3>1, SnapshotsGrow
  <2>2. seen' = seen /\ 1 \in DOMAIN ss
    <3>1. ss \in Seq(SnapshotRow) /\ ss # <<>>
      BY <1>6 DEF InsertSnapshot, Feed, BatchInv, Snapshots
    <3> HIDE DEF ss
    <3> QED BY <1>6, <3>1 DEF InsertSnapshot
  <2>3. \A w : LastRead(w)' <=> LastRead(w)
    BY <2>2 DEF LastRead
  <2>4. \A j \in 1..n : snapshots'[j] = snapshots[j]
    BY <1>2, <2>1 DEF Extends
  <2>5. ASSUME NEW j \in 1..(n + 1), p < j, snapshots'[j].subscription = "claude"
        PROVE  LastRead(snapshots'[j])
    <3>1. CASE j = n + 1
      BY <2>1, <2>2, <2>5, <3>1 DEF Resets
    <3>2. CASE j \in 1..n
      BY <1>1, <1>2, <2>4, <2>5, <3>2 DEF StoredSince
    <3> QED BY <1>2, <2>5, <3>1, <3>2
  <2>6. ASSUME NEW w, LastRead(w)
        PROVE  \/ \E j \in 1..(n + 1) : p < j /\ snapshots'[j] = w
               \/ \E i \in DOMAIN tt : tt[i] = w
    <3>1. CASE \E j \in 1..n : p < j /\ snapshots[j] = w
      BY <2>4, <3>1
    <3>2. ASSUME NEW i \in DOMAIN ss, ss[i] = w
          PROVE  \/ \E j \in 1..(n + 1) : p < j /\ snapshots'[j] = w
                 \/ \E k \in DOMAIN tt : tt[k] = w
      <4>1. CASE i = 1
        <5>1. n + 1 \in 1..(n + 1) /\ p < n + 1
          BY <1>1, <1>2
        <5> QED BY <2>1, <3>2, <4>1, <5>1
      <4>2. CASE i # 1
        BY <2>1, <3>2, <4>2
      <4> QED BY <4>1, <4>2
    <3> QED BY <1>1, <1>2, <2>6, <3>1, <3>2 DEF StoredSince
  <2>7. StoredSince(p)'
    BY <2>1, <2>3, <2>5, <2>6 DEF StoredSince
  <2>8. p \in 0..Len(snapshots')
    BY <1>1, <1>2, <2>1
  <2>9. \A i \in DOMAIN tt : tt[i].subscription = "claude" => LastRead(tt[i])
    BY <2>1 DEF Resets
  <2>10. SeenInv'
    BY <2>2 DEF SeenInv, Resets
  <2> QED BY <2>3, <2>7, <2>8, <2>9, <2>10 DEF Resets
<1>7. CASE WriteStatus \/ RemoveStatus \/ WriteCache \/ Tick
  BY <1>3, <1>7 DEF WriteStatus, RemoveStatus, WriteCache, Tick, tables
<1>8. CASE InsertUsage \/ InsertHit
  <2>1. batch'.snapshots = batch.snapshots
    BY <1>8 DEF InsertUsage, InsertHit, Stored, Feed, BatchInv
  <2> QED BY <1>3, <1>8, <2>1 DEF InsertUsage, InsertHit
<1>9. CASE Reader \/ UNCHANGED vars
  BY <1>3, <1>9, ReadersOnlyRead
<1> QED BY <1>4, <1>5, <1>6, <1>7, <1>8, <1>9, ReaderOrWriter DEF Writer

LEMMA ResetsSeen ==
  ASSUME Feed, Resets
  PROVE  ResetClearsPercentage
<1> SUFFICES ASSUME batch = Stored, NEW w \in LatestQuota("claude"),
                    w.resets # None, w.resets <= seen.at,
                    NEW i \in 1..Len(seen.windows), seen.windows[i].window = w.window,
                    w.observed <= seen.windows[i].observed
             PROVE  w.used = None
  BY DEF ResetClearsPercentage
<1> DEFINE v == seen.windows[i]
<1>1. PICK p \in 0..Len(snapshots) : StoredSince(p)
  BY DEF Resets
<1>2. PICK n \in Nat : n = Len(snapshots) /\ DOMAIN snapshots = 1..n
  BY DEF Feed, Snapshots
<1>3. PICK k \in 1..n : /\ w = snapshots[k] /\ w.subscription = "claude"
                        /\ \A j \in 1..n : /\ snapshots[j].subscription = "claude"
                                           /\ snapshots[j].window = w.window
                                           => Newer(k, j)
  BY <1>2 DEF LatestQuota
<1>4. i \in DOMAIN seen.windows /\ v \in SnapshotRow
  BY DEF Resets, SeenInv
<1>5. LastRead(v) /\ v.subscription = "claude"
  BY <1>4 DEF LastRead, Resets, SeenInv
<1>6. PICK m \in 1..n : p < m /\ snapshots[m] = v
  BY <1>1, <1>2, <1>5 DEF StoredSince, Stored
<1>7. Newer(k, m)
  BY <1>3, <1>5, <1>6
<1>8. v.observed \in Int /\ w.observed \in Int
  <2>1. w \in SnapshotRow
    BY <1>2, <1>3 DEF Feed, Snapshots
  <2> QED BY <1>4, <2>1 DEF SnapshotRow
<1>9. p < k
  BY <1>1, <1>2, <1>3, <1>6, <1>7, <1>8 DEF Newer
<1>10. LastRead(w)
  BY <1>1, <1>2, <1>3, <1>9 DEF StoredSince
<1> QED BY <1>10 DEF LastRead, Resets, SeenInv, Cleared

-----------------------------------------------------------------------------
(* The order of what is shown *)

\* A snapshot of the subscription was at least as new as a window of a label.
Backed(t, s, label, observed) ==
  \E i \in DOMAIN t : /\ t[i].subscription = s /\ Label(t[i].window) = label
                      /\ observed <= t[i].observed

AllBacked(windows, t, s) ==
  \A v \in windows : v.observed \in Int /\ Backed(t, s, Label(v.window), v.observed)

\* What a request has read is not behind what was shown.
NotBehind(printed, windows) ==
  \A w \in printed : \E v \in windows : Label(v.window) = w.label /\ w.observed <= v.observed

\* Every subscription of the answer has its quota by the end.
QuotaRead(next, answer) ==
  /\ next > 6 => "claude" \in DOMAIN answer.quota
  /\ next > 8 => "chatgpt" \in DOMAIN answer.quota
  /\ next > 10 => "opencode-go" \in DOMAIN answer.quota
  /\ answer.listed \in {{"claude", "chatgpt", "opencode-go"}, Range(Subscriptions)}
  /\ "other" \in answer.listed => next = 13 \/ "other" \in DOMAIN answer.quota

Shown ==
  /\ \A s \in DOMAIN shown : \A w \in shown[s] :
       w.label # None /\ w.observed \in Int /\ Backed(snapshots, s, w.label, w.observed)
  /\ request.kind = "status" =>
       /\ QuotaRead(request.next, request.answer)
       /\ \A s \in DOMAIN request.answer.quota :
            /\ AllBacked(request.answer.quota[s], snapshots, s)
            /\ s \in DOMAIN shown => NotBehind(shown[s], request.answer.quota[s])

LEMMA BackedGrows ==
  ASSUME NEW t, NEW u, Extends(u, t), NEW s, NEW label, NEW observed, Backed(t, s, label, observed)
  PROVE  Backed(u, s, label, observed)
BY DEF Backed, Extends

\* The newest row of a window is found.
LEMMA NewestFound ==
  ASSUME Snapshots(snapshots, clock), clock \in Int, NEW i \in DOMAIN snapshots
  PROVE  \E w \in LatestQuota(snapshots[i].subscription) :
           w.window = snapshots[i].window /\ snapshots[i].observed <= w.observed
<1>1. PICK n \in Nat : n = Len(snapshots) /\ DOMAIN snapshots = 1..n
  BY DEF Snapshots
<1> DEFINE s == snapshots[i].subscription
           same == {j \in 1..n : snapshots[j].subscription = s /\ snapshots[j].window = snapshots[i].window}
<1>2. \A j \in 1..n : snapshots[j].observed \in Int /\ snapshots[j].observed <= clock
  <2> SUFFICES ASSUME NEW j \in 1..n
               PROVE  snapshots[j].observed \in Int /\ snapshots[j].observed <= clock
    OBVIOUS
  <2>1. snapshots[j] \in SnapshotRow /\ snapshots[j].observed <= clock
    BY <1>1 DEF Snapshots
  <2> QED BY <2>1 DEF SnapshotRow
<1>3. PICK m \in same : \A j \in same : snapshots[j].observed <= snapshots[m].observed
  <2> DEFINE age == {clock - snapshots[j].observed : j \in same}
  <2>1. age \subseteq Nat /\ age # {}
    <3>1. \A j \in same : clock - snapshots[j].observed \in Nat
      BY <1>2
    <3>2. i \in same
      BY <1>1
    <3> HIDE DEF same
    <3> QED BY <3>1, <3>2
  <2>2. PICK a \in age : \A b \in age : a <= b
    <3> HIDE DEF age
    <3> QED BY <2>1, LeastExists
  <2>3. PICK m \in same : a = clock - snapshots[m].observed
    OBVIOUS
  <2>4. ASSUME NEW j \in same PROVE snapshots[j].observed <= snapshots[m].observed
    <3>1. a <= clock - snapshots[j].observed
      BY <2>2
    <3> QED BY <1>2, <2>3, <3>1
  <2> QED BY <2>4
<1> DEFINE top == {j \in same : snapshots[j].observed = snapshots[m].observed}
<1>4. PICK k \in top : \A j \in top : j <= k
  <2>1. top \subseteq 0..n /\ top # {}
    OBVIOUS
  <2> HIDE DEF top
  <2> QED BY <2>1, LargestExists
<1>5. ASSUME NEW j \in 1..n, snapshots[j].subscription = s, snapshots[j].window = snapshots[k].window
      PROVE  Newer(k, j)
  <2>1. j \in same
    BY <1>5
  <2>2. snapshots[j].observed <= snapshots[k].observed
    BY <1>3, <2>1
  <2>3. snapshots[j].observed = snapshots[k].observed => j <= k
    BY <1>4, <2>1
  <2> QED BY <1>2, <2>2, <2>3 DEF Newer
<1>6. snapshots[k] \in LatestQuota(s)
  BY <1>1, <1>5 DEF LatestQuota
<1> QED BY <1>1, <1>3, <1>6

LEMMA QuotaIsRead ==
  ASSUME Feed, NEW s
  PROVE  /\ AllBacked(QuotaWindows(s), snapshots, s)
         /\ \A label, observed :
              observed \in Int /\ Backed(snapshots, s, label, observed) =>
                \E v \in QuotaWindows(s) : Label(v.window) = label /\ observed <= v.observed
<1>1. \A w \in LatestQuota(s) : \E i \in DOMAIN snapshots : w = snapshots[i] /\ w.subscription = s
  BY DEF LatestQuota, Feed, Snapshots
<1>2. \A i \in DOMAIN snapshots : snapshots[i].observed \in Int
  <2> SUFFICES ASSUME NEW i \in DOMAIN snapshots PROVE snapshots[i].observed \in Int
    OBVIOUS
  <2>1. snapshots[i] \in SnapshotRow
    BY DEF Feed, Snapshots
  <2> QED BY <2>1 DEF SnapshotRow
<1>3. \A v \in QuotaWindows(s) :
        \E w \in LatestQuota(s) : v.window = w.window /\ v.observed = w.observed
  BY DEF QuotaWindows
<1>4. \A w \in LatestQuota(s) :
        \E v \in QuotaWindows(s) : v.window = w.window /\ v.observed = w.observed
  <2> SUFFICES ASSUME NEW w \in LatestQuota(s)
               PROVE  \E v \in QuotaWindows(s) : v.window = w.window /\ v.observed = w.observed
    OBVIOUS
  <2> DEFINE v == [window |-> w.window, used |-> w.used, resets |-> w.resets,
                   observed |-> w.observed, stale |-> IsStale(w.observed),
                   expired |-> w.resets # None /\ w.resets < clock]
  <2>1. v \in QuotaWindows(s)
    BY DEF QuotaWindows
  <2>2. v.window = w.window /\ v.observed = w.observed
    OBVIOUS
  <2> HIDE DEF v
  <2> QED BY <2>1, <2>2
<1>5. AllBacked(QuotaWindows(s), snapshots, s)
  <2> SUFFICES ASSUME NEW v \in QuotaWindows(s)
               PROVE  v.observed \in Int /\ Backed(snapshots, s, Label(v.window), v.observed)
    BY DEF AllBacked
  <2>1. PICK i \in DOMAIN snapshots : /\ snapshots[i].subscription = s
                                      /\ v.window = snapshots[i].window
                                      /\ v.observed = snapshots[i].observed
    BY <1>1, <1>3
  <2>2. v.observed \in Int /\ v.observed <= snapshots[i].observed
    BY <1>2, <2>1
  <2> QED BY <2>1, <2>2 DEF Backed
<1>6. ASSUME NEW label, NEW observed \in Int, Backed(snapshots, s, label, observed)
      PROVE  \E v \in QuotaWindows(s) : Label(v.window) = label /\ observed <= v.observed
  <2>1. PICK i \in DOMAIN snapshots : /\ snapshots[i].subscription = s
                                      /\ Label(snapshots[i].window) = label
                                      /\ observed <= snapshots[i].observed
    BY <1>6 DEF Backed
  <2>2. PICK w \in LatestQuota(s) : w.window = snapshots[i].window /\ snapshots[i].observed <= w.observed
    BY <2>1, NewestFound DEF Feed, FilesInv
  <2>3. w.observed \in Int /\ snapshots[i].observed \in Int
    BY <1>1, <1>2
  <2>4. observed <= w.observed
    BY <2>1, <2>2, <2>3
  <2> QED BY <1>4, <2>1, <2>2, <2>4
<1> QED BY <1>5, <1>6

LEMMA QuotaReadStep ==
  ASSUME Form, request.kind = "status", QuotaRead(request.next, request.answer), ReadNext
  PROVE  QuotaRead(request'.next, request'.answer)
<1>1. request.next \in 1..14 /\ request'.next \in {request.next + 1, 15}
  BY ReadNextForm
<1>2. CASE FindOther
  <2>1. request.next = 12
    BY <1>1, <1>2, StepsInOrder DEF FindOther, At
  <2>2. request'.answer.quota = request.answer.quota
    <3>1. CASE Read("listed", request.answer.listed \union {"other"})
      BY <3>1, FieldRead DEF Fields
    <3>2. CASE request' = [request EXCEPT !.next = Len(Steps) + 1]
      BY <3>2 DEF Form
    <3> QED BY <1>2, <3>1, <3>2 DEF FindOther
  <2>3. CASE Read("listed", request.answer.listed \union {"other"})
    <3>1. request'.next = 13 /\ request'.answer.listed = request.answer.listed \union {"other"}
      <4>1. "listed" \in Fields
        BY DEF Fields
      <4> DEFINE value == request.answer.listed \union {"other"}
      <4>2. Read("listed", value)
        BY <2>3
      <4> HIDE DEF value
      <4>3. request'.next = request.next + 1 /\ request'.answer.listed = value
        BY <4>1, <4>2, FieldRead
      <4> QED BY <2>1, <4>3 DEF value
    <3>2. request.answer.listed \union {"other"} = Range(Subscriptions)
      <4>1. Range(Subscriptions) = {"claude", "chatgpt", "opencode-go", "other"}
        BY DEF Range, Subscriptions
      <4> QED BY <4>1 DEF QuotaRead
    <3> QED BY <2>1, <2>2, <3>1, <3>2 DEF QuotaRead
  <2>4. CASE request' = [request EXCEPT !.next = Len(Steps) + 1]
    <3>1. request'.answer = request.answer
      BY <2>4 DEF Form
    <3>2. request.next > 10 /\ request.next # 13
      BY <2>1
    <3> QED BY <2>1, <3>1, <3>2 DEF QuotaRead
  <2> QED BY <1>2, <2>3, <2>4 DEF FindOther
<1>3. ASSUME NEW s \in Range(Subscriptions), ReadQuota(s)
      PROVE  QuotaRead(request'.next, request'.answer)
  <2>1. /\ request'.next = request.next + 1 /\ request'.answer.listed = request.answer.listed
        /\ request'.answer.quota = With(request.answer.quota, s, QuotaWindows(s))
    BY <1>3, FieldRead DEF ReadQuota, Fields
  <2>2. DOMAIN request'.answer.quota = DOMAIN request.answer.quota \union {s}
    BY <2>1 DEF With
  <2>3. Steps[request.next] = <<"quota", s>>
    BY <1>3 DEF ReadQuota, At
  <2>4. /\ request.next = 6 => s = "claude"
        /\ request.next = 8 => s = "chatgpt"
        /\ request.next = 10 => s = "opencode-go"
        /\ request.next = 13 => s = "other"
        /\ request.next # 12
    BY <2>3, StepsInOrder
  <2> QED BY <1>1, <2>1, <2>2, <2>4 DEF QuotaRead
<1>4. ASSUME ReadNext, ~ FindOther, ~ \E s \in Range(Subscriptions) : ReadQuota(s)
      PROVE  QuotaRead(request'.next, request'.answer)
  <2>1. request'.answer.quota = request.answer.quota /\ request'.answer.listed = request.answer.listed
    BY <1>4, ReadNextFields
  <2>2. request.next \notin {6, 8, 10, 12, 13} /\ request'.next = request.next + 1
    <3>1. ASSUME NEW field \in Fields, NEW value, Read(field, value)
          PROVE  request'.next = request.next + 1
      BY <3>1, FieldRead
    <3>2. CASE ReadToday \/ ReadWeek \/ ReadTools \/ ReadUsageUpdates \/ ReadSnapshotUpdates
      <4>1. request.next \in 1..5
        BY <1>1, <3>2, StepsInOrder DEF ReadToday, ReadWeek, ReadTools, ReadUsageUpdates,
           ReadSnapshotUpdates, At
      <4>2. request'.next = request.next + 1
        BY <3>1, <3>2 DEF ReadToday, ReadWeek, ReadTools, ReadUsageUpdates,
           ReadSnapshotUpdates, Fields
      <4> QED BY <4>1, <4>2
    <3>3. ASSUME NEW s, ReadHit(s)
          PROVE  request.next \notin {6, 8, 10, 12, 13} /\ request'.next = request.next + 1
      <4>1. Steps[request.next] = <<"hit", s>>
        BY <3>3 DEF ReadHit, At
      <4>2. request.next \notin {6, 8, 10, 12, 13}
        BY <4>1, StepsInOrder
      <4>3. request'.next = request.next + 1
        BY <3>1, <3>3 DEF ReadHit, Fields
      <4> QED BY <4>2, <4>3
    <3> QED BY <1>4, <3>2, <3>3 DEF ReadNext
  <2> QED BY <1>1, <2>1, <2>2 DEF QuotaRead
<1> QED BY <1>2, <1>3, <1>4

LEMMA ShownStep ==
  ASSUME Feed, Form, Shown, [Next]_vars
  PROVE  Shown'
<1>1. \A s, label, observed :
        Backed(snapshots, s, label, observed) => Backed(snapshots', s, label, observed)
  BY TablesGrow, BackedGrows
<1>2. \A s \in DOMAIN shown : \A w \in shown[s] :
        w.label # None /\ w.observed \in Int /\ Backed(snapshots', s, w.label, w.observed)
  BY <1>1 DEF Shown
<1>3. \A windows, s : AllBacked(windows, snapshots, s) => AllBacked(windows, snapshots', s)
  BY <1>1 DEF AllBacked
<1>4. CASE Writer \/ UNCHANGED vars
  BY <1>2, <1>3, <1>4, WritersKeepReaders DEF vars, Shown
<1>5. CASE ReadNext
  <2>1. /\ request.kind = "status" /\ shown' = shown /\ snapshots' = snapshots
    BY <1>5, ReadNextForm, ReadersOnlyRead DEF Reader, ReadNext, At, ReadToday, ReadWeek,
       ReadTools, ReadUsageUpdates, ReadSnapshotUpdates, ReadQuota, ReadHit, FindOther
  <2>2. QuotaRead(request'.next, request'.answer)
    BY <1>5, <2>1, QuotaReadStep DEF Shown
  <2>3. ASSUME NEW s \in DOMAIN request'.answer.quota
        PROVE  /\ AllBacked(request'.answer.quota[s], snapshots, s)
               /\ s \in DOMAIN shown => NotBehind(shown[s], request'.answer.quota[s])
    <3>1. CASE request'.answer.quota = request.answer.quota
      BY <2>1, <2>3, <3>1 DEF Shown
    <3>2. ASSUME NEW q \in Range(Subscriptions), ReadQuota(q)
          PROVE  /\ AllBacked(request'.answer.quota[s], snapshots, s)
                 /\ s \in DOMAIN shown => NotBehind(shown[s], request'.answer.quota[s])
      <4>1. request'.answer.quota = With(request.answer.quota, q, QuotaWindows(q))
        BY <2>1, <3>2, FieldRead DEF ReadQuota, Fields
      <4>2. CASE s # q
        <5>1. s \in DOMAIN request.answer.quota
              /\ request'.answer.quota[s] = request.answer.quota[s]
          BY <2>3, <4>1, <4>2 DEF With
        <5> QED BY <2>1, <5>1 DEF Shown
      <4>3. CASE s = q
        <5>1. request'.answer.quota[s] = QuotaWindows(s)
          BY <4>1, <4>3 DEF With
        <5>2. AllBacked(QuotaWindows(s), snapshots, s)
          BY QuotaIsRead
        <5>3. ASSUME s \in DOMAIN shown, NEW w \in shown[s]
              PROVE  \E v \in QuotaWindows(s) : Label(v.window) = w.label /\ w.observed <= v.observed
          <6>1. w.observed \in Int /\ Backed(snapshots, s, w.label, w.observed)
            BY <5>3 DEF Shown
          <6> QED BY <6>1, QuotaIsRead
        <5> QED BY <5>1, <5>2, <5>3 DEF NotBehind
      <4> QED BY <4>2, <4>3
    <3> QED BY <1>5, <3>1, <3>2, ReadNextFields
  <2> QED BY <1>2, <2>1, <2>2, <2>3 DEF Shown
<1>6. CASE Ask
  <2>1. /\ request' = [kind |-> "status", next |-> 1, answer |-> NoAnswer]
        /\ UNCHANGED <<snapshots, shown>>
    BY <1>6 DEF Ask, tables
  <2>2. request'.answer.quota = <<>> /\ request'.next = 1
        /\ request'.answer.listed = {"claude", "chatgpt", "opencode-go"}
    BY <2>1 DEF NoAnswer
  <2> QED BY <1>2, <2>1, <2>2 DEF Shown, QuotaRead
<1>7. CASE Deliver
  <2>1. /\ request.kind = "status" /\ request.next > 14 /\ request'.kind = "none"
        /\ UNCHANGED snapshots
    BY <1>7, StepsInOrder DEF Deliver, Answered, NoRequest, tables
  <2>2. shown' = [s \in request.answer.listed |->
                    {[label |-> Label(w.window), observed |-> w.observed] :
                       w \in LabelledWindows(request.answer.quota[s])}]
    BY <1>7 DEF Deliver
  <2>3. ASSUME NEW s \in DOMAIN shown', NEW w \in shown'[s]
        PROVE  w.label # None /\ w.observed \in Int /\ Backed(snapshots, s, w.label, w.observed)
    <3>1. s \in DOMAIN request.answer.quota
      <4>1. Range(Subscriptions) = {"claude", "chatgpt", "opencode-go", "other"}
        BY DEF Range, Subscriptions
      <4>2. request.next \in Int
        BY <2>1 DEF Form
      <4>3. QuotaRead(request.next, request.answer)
        BY <2>1 DEF Shown
      <4>4. request.next > 6 /\ request.next > 8 /\ request.next > 10 /\ request.next # 13
        BY <2>1, <4>2
      <4> QED BY <2>2, <2>3, <4>1, <4>3, <4>4 DEF QuotaRead
    <3>2. PICK v \in LabelledWindows(request.answer.quota[s]) :
            w = [label |-> Label(v.window), observed |-> v.observed]
      BY <2>2, <2>3
    <3>3. v \in request.answer.quota[s] /\ Label(v.window) # None
      BY <3>2 DEF LabelledWindows
    <3>4. v.observed \in Int /\ Backed(snapshots, s, Label(v.window), v.observed)
      BY <2>1, <3>1, <3>3 DEF Shown, AllBacked
    <3> QED BY <3>2, <3>3, <3>4
  <2> QED BY <2>1, <2>3 DEF Shown
<1>8. CASE GiveUp \/ OpenPages \/ ClosePages
  BY <1>2, <1>8 DEF GiveUp, OpenPages, ClosePages, NoRequest, Shown, tables
<1>9. CASE ReadPage
  BY <1>2, <1>9 DEF ReadPage, Form, Shown, tables
<1> QED BY <1>4, <1>5, <1>6, <1>7, <1>8, <1>9, ReaderOrWriter DEF Reader

\* One of the windows with a label is the newest of them.
LEMMA LabelledFound ==
  ASSUME Feed, NEW s, NEW windows, AllBacked(windows, snapshots, s),
         NEW v \in windows, Label(v.window) # None
  PROVE  \E u \in LabelledWindows(windows) :
           Label(u.window) = Label(v.window) /\ v.observed <= u.observed
<1> DEFINE same == {u \in windows : Label(u.window) = Label(v.window)}
           age == {clock - u.observed : u \in same}
<1>1. \A u \in windows : u.observed \in Int /\ clock - u.observed \in Nat
  <2> SUFFICES ASSUME NEW u \in windows PROVE u.observed \in Int /\ clock - u.observed \in Nat
    OBVIOUS
  <2>1. u.observed \in Int /\ Backed(snapshots, s, Label(u.window), u.observed)
    BY DEF AllBacked
  <2>2. PICK i \in DOMAIN snapshots : u.observed <= snapshots[i].observed
    BY <2>1 DEF Backed
  <2>3. snapshots[i] \in SnapshotRow /\ snapshots[i].observed <= clock /\ clock \in Int
    BY DEF Feed, FilesInv, Snapshots
  <2>4. snapshots[i].observed \in Int
    BY <2>3 DEF SnapshotRow
  <2> QED BY <2>1, <2>2, <2>3, <2>4
<1>2. age \subseteq Nat /\ age # {}
  <2>1. v \in same /\ \A u \in same : clock - u.observed \in Nat
    BY <1>1
  <2> HIDE DEF same
  <2> QED BY <2>1
<1>3. PICK a \in age : \A b \in age : a <= b
  <2> HIDE DEF age
  <2> QED BY <1>2, LeastExists
<1>4. PICK u \in same : a = clock - u.observed
  OBVIOUS
<1>5. ASSUME NEW x \in same PROVE x.observed <= u.observed
  <2>1. a <= clock - x.observed
    BY <1>3
  <2>2. clock \in Int
    BY DEF Feed, FilesInv
  <2> QED BY <1>1, <1>4, <2>1, <2>2
<1>6. u \in LabelledWindows(windows)
  BY <1>5 DEF LabelledWindows
<1> QED BY <1>5, <1>6

LEMMA OrderKept ==
  ASSUME Feed, Form, Shown, Deliver
  PROVE  \A s \in DOMAIN shown : \A w \in shown[s] :
           s \in DOMAIN shown' /\ \E v \in shown'[s] : v.label = w.label /\ w.observed <= v.observed
<1> SUFFICES ASSUME NEW s \in DOMAIN shown, NEW w \in shown[s]
             PROVE  /\ s \in DOMAIN shown'
                    /\ \E v \in shown'[s] : v.label = w.label /\ w.observed <= v.observed
  OBVIOUS
<1> DEFINE quota == request.answer.quota
<1>1. w.label # None /\ w.observed \in Int /\ Backed(snapshots, s, w.label, w.observed)
  BY DEF Shown
<1>2. s \in {"claude", "chatgpt"}
  <2>1. PICK i \in DOMAIN snapshots : snapshots[i].subscription = s
    BY <1>1 DEF Backed
  <2>2. snapshots[i] \in SnapshotRow
    BY DEF Feed, Snapshots
  <2> QED BY <2>1, <2>2 DEF SnapshotRow
<1>3. request.kind = "status" /\ request.next > 14
  BY StepsInOrder DEF Deliver, Answered
<1>4. request.next > 6 /\ request.next > 8
  BY <1>3 DEF Form
<1>5. Range(Subscriptions) = {"claude", "chatgpt", "opencode-go", "other"}
  BY DEF Range, Subscriptions
<1>6. s \in request.answer.listed /\ s \in DOMAIN quota
  BY <1>2, <1>3, <1>4, <1>5 DEF Shown, QuotaRead
<1>7. AllBacked(quota[s], snapshots, s) /\ NotBehind(shown[s], quota[s])
  BY <1>3, <1>6 DEF Shown
<1>8. PICK v \in quota[s] : Label(v.window) = w.label /\ w.observed <= v.observed
  BY <1>7 DEF NotBehind
<1>9. PICK u \in LabelledWindows(quota[s]) :
        Label(u.window) = Label(v.window) /\ v.observed <= u.observed
  BY <1>1, <1>7, <1>8, LabelledFound
<1>10. v.observed \in Int /\ u.observed \in Int
  BY <1>7, <1>8, <1>9 DEF AllBacked, LabelledWindows
<1> DEFINE printed == {[label |-> Label(x.window), observed |-> x.observed] :
                         x \in LabelledWindows(quota[s])}
<1>11. s \in DOMAIN shown' /\ shown'[s] = printed
  BY <1>6 DEF Deliver
<1>12. [label |-> Label(u.window), observed |-> u.observed] \in printed
  BY <1>9
<1>13. w.observed <= u.observed
  BY <1>1, <1>8, <1>9, <1>10
<1> HIDE DEF printed, quota
<1> QED BY <1>8, <1>9, <1>11, <1>12, <1>13

-----------------------------------------------------------------------------
(* Totals *)

\* What an answer says of a subscription's tokens, and its tools together.
TokensIn(totals, s) == (IF s \in DOMAIN totals THEN totals[s] ELSE EmptyTotals).tokens

ToolsOf(by_tool, s) ==
  {[provider |-> n[2], source |-> n[3], totals |-> by_tool[n]] : n \in {m \in DOMAIN by_tool : m[1] = s}}

ToolTokens(by_tool, s) == SumFunction([tool \in ToolsOf(by_tool, s) |-> tool.totals.tokens])

Of(some, s) == {r \in some : r.subscription = s}

\* Totals of rows, or of fewer than these.
Within(totals, some) ==
  \A s \in DOMAIN totals : /\ totals[s].tokens \in Nat /\ Of(some, s) # {}
                           /\ totals[s].tokens <= TokensOf(Of(some, s))

\* What a request has read when it is at a step: all it reads later has grown since.
NestedAt(next, a, today, week, all) ==
  /\ next > 1 => Within(a.today, today)
  /\ next > 2 => Within(a.last_7d, week) /\ \A s : TokensIn(a.today, s) <= TokensIn(a.last_7d, s)
  /\ next > 3 => /\ \A s : TokensIn(a.last_7d, s) <= ToolTokens(a.by_tool, s)
                 /\ \A n \in DOMAIN a.by_tool : \E r \in all : r.subscription = n[1] /\ r.source = n[3]
  /\ next > 4 => \A n \in DOMAIN a.by_tool : <<n[1], n[3]>> \in DOMAIN a.updates

Nest ==
  request.kind = "status" => NestedAt(request.next, request.answer, Today, LastWeek, Range(rows))

\* A week that begins at a midnight, whenever a request is answered: local_day_start lets the
\* week begin now if the day six days ago had none.
WeekHasMidnight == \A now \in Start..End : (now + UtcOffset) \div Day - 6 \notin GapDays

LEMMA RowsFinite ==
  ASSUME NEW t \in Seq(Possible)
  PROVE  IsFiniteSet(Range(t)) /\ Range(t) \subseteq Possible
<1>1. PICK n \in Nat : n = Len(t) /\ DOMAIN t = 1..n
  OBVIOUS
<1>2. IsFiniteSet(1..n)
  BY FS_Interval
<1>3. t \in Surjection(1..n, Range(t))
  BY <1>1 DEF Surjection, Range
<1>4. IsFiniteSet(Range(t))
  BY <1>2, <1>3, FS_Surjection
<1> QED BY <1>1, <1>4 DEF Range

LEMMA TokensGrow ==
  ASSUME NEW U, IsFiniteSet(U), U \subseteq Possible, NEW T \in SUBSET U
  PROVE  TokensOf(T) \in Nat /\ TokensOf(U) \in Nat /\ TokensOf(T) <= TokensOf(U)
<1> DEFINE f == [r \in U |-> r.tokens]
<1>1. f \in [U -> Nat]
  BY PossibleRows
<1>2. [r \in T |-> r.tokens] = Part(f, T)
  BY DEF Part
<1>3. TokensOf(U) = SumFunction(f) /\ TokensOf(T) = SumFunction(Part(f, T))
  BY <1>2 DEF TokensOf
<1> HIDE DEF f
<1> QED BY <1>1, <1>3, SumOfPart, SumOfAll, PartIsLess

\* The tools of a subscription have its tokens among them.
LEMMA TokensByTool ==
  ASSUME NEW W, IsFiniteSet(W), W \subseteq Possible, NEW s
  PROVE  ToolTokens(ToolBreakdown(W), s) = TokensOf(Of(W, s))
<1> DEFINE by == ToolBreakdown(W)
           tool(r) == <<r.subscription, r.provider, r.source>>
           named(r) == [provider |-> r.provider, source |-> r.source, totals |-> by[tool(r)]]
           mine == Of(W, s)
           f == [r \in mine |-> r.tokens]
           K == ToolsOf(by, s)
           key == [r \in mine |-> named(r)]
<1>1. mine \subseteq W /\ IsFiniteSet(mine) /\ f \in [mine -> Nat]
  <2>1. mine \in SUBSET W
    BY DEF Of
  <2>2. IsFiniteSet(mine)
    BY <2>1, FS_Subset
  <2>3. \A r \in mine : r.tokens \in Nat
    BY <2>1, PossibleRows
  <2> QED BY <2>1, <2>2, <2>3
<1>2. DOMAIN by = {tool(r) : r \in W}
  BY DEF ToolBreakdown
<1>3. \A r \in W : by[tool(r)].tokens = TokensOf({x \in W : tool(x) = tool(r)})
  BY DEF ToolBreakdown, TokenTotals
<1>4. \A r \in W : r \in mine <=> r.subscription = s
  BY DEF Of
<1>5. \A r \in W : tool(r)[1] = r.subscription /\ tool(r)[2] = r.provider /\ tool(r)[3] = r.source
  OBVIOUS
<1> HIDE DEF by, mine
<1>6. K = {named(r) : r \in mine}
  <2>1. ASSUME NEW r \in mine PROVE named(r) \in K
    <3>1. r \in W /\ tool(r) \in {m \in DOMAIN by : m[1] = s}
      BY <1>1, <1>2, <1>4, <1>5
    <3> QED BY <1>5, <3>1 DEF ToolsOf
  <2>2. ASSUME NEW k \in K PROVE k \in {named(r) : r \in mine}
    <3>1. PICK n \in DOMAIN by :
            n[1] = s /\ k = [provider |-> n[2], source |-> n[3], totals |-> by[n]]
      BY DEF ToolsOf
    <3>2. PICK r \in W : n = tool(r)
      BY <1>2
    <3> QED BY <1>4, <1>5, <3>1, <3>2
  <2> HIDE DEF K, named
  <2> QED BY <2>1, <2>2
<1>7. IsFiniteSet(K) /\ key \in [mine -> K]
  <2>1. key \in Surjection(mine, K)
    <3> HIDE DEF named, K
    <3> QED BY <1>6 DEF Surjection
  <2> HIDE DEF key, K
  <2> QED BY <1>1, <2>1, FS_Surjection DEF Surjection
<1>8. ASSUME NEW k \in K
      PROVE  k.totals.tokens = SumFunction(Part(f, {x \in mine : key[x] = k}))
  <2> DEFINE group == {x \in mine : key[x] = k}
  <2>1. PICK r \in mine : k = named(r)
    BY <1>6
  <2>2. group = {x \in W : tool(x) = tool(r)}
    <3>1. ASSUME NEW x \in mine, named(x) = named(r) PROVE tool(x) = tool(r)
      <4>1. x.provider = r.provider /\ x.source = r.source
        BY <3>1
      <4>2. x.subscription = s /\ r.subscription = s
        BY <1>1, <1>4
      <4> QED BY <4>1, <4>2
    <3>2. ASSUME NEW x \in W, tool(x) = tool(r) PROVE x \in mine /\ named(x) = named(r)
      <4>1. x.subscription = r.subscription /\ x.provider = r.provider /\ x.source = r.source
        BY <3>2
      <4>2. x \in mine
        BY <1>1, <1>4, <4>1
      <4> QED BY <3>2, <4>1, <4>2
    <3>3. \A x \in mine : x \in group <=> named(x) = named(r)
      BY <2>1
    <3> HIDE DEF named, tool, key
    <3> QED BY <1>1, <3>1, <3>2, <3>3
  <2>3. k.totals.tokens = TokensOf(group)
    <3>1. k.totals = by[tool(r)] /\ r \in W
      BY <1>1, <2>1
    <3> QED BY <1>3, <2>2, <3>1
  <2>4. [x \in group |-> x.tokens] = Part(f, group)
    BY DEF Part
  <2> HIDE DEF group
  <2> QED BY <2>3, <2>4 DEF TokensOf, group
<1>9. SumFunction(f) = SumFunction([k \in K |-> SumFunction(Part(f, {x \in mine : key[x] = k}))])
  <2> HIDE DEF f, K, key
  <2> QED BY <1>1, <1>7, SumOfGroups
<1>10. ToolTokens(by, s) = SumFunction([k \in K |-> k.totals.tokens])
  BY DEF ToolTokens
<1>11. [k \in K |-> k.totals.tokens] = [k \in K |-> SumFunction(Part(f, {x \in mine : key[x] = k}))]
  <2> HIDE DEF K, key, f
  <2> QED BY <1>8
<1>12. TokensOf(mine) = SumFunction(f)
  BY DEF TokensOf
<1> HIDE DEF f, K, key
<1> QED BY <1>9, <1>10, <1>11, <1>12 DEF by, mine

\* The day is within the week.
LEMMA TodayInWeek ==
  ASSUME Feed, WeekHasMidnight
  PROVE  Today \subseteq LastWeek
<1>1. clock \in Start..End /\ clock \in Int /\ UtcOffset \in Int
  BY FeedAssumption DEF Feed, FilesInv
<1> DEFINE date == (clock + UtcOffset) \div Day
<1>2. date \in Int /\ date * Day <= clock + UtcOffset /\ Day = 1440
  BY <1>1 DEF Day, Hour
<1>3. date - 6 \notin GapDays
  BY <1>1 DEF WeekHasMidnight
<1>4. /\ LocalDayStart(clock, 0) = IF date \in GapDays THEN clock ELSE date * Day - UtcOffset
      /\ LocalDayStart(clock, -6) = (date - 6) * Day - UtcOffset
  <2>1. date + 0 = date /\ date + (-6) = date - 6
    BY <1>2
  <2> HIDE DEF date
  <2> QED BY <1>3, <2>1 DEF LocalDayStart, date
<1> HIDE DEF date
<1>5. /\ LocalDayStart(clock, -6) \in Int /\ LocalDayStart(clock, 0) \in Int
      /\ LocalDayStart(clock, -6) <= LocalDayStart(clock, 0)
  BY <1>1, <1>2, <1>4
<1>6. \A r \in Range(rows) : r.at \in Int
  BY RowsFinite, PossibleRows DEF Feed
<1> QED BY <1>5, <1>6 DEF Today, LastWeek, RowsIn

\* What a window's query reads.
LEMMA WindowRead ==
  ASSUME NEW some, IsFiniteSet(some), some \subseteq Possible
  PROVE  /\ Within(WindowTotals(some), some)
         /\ \A s : Of(some, s) # {} => s \in DOMAIN WindowTotals(some)
         /\ \A s : TokensIn(WindowTotals(some), s) \in Nat
         /\ \A s \in DOMAIN WindowTotals(some) :
              TokensIn(WindowTotals(some), s) = TokensOf(Of(some, s))
<1> DEFINE f == WindowTotals(some)
<1>1. \A s : s \in DOMAIN f <=> Of(some, s) # {}
  BY DEF WindowTotals, Of
<1>2. \A s \in DOMAIN f : f[s].tokens = TokensOf(Of(some, s))
  BY DEF WindowTotals, TokenTotals, Of
<1>3. \A s : TokensOf(Of(some, s)) \in Nat
  <2>1. \A s : Of(some, s) \in SUBSET some
    BY DEF Of
  <2> QED BY <2>1, TokensGrow
<1> HIDE DEF f
<1>4. \A s \in DOMAIN f : f[s].tokens <= TokensOf(Of(some, s))
  BY <1>2, <1>3
<1>5. Within(f, some)
  BY <1>1, <1>2, <1>3, <1>4 DEF Within
<1>6. \A s : TokensIn(f, s) = IF s \in DOMAIN f THEN TokensOf(Of(some, s)) ELSE 0
  BY <1>2 DEF TokensIn, EmptyTotals
<1> QED BY <1>1, <1>3, <1>5, <1>6 DEF f

LEMMA WithinGrows ==
  ASSUME NEW U, IsFiniteSet(U), U \subseteq Possible, NEW T \in SUBSET U, NEW f, Within(f, T)
  PROVE  Within(f, U)
<1> SUFFICES ASSUME NEW s \in DOMAIN f
             PROVE  /\ f[s].tokens \in Nat /\ Of(U, s) # {}
                    /\ f[s].tokens <= TokensOf(Of(U, s))
  BY DEF Within
<1>1. Of(T, s) \in SUBSET Of(U, s) /\ Of(U, s) \in SUBSET U
  BY DEF Of
<1>2. IsFiniteSet(Of(U, s)) /\ Of(U, s) \subseteq Possible
  BY <1>1, FS_Subset
<1>3. /\ TokensOf(Of(T, s)) \in Nat /\ TokensOf(Of(U, s)) \in Nat
      /\ TokensOf(Of(T, s)) <= TokensOf(Of(U, s))
  BY <1>1, <1>2, TokensGrow
<1>4. f[s].tokens \in Nat /\ Of(T, s) # {} /\ f[s].tokens <= TokensOf(Of(T, s))
  BY DEF Within
<1> QED BY <1>1, <1>3, <1>4

\* Totals read before others of at least their rows are no more than these.
LEMMA WithinLess ==
  ASSUME NEW U, IsFiniteSet(U), U \subseteq Possible, NEW f, Within(f, U)
  PROVE  \A s : TokensIn(f, s) <= TokensIn(WindowTotals(U), s)
<1> SUFFICES ASSUME NEW s PROVE TokensIn(f, s) <= TokensIn(WindowTotals(U), s)
  OBVIOUS
<1>1. CASE s \in DOMAIN f
  <2>1. f[s].tokens \in Nat /\ Of(U, s) # {} /\ f[s].tokens <= TokensOf(Of(U, s))
    BY <1>1 DEF Within
  <2>2. TokensIn(WindowTotals(U), s) = TokensOf(Of(U, s))
    BY <2>1, WindowRead
  <2>3. TokensIn(f, s) = f[s].tokens
    BY <1>1 DEF TokensIn
  <2> QED BY <2>1, <2>2, <2>3
<1>2. CASE s \notin DOMAIN f
  <2>1. TokensIn(f, s) = 0
    BY <1>2 DEF TokensIn, EmptyTotals
  <2> QED BY <2>1, WindowRead
<1> QED BY <1>1, <1>2

LEMMA ToolsRead ==
  ASSUME NEW U, IsFiniteSet(U), U \subseteq Possible, NEW f, Within(f, U)
  PROVE  /\ \A s : TokensIn(f, s) <= ToolTokens(ToolBreakdown(U), s)
         /\ \A n \in DOMAIN ToolBreakdown(U) :
              \E r \in U : r.subscription = n[1] /\ r.source = n[3]
<1>1. ASSUME NEW s PROVE TokensIn(f, s) <= ToolTokens(ToolBreakdown(U), s)
  <2>1. ToolTokens(ToolBreakdown(U), s) = TokensOf(Of(U, s))
    BY TokensByTool
  <2>2. TokensOf(Of(U, s)) \in Nat
    <3>1. Of(U, s) \in SUBSET U
      BY DEF Of
    <3> QED BY <3>1, TokensGrow
  <2>3. TokensIn(f, s) = 0 \/ TokensIn(f, s) <= TokensOf(Of(U, s))
    BY DEF TokensIn, EmptyTotals, Within
  <2> QED BY <2>1, <2>2, <2>3
<1>2. ASSUME NEW n \in DOMAIN ToolBreakdown(U)
      PROVE  \E r \in U : r.subscription = n[1] /\ r.source = n[3]
  BY DEF ToolBreakdown
<1> QED BY <1>1, <1>2

LEMMA UpdatesRead ==
  /\ \A r \in Range(rows) : <<r.subscription, r.source>> \in DOMAIN UsageUpdates
  /\ \A usage, quota : DOMAIN usage \subseteq DOMAIN MergeUpdates(usage, quota)
<1>1. ASSUME NEW r \in Range(rows) PROVE <<r.subscription, r.source>> \in DOMAIN UsageUpdates
  <2> DEFINE updates == {<<<<x.subscription, x.source>>, x.at>> : x \in Range(rows)}
  <2>1. <<<<r.subscription, r.source>>, r.at>> \in updates
    OBVIOUS
  <2>2. DOMAIN UsageUpdates = {u[1] : u \in updates}
    BY DEF UsageUpdates, Newest
  <2> HIDE DEF updates
  <2> QED BY <2>1, <2>2
<1>2. \A usage, quota : DOMAIN usage \subseteq DOMAIN MergeUpdates(usage, quota)
  BY DEF MergeUpdates
<1> QED BY <1>1, <1>2

LEMMA NestWaits ==
  ASSUME Feed, Feed', Nest, [Next]_vars, UNCHANGED request
  PROVE  Nest'
<1> SUFFICES ASSUME request.kind = "status" PROVE Nest'
  BY DEF Nest
<1>1. clock' = clock
  <2>1. ~ Tick
    BY DEF Tick, Quiet, NoRequest
  <2>2. CASE Writer
    BY <2>1, <2>2 DEF Writer, WriteStatus, RemoveStatus, WriteCache, Collect, PollQuota,
       InsertUsage, InsertSnapshot, InsertHit
  <2> QED BY <2>2, ReaderOrWriter, ReadersOnlyRead
<1>2. Range(rows) \subseteq Range(rows')
  BY TablesGrow DEF Extends, Range
<1>3. Today \in SUBSET Today' /\ LastWeek \in SUBSET LastWeek'
  BY <1>1, <1>2 DEF Today, LastWeek, RowsIn, LocalDayStart
<1>4. /\ IsFiniteSet(Today') /\ Today' \subseteq Possible
      /\ IsFiniteSet(LastWeek') /\ LastWeek' \subseteq Possible
  <2>1. IsFiniteSet(Range(rows')) /\ Range(rows') \subseteq Possible
    BY RowsFinite DEF Feed
  <2>2. Today' \in SUBSET Range(rows') /\ LastWeek' \in SUBSET Range(rows')
    BY DEF Today, LastWeek, RowsIn
  <2> QED BY <2>1, <2>2, FS_Subset
<1>5. \A f : /\ Within(f, Today) => Within(f, Today')
             /\ Within(f, LastWeek) => Within(f, LastWeek')
  BY <1>3, <1>4, WithinGrows
<1>6. NestedAt(request.next, request.answer, Today, LastWeek, Range(rows))
  BY DEF Nest
<1>7. NestedAt(request.next, request.answer, Today', LastWeek', Range(rows'))
  BY <1>2, <1>5, <1>6 DEF NestedAt
<1> QED BY <1>7 DEF Nest

LEMMA NestRead ==
  ASSUME WeekHasMidnight, Feed, Form, Nest, ReadNext
  PROVE  Nest'
<1> DEFINE a == request.answer
           b == request'.answer
           all == Range(rows)
<1>1. /\ request.kind = "status" /\ request.next \in 1..14
      /\ request'.next \in {request.next + 1, 15}
      /\ UNCHANGED <<clock, rows>>
  BY ReadNextForm, ReadersOnlyRead DEF Reader
<1>2. Today' = Today /\ LastWeek' = LastWeek /\ Range(rows') = all
  BY <1>1 DEF Today, LastWeek, RowsIn, LocalDayStart
<1>3. NestedAt(request.next, a, Today, LastWeek, all)
  BY <1>1 DEF Nest
<1>4. /\ IsFiniteSet(Today) /\ Today \subseteq Possible /\ Today \in SUBSET LastWeek
      /\ IsFiniteSet(LastWeek) /\ LastWeek \subseteq Possible /\ LastWeek \subseteq all
  <2>1. IsFiniteSet(all) /\ all \subseteq Possible
    BY RowsFinite DEF Feed
  <2>2. Today \in SUBSET all /\ LastWeek \in SUBSET all
    BY DEF Today, LastWeek, RowsIn
  <2> HIDE DEF all
  <2> QED BY <2>1, <2>2, FS_Subset, TodayInWeek
<1>5. \A field \in Fields : \A value : Read(field, value) => request'.next = request.next + 1
  BY <1>1, FieldRead
<1>6. \A field \in Fields : \A value : Read(field, value) => b[field] = value
  BY <1>1, FieldRead
<1>7. \A field \in Fields : \A value : Read(field, value) => \A g \in Fields \ {field} : b[g] = a[g]
  BY <1>1, FieldRead
<1> SUFFICES NestedAt(request'.next, b, Today, LastWeek, all)
  BY <1>2 DEF Nest
<1>8. CASE ReadToday
  <2>1. request.next = 1 /\ request'.next = 2 /\ b.today = WindowTotals(Today)
    <3>1. request.next = 1
      BY <1>1, <1>8, StepsInOrder DEF ReadToday, At
    <3> QED BY <1>5, <1>6, <1>8, <3>1 DEF ReadToday, Fields
  <2>2. Within(b.today, Today)
    BY <1>4, <2>1, WindowRead
  <2> QED BY <2>1, <2>2 DEF NestedAt
<1>9. CASE ReadWeek
  <2>1. /\ request.next = 2 /\ request'.next = 3
        /\ b.last_7d = WindowTotals(LastWeek) /\ b.today = a.today
    <3>1. request.next = 2
      BY <1>1, <1>9, StepsInOrder DEF ReadWeek, At
    <3> QED BY <1>5, <1>6, <1>7, <1>9, <3>1 DEF ReadWeek, Fields
  <2>2. Within(b.today, Today) /\ Within(b.last_7d, LastWeek)
    BY <1>3, <1>4, <2>1, WindowRead DEF NestedAt
  <2>3. Within(b.today, LastWeek)
    BY <1>4, <2>2, WithinGrows
  <2>4. \A s : TokensIn(b.today, s) <= TokensIn(b.last_7d, s)
    BY <1>4, <2>1, <2>3, WithinLess
  <2> QED BY <2>1, <2>2, <2>4 DEF NestedAt
<1>10. CASE ReadTools
  <2>1. /\ request.next = 3 /\ request'.next = 4
        /\ b.by_tool = ToolBreakdown(LastWeek) /\ b.today = a.today /\ b.last_7d = a.last_7d
    <3>1. request.next = 3
      BY <1>1, <1>10, StepsInOrder DEF ReadTools, At
    <3> QED BY <1>5, <1>6, <1>7, <1>10, <3>1 DEF ReadTools, Fields
  <2>2. /\ Within(b.today, Today) /\ Within(b.last_7d, LastWeek)
        /\ \A s : TokensIn(b.today, s) <= TokensIn(b.last_7d, s)
    BY <1>3, <2>1 DEF NestedAt
  <2>3. /\ \A s : TokensIn(b.last_7d, s) <= ToolTokens(b.by_tool, s)
        /\ \A n \in DOMAIN b.by_tool : \E r \in LastWeek : r.subscription = n[1] /\ r.source = n[3]
    BY <1>4, <2>1, <2>2, ToolsRead
  <2>4. \A n \in DOMAIN b.by_tool : \E r \in all : r.subscription = n[1] /\ r.source = n[3]
    BY <1>4, <2>3
  <2> QED BY <2>1, <2>2, <2>3, <2>4 DEF NestedAt
<1>11. CASE ReadUsageUpdates \/ ReadSnapshotUpdates
  <2>1. /\ request.next \in {4, 5} /\ request'.next = request.next + 1
        /\ b.today = a.today /\ b.last_7d = a.last_7d /\ b.by_tool = a.by_tool
    <3>1. request.next \in {4, 5}
      BY <1>1, <1>11, StepsInOrder DEF ReadUsageUpdates, ReadSnapshotUpdates, At
    <3> QED BY <1>5, <1>7, <1>11, <3>1 DEF ReadUsageUpdates, ReadSnapshotUpdates, Fields
  <2>2. /\ Within(b.today, Today) /\ Within(b.last_7d, LastWeek)
        /\ \A s : TokensIn(b.today, s) <= TokensIn(b.last_7d, s)
        /\ \A s : TokensIn(b.last_7d, s) <= ToolTokens(b.by_tool, s)
        /\ \A n \in DOMAIN b.by_tool : \E r \in all : r.subscription = n[1] /\ r.source = n[3]
    BY <1>3, <2>1 DEF NestedAt
  <2>3. \A n \in DOMAIN b.by_tool : <<n[1], n[3]>> \in DOMAIN b.updates
    <3>1. CASE ReadUsageUpdates
      <4>1. b.updates = UsageUpdates
        BY <1>6, <3>1 DEF ReadUsageUpdates, Fields
      <4> QED BY <2>2, <4>1, UpdatesRead
    <3>2. CASE ReadSnapshotUpdates
      <4>1. request.next = 5
        BY <1>1, <3>2, StepsInOrder DEF ReadSnapshotUpdates, At
      <4>2. b.updates = MergeUpdates(a.updates, SnapshotUpdates)
        BY <1>6, <3>2 DEF ReadSnapshotUpdates, Fields
      <4>3. \A n \in DOMAIN a.by_tool : <<n[1], n[3]>> \in DOMAIN a.updates
        <5>1. request.next > 4
          BY <4>1
        <5> HIDE DEF a, all
        <5> QED BY <1>3, <5>1, Zenon DEF NestedAt
      <4> QED BY <2>1, <4>2, <4>3, UpdatesRead
    <3> QED BY <1>11, <3>1, <3>2
  <2> QED BY <2>2, <2>3 DEF NestedAt
<1>12. ASSUME NEW field \in {"quota", "hit", "listed"}, NEW value, Read(field, value),
              request.next > 5
       PROVE  NestedAt(request'.next, b, Today, LastWeek, all)
  <2>1. /\ b.today = a.today /\ b.last_7d = a.last_7d
        /\ b.by_tool = a.by_tool /\ b.updates = a.updates
    BY <1>7, <1>12 DEF Fields
  <2>2. request.next > 4 /\ request.next > 3 /\ request.next > 2 /\ request.next > 1
    BY <1>1, <1>12
  <2> QED BY <1>3, <2>1, <2>2 DEF NestedAt
<1>13. CASE \E s \in Range(Subscriptions) : ReadQuota(s) \/ ReadHit(s)
  <2>1. PICK s \in Range(Subscriptions) : ReadQuota(s) \/ ReadHit(s)
    BY <1>13
  <2>2. request.next > 5
    <3>1. Steps[request.next] \in {<<"quota", s>>, <<"hit", s>>}
      BY <2>1 DEF ReadQuota, ReadHit, At
    <3> QED BY <1>1, <3>1, StepsInOrder
  <2> QED BY <1>12, <2>1, <2>2 DEF ReadQuota, ReadHit
<1>14. CASE FindOther
  <2>1. request.next = 12
    BY <1>1, <1>14, StepsInOrder DEF FindOther, At
  <2>2. CASE request' = [request EXCEPT !.next = Len(Steps) + 1]
    <3>1. b = a
      BY <1>1, <2>2 DEF Form
    <3>2. \A next : NestedAt(next, a, Today, LastWeek, all)
      BY <1>3, <2>1 DEF NestedAt
    <3> QED BY <3>1, <3>2
  <2> QED BY <1>12, <1>14, <2>1, <2>2 DEF FindOther
<1> QED BY <1>8, <1>9, <1>10, <1>11, <1>13, <1>14 DEF ReadNext

LEMMA NestStep ==
  ASSUME WeekHasMidnight, Feed, Feed', Form, Nest, [Next]_vars
  PROVE  Nest'
<1>1. CASE Writer \/ UNCHANGED vars
  BY <1>1, NestWaits, WritersKeepReaders DEF vars
<1>2. CASE Ask
  <2>1. request'.next = 1
    BY <1>2 DEF Ask
  <2> QED BY <2>1 DEF Nest, NestedAt
<1>3. CASE ReadNext
  BY <1>3, NestRead
<1>4. CASE Deliver \/ GiveUp \/ OpenPages \/ ClosePages
  BY <1>4 DEF Deliver, GiveUp, OpenPages, ClosePages, NoRequest, Nest
<1>5. CASE ReadPage
  BY <1>5 DEF ReadPage, Form, Nest
<1> QED BY <1>1, <1>2, <1>3, <1>4, <1>5, ReaderOrWriter DEF Reader

LEMMA NestSeen ==
  ASSUME Form, Nest
  PROVE  TotalsNest
<1> SUFFICES ASSUME Answered, NEW name \in DOMAIN StatusJson(Answer),
                    NEW st \in StatusJson(Answer)[name]
             PROVE  /\ st.today.tokens <= st.last_7d.tokens
                    /\ st.last_7d.tokens <= SumFunction([tool \in st.by_tool |-> tool.totals.tokens])
                    /\ \A tool \in st.by_tool :
                         \E src \in st.sources : src.collector = CollectorId(tool.source)
  BY DEF TotalsNest
<1> DEFINE a == request.answer
<1>1. PICK s : st = StatusFor(a, s)
  <2>1. st \in Range(Answer)
    BY DEF StatusJson
  <2> QED BY <2>1 DEF Answer, Range
<1>2. /\ st.today.tokens = TokensIn(a.today, s) /\ st.last_7d.tokens = TokensIn(a.last_7d, s)
      /\ st.by_tool = ToolsOf(a.by_tool, s)
  BY <1>1 DEF StatusFor, TokensIn, ToolsOf
<1>3. st.sources = {[collector |-> CollectorId(m[2]), last |-> a.updates[m],
                     stale |-> IsStale(a.updates[m])] : m \in {n \in DOMAIN a.updates : n[1] = s}}
  BY <1>1 DEF StatusFor
<1>4. /\ \A q : TokensIn(a.today, q) <= TokensIn(a.last_7d, q)
      /\ \A q : TokensIn(a.last_7d, q) <= ToolTokens(a.by_tool, q)
      /\ \A n \in DOMAIN a.by_tool : <<n[1], n[3]>> \in DOMAIN a.updates
  <2>1. NestedAt(request.next, a, Today, LastWeek, Range(rows))
    BY DEF Nest, Answered
  <2>2. request.next > 4 /\ request.next > 3 /\ request.next > 2
    BY StepsInOrder DEF Answered, Form
  <2> QED BY <2>1, <2>2 DEF NestedAt
<1>5. ASSUME NEW tool \in st.by_tool
      PROVE  \E src \in st.sources : src.collector = CollectorId(tool.source)
  <2>1. PICK n \in DOMAIN a.by_tool :
          n[1] = s /\ tool = [provider |-> n[2], source |-> n[3], totals |-> a.by_tool[n]]
    BY <1>2 DEF ToolsOf
  <2> DEFINE m == <<n[1], n[3]>>
             src == [collector |-> CollectorId(m[2]), last |-> a.updates[m],
                     stale |-> IsStale(a.updates[m])]
  <2>2. m \in DOMAIN a.updates /\ m[1] = s /\ m[2] = n[3]
    BY <1>4, <2>1
  <2>3. src \in st.sources
    BY <1>3, <2>2
  <2>4. src.collector = CollectorId(n[3]) /\ tool.source = n[3]
    BY <2>1, <2>2
  <2> HIDE DEF src, m
  <2> QED BY <2>3, <2>4
<1>6. st.last_7d.tokens <= SumFunction([tool \in st.by_tool |-> tool.totals.tokens])
  BY <1>2, <1>4 DEF ToolTokens
<1> QED BY <1>2, <1>4, <1>5, <1>6

-----------------------------------------------------------------------------
ViewsInv == Feed /\ Form /\ Pages /\ Marks /\ Resets /\ Shown

LEMMA ViewsInit == Init => ViewsInv
<1> SUFFICES ASSUME Init PROVE ViewsInv
  OBVIOUS
<1>1. Feed
  BY FeedInit
<1>2. request.kind = "none"
  BY DEF Init, NoRequest
<1>3. Form /\ Pages /\ Marks
  BY <1>2 DEF Form, Pages, Marks
<1>4. Resets
  <2>1. seen.windows = <<>> /\ batch.snapshots = <<>> /\ snapshots = <<>>
    BY DEF Init, Stored
  <2>2. StoredSince(0)
    BY <2>1 DEF StoredSince, LastRead
  <2>3. 0 \in 0..Len(snapshots)
    BY <2>1
  <2> QED BY <2>1, <2>2, <2>3 DEF Resets, SeenInv
<1>5. Shown
  BY <1>2 DEF Init, Shown
<1> QED BY <1>1, <1>3, <1>4, <1>5 DEF ViewsInv

LEMMA ViewsStep == ViewsInv /\ [Next]_vars => ViewsInv'
<1> SUFFICES ASSUME ViewsInv, [Next]_vars PROVE ViewsInv'
  OBVIOUS
<1> USE DEF ViewsInv
<1>1. Feed'
  BY FeedStep
<1>2. Form' /\ Pages' /\ Marks'
  BY <1>1, FormStep, PagesStep, MarksStep
<1>3. Resets' /\ Shown'
  BY ResetsStep, ShownStep
<1> QED BY <1>1, <1>2, <1>3

\* A client that pages through usage.query misses no row that was there when it began: new
\* rows only move the ones it has yet to get away from the start, and a page that leaves one
\* of them behind is full, so that the client asks on.
THEOREM Complete == Spec => []PagesMissNothing
<1>1. ViewsInv => PagesMissNothing
  BY DEF ViewsInv, Pages, PagesMissNothing
<1>2. QED
  BY <1>1, ViewsInit, ViewsStep, PTL DEF Spec

\* A cost in the line or on a card carries the mark of a computed one when no tool reported
\* it, and only where a row was computed, whatever is stored while the request is answered.
THEOREM Approximate == Spec => []ApproximateIsMarked
<1>1. ViewsInv => ApproximateIsMarked
  BY MarksSeen DEF ViewsInv
<1>2. QED
  BY <1>1, ViewsInit, ViewsStep, PTL DEF Spec

\* The Claude row that counts has no percentage of a window that had reset when the quota
\* collector last read it, though the files it is read from take turns and each pass stores
\* them again.
THEOREM ResetCleared == Spec => []ResetClearsPercentage
<1>1. ViewsInv => ResetClearsPercentage
  BY ResetsSeen DEF ViewsInv
<1>2. QED
  BY <1>1, ViewsInit, ViewsStep, PTL DEF Spec

\* From one answer to the next, no printed window goes back to an older observation.
THEOREM NoneGoesBack == Spec => QuotaNeverGoesBack
<1>1. ViewsInv /\ [Next]_vars =>
        [\A s \in DOMAIN shown : \A w \in shown[s] :
           s \in DOMAIN shown' /\ \E v \in shown'[s] : v.label = w.label /\ w.observed <= v.observed]_shown
  <2> SUFFICES ASSUME ViewsInv, [Next]_vars, ~ UNCHANGED shown
               PROVE  \A s \in DOMAIN shown : \A w \in shown[s] :
                        /\ s \in DOMAIN shown'
                        /\ \E v \in shown'[s] : v.label = w.label /\ w.observed <= v.observed
    OBVIOUS
  <2>1. CASE Deliver
    BY <2>1, OrderKept DEF ViewsInv
  <2>2. CASE ~ Deliver
    <3>1. shown' = shown
      BY <2>2, ReaderOrWriter, WritersKeepReaders DEF Reader, ReadNext, Ask, At, ReadToday,
         ReadWeek, ReadTools, ReadUsageUpdates, ReadSnapshotUpdates, ReadQuota, ReadHit,
         FindOther, GiveUp, OpenPages, ReadPage, ClosePages, vars
    <3> QED BY <3>1
  <2> QED BY <2>1, <2>2
<1>2. QED
  BY <1>1, ViewsInit, ViewsStep, PTL DEF Spec, QuotaNeverGoesBack

\* The day is no more than the week, the week no more than its tools together, and each of
\* these tools is among the sources, in an answer whose queries see the tables one after the
\* other: what a later query reads has only grown.  The week must begin at a midnight.
THEOREM Nested == WeekHasMidnight => (Spec => []TotalsNest)
<1> SUFFICES ASSUME WeekHasMidnight PROVE Spec => []TotalsNest
  OBVIOUS
<1>1. Init => Nest
  BY DEF Init, NoRequest, Nest
<1>2. ViewsInv /\ ViewsInv' /\ Nest /\ [Next]_vars => Nest'
  BY NestStep DEF ViewsInv
<1>3. ViewsInv /\ Nest => TotalsNest
  BY NestSeen DEF ViewsInv
<1>4. QED
  BY <1>1, <1>2, <1>3, ViewsInit, ViewsStep, PTL DEF Spec
=============================================================================
