--------------------------- MODULE TaskGraphProofs ---------------------------
(***************************************************************************)
(* What the graph operations of TaskGraph compute, for every task          *)
(* dictionary and every graph of finitely many nodes.                      *)
(*                                                                         *)
(* The recursive functions there denote CHOOSE f : f = [... f ...], so     *)
(* each is unfolded in two steps: a function that satisfies the equation   *)
(* exists, and whatever satisfies it has the property.  Induction is on    *)
(* the least number for which a claim fails.                               *)
(***************************************************************************)
EXTENDS TaskGraph, FiniteSetTheorems, WellFoundedInduction, TLAPS

-----------------------------------------------------------------------------
(* Numbers *)

LEMMA LeastNumber ==
  ASSUME NEW S, S \subseteq Nat, S # {}
  PROVE  \E x \in S : \A y \in S : x <= y
<1>1. PICK x \in S : \A y \in S : ~(<<y, x>> \in OpToRel(<, Nat))
  BY NatLessThanWellFounded, WFMin
<1>2. \A y \in S : ~(y < x)
  BY <1>1, Zenon DEF OpToRel
<1>3. \A y \in S : x <= y
  BY <1>2
<1>4. QED
  BY <1>3

\* The counterexample an induction starts from: the least number that is not in
\* Good is 0, or its predecessor is in Good.
LEMMA LeastFailure ==
  ASSUME NEW Good, NEW n \in Nat, n \notin Good
  PROVE  \E m \in Nat : /\ m \notin Good
                        /\ m = 0 \/ (m > 0 /\ m - 1 \in Nat /\ m - 1 \in Good)
<1>1. Nat \ Good \subseteq Nat /\ Nat \ Good # {}
  OBVIOUS
<1>2. PICK m \in Nat \ Good : \A y \in Nat \ Good : m <= y
  BY <1>1, LeastNumber
<1>3. CASE m = 0
  BY <1>3
<1>4. CASE m # 0
  <2>1. m - 1 \in Nat /\ ~(m <= m - 1)
    BY <1>4
  <2>2. m - 1 \in Good
    BY <1>2, <2>1
  <2>3. QED
    BY <2>1, <2>2
<1>5. QED
  BY <1>3, <1>4

LEMMA GreatestNumber ==
  ASSUME NEW S, S \subseteq Nat, S # {}, NEW b \in Nat, \A y \in S : y <= b
  PROVE  Max(S) \in S /\ \A y \in S : y <= Max(S)
<1> DEFINE above == {u \in Nat : \A y \in S : y <= u}
<1>1. PICK u \in above : \A v \in above : u <= v
  <2>1. above \subseteq Nat /\ b \in above
    OBVIOUS
  <2> HIDE DEF above
  <2>2. QED
    BY <2>1, LeastNumber
<1>2. u \in S
  <2> SUFFICES ASSUME u \notin S PROVE FALSE
    OBVIOUS
  <2>1. u \in Nat /\ \A y \in S : y < u
    BY <1>1
  <2>2. u - 1 \in Nat /\ \A y \in S : y <= u - 1
    <3>1. PICK y \in S : y \in Nat /\ y < u
      BY <2>1
    <3>2. u - 1 \in Nat
      BY <2>1, <3>1
    <3>3. ASSUME NEW z \in S PROVE z <= u - 1
      <4>1. z \in Nat /\ z < u
        BY <2>1
      <4>2. QED
        BY <2>1, <4>1
    <3>4. QED
      BY <3>2, <3>3
  <2>3. u - 1 \in above /\ ~(u <= u - 1)
    BY <2>1, <2>2
  <2>4. QED
    BY <1>1, <2>3
<1>3. \E x \in S : \A y \in S : x >= y
  BY <1>1, <1>2
<1>4. Max(S) \in S /\ \A y \in S : Max(S) >= y
  BY <1>3, Zenon DEF Max
<1>5. QED
  BY <1>4
-----------------------------------------------------------------------------
(* The rounds of the cycle check *)

Round(f, tasks, k) ==
  IF k = 0 THEN {} ELSE {t \in DOMAIN tasks : tasks[t] \subseteq f[k - 1]}

Rounds(f, tasks, n) == f = [k \in 0..n |-> Round(f, tasks, k)]

LEMMA RoundsExist ==
  ASSUME NEW tasks, NEW n \in Nat
  PROVE  \E f : Rounds(f, tasks, n)
<1> DEFINE Good == {m \in Nat : \E f : Rounds(f, tasks, m)}
<1> SUFFICES ASSUME n \notin Good PROVE FALSE
  OBVIOUS
<1>1. PICK m \in Nat : /\ m \notin Good
                       /\ m = 0 \/ (m > 0 /\ m - 1 \in Nat /\ m - 1 \in Good)
  <2> HIDE DEF Good
  <2>1. QED
    BY LeastFailure
<1>2. CASE m = 0
  <2> DEFINE f == [k \in 0..0 |-> {}]
  <2>1. Rounds(f, tasks, 0)
    BY DEF Rounds, Round
  <2>2. QED
    BY <1>1, <1>2, <2>1
<1>3. CASE m > 0 /\ m - 1 \in Nat /\ m - 1 \in Good
  <2>1. PICK g : Rounds(g, tasks, m - 1)
    BY <1>3
  <2> DEFINE f == [k \in 0..m |-> Round(g, tasks, k)]
  <2>2. \A k \in 0..(m - 1) : g[k] = Round(g, tasks, k)
    BY <2>1 DEF Rounds
  <2>3. \A k \in 0..(m - 1) : f[k] = g[k]
    BY <2>2
  <2>4. ASSUME NEW k \in 0..m
        PROVE  Round(f, tasks, k) = Round(g, tasks, k)
    <3>1. CASE k = 0
      BY <3>1 DEF Round
    <3>2. CASE k # 0
      <4>1. k - 1 \in 0..(m - 1)
        BY <3>2
      <4>2. f[k - 1] = g[k - 1]
        BY <2>3, <4>1
      <4> HIDE DEF f
      <4>3. QED
        BY <3>2, <4>2 DEF Round
    <3>3. QED
      BY <3>1, <3>2
  <2>5. f = [k \in 0..m |-> Round(f, tasks, k)]
    <3>1. [k \in 0..m |-> Round(f, tasks, k)] = [k \in 0..m |-> Round(g, tasks, k)]
      BY <2>4, Zenon
    <3>2. QED
      BY <3>1, Zenon
  <2> HIDE DEF f
  <2>6. Rounds(f, tasks, m)
    BY <2>5 DEF Rounds
  <2>7. QED
    BY <1>1, <2>6
<1>4. QED
  BY <1>1, <1>2, <1>3

LEMMA SortedIsLastRound ==
  ASSUME NEW tasks, IsFiniteSet(DOMAIN tasks)
  PROVE  \E f : /\ Rounds(f, tasks, Cardinality(DOMAIN tasks))
                /\ Sorted(tasks) = f[Cardinality(DOMAIN tasks)]
<1> DEFINE n == Cardinality(DOMAIN tasks)
           f == CHOOSE g : Rounds(g, tasks, n)
<1>1. n \in Nat
  BY FS_CardinalityType
<1>2. \E g : Rounds(g, tasks, n)
  BY <1>1, RoundsExist
<1>3. Rounds(f, tasks, n)
  BY <1>2, Zenon
<1>4. Sorted(tasks) = f[n]
  BY Zenon DEF Sorted, Rounds, Round
<1>5. QED
  BY <1>3, <1>4

\* A rank descends along the dependencies, all of which exist.
Ranked(rank, tasks) ==
  \A t \in DOMAIN tasks : \A d \in tasks[t] : d \in DOMAIN tasks /\ rank[d] < rank[t]

\* The round in which a task is taken out is such a rank.
LEMMA SortedHasRank ==
  ASSUME NEW tasks, IsFiniteSet(DOMAIN tasks), Sorted(tasks) = DOMAIN tasks
  PROVE  \E rank \in [DOMAIN tasks -> 0..Cardinality(DOMAIN tasks)] : Ranked(rank, tasks)
<1> DEFINE n == Cardinality(DOMAIN tasks)
<1>1. PICK f : Rounds(f, tasks, n) /\ f[n] = DOMAIN tasks
  BY SortedIsLastRound
<1>2. n \in Nat
  BY FS_CardinalityType
<1> HIDE DEF n
<1> DEFINE in(t) == {k \in 0..n : t \in f[k]}
           First(t, k) == k \in in(t) /\ \A j \in in(t) : k <= j
           rank == [t \in DOMAIN tasks |-> CHOOSE k : First(t, k)]
<1>3. ASSUME NEW t \in DOMAIN tasks
      PROVE  First(t, rank[t])
  <2>1. n \in in(t) /\ in(t) \subseteq Nat
    BY <1>1, <1>2
  <2>2. \E k : First(t, k)
    <3> HIDE DEF in
    <3>1. PICK k \in in(t) : \A j \in in(t) : k <= j
      BY <2>1, LeastNumber
    <3>2. QED
      BY <3>1
  <2> HIDE DEF First
  <2>3. QED
    BY <2>2
<1>4. rank \in [DOMAIN tasks -> 0..n]
  BY <1>3
<1> HIDE DEF rank
<1>5. ASSUME NEW t \in DOMAIN tasks, NEW d \in tasks[t]
      PROVE  d \in DOMAIN tasks /\ rank[d] < rank[t]
  <2>1. rank[t] \in 0..n /\ t \in f[rank[t]]
    BY <1>3
  <2>2. f[rank[t]] = Round(f, tasks, rank[t])
    BY <1>1, <2>1 DEF Rounds
  <2>3. rank[t] # 0
    BY <2>1, <2>2 DEF Round
  <2>4. d \in f[rank[t] - 1]
    BY <2>1, <2>2, <2>3 DEF Round
  <2>5. rank[t] - 1 \in 0..n
    BY <1>2, <2>1, <2>3
  <2>6. f[rank[t] - 1] = Round(f, tasks, rank[t] - 1)
    BY <1>1, <2>5 DEF Rounds
  <2>7. d \in DOMAIN tasks
    BY <2>4, <2>6 DEF Round
  <2>8. rank[d] <= rank[t] - 1 /\ rank[d] \in 0..n
    BY <1>3, <2>4, <2>5, <2>7
  <2>9. QED
    BY <2>1, <2>7, <2>8
<1>6. QED
  BY <1>4, <1>5 DEF n, Ranked

\* A set of tasks none of which can be the first to run.
Cycle(S, tasks) ==
  S \in SUBSET DOMAIN tasks /\ S # {} /\ \A t \in S : tasks[t] \cap S # {}

LEMMA RankedHasNoCycle ==
  ASSUME NEW tasks, NEW n \in Nat, NEW rank \in [DOMAIN tasks -> 0..n], Ranked(rank, tasks),
         NEW S, Cycle(S, tasks)
  PROVE  FALSE
<1> DEFINE ranks == {rank[t] : t \in S}
<1>1. ranks \subseteq Nat /\ ranks # {}
  BY DEF Cycle
<1>2. PICK t \in S : \A u \in S : rank[t] <= rank[u]
  <2>1. PICK r \in ranks : \A q \in ranks : r <= q
    <3> HIDE DEF ranks
    <3>1. QED
      BY <1>1, LeastNumber
  <2>2. PICK t \in S : r = rank[t]
    BY <2>1
  <2>3. \A u \in S : rank[u] \in ranks
    OBVIOUS
  <2>4. \A u \in S : rank[t] <= rank[u]
    BY <2>1, <2>2, <2>3
  <2>5. QED
    BY <2>4
<1>3. PICK d \in tasks[t] : d \in S
  BY <1>2 DEF Cycle
<1>4. t \in DOMAIN tasks /\ d \in DOMAIN tasks /\ rank[d] < rank[t]
  BY <1>2, <1>3 DEF Cycle, Ranked
<1>5. rank[t] \in Nat /\ rank[d] \in Nat /\ rank[t] <= rank[d]
  BY <1>2, <1>3, <1>4
<1>6. QED
  BY <1>4, <1>5

\* Without a cycle every round takes out one more task, until none is left.
LEMMA RoundsProgress ==
  ASSUME NEW tasks, IsFiniteSet(DOMAIN tasks), DependenciesExist(tasks),
         \A S : ~Cycle(S, tasks),
         NEW f, Rounds(f, tasks, Cardinality(DOMAIN tasks))
  PROVE  f[Cardinality(DOMAIN tasks)] = DOMAIN tasks
<1> DEFINE n == Cardinality(DOMAIN tasks)
           Grows(k) == /\ f[k] \subseteq DOMAIN tasks
                       /\ k < n => f[k] \subseteq f[k + 1]
                       /\ f[k] = DOMAIN tasks \/ Cardinality(f[k]) >= k
           Good == {k \in Nat : k <= n => Grows(k)}
<1>1. n \in Nat
  BY FS_CardinalityType
<1> HIDE DEF n
<1>2. \A k \in 0..n : f[k] = Round(f, tasks, k)
  BY DEF Rounds, n
<1>3. \A k \in 0..n : f[k] \subseteq DOMAIN tasks
  BY <1>2 DEF Round
<1>4. f[0] = {}
  <2>1. 0 \in 0..n
    BY <1>1
  <2>2. f[0] = Round(f, tasks, 0)
    BY <1>2, <2>1
  <2>3. QED
    BY <2>2 DEF Round
<1>5. ASSUME NEW m \in Nat, m \notin Good, m = 0 \/ (m > 0 /\ m - 1 \in Nat /\ m - 1 \in Good)
      PROVE  FALSE
  <2>1. m \in 0..n /\ ~Grows(m)
    BY <1>1, <1>5
  <2>2. m < n => f[m] \subseteq f[m + 1]
    <3> SUFFICES ASSUME m < n PROVE f[m] \subseteq f[m + 1]
      OBVIOUS
    <3>1. CASE m = 0
      BY <1>4, <3>1
    <3>2. CASE m # 0
      <4>1. m - 1 \in 0..n /\ m - 1 < n /\ m + 1 \in 0..n /\ m \in 0..n
        BY <1>1, <2>1, <3>2
      <4>2. f[m - 1] \subseteq f[m]
        <5>1. Grows(m - 1)
          BY <1>1, <1>5, <3>2, <4>1
        <5>2. m - 1 + 1 = m
          BY <1>1
        <5>3. QED
          BY <4>1, <5>1, <5>2
      <4>3. f[m] = {t \in DOMAIN tasks : tasks[t] \subseteq f[m - 1]}
        BY <1>2, <3>2, <4>1 DEF Round
      <4>4. f[m + 1] = {t \in DOMAIN tasks : tasks[t] \subseteq f[m]}
        <5>1. PICK j \in 0..n : j = m + 1 /\ j # 0 /\ j - 1 = m
          BY <1>1, <4>1
        <5>2. f[j] = {t \in DOMAIN tasks : tasks[t] \subseteq f[j - 1]}
          BY <1>2, <5>1 DEF Round
        <5>3. QED
          BY <5>1, <5>2
      <4>5. QED
        BY <4>2, <4>3, <4>4
    <3>3. QED
      BY <3>1, <3>2
  <2>3. f[m] # DOMAIN tasks /\ ~(Cardinality(f[m]) >= m)
    BY <1>3, <2>1, <2>2
  <2>4. m # 0
    BY <1>4, <2>3, FS_EmptySet
  <2>5. m - 1 \in 0..n /\ m - 1 < n /\ m - 1 \in Nat /\ Grows(m - 1)
    BY <1>1, <1>5, <2>1, <2>4
  <2>6. f[m - 1] \subseteq f[m] /\ f[m - 1] \subseteq DOMAIN tasks
    <3>1. m - 1 + 1 = m
      BY <1>1
    <3>2. QED
      BY <2>5, <3>1
  <2>7. f[m] = {t \in DOMAIN tasks : tasks[t] \subseteq f[m - 1]}
    BY <1>2, <2>1, <2>4 DEF Round
  <2>8. f[m - 1] # DOMAIN tasks
    BY <2>3, <2>6, <1>3, <2>1
  <2>9. PICK t \in DOMAIN tasks \ f[m - 1] : tasks[t] \subseteq f[m - 1]
    <3> DEFINE S == DOMAIN tasks \ f[m - 1]
    <3>1. S \in SUBSET DOMAIN tasks /\ S # {}
      BY <2>6, <2>8
    <3>2. ~Cycle(S, tasks)
      OBVIOUS
    <3>3. PICK t \in S : tasks[t] \cap S = {}
      BY <3>1, <3>2, Zenon DEF Cycle
    <3>4. tasks[t] \subseteq DOMAIN tasks
      BY <3>3 DEF DependenciesExist
    <3>5. QED
      BY <3>3, <3>4
  <2>10. t \in f[m] /\ t \notin f[m - 1]
    BY <2>7, <2>9
  <2>11. IsFiniteSet(f[m]) /\ IsFiniteSet(f[m - 1]) /\ Cardinality(f[m]) \in Nat
         /\ Cardinality(f[m - 1]) \in Nat
    BY <1>3, <2>1, <2>6, FS_Subset, FS_CardinalityType
  <2>12. Cardinality(f[m - 1] \cup {t}) = Cardinality(f[m - 1]) + 1
    BY <2>10, <2>11, FS_AddElement
  <2>13. f[m - 1] \cup {t} \in SUBSET f[m]
    BY <2>6, <2>10
  <2>14. Cardinality(f[m - 1] \cup {t}) <= Cardinality(f[m])
    BY <2>11, <2>13, FS_Subset
  <2>15. Cardinality(f[m - 1]) >= m - 1
    BY <2>5, <2>8
  <2>16. Cardinality(f[m]) >= m
    BY <2>11, <2>12, <2>14, <2>15
  <2>17. QED
    BY <2>3, <2>16
<1>6. n \in Good
  <2> SUFFICES ASSUME n \notin Good PROVE FALSE
    OBVIOUS
  <2> HIDE DEF Good
  <2>1. QED
    BY <1>1, <1>5, LeastFailure
<1>7. f[n] \subseteq DOMAIN tasks /\ (f[n] = DOMAIN tasks \/ Cardinality(f[n]) >= n)
  BY <1>1, <1>6
<1>8. CASE Cardinality(f[n]) >= n
  <2>1. f[n] \in SUBSET DOMAIN tasks
    BY <1>7
  <2>2. /\ Cardinality(f[n]) <= n /\ Cardinality(f[n]) \in Nat
        /\ Cardinality(DOMAIN tasks) = Cardinality(f[n]) => DOMAIN tasks = f[n]
    BY <2>1, FS_Subset, FS_CardinalityType DEF n
  <2>3. Cardinality(f[n]) = n
    BY <1>1, <1>8, <2>2
  <2>4. QED
    BY <2>2, <2>3 DEF n
<1>9. QED
  BY <1>7, <1>8 DEF n

\* _detect_cycles is exact: the rounds of Kahn's algorithm take out every task if and
\* only if the tasks can be ordered, that is, unless some of them all wait for
\* each other.  No plan that can be executed is refused, and no other is built.
THEOREM CycleCheckIsExact ==
  ASSUME NEW tasks, IsFiniteSet(DOMAIN tasks), DependenciesExist(tasks)
  PROVE  Sorted(tasks) = DOMAIN tasks <=> \A S : ~Cycle(S, tasks)
<1>1. ASSUME Sorted(tasks) = DOMAIN tasks, NEW S, Cycle(S, tasks) PROVE FALSE
  <2>1. PICK rank \in [DOMAIN tasks -> 0..Cardinality(DOMAIN tasks)] : Ranked(rank, tasks)
    BY <1>1, SortedHasRank
  <2>2. QED
    BY <1>1, <2>1, RankedHasNoCycle, FS_CardinalityType
<1>2. ASSUME \A S : ~Cycle(S, tasks) PROVE Sorted(tasks) = DOMAIN tasks
  BY <1>2, SortedIsLastRound, RoundsProgress
<1>3. QED
  BY <1>1, <1>2
-----------------------------------------------------------------------------
(* Levels *)

LevelOf(h, g, t) ==
  IF Dependencies(g, t) = {} THEN 0 ELSE 1 + Max({h[d] : d \in Dependencies(g, t)})

Levelled(h, g, D) == h = [t \in D |-> LevelOf(h, g, t)]

Dictionary(g) == [t \in g.nodes |-> Dependencies(g, t)]

\* The level of a task lies above the levels of all its dependencies, and no higher
\* than its rank.
LEMMA LevelAbove ==
  ASSUME NEW g, NEW h, NEW t, NEW b \in Nat,
         \A d \in Dependencies(g, t) : h[d] \in Nat /\ h[d] < b
  PROVE  /\ LevelOf(h, g, t) \in Nat /\ LevelOf(h, g, t) <= b
         /\ \A d \in Dependencies(g, t) : h[d] < LevelOf(h, g, t)
<1> DEFINE S == {h[d] : d \in Dependencies(g, t)}
<1>1. CASE Dependencies(g, t) = {}
  BY <1>1 DEF LevelOf
<1>2. CASE Dependencies(g, t) # {}
  <2>1. S \subseteq Nat /\ S # {} /\ \A y \in S : y <= b
    BY <1>2
  <2>2. \A d \in Dependencies(g, t) : h[d] \in S
    OBVIOUS
  <2>3. \A y \in S : y < b
    OBVIOUS
  <2>4. LevelOf(h, g, t) = 1 + Max(S)
    BY <1>2 DEF LevelOf
  <2> HIDE DEF S
  <2>5. Max(S) \in S /\ \A y \in S : y <= Max(S)
    BY <2>1, GreatestNumber
  <2> DEFINE m == Max(S)
  <2>6. m \in Nat /\ m < b
    BY <2>1, <2>3, <2>5
  <2>7. \A d \in Dependencies(g, t) : h[d] \in Nat /\ h[d] <= m
    BY <2>1, <2>2, <2>5
  <2>8. LevelOf(h, g, t) = 1 + m
    BY <2>4
  <2> HIDE DEF m
  <2>9. QED
    BY <2>6, <2>7, <2>8
<1>3. QED
  BY <1>1, <1>2

\* Dependencies are nodes, and of lower rank.
LEMMA RankedDependencies ==
  ASSUME NEW g, NEW rank, Ranked(rank, Dictionary(g)), NEW t \in g.nodes,
         NEW d \in Dependencies(g, t)
  PROVE  d \in g.nodes /\ rank[d] < rank[t]
<1>1. DOMAIN Dictionary(g) = g.nodes /\ Dictionary(g)[t] = Dependencies(g, t)
  BY DEF Dictionary
<1>2. QED
  BY <1>1 DEF Ranked

LEMMA LevelsBelowRank ==
  ASSUME NEW g, NEW n \in Nat, NEW rank \in [g.nodes -> 0..n], Ranked(rank, Dictionary(g)),
         NEW h, Levelled(h, g, g.nodes)
  PROVE  \A t \in g.nodes : h[t] \in Nat /\ h[t] <= rank[t]
<1> DEFINE Fine(t) == h[t] \in Nat /\ h[t] <= rank[t]
           bad == {t \in g.nodes : ~Fine(t)}
           ranks == {rank[t] : t \in bad}
<1> SUFFICES ASSUME bad # {} PROVE FALSE
  OBVIOUS
<1>1. PICK t \in bad : \A u \in bad : rank[t] <= rank[u]
  <2>1. ranks \subseteq Nat /\ ranks # {}
    OBVIOUS
  <2>2. PICK r \in ranks : \A q \in ranks : r <= q
    <3> HIDE DEF ranks
    <3>1. QED
      BY <2>1, LeastNumber
  <2> HIDE DEF bad
  <2>3. PICK t \in bad : r = rank[t]
    BY <2>2
  <2>4. \A u \in bad : rank[u] \in ranks
    OBVIOUS
  <2>5. \A u \in bad : rank[t] <= rank[u]
    BY <2>2, <2>3, <2>4
  <2>6. QED
    BY <2>5
<1>2. t \in g.nodes /\ ~Fine(t) /\ rank[t] \in Nat /\ h[t] = LevelOf(h, g, t)
  BY <1>1 DEF Levelled
<1>3. ASSUME NEW d \in Dependencies(g, t)
      PROVE  h[d] \in Nat /\ h[d] < rank[t]
  <2>1. d \in g.nodes /\ rank[d] < rank[t] /\ rank[d] \in Nat
    BY <1>2, RankedDependencies
  <2>2. Fine(d)
    BY <1>1, <1>2, <2>1
  <2>3. QED
    BY <1>2, <2>1, <2>2
<1>4. Fine(t)
  BY <1>2, <1>3, LevelAbove
<1>5. QED
  BY <1>2, <1>4

LEMMA LevelsExist ==
  ASSUME NEW g, NEW n \in Nat, NEW rank \in [g.nodes -> 0..n], Ranked(rank, Dictionary(g))
  PROVE  \E h : Levelled(h, g, g.nodes)
<1> DEFINE Below(k) == {t \in g.nodes : rank[t] < k}
           Good == {k \in Nat : \E h : Levelled(h, g, Below(k))}
<1>1. ASSUME NEW k \in Nat, NEW t \in Below(k + 1), NEW d \in Dependencies(g, t)
      PROVE  d \in Below(k)
  <2>1. d \in g.nodes /\ rank[d] < rank[t]
    BY RankedDependencies
  <2>2. rank[d] \in Nat /\ rank[t] \in Nat /\ rank[t] < k + 1
    BY <2>1
  <2>3. QED
    BY <2>1, <2>2
<1>2. ASSUME NEW m \in Nat, m \notin Good, m = 0 \/ (m > 0 /\ m - 1 \in Nat /\ m - 1 \in Good)
      PROVE  FALSE
  <2>1. CASE m = 0
    <3>1. Below(0) = {}
      OBVIOUS
    <3>2. [t \in {} |-> 0] = [t \in {} |-> LevelOf([s \in {} |-> 0], g, t)]
      OBVIOUS
    <3>3. Levelled([t \in {} |-> 0], g, {})
      BY <3>2 DEF Levelled
    <3>4. QED
      BY <1>2, <2>1, <3>1, <3>3
  <2>2. CASE m # 0
    <3>1. PICK k \in Nat : m = k + 1
      BY <2>2
    <3>2. m - 1 = k
      BY <3>1
    <3>3. PICK h : Levelled(h, g, Below(k))
      BY <1>2, <2>2, <3>2
    <3> DEFINE e == [t \in Below(m) |-> LevelOf(h, g, t)]
    <3>4. Below(k) \subseteq Below(m)
      BY <3>1
    <3>5. \A t \in Below(k) : e[t] = h[t]
      <4> SUFFICES ASSUME NEW t \in Below(k) PROVE e[t] = h[t]
        OBVIOUS
      <4>1. h[t] = LevelOf(h, g, t)
        BY <3>3 DEF Levelled
      <4>2. e[t] = LevelOf(h, g, t)
        BY <3>4
      <4>3. QED
        BY <4>1, <4>2
    <3>6. ASSUME NEW t \in Below(m)
          PROVE  LevelOf(e, g, t) = LevelOf(h, g, t)
      <4>1. \A d \in Dependencies(g, t) : e[d] = h[d]
        BY <1>1, <3>1, <3>5
      <4> HIDE DEF e
      <4>2. {e[d] : d \in Dependencies(g, t)} = {h[d] : d \in Dependencies(g, t)}
        BY <4>1
      <4>3. QED
        BY <4>2 DEF LevelOf
    <3>7. e = [t \in Below(m) |-> LevelOf(e, g, t)]
      <4>1. [t \in Below(m) |-> LevelOf(e, g, t)] = [t \in Below(m) |-> LevelOf(h, g, t)]
        BY <3>6, Zenon
      <4>2. QED
        BY <4>1, Zenon
    <3> HIDE DEF e
    <3>8. Levelled(e, g, Below(m))
      BY <3>7 DEF Levelled
    <3>9. QED
      BY <1>2, <3>8
  <2>3. QED
    BY <2>1, <2>2
<1>3. n + 1 \in Good
  <2> SUFFICES ASSUME n + 1 \notin Good PROVE FALSE
    OBVIOUS
  <2> HIDE DEF Good
  <2>1. n + 1 \in Nat
    OBVIOUS
  <2>2. QED
    BY <1>2, <2>1, LeastFailure
<1>4. Below(n + 1) = g.nodes
  OBVIOUS
<1>5. QED
  BY <1>3, <1>4

LEMMA AcyclicHasRank ==
  ASSUME NEW g, IsFiniteSet(g.nodes), Acyclic(g)
  PROVE  \E n \in Nat : \E rank \in [g.nodes -> 0..n] : Ranked(rank, Dictionary(g))
<1>1. DOMAIN Dictionary(g) = g.nodes /\ Sorted(Dictionary(g)) = g.nodes
  BY Zenon DEF Acyclic, Dictionary
<1>2. \E rank \in [g.nodes -> 0..Cardinality(g.nodes)] : Ranked(rank, Dictionary(g))
  BY <1>1, SortedHasRank
<1>3. QED
  BY <1>2, FS_CardinalityType

\* compute_topological_levels on an acyclic graph: every node gets a level, which is
\* above the levels of all its dependencies and next to one of them; so a node without
\* dependencies is at 0 and no level is empty for nothing.
THEOREM LevelsAscend ==
  ASSUME NEW g, IsFiniteSet(g.nodes), Acyclic(g)
  PROVE  /\ ComputeLevels(g) \in [g.nodes -> Nat]
         /\ \A t \in g.nodes : \A d \in Dependencies(g, t) :
              ComputeLevels(g)[d] < ComputeLevels(g)[t]
         /\ \A t \in g.nodes :
              ComputeLevels(g)[t] = 0 \/ \E d \in Dependencies(g, t) :
                                           ComputeLevels(g)[t] = ComputeLevels(g)[d] + 1
<1> DEFINE h == ComputeLevels(g)
<1>0. PICK n \in Nat : \E rank \in [g.nodes -> 0..n] : Ranked(rank, Dictionary(g))
  BY AcyclicHasRank
<1>1. PICK rank \in [g.nodes -> 0..n] : Ranked(rank, Dictionary(g))
  BY <1>0
<1>2. \E e : Levelled(e, g, g.nodes)
  BY <1>1, LevelsExist
<1>3. h = CHOOSE e : Levelled(e, g, g.nodes)
  BY Zenon DEF ComputeLevels, Levelled, LevelOf
<1> HIDE DEF h
<1>4. Levelled(h, g, g.nodes)
  BY <1>2, <1>3, Zenon
<1>5. \A t \in g.nodes : h[t] \in Nat /\ h[t] <= rank[t]
  BY <1>1, <1>4, LevelsBelowRank
<1>6. \A t \in g.nodes : h[t] = LevelOf(h, g, t)
  BY <1>4 DEF Levelled
<1>7. h \in [g.nodes -> Nat]
  BY <1>4, <1>5 DEF Levelled
<1>8. ASSUME NEW t \in g.nodes
      PROVE  \A d \in Dependencies(g, t) : h[d] < h[t]
  <2>1. \A d \in Dependencies(g, t) : h[d] \in Nat /\ h[d] < rank[t]
    <3> SUFFICES ASSUME NEW d \in Dependencies(g, t) PROVE h[d] \in Nat /\ h[d] < rank[t]
      OBVIOUS
    <3>1. d \in g.nodes /\ rank[d] < rank[t]
      BY <1>1, RankedDependencies
    <3>2. rank[d] \in Nat /\ rank[t] \in Nat /\ h[d] \in Nat /\ h[d] <= rank[d]
      BY <1>1, <1>5, <3>1
    <3>3. QED
      BY <3>1, <3>2
  <2>2. rank[t] \in Nat
    BY <1>1
  <2>3. QED
    BY <1>6, <2>1, <2>2, LevelAbove
<1>9. ASSUME NEW t \in g.nodes, h[t] # 0
      PROVE  \E d \in Dependencies(g, t) : h[t] = h[d] + 1
  <2> DEFINE S == {h[d] : d \in Dependencies(g, t)}
  <2>1. Dependencies(g, t) # {} /\ h[t] = 1 + Max(S)
    BY <1>6, <1>9 DEF LevelOf
  <2>2. \A d \in Dependencies(g, t) : h[d] \in Nat /\ h[d] <= h[t]
    <3> SUFFICES ASSUME NEW d \in Dependencies(g, t) PROVE h[d] \in Nat /\ h[d] <= h[t]
      OBVIOUS
    <3>1. d \in g.nodes /\ h[d] < h[t]
      BY <1>8 DEF Dependencies
    <3>2. QED
      BY <1>5, <3>1
  <2>3. S \subseteq Nat /\ S # {} /\ \A y \in S : y <= h[t]
    BY <2>1, <2>2
  <2>4. h[t] \in Nat
    BY <1>5
  <2>5. Max(S) \in S
    <3> HIDE DEF S
    <3>1. QED
      BY <2>3, <2>4, GreatestNumber
  <2>6. PICK d \in Dependencies(g, t) : Max(S) = h[d]
    BY <2>5
  <2>7. h[d] \in Nat
    BY <2>2
  <2> HIDE DEF S
  <2>8. QED
    BY <2>1, <2>6, <2>7
<1>10. QED
  BY <1>7, <1>8, <1>9 DEF h
-----------------------------------------------------------------------------
(* Building *)

BuiltEdges(tasks) == UNION {{<<d, t>> : d \in tasks[t]} : t \in DOMAIN tasks}

LEMMA BuildFields ==
  ASSUME NEW tasks
  PROVE  LET g == Build(tasks)
         IN  /\ g.nodes = DOMAIN tasks /\ g.edges = BuiltEdges(tasks)
             /\ g.status = [t \in DOMAIN tasks |-> "PENDING"] /\ g.state = "READY"
             /\ g.levels = g.meta
             /\ \E bare : /\ bare.nodes = DOMAIN tasks /\ bare.edges = BuiltEdges(tasks)
                          /\ g.levels = ComputeLevels(bare)
<1> DEFINE bare == [EmptyGraph EXCEPT
                     !.nodes  = DOMAIN tasks,
                     !.edges  = BuiltEdges(tasks),
                     !.status = [t \in DOMAIN tasks |-> "PENDING"],
                     !.state  = "READY"]
<1>1. /\ bare.nodes = DOMAIN tasks /\ bare.edges = BuiltEdges(tasks) /\ bare.state = "READY"
      /\ bare.status = [t \in DOMAIN tasks |-> "PENDING"]
      /\ DOMAIN bare = GraphFields
  BY DEF EmptyGraph, GraphFields
<1>2. Build(tasks) = [bare EXCEPT !.levels = ComputeLevels(bare), !.meta = ComputeLevels(bare)]
  BY Zenon DEF Build, BuiltEdges
<1> HIDE DEF bare
<1>3. QED
  BY <1>1, <1>2 DEF GraphFields

LEMMA BuiltDependencies ==
  ASSUME NEW tasks, Buildable(tasks), NEW g, g.nodes = DOMAIN tasks, g.edges = BuiltEdges(tasks)
  PROVE  /\ \A t \in g.nodes : Dependencies(g, t) = tasks[t]
         /\ Acyclic(g)
<1>1. \A t \in DOMAIN tasks : tasks[t] \subseteq DOMAIN tasks
  BY DEF Buildable, DependenciesExist
<1>2. \A t \in g.nodes : Dependencies(g, t) = tasks[t]
  BY <1>1 DEF Dependencies, BuiltEdges
<1>3. DOMAIN Dictionary(g) = DOMAIN tasks /\ \A t \in DOMAIN tasks : Dictionary(g)[t] = tasks[t]
  BY <1>2 DEF Dictionary
<1>4. \A f, k : Round(f, Dictionary(g), k) = Round(f, tasks, k)
  BY <1>3 DEF Round
<1>5. Sorted(Dictionary(g)) = Sorted(tasks)
  <2> DEFINE n == Cardinality(DOMAIN tasks)
  <2>1. \A f : Rounds(f, Dictionary(g), n) <=> Rounds(f, tasks, n)
    BY <1>4 DEF Rounds
  <2>2. (CHOOSE f : Rounds(f, Dictionary(g), n)) = CHOOSE f : Rounds(f, tasks, n)
    BY <2>1
  <2>3. Sorted(tasks) = (CHOOSE f : Rounds(f, tasks, n))[n]
    BY Zenon DEF Sorted, Rounds, Round
  <2>4. Sorted(Dictionary(g)) = (CHOOSE f : Rounds(f, Dictionary(g), n))[n]
    BY <1>3, Zenon DEF Sorted, Rounds, Round
  <2>5. QED
    BY <2>2, <2>3, <2>4
<1>6. Acyclic(g)
  BY <1>5, Zenon DEF Acyclic, Dictionary, Buildable
<1>7. QED
  BY <1>2, <1>6

\* What the builder returns for a plan it accepts is what the executor relies on: every
\* task has a level, levels ascend along the dependencies, nothing has run yet.
THEOREM BuiltGraphsAreExecutable ==
  ASSUME NEW tasks, IsFiniteSet(DOMAIN tasks), Buildable(tasks),
         NEW ids, DOMAIN tasks \subseteq ids
  PROVE  DOMAIN Build(tasks).levels = DOMAIN tasks /\ Executable(Build(tasks), ids)
<1> DEFINE g == Build(tasks)
<1>1. /\ g.nodes = DOMAIN tasks /\ g.edges = BuiltEdges(tasks)
      /\ g.status = [t \in DOMAIN tasks |-> "PENDING"] /\ g.state = "READY"
      /\ g.levels = g.meta
  BY BuildFields
<1>2. PICK bare : /\ bare.nodes = DOMAIN tasks /\ bare.edges = BuiltEdges(tasks)
                  /\ g.levels = ComputeLevels(bare)
  BY BuildFields
<1> HIDE DEF g
<1>3. /\ Acyclic(g) /\ Acyclic(bare)
      /\ \A t \in DOMAIN tasks : Dependencies(g, t) = tasks[t] /\ Dependencies(bare, t) = tasks[t]
  BY <1>1, <1>2, BuiltDependencies
<1>4. /\ g.levels \in [DOMAIN tasks -> Nat]
      /\ \A t \in DOMAIN tasks : \A d \in tasks[t] : g.levels[d] < g.levels[t]
  BY <1>2, <1>3, LevelsAscend
<1>5. /\ ComputeLevels(g) \in [DOMAIN tasks -> Nat]
      /\ \A t \in DOMAIN tasks : \A d \in tasks[t] : ComputeLevels(g)[d] < ComputeLevels(g)[t]
  BY <1>1, <1>3, LevelsAscend
<1>6. /\ EffectiveLevels(g) \in [DOMAIN tasks -> Nat]
      /\ \A t \in DOMAIN tasks : \A d \in tasks[t] : EffectiveLevels(g)[d] < EffectiveLevels(g)[t]
  <2>1. EffectiveLevels(g) = g.levels \/ EffectiveLevels(g) = ComputeLevels(g)
    BY <1>1 DEF EffectiveLevels
  <2>2. QED
    BY <1>4, <1>5, <2>1
<1>7. \A t \in DOMAIN tasks : tasks[t] \subseteq DOMAIN tasks
  BY DEF Buildable, DependenciesExist
<1>8. g.status \in [g.nodes -> TaskStatus \ {"RUNNING"}] /\ g.state \in GraphStatus
  BY <1>1 DEF TaskStatus, GraphStatus
<1> DEFINE level == EffectiveLevels(g)
<1> HIDE DEF level
<1>9. /\ level \in [DOMAIN tasks -> Nat]
      /\ \A t \in DOMAIN tasks : \A d \in tasks[t] : level[d] < level[t]
  BY <1>6 DEF level
<1>10. DOMAIN level = DOMAIN tasks /\ level \in [DOMAIN level -> Nat]
  BY <1>9
<1>11. \A t \in DOMAIN level : \A d \in Dependencies(g, t) : d \in DOMAIN level /\ level[d] < level[t]
  BY <1>3, <1>7, <1>9, <1>10
<1>12. Executable(g, ids)
  BY <1>1, <1>8, <1>10, <1>11 DEF Executable, level
<1>13. QED
  BY <1>4, <1>12 DEF g
-----------------------------------------------------------------------------
(* Mutation *)

\* A graph is acyclic unless some of its nodes all wait for each other.
LEMMA AcyclicMeansNoCycle ==
  ASSUME NEW g, IsFiniteSet(g.nodes)
  PROVE  Acyclic(g) <=> ~ \E S \in SUBSET g.nodes :
                            S # {} /\ \A t \in S : Dependencies(g, t) \cap S # {}
<1>1. /\ DOMAIN Dictionary(g) = g.nodes
      /\ \A t \in g.nodes : Dictionary(g)[t] = Dependencies(g, t)
  BY DEF Dictionary
<1>2. DependenciesExist(Dictionary(g))
  BY <1>1 DEF DependenciesExist, Dependencies
<1>3. Acyclic(g) <=> Sorted(Dictionary(g)) = DOMAIN Dictionary(g)
  BY <1>1, Zenon DEF Acyclic, Dictionary
<1>4. Sorted(Dictionary(g)) = DOMAIN Dictionary(g) <=> \A S : ~Cycle(S, Dictionary(g))
  BY <1>1, <1>2, CycleCheckIsExact
<1>5. \A S : Cycle(S, Dictionary(g)) <=> /\ S \in SUBSET g.nodes /\ S # {}
                                         /\ \A t \in S : Dependencies(g, t) \cap S # {}
  BY <1>1 DEF Cycle
<1>6. QED
  BY <1>3, <1>4, <1>5

LEMMA EmptyIsAcyclic ==
  ASSUME NEW g, g.nodes = {}
  PROVE  Acyclic(g)
<1>1. IsFiniteSet(g.nodes)
  BY FS_EmptySet
<1>2. QED
  BY <1>1, AcyclicMeansNoCycle

\* Statuses, levels and metadata are not looked at.
LEMMA SameOrder ==
  ASSUME NEW g, NEW h, h.nodes = g.nodes, h.edges = g.edges
  PROVE  Acyclic(h) <=> Acyclic(g)
<1>1. Dictionary(h) = Dictionary(g)
  BY DEF Dictionary, Dependencies
<1>2. \A i : Acyclic(i) <=> Sorted(Dictionary(i)) = i.nodes
  BY Zenon DEF Acyclic, Dictionary
<1>3. QED
  BY <1>1, <1>2

LEMMA RewiredFields ==
  ASSUME NEW g, DOMAIN g = GraphFields, NEW failed, NEW newTasks
  PROVE  LET kept == g.nodes \ AffectedSubgraph(g, failed)
             h == Rewired(g, failed, newTasks)
         IN  /\ h.nodes = kept \cup DOMAIN newTasks
             /\ h.edges = {e \in g.edges : /\ e[1] \notin AffectedSubgraph(g, failed)
                                           /\ e[2] \notin AffectedSubgraph(g, failed)}
                          \cup UNION {{<<d, t>> : d \in newTasks[t] \cap h.nodes} :
                                      t \in DOMAIN newTasks}
             /\ DOMAIN h = GraphFields
BY DEF Rewired, GraphFields

\* Cutting out the tasks behind a failure and putting in new ones closes no cycle,
\* unless the new tasks bring one, whatever they depend on: nothing that survives
\* waits for something new.
THEOREM MutationKeepsOrder ==
  ASSUME NEW g, DOMAIN g = GraphFields, IsFiniteSet(g.nodes),
         g.edges \subseteq g.nodes \X g.nodes, Acyclic(g), NEW failed,
         NEW newTasks, IsFiniteSet(DOMAIN newTasks), \A S : ~Cycle(S, newTasks),
         DOMAIN newTasks \cap (g.nodes \ AffectedSubgraph(g, failed)) = {}
  PROVE  IsFiniteSet(Rewired(g, failed, newTasks).nodes) /\ Acyclic(Rewired(g, failed, newTasks))
<1> DEFINE affected == AffectedSubgraph(g, failed)
           kept == g.nodes \ affected
           h == Rewired(g, failed, newTasks)
<1>1. /\ h.nodes = kept \cup DOMAIN newTasks
      /\ h.edges = {e \in g.edges : e[1] \notin affected /\ e[2] \notin affected}
                   \cup UNION {{<<d, t>> : d \in newTasks[t] \cap h.nodes} : t \in DOMAIN newTasks}
  BY RewiredFields
<1>2. IsFiniteSet(h.nodes)
  <2>1. kept \in SUBSET g.nodes
    OBVIOUS
  <2>2. IsFiniteSet(kept)
    BY <2>1, FS_Subset
  <2> DEFINE survivors == kept
  <2>3. IsFiniteSet(survivors) /\ h.nodes = survivors \cup DOMAIN newTasks
    BY <1>1, <2>2
  <2> HIDE DEF survivors, h
  <2>4. IsFiniteSet(survivors \cup DOMAIN newTasks)
    BY <2>3, FS_Union
  <2>5. QED
    BY <2>3, <2>4
<1> HIDE DEF affected, h
<1>3. ASSUME NEW t \in kept, NEW d \in Dependencies(h, t)
      PROVE  d \in kept /\ d \in Dependencies(g, t)
  <2>1. t \notin DOMAIN newTasks /\ <<d, t>> \in h.edges
    BY DEF Dependencies, affected
  <2>2. <<d, t>> \in g.edges /\ d \notin affected
    BY <1>1, <2>1
  <2>3. QED
    BY <2>2 DEF Dependencies
<1>4. ASSUME NEW t \in DOMAIN newTasks, NEW d \in Dependencies(h, t)
      PROVE  d \in newTasks[t]
  <2>1. t \notin kept /\ <<d, t>> \in h.edges
    BY DEF Dependencies, affected
  <2>2. <<d, t>> \notin {e \in g.edges : e[1] \notin affected /\ e[2] \notin affected}
    BY <2>1
  <2>3. QED
    BY <1>1, <2>1, <2>2
<1>5. ASSUME NEW S \in SUBSET h.nodes, S # {}, \A t \in S : Dependencies(h, t) \cap S # {}
      PROVE  FALSE
  <2>1. S \cap kept = {}
    <3> SUFFICES ASSUME S \cap kept # {} PROVE FALSE
      OBVIOUS
    <3> DEFINE old == S \cap kept
    <3>1. \A t \in old : Dependencies(g, t) \cap old # {}
      BY <1>3, <1>5
    <3>2. old \in SUBSET g.nodes /\ old # {}
      OBVIOUS
    <3> HIDE DEF old
    <3>3. QED
      BY <3>1, <3>2, AcyclicMeansNoCycle
  <2>2. S \subseteq DOMAIN newTasks
    BY <1>1, <2>1
  <2>3. \A t \in S : newTasks[t] \cap S # {}
    BY <1>4, <1>5, <2>2
  <2>4. Cycle(S, newTasks)
    BY <1>5, <2>2, <2>3 DEF Cycle
  <2>5. QED
    BY <2>4
<1>6. Acyclic(h)
  BY <1>2, <1>5, AcyclicMeansNoCycle
<1>7. QED
  BY <1>2, <1>6 DEF h
-----------------------------------------------------------------------------
(* Executing *)

\* The contract always leaves the executor an outcome, so a step that stands for a call
\* can always be taken; and no failure is among the outcomes exactly if the levels list
\* nothing but nodes.
THEOREM CallsHaveAnOutcome ==
  ASSUME NEW g, NEW ids, Executable(g, ids)
  PROVE  /\ FailureSets(g) # {}
         /\ {} \in FailureSets(g) <=> DOMAIN EffectiveLevels(g) \subseteq g.nodes
<1> DEFINE level == EffectiveLevels(g)
           phantoms == Unfinished(g) \ g.nodes
<1>1. level \in [DOMAIN level -> Nat] /\ Unfinished(g) \subseteq DOMAIN level
  BY DEF Executable, Unfinished
<1>2. {} \in FailureSets(g) <=> phantoms = {}
  BY DEF FailureSets
<1>3. phantoms = {} <=> DOMAIN level \subseteq g.nodes
  BY DEF Unfinished
<1>4. ASSUME phantoms # {} PROVE FailureSets(g) # {}
  <2> DEFINE S == {level[m] : m \in phantoms}
  <2>1. S \subseteq Nat /\ S # {}
    BY <1>1, <1>4
  <2>2. PICK n \in S : \A k \in S : n <= k
    <3> HIDE DEF S
    <3>1. QED
      BY <2>1, LeastNumber
  <2> DEFINE F == {m \in phantoms : level[m] = n}
  <2>3. F \in SUBSET Unfinished(g) /\ \A t, u \in F : level[t] = level[u]
    OBVIOUS
  <2>4. PICK f \in phantoms : level[f] = n
    BY <2>2
  <2>5. f \in F
    BY <2>4
  <2>6. ASSUME NEW m \in phantoms PROVE m \in F \/ \E t \in F : level[t] < level[m]
    <3>1. level[m] \in S /\ level[m] \in Nat /\ n \in Nat
      BY <1>1, <2>1, <2>2
    <3>2. n <= level[m]
      BY <2>2, <3>1
    <3>3. QED
      BY <2>4, <2>5, <3>1, <3>2
  <2>7. F \in FailureSets(g)
    BY <2>3, <2>6 DEF FailureSets
  <2>8. QED
    BY <2>7
<1>5. QED
  BY <1>2, <1>3, <1>4

LEMMA SameLevels ==
  ASSUME NEW g, NEW h, h.nodes = g.nodes, h.edges = g.edges, h.levels = g.levels, h.meta = g.meta
  PROVE  EffectiveLevels(h) = EffectiveLevels(g)
<1>1. \A t : Dependencies(h, t) = Dependencies(g, t)
  BY DEF Dependencies
<1>2. ComputeLevels(h) = ComputeLevels(g)
  BY <1>1, Zenon DEF ComputeLevels
<1>3. QED
  BY <1>2 DEF EffectiveLevels

\* One call of execute_full_graph after the other: what a call leaves of an executable
\* graph is executable again, and finished work still rests on finished work only, for
\* the groups are a barrier even where their levels are stale.
THEOREM ExecutionKeepsOrder ==
  ASSUME NEW g, DOMAIN g = GraphFields, g.edges \subseteq g.nodes \X g.nodes,
         NEW ids, Executable(g, ids),
         \A t \in g.nodes : g.status[t] = "COMPLETED" =>
           \A d \in Dependencies(g, t) : g.status[d] = "COMPLETED",
         NEW F \in FailureSets(g), NEW state \in GraphStatus
  PROVE  LET h == [g EXCEPT !.status = StatusAfter(g, F), !.state = state]
         IN  /\ Executable(h, ids)
             /\ \A t \in h.nodes : h.status[t] = "COMPLETED" =>
                  \A d \in Dependencies(h, t) : h.status[d] = "COMPLETED"
<1> DEFINE after == StatusAfter(g, F)
           h == [g EXCEPT !.status = after, !.state = state]
           level == EffectiveLevels(g)
<1>1. /\ \A t \in g.nodes : after[t] = IF t \in F THEN "FAILED"
             ELSE IF t \in Unfinished(g) /\ \A f \in F : level[t] <= level[f] THEN "COMPLETED"
             ELSE g.status[t]
      /\ DOMAIN after = g.nodes
  BY DEF StatusAfter
<1>2. g.status \in [g.nodes -> TaskStatus \ {"RUNNING"}]
  BY DEF Executable
<1>3. after \in [g.nodes -> TaskStatus \ {"RUNNING"}]
  <2>1. after = [t \in g.nodes |-> after[t]]
    BY DEF StatusAfter
  <2>2. {"FAILED", "COMPLETED"} \subseteq TaskStatus \ {"RUNNING"}
    BY DEF TaskStatus
  <2> HIDE DEF after
  <2>3. \A t \in g.nodes : after[t] \in TaskStatus \ {"RUNNING"}
    BY <1>1, <1>2, <2>2
  <2>4. QED
    BY <2>1, <2>3
<1> HIDE DEF after
<1>4. /\ h.nodes = g.nodes /\ h.edges = g.edges /\ h.levels = g.levels /\ h.meta = g.meta
      /\ h.status = after /\ h.state = state
  BY DEF GraphFields
<1> HIDE DEF h
<1>5. EffectiveLevels(h) = level
  BY <1>4, SameLevels
<1>6. \A t : Dependencies(h, t) = Dependencies(g, t)
  BY <1>4 DEF Dependencies
<1>7. Executable(h, ids)
  BY <1>3, <1>4, <1>5, <1>6 DEF Executable
<1>8. ASSUME NEW t \in g.nodes, after[t] = "COMPLETED", NEW d \in Dependencies(g, t)
      PROVE  after[d] = "COMPLETED"
  <2>1. d \in g.nodes
    BY DEF Dependencies
  <2>2. level \in [DOMAIN level -> Nat] /\ F \subseteq Unfinished(g)
    BY DEF Executable, FailureSets
  <2>3. CASE t \in Unfinished(g) /\ \A f \in F : level[t] <= level[f]
    <3>1. t \in DOMAIN level
      BY <2>3 DEF Unfinished
    <3>2. d \in DOMAIN level /\ level[d] < level[t]
      BY <3>1 DEF Executable
    <3>3. \A f \in F : level[f] \in Nat
      BY <2>2 DEF Unfinished
    <3>4. d \notin F /\ \A f \in F : level[d] <= level[f]
      BY <2>2, <2>3, <3>1, <3>2, <3>3
    <3>5. d \in Unfinished(g) \/ g.status[d] = "COMPLETED"
      BY <3>2 DEF Unfinished
    <3>6. QED
      BY <1>1, <2>1, <3>4, <3>5
  <2>4. CASE ~(t \in Unfinished(g) /\ \A f \in F : level[t] <= level[f])
    <3>1. g.status[t] = "COMPLETED"
      BY <1>1, <1>8, <2>4
    <3>2. g.status[d] = "COMPLETED"
      BY <3>1
    <3>3. d \notin Unfinished(g)
      BY <2>1, <3>2 DEF Unfinished
    <3>4. QED
      BY <1>1, <2>1, <2>2, <3>2, <3>3
  <2>5. QED
    BY <2>3, <2>4
<1>9. \A t \in h.nodes : h.status[t] = "COMPLETED" =>
         \A d \in Dependencies(h, t) : h.status[d] = "COMPLETED"
  BY <1>4, <1>6, <1>8
<1>10. QED
  BY <1>7, <1>9 DEF h, after
=============================================================================
