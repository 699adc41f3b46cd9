-------------------------- MODULE RiskPredictorProofs --------------------------
(***************************************************************************)
(* Proofs about ToolRegistry, for any finite set of clients, any tools     *)
(* with any fallback chains that name no tool twice, and any registrations *)
(* while the clients are at work; then about RiskPredictor, for any        *)
(* actions, tools, thresholds and whatever history the metrics of the      *)
(* marketplace hold.                                                       *)
(***************************************************************************)
EXTENDS RiskPredictor, FiniteSetTheorems, WellFoundedInduction, TLAPS

-----------------------------------------------------------------------------
(* The marketplace *)

Top == Max(Latencies)

Results == [tool : Names, success : BOOLEAN]

MetricsType == [calls : Nat, latency : 0..Top, accuracy : 0..One, failureRate : 0..One,
                cost : 0..Top]

\* Everything the chains name, registered one day or never.
ChainNames == UNION {ToSet(Chain(t)) : t \in Names}

ClientType == [pc : {"idle", "chosen", "calling", "served", "failed"},
               tool : Names, at : Nat, tried : SUBSET Results,
               skipped : SUBSET ChainNames]

TypeInv ==
  /\ tools \in Seq(Names) /\ tools # <<>> /\ ToSet(Startup) \subseteq Registered
  /\ metrics \in [Registered -> MetricsType]
  /\ client \in [Clients -> ClientType]

\* Up to position k of the chain, every tool has failed the client or was not
\* registered when the client came to it.
Failing(w, k) ==
  \A i \in 1..k : \/ [tool |-> Chain(w.tool)[i], success |-> FALSE] \in w.tried
                  \/ Chain(w.tool)[i] \in w.skipped

\* What a client has tried, at each stage of its walk: only tools before its
\* position, so the call under way is to a tool it has no result from yet.
WalkInv(w) ==
  /\ w.tool \in Registered
  /\ \A a \in w.tried : a.tool \in Registered
  /\ \A t \in Names : ~( /\ [tool |-> t, success |-> TRUE] \in w.tried
                         /\ [tool |-> t, success |-> FALSE] \in w.tried )
  /\ w.pc \in {"idle", "chosen"} => w.tried = {}
  /\ w.pc = "calling" =>
       /\ w.at \in DOMAIN Chain(w.tool) /\ Chain(w.tool)[w.at] \in Registered
       /\ Failing(w, w.at - 1)
       /\ \A a \in w.tried : \E i \in 1..(w.at - 1) : a.tool = Chain(w.tool)[i]
  /\ w.pc = "failed" => Failing(w, Len(Chain(w.tool)))

\* MetricsCountAttempts of one tool.
ResultsOf(t, ok) == {c \in Clients : [tool |-> t, success |-> ok] \in client[c].tried}

Counted(m, good, all) ==
  /\ m.calls = all
  /\ all > 0 => /\ m.accuracy * all = One * good
                /\ m.failureRate * all = One * (all - good)

CountInv ==
  \A t \in Registered :
     Counted(metrics[t], Cardinality(ResultsOf(t, TRUE)),
             Cardinality(ResultsOf(t, TRUE)) + Cardinality(ResultsOf(t, FALSE)))

RegistryInv == TypeInv /\ (\A c \in Clients : WalkInv(client[c])) /\ CountInv
-----------------------------------------------------------------------------
(* Numbers *)

LEMMA LeastNumber ==
  ASSUME NEW S, S \subseteq Nat, S # {}
  PROVE  Min(S) \in S /\ \A y \in S : Min(S) <= y
<1>1. PICK x \in S : \A y \in S : ~(<<y, x>> \in OpToRel(<, Nat))
  BY NatLessThanWellFounded, WFMin
<1>2. \A y \in S : ~(y < x)
  BY <1>1, Zenon DEF OpToRel
<1>3. \A y \in S : x <= y
  BY <1>2
<1>4. QED
  BY <1>3, Zenon DEF Min

LEMMA SlowestLatency == Top \in Nat /\ Latencies \subseteq 0..Top
<1>1. \E top \in Latencies : \A l \in Latencies : top >= l
  BY RegistryAssumption
<1>2. Top \in Latencies /\ \A l \in Latencies : Top >= l
  BY <1>1, Zenon DEF Top, Max
<1>3. QED
  BY <1>2, RegistryAssumption

\* The share that a whole number of calls makes is a whole number of units.
LEMMA Quotient ==
  ASSUME NEW n \in Nat, n > 0, NEW x \in Nat
  PROVE  (n * x) \div n = x
OBVIOUS

LEMMA Divided ==
  ASSUME NEW n \in Nat, n > 0, NEW x \in Nat, x % n = 0
  PROVE  \E q \in Nat : x = n * q
OBVIOUS

\* A mean of numbers in a range is in the range.
LEMMA MeanInRange ==
  ASSUME NEW top \in Nat, NEW n \in Nat, n > 0, NEW old \in 0..top, NEW new \in 0..top
  PROVE  (old * (n - 1) + new) \div n \in 0..top
<1>1. old * (n - 1) <= top * (n - 1) /\ old * (n - 1) \in Nat
  OBVIOUS
<1>2. top * (n - 1) + top = top * n
  OBVIOUS
<1>3. old * (n - 1) + new \in Nat /\ old * (n - 1) + new <= top * n
  BY <1>1, <1>2
<1> DEFINE sum == old * (n - 1) + new
<1> HIDE DEF sum
<1>4. sum \in Nat /\ sum <= top * n
  BY <1>3 DEF sum
<1>5. sum \div n \in Nat /\ n * (sum \div n) <= sum
  BY <1>4
<1>6. sum \div n <= top
  BY <1>4, <1>5
<1>7. QED
  BY <1>5, <1>6 DEF sum

\* The metrics after a call are in range, and still the share of the successes: the
\* whole number One holds of every count of calls makes the running mean exact.
LEMMA UpdatedCounts ==
  ASSUME NEW m \in MetricsType, NEW good \in Nat, NEW all \in Nat, good <= all,
         all + 1 <= Cardinality(Clients), Counted(m, good, all),
         NEW success \in BOOLEAN, NEW latency \in Latencies
  PROVE  /\ Updated(m, success, latency) \in MetricsType
         /\ Counted(Updated(m, success, latency),
                    IF success THEN good + 1 ELSE good, all + 1)
<1> DEFINE n == all + 1
           now == IF success THEN good + 1 ELSE good
           gain == IF success THEN One ELSE 0
           cost == IF success THEN latency ELSE 0
           accuracy == (m.accuracy * (n - 1) + gain) \div n
           r == [calls |-> n,
                 latency |-> IF n = 1 THEN latency ELSE (9 * m.latency + latency) \div 10,
                 accuracy |-> accuracy, failureRate |-> One - accuracy,
                 cost |-> (m.cost * (n - 1) + cost) \div n]
<1>1. /\ m.calls = all /\ m.latency \in 0..Top /\ m.accuracy \in 0..One /\ m.cost \in 0..Top
      /\ One \in Nat /\ Top \in Nat /\ latency \in 0..Top
      /\ all > 0 => m.accuracy * all = One * good
  BY SlowestLatency, RegistryAssumption DEF MetricsType, Counted
<1>2. Updated(m, success, latency) = r
  BY <1>1 DEF Updated
<1>3. Cardinality(Clients) \in Nat
  BY FS_CardinalityType, RegistryAssumption
<1>4. n \in 1..Cardinality(Clients) /\ One % n = 0
  BY <1>3, RegistryAssumption
<1>5. PICK q \in Nat : One = n * q
  <2> HIDE DEF n
  <2>1. n \in Nat /\ n > 0 /\ One \in Nat /\ One % n = 0
    BY <1>1, <1>3, <1>4
  <2>2. QED
    BY <2>1, Divided
<1>6. m.accuracy * (n - 1) = One * good
  <2>1. CASE all > 0
    BY <1>1, <2>1
  <2>2. CASE all = 0
    BY <1>1, <2>2
  <2>3. QED
    BY <2>1, <2>2
<1>7. m.accuracy * (n - 1) + gain = One * now /\ now \in Nat /\ now <= n
  BY <1>1, <1>6
<1>8. One * now = n * (q * now)
  BY <1>5, <1>7
<1>9. accuracy = q * now
  BY <1>7, <1>8, Quotient
<1>10. q * now \in Nat /\ q * now <= One
  BY <1>5, <1>7
<1> HIDE DEF accuracy
<1>11. accuracy \in 0..One /\ One - accuracy \in 0..One
  BY <1>1, <1>9, <1>10
<1>12. accuracy * n = One * now
  BY <1>5, <1>7, <1>9
<1>13. (One - accuracy) * n = One * (n - now)
  <2>1. (One - accuracy) * n = One * n - accuracy * n
    BY <1>1, <1>11
  <2>2. One * (n - now) = One * n - One * now
    BY <1>1, <1>7
  <2>3. QED
    BY <1>12, <2>1, <2>2
<1>14. (m.cost * (n - 1) + cost) \div n \in 0..Top
  <2>1. n \in Nat /\ n > 0 /\ m.cost \in 0..Top /\ cost \in 0..Top /\ Top \in Nat
    BY <1>1
  <2> HIDE DEF n, cost
  <2>2. QED
    BY <2>1, MeanInRange
<1>15. r.latency \in 0..Top
  BY <1>1
<1>16. r \in MetricsType
  BY <1>11, <1>14, <1>15 DEF MetricsType
<1>17. Counted(r, now, n)
  BY <1>12, <1>13 DEF Counted
<1>18. QED
  BY <1>2, <1>16, <1>17
-----------------------------------------------------------------------------
(* The choice and the walk *)

LEMMA SmallerOf ==
  ASSUME NEW x \in Nat, NEW y \in Nat
  PROVE  Min({x, y}) \in Nat
<1>1. {x, y} \subseteq Nat /\ {x, y} # {}
  OBVIOUS
<1>2. Min({x, y}) \in {x, y}
  BY <1>1, LeastNumber
<1>3. QED
  BY <1>2

LEMMA ScoreIsBounded ==
  ASSUME NEW m \in MetricsType
  PROVE  Score(m) \in Int /\ Score(m) <= 10 * One
<1> DEFINE slow == Min({m.latency, 10000})
           dear == Min({m.cost, 1000000})
<1>1. slow \in Nat /\ dear \in Nat
  <2>1. m.latency \in Nat /\ m.cost \in Nat
    BY SlowestLatency DEF MetricsType
  <2>2. QED
    BY <2>1, SmallerOf
<1>2. Score(m) = 4 * m.accuracy + 3 * (One - m.failureRate)
                 + 2 * (One - (One * slow) \div 10000) + One - (One * dear) \div 1000000
  BY DEF Score
<1> HIDE DEF slow, dear
<1>3. One * slow \in Nat /\ One * dear \in Nat
  BY <1>1, RegistryAssumption
<1>4. (One * slow) \div 10000 \in Nat /\ (One * dear) \div 1000000 \in Nat
  BY <1>3
<1>5. m.accuracy \in 0..One /\ m.failureRate \in 0..One /\ One \in Nat
  BY RegistryAssumption DEF MetricsType
<1> DEFINE a == (One * slow) \div 10000
           b == (One * dear) \div 1000000
<1> HIDE DEF a, b
<1>6. a \in Nat /\ b \in Nat
  BY <1>4 DEF a, b
<1>7. Score(m) = 4 * m.accuracy + 3 * (One - m.failureRate) + 2 * (One - a) + One - b
  BY <1>2 DEF a, b
<1>8. QED
  BY <1>5, <1>6, <1>7

\* There is always a best tool, and it is registered.
LEMMA BestToolIsRegistered ==
  ASSUME TypeInv
  PROVE  BestTool \in Registered
<1> DEFINE deficit(i) == 10 * One - Score(metrics[tools[i]])
           deficits == {deficit(i) : i \in DOMAIN tools}
           best == {i \in DOMAIN tools : \A j \in DOMAIN tools :
                      Score(metrics[tools[j]]) <= Score(metrics[tools[i]])}
<1>1. DOMAIN tools = 1..Len(tools) /\ Len(tools) \in Nat /\ 1 \in DOMAIN tools
  BY DEF TypeInv
<1>2. \A i \in DOMAIN tools : /\ tools[i] \in Registered
                              /\ Score(metrics[tools[i]]) \in Int
                              /\ Score(metrics[tools[i]]) <= 10 * One
  BY ScoreIsBounded DEF TypeInv, Registered, ToSet
<1>3. One \in Nat
  BY RegistryAssumption
<1>4. deficits \subseteq Nat /\ deficits # {}
  BY <1>1, <1>2, <1>3
<1>5. PICK i \in DOMAIN tools : \A j \in DOMAIN tools : deficit(i) <= deficit(j)
  <2>1. Min(deficits) \in deficits /\ \A d \in deficits : Min(deficits) <= d
    <3> HIDE DEF deficits
    <3>1. QED
      BY <1>4, LeastNumber
  <2>2. PICK i \in DOMAIN tools : Min(deficits) = deficit(i)
    BY <2>1, Zenon
  <2>3. \A j \in DOMAIN tools : deficit(j) \in deficits
    OBVIOUS
  <2>4. \A j \in DOMAIN tools : deficit(i) <= deficit(j)
    <3> HIDE DEF deficits, deficit
    <3>1. QED
      BY <2>1, <2>2, <2>3
  <2>5. QED
    BY <2>4
<1>6. i \in best
  BY <1>2, <1>3, <1>5
<1>7. best \subseteq Nat
  BY <1>1
<1>8. Min(best) \in best
  BY <1>6, <1>7, LeastNumber
<1>9. BestTool = tools[Min(best)]
  BY DEF BestTool
<1>10. QED
  BY <1>2, <1>8, <1>9

LEMMA ChainOfNames ==
  ASSUME NEW t \in Names
  PROVE  /\ Len(Chain(t)) \in Nat /\ Len(Chain(t)) > 0
         /\ DOMAIN Chain(t) = 1..Len(Chain(t)) /\ Chain(t)[1] = t
         /\ \A i, j \in DOMAIN Chain(t) : Chain(t)[i] = Chain(t)[j] => i = j
<1>1. \A i, j \in DOMAIN Chain(t) : Chain(t)[i] = Chain(t)[j] => i = j
  BY RegistryAssumption
<1>2. FallbackOf[t] \in Seq(ToSet(FallbackOf[t]))
  BY RegistryAssumption
<1>3. Len(FallbackOf[t]) \in Nat
  BY <1>2
<1>4. Chain(t) = <<t>> \o FallbackOf[t] /\ FallbackOf[t] \in Seq(ToSet(FallbackOf[t]) \cup {t})
  BY <1>2 DEF Chain
<1>5. QED
  BY <1>1, <1>3, <1>4

\* The walk stops at a registered tool or past the end, and passes none.
LEMMA WalkSkipsUnknown ==
  ASSUME NEW t \in Names, NEW from \in Nat, from > 0
  PROVE  /\ Walk(t, from) \in Nat
         /\ \/ /\ Walk(t, from) \in DOMAIN Chain(t) /\ Walk(t, from) >= from
               /\ Chain(t)[Walk(t, from)] \in Registered
            \/ Walk(t, from) = Len(Chain(t)) + 1
         /\ \A i \in from..Len(Chain(t)) : i < Walk(t, from) => Chain(t)[i] \notin Registered
<1> DEFINE known == {i \in from..Len(Chain(t)) : Chain(t)[i] \in Registered}
<1>1. /\ Len(Chain(t)) \in Nat /\ DOMAIN Chain(t) = 1..Len(Chain(t))
  BY ChainOfNames
<1>2. Walk(t, from) = IF known = {} THEN Len(Chain(t)) + 1 ELSE Min(known)
  BY DEF Walk
<1>3. known \subseteq Nat
  BY <1>1
<1>4. CASE known = {}
  BY <1>1, <1>2, <1>4
<1>5. CASE known # {}
  <2>1. Min(known) \in known /\ \A i \in known : Min(known) <= i
    BY <1>3, <1>5, LeastNumber
  <2> HIDE DEF known
  <2>2. Walk(t, from) = Min(known)
    BY <1>2, <1>5
  <2>3. /\ Walk(t, from) \in from..Len(Chain(t)) /\ Chain(t)[Walk(t, from)] \in Registered
        /\ \A i \in known : Walk(t, from) <= i
    BY <2>1, <2>2 DEF known
  <2>4. \A i \in from..Len(Chain(t)) : i < Walk(t, from) => Chain(t)[i] \notin Registered
    BY <1>1, <2>3 DEF known
  <2>5. QED
    BY <1>1, <2>3, <2>4
<1>6. QED
  BY <1>4, <1>5
-----------------------------------------------------------------------------
(* The invariant *)

LEMMA RegisteredNames ==
  ASSUME TypeInv
  PROVE  Registered \subseteq Names /\ \A t \in Registered : metrics[t] \in MetricsType
BY DEF TypeInv, Registered, ToSet

LEMMA NewMetricsType == NewMetrics \in MetricsType /\ Counted(NewMetrics, 0, 0)
<1>1. One \in Nat /\ Top \in Nat
  BY SlowestLatency, RegistryAssumption
<1>2. QED
  BY <1>1 DEF NewMetrics, MetricsType, Counted

\* The metrics of a tool from which nobody has a result.
LEMMA NothingCounted ==
  ASSUME NEW good, NEW bad, good = {}, bad = {}
  PROVE  Counted(NewMetrics, Cardinality(good), Cardinality(good) + Cardinality(bad))
<1>1. Cardinality(good) = 0 /\ Cardinality(bad) = 0
  BY FS_EmptySet
<1>2. Cardinality(good) + Cardinality(bad) = 0
  BY <1>1
<1>3. QED
  BY <1>1, <1>2, NewMetricsType

LEMMA ResultsAreFinite ==
  ASSUME NEW t, NEW ok
  PROVE  IsFiniteSet(ResultsOf(t, ok)) /\ Cardinality(ResultsOf(t, ok)) \in Nat
<1>1. ResultsOf(t, ok) \in SUBSET Clients
  BY DEF ResultsOf
<1>2. IsFiniteSet(ResultsOf(t, ok))
  BY <1>1, FS_Subset, RegistryAssumption
<1>3. QED
  BY <1>2, FS_CardinalityType

LEMMA DisjointUnion ==
  ASSUME NEW S, NEW T, IsFiniteSet(S), IsFiniteSet(T), S \cap T = {}
  PROVE  /\ IsFiniteSet(S \cup T)
         /\ Cardinality(S \cup T) = Cardinality(S) + Cardinality(T)
         /\ Cardinality(S) \in Nat /\ Cardinality(T) \in Nat
<1>1. Cardinality(S \cap T) = 0
  BY FS_EmptySet
<1>2. /\ IsFiniteSet(S \cup T)
      /\ Cardinality(S \cup T) = Cardinality(S) + Cardinality(T) - Cardinality(S \cap T)
  BY FS_Union
<1>3. Cardinality(S) \in Nat /\ Cardinality(T) \in Nat
  BY FS_CardinalityType
<1>4. QED
  BY <1>1, <1>2, <1>3

LEMMA InitInv == RegistryInit => RegistryInv
<1> SUFFICES ASSUME RegistryInit PROVE RegistryInv
  OBVIOUS
<1>1. /\ tools \in Seq(Names) /\ tools # <<>> /\ ToSet(Startup) = Registered
      /\ Startup[1] \in Registered /\ Startup[1] \in Names
  BY RegistryAssumption DEF RegistryInit, Registered, ToSet
<1>2. metrics \in [Registered -> MetricsType]
  BY <1>1, NewMetricsType DEF RegistryInit
<1>3. client \in [Clients -> ClientType]
  BY <1>1 DEF RegistryInit, ClientType
<1>4. TypeInv
  BY <1>1, <1>2, <1>3 DEF TypeInv
<1>5. \A c \in Clients : WalkInv(client[c])
  BY <1>1 DEF RegistryInit, WalkInv
<1>6. CountInv
  <2> SUFFICES ASSUME NEW t \in Registered
               PROVE  Counted(metrics[t], Cardinality(ResultsOf(t, TRUE)),
                        Cardinality(ResultsOf(t, TRUE)) + Cardinality(ResultsOf(t, FALSE)))
    BY DEF CountInv
  <2>1. ResultsOf(t, TRUE) = {} /\ ResultsOf(t, FALSE) = {}
    BY DEF RegistryInit, ResultsOf
  <2>2. metrics[t] = NewMetrics
    BY <1>1 DEF RegistryInit
  <2>3. QED
    BY <2>1, <2>2, NothingCounted
<1>7. QED
  BY <1>4, <1>5, <1>6 DEF RegistryInv

\* A tool comes in with no calls, and nobody can have a result from it.
LEMMA RegisterKeeps ==
  ASSUME RegistryInv, NEW t \in LateTools, Register(t)
  PROVE  RegistryInv'
<1>1. /\ TypeInv /\ CountInv /\ \A c \in Clients : WalkInv(client[c])
      /\ t \notin Registered /\ tools' = Append(tools, t) /\ client' = client
      /\ metrics' = [n \in Registered \cup {t} |-> IF n = t THEN NewMetrics ELSE metrics[n]]
  BY DEF RegistryInv, Register
<1>2. tools \in Seq(Names) /\ t \in Names
  BY <1>1 DEF TypeInv, Names
<1>3. /\ tools' \in Seq(Names) /\ tools' # <<>> /\ Len(tools') = Len(tools) + 1
      /\ Len(tools) \in Nat
      /\ \A i \in 1..Len(tools) : tools'[i] = tools[i]
      /\ tools'[Len(tools) + 1] = t
  BY <1>1, <1>2
<1>4. Registered' = Registered \cup {t}
  <2>1. Registered = {tools[i] : i \in 1..Len(tools)}
    BY <1>2 DEF Registered, ToSet
  <2>2. Registered' = {tools'[i] : i \in 1..(Len(tools) + 1)}
    BY <1>3 DEF Registered, ToSet
  <2>3. QED
    BY <1>3, <2>1, <2>2
<1>5. TypeInv'
  <2>1. metrics' \in [Registered' -> MetricsType]
    BY <1>1, <1>4, RegisteredNames, NewMetricsType
  <2>2. QED
    BY <1>1, <1>3, <1>4, <2>1 DEF TypeInv
<1>6. \A c \in Clients : WalkInv(client[c])'
  BY <1>1, <1>4 DEF WalkInv, Failing
<1>7. CountInv'
  <2> SUFFICES ASSUME NEW u \in Registered \cup {t}
               PROVE  Counted(metrics'[u], Cardinality(ResultsOf(u, TRUE)),
                        Cardinality(ResultsOf(u, TRUE)) + Cardinality(ResultsOf(u, FALSE)))
    <3>1. \A u, ok : ResultsOf(u, ok)' = ResultsOf(u, ok)
      BY <1>1 DEF ResultsOf
    <3>2. QED
      BY <1>4, <3>1 DEF CountInv, Counted
  <2>1. CASE u = t
    <3>1. ResultsOf(t, TRUE) = {} /\ ResultsOf(t, FALSE) = {}
      BY <1>1 DEF ResultsOf, WalkInv
    <3>2. metrics'[t] = NewMetrics
      BY <1>1
    <3>3. QED
      BY <2>1, <3>1, <3>2, NothingCounted
  <2>2. CASE u # t
    <3>1. metrics'[u] = metrics[u] /\ u \in Registered
      BY <1>1, <2>2
    <3>2. QED
      BY <1>1, <3>1 DEF CountInv
  <2>3. QED
    BY <2>1, <2>2
<1>8. QED
  BY <1>5, <1>6, <1>7 DEF RegistryInv

\* Steps that bring no result.
LEMMA NoResultKeeps ==
  ASSUME RegistryInv, NEW c \in Clients, NEW w \in ClientType,
         client' = [client EXCEPT ![c] = w], UNCHANGED <<tools, metrics>>,
         w.tried = client[c].tried, WalkInv(w)
  PROVE  RegistryInv'
<1>1. /\ TypeInv /\ CountInv /\ \A d \in Clients : WalkInv(client[d])
      /\ client \in [Clients -> ClientType] /\ Registered' = Registered
  BY DEF RegistryInv, TypeInv, Registered
<1>2. client'[c] = w /\ \A d \in Clients : d # c => client'[d] = client[d]
  BY <1>1
<1>3. TypeInv'
  BY <1>1 DEF TypeInv, Registered
<1>4. \A d \in Clients : WalkInv(client[d])'
  <2>1. \A d \in Clients : WalkInv(client'[d])
    BY <1>1, <1>2
  <2>2. QED
    BY <1>1, <2>1 DEF WalkInv, Failing
<1>5. \A t, ok : ResultsOf(t, ok)' = ResultsOf(t, ok)
  BY <1>2 DEF ResultsOf
<1>6. CountInv'
  BY <1>1, <1>5 DEF CountInv, Counted
<1>7. QED
  BY <1>3, <1>4, <1>6 DEF RegistryInv

LEMMA SelectKeeps ==
  ASSUME RegistryInv, NEW c \in Clients, Select(c)
  PROVE  RegistryInv'
<1> DEFINE w == [pc |-> "chosen", tool |-> BestTool, at |-> 0, tried |-> {}, skipped |-> {}]
<1>1. TypeInv /\ WalkInv(client[c])
  BY DEF RegistryInv
<1>2. BestTool \in Registered /\ BestTool \in Names
  BY <1>1, BestToolIsRegistered, RegisteredNames
<1>3. client[c].tried = {}
  BY <1>1 DEF Select, WalkInv
<1>4. w \in ClientType
  BY <1>2 DEF ClientType
<1>5. WalkInv(w)
  BY <1>2 DEF WalkInv
<1>6. client' = [client EXCEPT ![c] = w] /\ UNCHANGED <<tools, metrics>>
  BY DEF Select
<1>7. w.tried = client[c].tried
  BY <1>3
<1> HIDE DEF w
<1>8. QED
  BY <1>4, <1>5, <1>6, <1>7, NoResultKeeps

\* The first call is to the chosen tool itself.
LEMMA ExecuteKeeps ==
  ASSUME RegistryInv, NEW c \in Clients, Execute(c)
  PROVE  RegistryInv'
<1> DEFINE w == [pc |-> "calling", tool |-> client[c].tool, at |-> Walk(client[c].tool, 1),
                 tried |-> {}, skipped |-> Unknown(client[c].tool, 1, Walk(client[c].tool, 1) - 1)]
<1>1. TypeInv /\ WalkInv(client[c]) /\ client[c] \in ClientType /\ client[c].pc = "chosen"
  BY DEF RegistryInv, TypeInv, Execute
<1>2. client[c].tool \in Names /\ client[c].tool \in Registered /\ client[c].tried = {}
  BY <1>1 DEF WalkInv, ClientType
<1>3. /\ Len(Chain(client[c].tool)) \in Nat /\ Len(Chain(client[c].tool)) > 0
      /\ DOMAIN Chain(client[c].tool) = 1..Len(Chain(client[c].tool))
      /\ Chain(client[c].tool)[1] = client[c].tool
  BY <1>2, ChainOfNames
<1>4. Walk(client[c].tool, 1) = 1
  <2>1. /\ Walk(client[c].tool, 1) \in Nat
        /\ \/ Walk(client[c].tool, 1) >= 1
           \/ Walk(client[c].tool, 1) = Len(Chain(client[c].tool)) + 1
        /\ \A i \in 1..Len(Chain(client[c].tool)) :
             i < Walk(client[c].tool, 1) => Chain(client[c].tool)[i] \notin Registered
    BY <1>2, WalkSkipsUnknown
  <2>2. ~(1 < Walk(client[c].tool, 1))
    BY <1>2, <1>3, <2>1
  <2>3. QED
    BY <1>3, <2>1, <2>2
<1>5. w = [pc |-> "calling", tool |-> client[c].tool, at |-> 1, tried |-> {}, skipped |-> {}]
  <2>1. Unknown(client[c].tool, 1, 0) = {}
    BY DEF Unknown
  <2>2. QED
    BY <1>4, <2>1
<1> HIDE DEF w
<1>6. w \in ClientType
  BY <1>2, <1>5 DEF ClientType
<1>7. WalkInv(w)
  BY <1>2, <1>3, <1>5 DEF WalkInv, Failing
<1>8. client' = [client EXCEPT ![c] = w] /\ UNCHANGED <<tools, metrics>>
  BY DEF Execute, w
<1>9. w.tried = client[c].tried
  BY <1>2, <1>5
<1>10. QED
  BY <1>6, <1>7, <1>8, <1>9, NoResultKeeps

\* One more result of t, of a client that had none of it.
LEMMA OneMoreResult ==
  ASSUME RegistryInv, NEW c \in Clients, NEW t \in Registered, NEW success \in BOOLEAN,
         NEW latency \in Latencies,
         [tool |-> t, success |-> TRUE] \notin client[c].tried,
         [tool |-> t, success |-> FALSE] \notin client[c].tried,
         client'[c].tried = client[c].tried \cup {[tool |-> t, success |-> success]},
         \A d \in Clients : d # c => client'[d].tried = client[d].tried,
         metrics' = [metrics EXCEPT ![t] = Updated(@, success, latency)], UNCHANGED tools
  PROVE  CountInv' /\ metrics' \in [Registered -> MetricsType]
<1> DEFINE good == ResultsOf(t, TRUE)
           bad == ResultsOf(t, FALSE)
           m == Updated(metrics[t], success, latency)
<1>1. /\ TypeInv /\ CountInv /\ Registered' = Registered /\ metrics \in [Registered -> MetricsType]
      /\ \A d \in Clients : WalkInv(client[d])
  BY DEF RegistryInv, TypeInv, Registered
<1>2. t \in Names /\ metrics[t] \in MetricsType
  BY <1>1, RegisteredNames
<1>3. c \notin good /\ c \notin bad /\ good \cap bad = {}
  BY <1>1, <1>2 DEF ResultsOf, WalkInv
<1>4. /\ IsFiniteSet(good) /\ IsFiniteSet(bad)
      /\ Cardinality(good) \in Nat /\ Cardinality(bad) \in Nat
  BY ResultsAreFinite
<1>5. Cardinality(good) + Cardinality(bad) + 1 <= Cardinality(Clients)
  <2>1. /\ IsFiniteSet(good \cup bad)
        /\ Cardinality(good \cup bad) = Cardinality(good) + Cardinality(bad)
    BY <1>3, <1>4, DisjointUnion
  <2>2. Cardinality(good \cup bad \cup {c}) = Cardinality(good \cup bad) + 1
    BY <1>3, <2>1, FS_AddElement
  <2>3. good \cup bad \cup {c} \in SUBSET Clients
    BY DEF ResultsOf
  <2>4. Cardinality(good \cup bad \cup {c}) <= Cardinality(Clients)
    BY <2>3, FS_Subset, RegistryAssumption
  <2>5. QED
    BY <1>4, <2>1, <2>2, <2>4
<1>6. Counted(metrics[t], Cardinality(good), Cardinality(good) + Cardinality(bad))
  BY <1>1 DEF CountInv
<1>7. /\ m \in MetricsType
      /\ Counted(m, IF success THEN Cardinality(good) + 1 ELSE Cardinality(good),
                 Cardinality(good) + Cardinality(bad) + 1)
  <2>1. /\ Cardinality(good) + Cardinality(bad) \in Nat
        /\ Cardinality(good) <= Cardinality(good) + Cardinality(bad)
    <3> HIDE DEF good, bad
    <3>1. QED
      BY <1>4
  <2>2. QED
    BY <1>2, <1>4, <1>5, <1>6, <2>1, UpdatedCounts
<1>8. /\ metrics'[t] = m /\ metrics' \in [Registered -> MetricsType]
      /\ \A u \in Registered : u # t => metrics'[u] = metrics[u]
  BY <1>1, <1>7
<1>9. \A u, ok : u # t \/ ok # success => ResultsOf(u, ok)' = ResultsOf(u, ok)
  BY DEF ResultsOf
<1>10. ResultsOf(t, success)' = ResultsOf(t, success) \cup {c}
  BY DEF ResultsOf
<1>11. /\ Cardinality(ResultsOf(t, TRUE)')
            = IF success THEN Cardinality(good) + 1 ELSE Cardinality(good)
       /\ Cardinality(ResultsOf(t, FALSE)')
            = IF success THEN Cardinality(bad) ELSE Cardinality(bad) + 1
  <2> HIDE DEF m
  <2>1. CASE success = TRUE
    <3>1. ResultsOf(t, TRUE)' = good \cup {c} /\ ResultsOf(t, FALSE)' = bad
      BY <1>9, <1>10, <2>1
    <3>2. Cardinality(good \cup {c}) = Cardinality(good) + 1
      BY <1>3, <1>4, FS_AddElement
    <3>3. QED
      BY <2>1, <3>1, <3>2
  <2>2. CASE success = FALSE
    <3>1. ResultsOf(t, TRUE)' = good /\ ResultsOf(t, FALSE)' = bad \cup {c}
      BY <1>9, <1>10, <2>2
    <3>2. Cardinality(bad \cup {c}) = Cardinality(bad) + 1
      BY <1>3, <1>4, FS_AddElement
    <3>3. QED
      BY <2>2, <3>1, <3>2
  <2>3. QED
    BY <2>1, <2>2
<1>12. Counted(m, Cardinality(ResultsOf(t, TRUE)'),
               Cardinality(ResultsOf(t, TRUE)') + Cardinality(ResultsOf(t, FALSE)'))
  <2> HIDE DEF m, good, bad
  <2>1. Cardinality(ResultsOf(t, TRUE)') + Cardinality(ResultsOf(t, FALSE)')
          = Cardinality(good) + Cardinality(bad) + 1
    <3> DEFINE g == Cardinality(good)
               b == Cardinality(bad)
               g1 == Cardinality(ResultsOf(t, TRUE)')
               b1 == Cardinality(ResultsOf(t, FALSE)')
    <3>1. /\ g \in Nat /\ b \in Nat
          /\ g1 = IF success THEN g + 1 ELSE g
          /\ b1 = IF success THEN b ELSE b + 1
      BY <1>4, <1>11
    <3> HIDE DEF g, b, g1, b1
    <3>2. g1 + b1 = g + b + 1
      BY <3>1
    <3>3. QED
      BY <3>2 DEF g, b, g1, b1
  <2>2. QED
    BY <1>7, <1>11, <2>1
<1> HIDE DEF m, good, bad
<1>13. CountInv'
  <2> SUFFICES ASSUME NEW u \in Registered
               PROVE  Counted(metrics'[u], Cardinality(ResultsOf(u, TRUE)'),
                        Cardinality(ResultsOf(u, TRUE)') + Cardinality(ResultsOf(u, FALSE)'))
    BY <1>1 DEF CountInv, Counted
  <2>1. CASE u = t
    BY <1>8, <1>12, <2>1
  <2>2. CASE u # t
    <3>1. /\ ResultsOf(u, TRUE)' = ResultsOf(u, TRUE)
          /\ ResultsOf(u, FALSE)' = ResultsOf(u, FALSE)
          /\ metrics'[u] = metrics[u]
      BY <1>8, <1>9, <2>2
    <3>2. QED
      BY <1>1, <3>1 DEF CountInv
  <2>3. QED
    BY <2>1, <2>2
<1>14. QED
  BY <1>8, <1>13

LEMMA ToolReturnsKeeps ==
  ASSUME RegistryInv, NEW c \in Clients, NEW success \in BOOLEAN, NEW latency \in Latencies,
         ToolReturns(c, success, latency)
  PROVE  RegistryInv'
<1> DEFINE chain == Chain(client[c].tool)
           at == client[c].at
           t == chain[at]
           next == Walk(client[c].tool, at + 1)
           unknown == Unknown(client[c].tool, at + 1, next - 1)
           w == [pc |-> IF success THEN "served" ELSE IF next > Len(chain) THEN "failed" ELSE "calling",
                 tool |-> client[c].tool, at |-> next,
                 tried |-> client[c].tried \cup {[tool |-> t, success |-> success]},
                 skipped |-> IF success THEN client[c].skipped
                             ELSE client[c].skipped \cup unknown]
<1>1. /\ TypeInv /\ client[c] \in ClientType /\ client[c].pc = "calling" /\ WalkInv(client[c])
      /\ client \in [Clients -> ClientType] /\ \A d \in Clients : WalkInv(client[d])
      /\ Registered' = Registered
      /\ client' = [client EXCEPT ![c] = w]
      /\ metrics' = [metrics EXCEPT ![t] = Updated(@, success, latency)] /\ UNCHANGED tools
  BY DEF RegistryInv, TypeInv, ToolReturns, Registered
<1>2. /\ client[c].tool \in Names /\ client[c].tool \in Registered /\ client[c].tried \subseteq Results
      /\ at \in DOMAIN chain /\ t \in Registered /\ t \in Names
      /\ Failing(client[c], at - 1)
      /\ \A a \in client[c].tried : \E i \in 1..(at - 1) : a.tool = chain[i]
  BY <1>1, RegisteredNames DEF WalkInv, ClientType
<1>3. /\ Len(chain) \in Nat /\ DOMAIN chain = 1..Len(chain) /\ at \in Nat /\ at > 0
      /\ \A i, j \in DOMAIN chain : chain[i] = chain[j] => i = j
  BY <1>2, ChainOfNames
<1>4. \A a \in client[c].tried : a.tool # t
  BY <1>2, <1>3
<1>5. /\ next \in Nat
      /\ \/ next \in DOMAIN chain /\ next >= at + 1 /\ chain[next] \in Registered
         \/ next = Len(chain) + 1
      /\ \A i \in (at + 1)..Len(chain) : i < next => chain[i] \notin Registered
  <2>1. at + 1 \in Nat /\ at + 1 > 0
    BY <1>3
  <2>2. QED
    BY <1>2, <2>1, WalkSkipsUnknown
<1>6. /\ client'[c] = w /\ \A d \in Clients : d # c => client'[d] = client[d]
  BY <1>1
<1>7. CountInv' /\ metrics' \in [Registered -> MetricsType]
  <2>1. /\ [tool |-> t, success |-> TRUE] \notin client[c].tried
        /\ [tool |-> t, success |-> FALSE] \notin client[c].tried
    BY <1>4
  <2>2. /\ client'[c].tried = client[c].tried \cup {[tool |-> t, success |-> success]}
        /\ \A d \in Clients : d # c => client'[d].tried = client[d].tried
    BY <1>6
  <2> HIDE DEF t, w
  <2>3. QED
    BY <1>1, <1>2, <2>1, <2>2, OneMoreResult
<1>8. w \in ClientType
  <2>1. unknown \subseteq ChainNames
    <3>1. \A i \in (at + 1)..(next - 1) : i \in DOMAIN chain
      BY <1>3, <1>5
    <3>2. \A i \in DOMAIN chain : chain[i] \in ToSet(chain)
      BY DEF ToSet
    <3>3. ToSet(chain) \subseteq ChainNames
      BY <1>2 DEF ChainNames
    <3>4. QED
      BY <3>1, <3>2, <3>3 DEF Unknown
  <2>2. client[c].skipped \subseteq ChainNames
    BY <1>1 DEF ClientType
  <2> HIDE DEF unknown, next, t
  <2>3. QED
    BY <1>2, <1>5, <2>1, <2>2 DEF ClientType, Results
<1>9. TypeInv'
  <2> HIDE DEF w
  <2>1. client' \in [Clients -> ClientType]
    BY <1>1, <1>8
  <2>2. QED
    BY <1>1, <1>7, <2>1 DEF TypeInv
<1>10. ASSUME NEW k \in (at + 1)..Len(chain), k < next
       PROVE  chain[k] \in unknown
  BY <1>3, <1>5, <1>10 DEF Unknown
<1>11. ASSUME ~success, NEW k \in 1..Len(chain), k < next
       PROVE  \/ [tool |-> chain[k], success |-> FALSE] \in w.tried
              \/ chain[k] \in w.skipped
  <2>1. CASE k < at
    BY <1>2, <1>3, <2>1 DEF Failing
  <2>2. CASE k = at
    BY <1>11, <2>2
  <2>3. CASE k > at
    BY <1>3, <1>10, <1>11, <2>3
  <2>4. QED
    BY <1>3, <2>1, <2>2, <2>3
<1>12. WalkInv(w)
  <2>1. w.tool = client[c].tool /\ w.at = next /\ Chain(w.tool) = chain
    OBVIOUS
  <2>2. \A a \in w.tried : a.tool \in Registered
    BY <1>1, <1>2 DEF WalkInv
  <2>3. \A u \in Names : ~( /\ [tool |-> u, success |-> TRUE] \in w.tried
                            /\ [tool |-> u, success |-> FALSE] \in w.tried )
    BY <1>1, <1>4 DEF WalkInv
  <2>4. w.pc \notin {"idle", "chosen"}
    OBVIOUS
  <2>5. ASSUME w.pc = "calling"
        PROVE  /\ next \in DOMAIN chain /\ chain[next] \in Registered
               /\ Failing(w, next - 1)
               /\ \A a \in w.tried : \E i \in 1..(next - 1) : a.tool = chain[i]
    <3>1. ~success /\ next \in DOMAIN chain /\ next >= at + 1 /\ chain[next] \in Registered
      BY <1>3, <1>5, <2>5
    <3>2. Failing(w, next - 1)
      BY <1>3, <1>5, <1>11, <2>1, <3>1 DEF Failing
    <3>3. \A a \in w.tried : \E i \in 1..(next - 1) : a.tool = chain[i]
      <4> SUFFICES ASSUME NEW a \in w.tried
                   PROVE  \E i \in 1..(next - 1) : a.tool = chain[i]
        OBVIOUS
      <4>1. CASE a \in client[c].tried
        <5>1. PICK i \in 1..(at - 1) : a.tool = chain[i]
          BY <1>2, <4>1
        <5>2. i \in 1..(next - 1)
          BY <1>3, <1>5, <3>1
        <5>3. QED
          BY <5>1, <5>2
      <4>2. CASE a.tool = t
        <5>1. at \in 1..(next - 1)
          BY <1>3, <1>5, <3>1
        <5>2. QED
          BY <4>2, <5>1
      <4>3. QED
        BY <4>1, <4>2
    <3>4. QED
      BY <3>1, <3>2, <3>3
  <2>6. ASSUME w.pc = "failed"
        PROVE  Failing(w, Len(chain))
    <3>1. ~success /\ next > Len(chain)
      BY <2>6
    <3>2. \A k \in 1..Len(chain) : k < next
      BY <1>3, <1>5, <3>1
    <3>3. \A k \in 1..Len(chain) : \/ [tool |-> chain[k], success |-> FALSE] \in w.tried
                                   \/ chain[k] \in w.skipped
      BY <1>11, <3>1, <3>2
    <3> HIDE DEF w
    <3>4. QED
      BY <2>1, <3>3 DEF Failing
  <2> HIDE DEF w
  <2>7. QED
    BY <1>2, <2>1, <2>2, <2>3, <2>4, <2>5, <2>6 DEF WalkInv
<1>13. \A d \in Clients : WalkInv(client[d])'
  <2> HIDE DEF w
  <2>1. \A d \in Clients : WalkInv(client'[d])
    BY <1>1, <1>6, <1>12
  <2>2. QED
    BY <1>1, <2>1 DEF WalkInv, Failing
<1>14. QED
  BY <1>7, <1>9, <1>13 DEF RegistryInv

LEMMA NextKeeps == RegistryInv /\ [Next]_registryVars => RegistryInv'
<1> SUFFICES ASSUME RegistryInv, [Next]_registryVars PROVE RegistryInv'
  OBVIOUS
<1>1. CASE UNCHANGED registryVars
  BY <1>1 DEF registryVars, RegistryInv, TypeInv, CountInv, Counted, WalkInv, Failing, ResultsOf,
              Registered
<1>2. ASSUME NEW c \in Clients, ClientStep(c) PROVE RegistryInv'
  BY <1>2, SelectKeeps, ExecuteKeeps, ToolReturnsKeeps DEF ClientStep
<1>3. ASSUME NEW t \in LateTools, Register(t) PROVE RegistryInv'
  BY <1>3, RegisterKeeps
<1>4. QED
  BY <1>1, <1>2, <1>3 DEF Next

LEMMA InvImpliesAccounts == RegistryInv => AttemptsAreAccounted
<1> SUFFICES ASSUME RegistryInv PROVE AttemptsAreAccounted
  OBVIOUS
<1>1. TypeInv /\ CountInv /\ \A c \in Clients : WalkInv(client[c]) /\ client[c] \in ClientType
  BY DEF RegistryInv, TypeInv
<1>2. MetricsCountAttempts
  BY <1>1 DEF MetricsCountAttempts, CountInv, Counted, ResultsOf
<1>3. MarketplaceExhausted
  <2> SUFFICES ASSUME NEW c \in Clients, client[c].pc = "failed",
                      NEW i \in DOMAIN Chain(client[c].tool)
               PROVE  \/ [tool |-> Chain(client[c].tool)[i], success |-> FALSE] \in client[c].tried
                      \/ Chain(client[c].tool)[i] \in client[c].skipped
    BY DEF MarketplaceExhausted
  <2>1. DOMAIN Chain(client[c].tool) = 1..Len(Chain(client[c].tool))
    BY <1>1, ChainOfNames DEF ClientType
  <2>2. QED
    BY <1>1, <2>1 DEF WalkInv, Failing
<1>4. TypeOK
  <2>1. Registered \subseteq Names /\ DOMAIN metrics = Registered
    BY <1>1, RegisteredNames DEF TypeInv
  <2>2. ASSUME NEW t \in Registered
        PROVE  /\ metrics[t].accuracy \in 0..One /\ metrics[t].failureRate \in 0..One
               /\ metrics[t].calls \in 0..Cardinality(Clients)
               /\ metrics[t].latency \in 0..Max(Latencies) /\ metrics[t].cost \in 0..Max(Latencies)
    <3>1. metrics[t] \in MetricsType /\ t \in Names
      BY <1>1, RegisteredNames
    <3>2. ResultsOf(t, TRUE) \cap ResultsOf(t, FALSE) = {}
      BY <1>1, <3>1 DEF ResultsOf, WalkInv
    <3>3. /\ IsFiniteSet(ResultsOf(t, TRUE)) /\ IsFiniteSet(ResultsOf(t, FALSE))
          /\ Cardinality(ResultsOf(t, TRUE)) \in Nat /\ Cardinality(ResultsOf(t, FALSE)) \in Nat
      BY ResultsAreFinite
    <3>4. Cardinality(ResultsOf(t, TRUE) \cup ResultsOf(t, FALSE))
            = Cardinality(ResultsOf(t, TRUE)) + Cardinality(ResultsOf(t, FALSE))
      BY <3>2, <3>3, DisjointUnion
    <3>5. ResultsOf(t, TRUE) \cup ResultsOf(t, FALSE) \in SUBSET Clients
      BY DEF ResultsOf
    <3>6. Cardinality(ResultsOf(t, TRUE) \cup ResultsOf(t, FALSE)) <= Cardinality(Clients)
          /\ Cardinality(Clients) \in Nat
      BY <3>5, FS_Subset, FS_CardinalityType, RegistryAssumption
    <3>7. metrics[t].calls = Cardinality(ResultsOf(t, TRUE)) + Cardinality(ResultsOf(t, FALSE))
      BY <1>1 DEF CountInv, Counted
    <3>8. metrics[t].calls \in 0..Cardinality(Clients)
      <4> DEFINE good == Cardinality(ResultsOf(t, TRUE))
                 bad == Cardinality(ResultsOf(t, FALSE))
                 most == Cardinality(Clients)
      <4>1. /\ good \in Nat /\ bad \in Nat /\ most \in Nat /\ good + bad <= most
            /\ metrics[t].calls = good + bad
        BY <3>3, <3>4, <3>6, <3>7
      <4> HIDE DEF good, bad, most
      <4>2. metrics[t].calls \in 0..most
        BY <4>1
      <4>3. QED
        BY <4>2 DEF most
    <3>9. QED
      BY <3>1, <3>8 DEF MetricsType, Top
  <2>3. ASSUME NEW c \in Clients
        PROVE  /\ client[c].pc \in {"idle", "chosen", "calling", "served", "failed"}
               /\ client[c].tool \in Registered
               /\ client[c].pc = "calling" =>
                    /\ client[c].at \in DOMAIN Chain(client[c].tool)
                    /\ Chain(client[c].tool)[client[c].at] \in Registered
    BY <1>1 DEF ClientType, WalkInv
  <2>4. QED
    BY <2>1, <2>2, <2>3 DEF TypeOK
<1>5. QED
  BY <1>2, <1>3, <1>4 DEF AttemptsAreAccounted

\* The metrics count every result the clients have seen exactly once and keep the
\* exact share of the successes, and "All fallbacks exhausted" is told only when
\* they are: for any number of clients, whose calls overlap in any way.
THEOREM AttemptsAddUp == Spec => []AttemptsAreAccounted
<1>1. RegistryInit => RegistryInv
  BY InitInv
<1>2. RegistryInv /\ [Next]_registryVars => RegistryInv'
  BY NextKeeps
<1>3. RegistryInv => AttemptsAreAccounted
  BY InvImpliesAccounts
<1>4. QED
  BY <1>1, <1>2, <1>3, PTL DEF Spec

-----------------------------------------------------------------------------
(* The risk assessment *)

Levels == {"LOW", "MEDIUM", "HIGH"}

\* Nothing in assess ever says CRITICAL.
LEMMA LlmRiskLevels ==
  ASSUME NEW action, NEW tool
  PROVE  LlmRisk(action, tool) \in Levels
BY DEF LlmRisk, Levels

\* One HIGH makes the whole assessment HIGH.
LEMMA HighWins ==
  ASSUME NEW S, S \subseteq Levels, "HIGH" \in S
  PROVE  MaxRisk(S) = "HIGH"
<1>1. RiskOrder["LOW"] = 0 /\ RiskOrder["MEDIUM"] = 1 /\ RiskOrder["HIGH"] = 2
  BY DEF RiskOrder
<1>2. \A b \in S : RiskOrder[b] <= RiskOrder["HIGH"]
  BY <1>1 DEF Levels
<1>3. MaxRisk(S) \in S /\ RiskOrder["HIGH"] <= RiskOrder[MaxRisk(S)]
  BY <1>2 DEF MaxRisk
<1>4. MaxRisk(S) = "LOW" \/ MaxRisk(S) = "MEDIUM" \/ MaxRisk(S) = "HIGH"
  BY <1>3 DEF Levels
<1>5. MaxRisk(S) # "LOW" /\ MaxRisk(S) # "MEDIUM"
  BY <1>1, <1>3
<1>6. QED
  BY <1>4, <1>5

\* A cost above the threshold, or a security flag, makes the level HIGH.
LEMMA DangerIsHigh ==
  ASSUME NEW action, NEW tool, NEW sensitive, NEW threshold,
         EstimateCost(action, tool) > threshold \/ CheckSecurity(action, sensitive)
  PROVE  RiskLevel(action, tool, sensitive, threshold) = "HIGH"
<1> DEFINE cost == EstimateCost(action, tool)
           history == IF tool \in Registered /\ 10 * metrics[tool].failureRate > 3 * One
                      THEN {"MEDIUM"} ELSE {}
           money == IF cost > threshold THEN {"HIGH"}
                    ELSE IF 2 * cost > threshold THEN {"MEDIUM"} ELSE {}
           security == IF CheckSecurity(action, sensitive) THEN {"HIGH"} ELSE {}
           all == {"LOW", LlmRisk(action, tool)} \cup history \cup money \cup security
<1>1. RiskLevel(action, tool, sensitive, threshold) = MaxRisk(all)
  BY DEF RiskLevel
<1>2. "HIGH" \in money \cup security
  OBVIOUS
<1>3. history \cup money \cup security \subseteq Levels
  BY DEF Levels
<1>4. all \subseteq Levels /\ "HIGH" \in all
  BY <1>2, <1>3, LlmRiskLevels DEF Levels
<1>5. QED
  BY <1>1, <1>4, HighWins

\* Danger needs a human: reading words in the name of an action do not help, because
\* the level computed before is HIGH, and no history of any tool can lower it.
THEOREM DangerIsApprovedByHumans == Spec => []DangerNeedsApproval
<1>1. DangerNeedsApproval
  <2> SUFFICES ASSUME NEW action \in Actions, NEW tool \in Names, NEW sensitive \in BOOLEAN,
                      NEW threshold \in Thresholds,
                      EstimateCost(action, tool) > threshold \/ CheckSecurity(action, sensitive)
               PROVE  Assess(action, tool, sensitive, threshold)
                        = [risk_level |-> "HIGH", requires_approval |-> TRUE]
    BY DEF DangerNeedsApproval
  <2>1. RiskLevel(action, tool, sensitive, threshold) = "HIGH"
    BY DangerIsHigh
  <2>2. ~ReadOnly(action, "HIGH")
    BY DEF ReadOnly
  <2>3. QED
    BY <2>1, <2>2 DEF Assess
<1>2. QED
  BY <1>1, PTL
===============================================================================
