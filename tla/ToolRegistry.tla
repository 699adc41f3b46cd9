----------------------------- MODULE ToolRegistry -----------------------------
(***************************************************************************)
(* The tool marketplace (tools/registry.py, tools/base_tool.py).           *)
(*                                                                         *)
(* Clients pick the best tool of a category and execute it with its        *)
(* fallbacks, concurrently on one event loop: what lies between two awaits *)
(* is one action.  Shares are in units of 1/One, latencies in milliseconds *)
(* and money in units of 0.0001 dollars, which is what base_tool charges   *)
(* for a millisecond.                                                      *)
(***************************************************************************)
EXTENDS Integers, Sequences, FiniteSets, SequencesExt

CONSTANTS Clients,      \* the concurrent users of the marketplace
          Startup,      \* the tools of the category, in the order of their registration
          LateTools,    \* tools registered while clients are at work
          FallbackOf,   \* get_registration().fallback_chain; it may name anything
          Latencies,    \* how long a tool may take
          One           \* the share 1.0, divisible by the calls a tool may get

Names == ToSet(Startup) \cup LateTools

Chain(t) == <<t>> \o FallbackOf[t]

\* No chain names a tool twice.
ASSUME RegistryAssumption ==
  /\ Startup \in Seq(Names) /\ Startup # <<>>
  /\ IsFiniteSet(Clients)
  /\ Latencies \subseteq Nat /\ \E top \in Latencies : \A l \in Latencies : l <= top
  /\ One \in Nat /\ \A n \in 1..Cardinality(Clients) : One % n = 0
  /\ \A t \in Names : /\ FallbackOf[t] \in Seq(ToSet(FallbackOf[t]))
                      /\ \A i, j \in DOMAIN Chain(t) : Chain(t)[i] = Chain(t)[j] => i = j

VARIABLES tools,     \* _categories[category], and so _tools
          metrics,   \* _metrics
          client     \* the coroutines in execute_with_fallback; history: the results
                     \* they got and the names they skipped

registryVars == <<tools, metrics, client>>

Registered == ToSet(tools)

NewMetrics == [calls |-> 0, latency |-> 0, accuracy |-> One, failureRate |-> 0, cost |-> 0]

RegistryInit ==
  /\ tools = Startup
  /\ metrics = [t \in ToSet(Startup) |-> NewMetrics]
  /\ client = [c \in Clients |->
       [pc |-> "idle", tool |-> Startup[1], at |-> 0, tried |-> {}, skipped |-> {}]]

\* register; a name that is taken raises ValueError and changes nothing.
Register(t) ==
  /\ t \notin Registered
  /\ tools' = Append(tools, t)
  /\ metrics' = [n \in Registered \cup {t} |-> IF n = t THEN NewMetrics ELSE metrics[n]]
  /\ UNCHANGED client

\* The weights 0.4, 0.3, 0.2 and 0.1 of get_best_tool, in units of One/10; a
\* latency of 10 seconds or an average cost of 100 dollars counts as 1.0.
Score(m) == LET share(x, whole) == (One * Min({x, whole})) \div whole
            IN  4 * m.accuracy + 3 * (One - m.failureRate)
                + 2 * (One - share(m.latency, 10000)) + One - share(m.cost, 1000000)

\* get_best_tool: the first of the tools with the highest score.
BestTool ==
  LET best == {i \in DOMAIN tools : \A j \in DOMAIN tools :
                                       Score(metrics[tools[j]]) <= Score(metrics[tools[i]])}
  IN  tools[Min(best)]

\* A client asks for a tool; it may execute it much later.
Select(c) ==
  /\ client[c].pc = "idle"
  /\ client' = [client EXCEPT ![c] =
       [pc |-> "chosen", tool |-> BestTool, at |-> 0, tried |-> {}, skipped |-> {}]]
  /\ UNCHANGED <<tools, metrics>>

\* Mutant of Walk: a name that is not registered ends the walk.
WalkUntilUnknown(t, from) ==
  IF from \in DOMAIN Chain(t) /\ Chain(t)[from] \in Registered THEN from ELSE Len(Chain(t)) + 1

\* The loop over the chain of t from a position to the next await: names nobody
\* registered are skipped, and the end of the chain is one past its last name.
Walk(t, from) ==
  LET known == {i \in from..Len(Chain(t)) : Chain(t)[i] \in Registered}
  IN  IF known = {} THEN Len(Chain(t)) + 1 ELSE Min(known)

\* The names from one position of the chain of t to another that nobody has
\* registered at this moment.
Unknown(t, from, to) == {Chain(t)[i] : i \in from..to} \ Registered

\* execute_with_fallback up to its first await.
Execute(c) ==
  /\ client[c].pc = "chosen"
  /\ client' = [client EXCEPT ![c] =
       [pc |-> "calling", tool |-> client[c].tool, at |-> Walk(client[c].tool, 1),
        tried |-> {}, skipped |-> Unknown(client[c].tool, 1, Walk(client[c].tool, 1) - 1)]]
  /\ UNCHANGED <<tools, metrics>>

\* Mutants of Updated: failures are not counted; the accuracy follows the last call only.
UpdatedOnSuccess(m, success, latency) ==
  IF success THEN [m EXCEPT !.calls = @ + 1] ELSE m

UpdatedToLast(m, success, latency) ==
  [m EXCEPT !.calls = @ + 1, !.accuracy = IF success THEN One ELSE 0,
            !.failureRate = IF success THEN 0 ELSE One]

\* update_metrics: moving averages, of which only the latency's is exponential.
\* A failed call costs nothing.
Updated(m, success, latency) ==
  LET n == m.calls + 1
      mean(old, new) == (old * (n - 1) + new) \div n
      accuracy == mean(m.accuracy, IF success THEN One ELSE 0)
  IN  [calls |-> n,
       latency |-> IF n = 1 THEN latency ELSE (9 * m.latency + latency) \div 10,
       accuracy |-> accuracy, failureRate |-> One - accuracy,
       cost |-> mean(m.cost, IF success THEN latency ELSE 0)]

\* A tool returns or raises: execute_with_metrics turns both into a result, the
\* metrics are updated, and on failure the walk goes on.
ToolReturns(c, success, latency) ==
  LET chain == Chain(client[c].tool)
      t == chain[client[c].at]
      next == Walk(client[c].tool, client[c].at + 1)
  IN  /\ client[c].pc = "calling"
      /\ metrics' = [metrics EXCEPT ![t] = Updated(@, success, latency)]
      /\ client' = [client EXCEPT ![c] =
            [pc |-> IF success THEN "served" ELSE IF next > Len(chain) THEN "failed" ELSE "calling",
             tool |-> client[c].tool, at |-> next,
             tried |-> client[c].tried \cup {[tool |-> t, success |-> success]},
             skipped |-> IF success THEN client[c].skipped
                         ELSE client[c].skipped
                              \cup Unknown(client[c].tool, client[c].at + 1, next - 1)]]
      /\ UNCHANGED tools

ClientStep(c) ==
  \/ Select(c) \/ Execute(c)
  \/ \E success \in BOOLEAN, latency \in Latencies : ToolReturns(c, success, latency)

Next == (\E c \in Clients : ClientStep(c)) \/ (\E t \in LateTools : Register(t))

Spec == RegistryInit /\ [][Next]_registryVars

-----------------------------------------------------------------------------

TypeOK ==
  /\ Registered \subseteq Names /\ DOMAIN metrics = Registered
  /\ \A t \in Registered :
       /\ metrics[t].accuracy \in 0..One /\ metrics[t].failureRate \in 0..One
       /\ metrics[t].calls \in 0..Cardinality(Clients)
       /\ metrics[t].latency \in 0..Max(Latencies) /\ metrics[t].cost \in 0..Max(Latencies)
  /\ \A c \in Clients :
       /\ client[c].pc \in {"idle", "chosen", "calling", "served", "failed"}
       /\ client[c].tool \in Registered
       /\ client[c].pc = "calling" => /\ client[c].at \in DOMAIN Chain(client[c].tool)
                                      /\ Chain(client[c].tool)[client[c].at] \in Registered

\* The metrics of a tool are those of the results the clients have seen from it,
\* however their calls overlap: update_metrics loses none, counts none twice, and
\* the running mean it keeps is the share of the successes.
MetricsCountAttempts ==
  \A t \in Registered :
     LET results(ok) == {c \in Clients : [tool |-> t, success |-> ok] \in client[c].tried}
         good == Cardinality(results(TRUE))
         all == good + Cardinality(results(FALSE))
     IN  /\ metrics[t].calls = all
         /\ all > 0 => /\ metrics[t].accuracy * all = One * good
                       /\ metrics[t].failureRate * all = One * (all - good)

\* "All fallbacks exhausted": a client is told so only when every tool of its
\* chain has failed it or was not registered at the moment the walk passed its name.
MarketplaceExhausted ==
  \A c \in Clients :
     client[c].pc = "failed" =>
       \A i \in DOMAIN Chain(client[c].tool) :
          LET t == Chain(client[c].tool)[i]
          IN  [tool |-> t, success |-> FALSE] \in client[c].tried \/ t \in client[c].skipped

\* What the marketplace says of its tools and what the clients have seen of them
\* is the same, with every variable in its range.
AttemptsAreAccounted == TypeOK /\ MetricsCountAttempts /\ MarketplaceExhausted
=============================================================================
