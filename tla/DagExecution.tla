---------------------------- MODULE DagExecution ----------------------------
(***************************************************************************)
(* What executing a task graph promises, with no word about groups,        *)
(* coroutines or semaphores: a task runs at most once, only after all its  *)
(* dependencies are COMPLETED, never together with more than MaxParallel   *)
(* others; and the verdict is "completed" only if every task is COMPLETED, *)
(* "failed" only if something failed.  ParallelExecutor implements this.   *)
(***************************************************************************)
EXTENDS TaskGraph

CONSTANT MaxParallel   \* Settings.MAX_PARALLEL_TASKS

VARIABLES graph,     \* the graph as it was handed over
          status,    \* the current status of every node
          tried,     \* the tasks this execution has started
          verdict    \* "open", "completed", "failed" or "empty"

dagVars == <<graph, status, tried, verdict>>

\* Ids the levels name although the graph has no such node.
Phantoms(g) == DOMAIN EffectiveLevels(g) \ g.nodes

\* Any graph of which nothing runs yet.
DagInit ==
  /\ \A t \in graph.nodes : graph.status[t] # "RUNNING"
  /\ status = graph.status
  /\ tried = {}
  /\ verdict = "open"

Running == {t \in graph.nodes : status[t] = "RUNNING"}

Start(t) ==
  /\ verdict = "open"
  /\ t \in graph.nodes \ tried
  /\ status[t] # "COMPLETED"
  /\ \A d \in Dependencies(graph, t) : status[d] = "COMPLETED"
  /\ Cardinality(Running) < MaxParallel
  /\ status' = [status EXCEPT ![t] = "RUNNING"]
  /\ tried' = tried \cup {t}
  /\ UNCHANGED <<graph, verdict>>

Finish(t) ==
  /\ t \in Running
  /\ \E s \in {"COMPLETED", "FAILED"} : status' = [status EXCEPT ![t] = s]
  /\ UNCHANGED <<graph, tried, verdict>>

ConcludeEmpty ==
  /\ verdict = "open" /\ graph.nodes = {}
  /\ verdict' = "empty"
  /\ UNCHANGED <<graph, status, tried>>

ConcludeCompleted ==
  /\ verdict = "open" /\ graph.nodes # {}
  /\ \A t \in graph.nodes : status[t] = "COMPLETED"
  /\ verdict' = "completed"
  /\ UNCHANGED <<graph, status, tried>>

ConcludeFailed ==
  /\ verdict = "open"
  /\ Running = {}
  /\ Phantoms(graph) # {} \/ \E t \in tried : status[t] = "FAILED"
  /\ verdict' = "failed"
  /\ UNCHANGED <<graph, status, tried>>

DagNext ==
  \/ \E t \in graph.nodes : Start(t) \/ Finish(t)
  \/ ConcludeEmpty \/ ConcludeCompleted \/ ConcludeFailed

DagSpec == DagInit /\ [][DagNext]_dagVars
=============================================================================
