------------------------ MODULE AdaptiveExecutionGraph ------------------------
(***************************************************************************)
(* The adaptive loop the engine's parts are written for: execute a graph   *)
(* (ParallelExecutor), on a failure replace the failed subgraph            *)
(* (AdaptiveExecutionGraph.mutate_on_failure, engine/execution_graph.py)   *)
(* or give the failed task another tool (TaskScheduler.                    *)
(* reschedule_on_failure, engine/scheduler.py), and execute the same graph *)
(* again.  The pipeline of AgentStateMachine only uses the special case of *)
(* one retry task and then rebuilds; here replacements are arbitrary.      *)
(***************************************************************************)
EXTENDS TaskGraph

CONSTANTS Ids,            \* every task id
          Plans,          \* the task dictionaries a graph may be built from
          Replacements,   \* the dictionaries handed to mutate_on_failure
          MaxMutations    \* bound on the mutations of a behaviour

ASSUME MaxMutationsAssumption == MaxMutations \in Nat

\* Plans the builder accepts, and replacements with ids new to the plan, as those of
\* update_dag are.
ASSUME PlansAssumption ==
  \A p \in Plans : Buildable(p) /\ DOMAIN p \subseteq Ids /\ IsFiniteSet(DOMAIN p)
ASSUME ReplacementsAssumption ==
  \A r \in Replacements :
     /\ DOMAIN r \subseteq Ids /\ IsFiniteSet(DOMAIN r)
     /\ \A p \in Plans : DOMAIN r \cap DOMAIN p = {}

VARIABLES graph,      \* the wrapped ExecutionGraph, the same object throughout
          mutations   \* how many mutations it has seen, completed or not

vars == <<graph, mutations>>

Init ==
  /\ \E p \in Plans : graph = Build(p)
  /\ mutations = 0

WithStatus(s) == {t \in graph.nodes : graph.status[t] = s}

\* execute_full_graph, by its contract.
Execute ==
  /\ graph.nodes # {}
  /\ \E F \in FailureSets(graph) :
       graph' = [graph EXCEPT !.status = StatusAfter(graph, F),
                              !.state  = IF F = {} THEN "COMPLETED" ELSE "FAILED"]
  /\ UNCHANGED mutations

\* mutate_on_failure for a failed task.
Mutate(t, newTasks) ==
  /\ t \in WithStatus("FAILED")
  /\ mutations < MaxMutations
  /\ Acyclic(Rewired(graph, t, newTasks))
  /\ graph' = MutateOnFailure(graph, t, newTasks)
  /\ mutations' = mutations + 1

\* The new tasks close a cycle: RecursionError, after the nodes and edges have
\* changed and before the levels and the status do.
MutateRaises(t, newTasks) ==
  /\ t \in WithStatus("FAILED")
  /\ mutations < MaxMutations
  /\ ~ Acyclic(Rewired(graph, t, newTasks))
  /\ graph' = Rewired(graph, t, newTasks)
  /\ mutations' = mutations + 1

\* reschedule_on_failure with an alternative tool; without one nothing changes.
Reschedule(t) ==
  /\ t \in WithStatus("FAILED") \cup WithStatus("REPLANNING")
  /\ graph' = [graph EXCEPT !.status[t] = "PENDING"]
  /\ UNCHANGED mutations

Next ==
  \/ Execute
  \/ \E t \in graph.nodes : \/ Reschedule(t)
                            \/ \E r \in Replacements : Mutate(t, r) \/ MutateRaises(t, r)

Spec == Init /\ [][Next]_vars

-----------------------------------------------------------------------------
(* Properties *)

\* The graph stays a graph: however often subgraphs are cut out and dependencies
\* dangle, no edge leads to or from a task that is not there.
TypeOK ==
  /\ DOMAIN graph = GraphFields
  /\ graph.nodes \subseteq Ids
  /\ graph.edges \subseteq graph.nodes \X graph.nodes
  /\ graph.status \in [graph.nodes -> TaskStatus]
  /\ graph.state \in GraphStatus
  /\ mutations \in 0..MaxMutations

\* Executing with levels from before the mutations still honours the edges:
\* whatever is executed together or later has its dependencies at lower levels.
LevelsStayUsable == graph.nodes # {} => Executable(graph, Ids)

\* A task is COMPLETED only if its dependencies are: mutations do not attach
\* finished work to unfinished work.
CompletedIsClosed ==
  \A t \in WithStatus("COMPLETED") : Dependencies(graph, t) \subseteq WithStatus("COMPLETED")

\* A graph that counts as COMPLETED has no unfinished task, not even a replacement
\* that is in none of the groups the executor works from.  execute_full_graph only
\* looks for failures among the groups; that it still lists the task a mutation
\* removed is what keeps it from reporting success.
CompletedMeansDone ==
  graph.state = "COMPLETED" => graph.nodes = WithStatus("COMPLETED")

\* mutate_on_failure raises RecursionError for one of three reasons only: the new
\* tasks depend on each other in a circle, one of them bears the id of a task that
\* survives, or an earlier call has raised and left its cycle behind.
RaisesForCause ==
  [][\A t \in graph.nodes, r \in Replacements :
       MutateRaises(t, r) =>
          \/ \E S \in SUBSET DOMAIN r : S # {} /\ \A u \in S : r[u] \cap S # {}
          \/ DOMAIN r \cap (graph.nodes \ AffectedSubgraph(graph, t)) # {}
          \/ ~ Acyclic(graph)]_vars

\* Neither execution nor mutation throws away or repeats completed work.
CompletedSurvives ==
  [][\A t \in WithStatus("COMPLETED") :
       t \in graph'.nodes /\ graph'.status[t] = "COMPLETED"]_vars
=============================================================================
