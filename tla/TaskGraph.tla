------------------------------ MODULE TaskGraph ------------------------------
(***************************************************************************)
(* The values and operations the execution engine computes with: task      *)
(* dictionaries as the planner returns them, ExecutionGraph values         *)
(* (core/models.py), the builder's checks and levels                       *)
(* (engine/dependency_graph.py) and the runtime mutation of                *)
(* engine/execution_graph.py.                                              *)
(*                                                                         *)
(* A task dictionary is a function from task ids to the set of ids listed  *)
(* under "dependencies".  A graph is a record                              *)
(*   nodes   the ids in graph.nodes                                        *)
(*   edges   the pairs <<from, to>> of graph.edges                         *)
(*   status  the status of every node                                      *)
(*   levels  graph.topological_levels, a function on the ids it knows      *)
(*   meta    graph.metadata["topological_levels"], likewise                *)
(*   state   graph.status                                                  *)
(* Descriptions, inputs, risk and model assignments of a node are left     *)
(* out: nothing in this module reads them.                                 *)
(***************************************************************************)
EXTENDS Naturals, FiniteSets, FiniteSetsExt

TaskStatus == {"PENDING", "RUNNING", "COMPLETED", "FAILED", "REPLANNING", "SKIPPED"}

GraphStatus == {"BUILDING", "READY", "EXECUTING", "COMPLETED", "FAILED", "REPLANNING"}

GraphFields == {"nodes", "edges", "status", "levels", "meta", "state"}

\* ExecutionGraph(status=BUILDING): what create_initial_state puts in a session.
EmptyFunction == [t \in {} |-> 0]

EmptyGraph ==
  [nodes |-> {}, edges |-> {}, status |-> EmptyFunction,
   levels |-> EmptyFunction, meta |-> EmptyFunction, state |-> "BUILDING"]

-----------------------------------------------------------------------------
(* Neighbourhoods and levels *)

Dependents(g, t) == {u \in g.nodes : <<t, u>> \in g.edges}

Dependencies(g, t) == {d \in g.nodes : <<d, t>> \in g.edges}

\* compute_topological_levels: a root is at level 0, any other node one above
\* its highest dependency.
ComputeLevels(g) ==
  LET level[t \in g.nodes] ==
        IF Dependencies(g, t) = {}
          THEN 0
          ELSE 1 + Max({level[d] : d \in Dependencies(g, t)})
  IN  level

\* The levels compute_parallel_groups works from: the attribute written by the
\* builder, else the metadata entry, else levels computed on the spot.
EffectiveLevels(g) ==
  IF DOMAIN g.levels # {} THEN g.levels
  ELSE IF DOMAIN g.meta # {} THEN g.meta
  ELSE ComputeLevels(g)

\* compute_parallel_groups, as the set of ids in group n.
ParallelGroup(g, n) ==
  {t \in DOMAIN EffectiveLevels(g) : EffectiveLevels(g)[t] = n}

-----------------------------------------------------------------------------
(* Building a graph from a task dictionary *)

\* _validate_dependencies raises InvalidDependencyError unless this holds.
DependenciesExist(tasks) ==
  \A t \in DOMAIN tasks : tasks[t] \subseteq DOMAIN tasks

\* _detect_cycles, round by round: every round takes out the tasks whose
\* dependencies have all been taken out.  What is left at the end is cyclic.
Sorted(tasks) ==
  LET taken[n \in 0..Cardinality(DOMAIN tasks)] ==
        IF n = 0 THEN {}
        ELSE {t \in DOMAIN tasks : tasks[t] \subseteq taken[n - 1]}
  IN  taken[Cardinality(DOMAIN tasks)]

\* Nothing checks this after a mutation: on a cycle compute_topological_levels
\* recurses until it raises RecursionError.
Acyclic(g) ==
  LET dependencies == [t \in g.nodes |-> Dependencies(g, t)]
  IN  Sorted(dependencies) = g.nodes

Buildable(tasks) ==
  /\ DependenciesExist(tasks)
  /\ Sorted(tasks) = DOMAIN tasks

\* build: the graph of a buildable dictionary.  The attribute and the metadata
\* entry hold the same levels.
Build(tasks) ==
  LET bare == [EmptyGraph EXCEPT
                !.nodes  = DOMAIN tasks,
                !.edges  = UNION {{<<d, t>> : d \in tasks[t]} : t \in DOMAIN tasks},
                !.status = [t \in DOMAIN tasks |-> "PENDING"],
                !.state  = "READY"]
  IN  [bare EXCEPT !.levels = ComputeLevels(bare), !.meta = ComputeLevels(bare)]

-----------------------------------------------------------------------------
(* Mutation after a failure *)

\* Mutant of AffectedSubgraph: the search forgets the task it starts from.
AffectedButFailed(g, failed) ==
  LET closed == {S \in SUBSET g.nodes :
                   /\ Dependents(g, failed) \subseteq S
                   /\ \A u \in S : Dependents(g, u) \subseteq S}
  IN  {u \in g.nodes : \A S \in closed : u \in S}

\* Mutant of AffectedSubgraph: the search follows the edges backwards.
AffectedUpstream(g, failed) ==
  LET closed == {S \in SUBSET (g.nodes \cup {failed}) :
                   failed \in S /\ \A u \in S : Dependencies(g, u) \subseteq S}
  IN  {u \in g.nodes \cup {failed} : \A S \in closed : u \in S}

\* get_affected_subgraph.  The breadth-first search over outgoing edges ends
\* with the least set that has the failed task and the dependents of its members.
AffectedSubgraph(g, failed) ==
  LET closed == {S \in SUBSET (g.nodes \cup {failed}) :
                   failed \in S /\ \A u \in S : Dependents(g, u) \subseteq S}
  IN  {u \in g.nodes \cup {failed} : \A S \in closed : u \in S}

\* Mutant of Rewired: the edges into the removed tasks stay.
RewiredLeavingEdges(g, failed, newTasks) ==
  LET affected == AffectedSubgraph(g, failed)
      kept     == g.nodes \ affected
      nodes    == kept \cup DOMAIN newTasks
  IN  [g EXCEPT
         !.nodes  = nodes,
         !.edges  = {e \in g.edges : e[1] \notin affected}
                    \cup UNION {{<<d, t>> : d \in newTasks[t] \cap nodes} :
                                t \in DOMAIN newTasks},
         !.status = [t \in nodes |-> IF t \in kept THEN g.status[t] ELSE "PENDING"]]

\* Mutant of Rewired: only the failed task goes, its dependents wait for the new tasks.
RewiredInPlace(g, failed, newTasks) ==
  LET kept  == g.nodes \ {failed}
      nodes == kept \cup DOMAIN newTasks
  IN  [g EXCEPT
         !.nodes  = nodes,
         !.edges  = {e \in g.edges : e[1] # failed /\ e[2] # failed}
                    \cup UNION {{<<d, t>> : d \in newTasks[t] \cap nodes} :
                                t \in DOMAIN newTasks}
                    \cup ((DOMAIN newTasks) \X Dependents(g, failed)),
         !.status = [t \in nodes |-> IF t \in kept THEN g.status[t] ELSE "PENDING"]]

\* The first four steps of mutate_on_failure.  An id that survives is not
\* overwritten but still gets the edges; a dependency that is not in the graph
\* is dropped without notice.
Rewired(g, failed, newTasks) ==
  LET affected == AffectedSubgraph(g, failed)
      kept     == g.nodes \ affected
      nodes    == kept \cup DOMAIN newTasks
  IN  [g EXCEPT
         !.nodes  = nodes,
         !.edges  = {e \in g.edges : e[1] \notin affected /\ e[2] \notin affected}
                    \cup UNION {{<<d, t>> : d \in newTasks[t] \cap nodes} :
                                t \in DOMAIN newTasks},
         !.status = [t \in nodes |-> IF t \in kept THEN g.status[t] ELSE "PENDING"]]

\* mutate_on_failure.  Only the metadata entry gets new levels, the attribute
\* graph.topological_levels keeps the old ones.
MutateOnFailure(g, failed, newTasks) ==
  LET h == Rewired(g, failed, newTasks)
  IN  [h EXCEPT !.meta = ComputeLevels(h), !.state = "READY"]

-----------------------------------------------------------------------------
(* Executing *)

\* What ParallelExecutor.execute_full_graph relies on.  Levels ascend along the
\* edges.  Phantoms, ids the levels of a mutated graph still list, are allowed,
\* and only where there are phantoms may a node be missing from the levels.
Executable(g, ids) ==
  LET level == EffectiveLevels(g)
  IN  /\ g.nodes \subseteq ids
      /\ DOMAIN level \subseteq ids
      /\ level \in [DOMAIN level -> Nat]
      /\ g.status \in [g.nodes -> TaskStatus \ {"RUNNING"}]
      /\ g.state \in GraphStatus
      /\ g.nodes # {} => DOMAIN level # {}
      /\ DOMAIN level \subseteq g.nodes => g.nodes \subseteq DOMAIN level
      /\ \A t \in DOMAIN level : \A d \in Dependencies(g, t) :
           d \in DOMAIN level /\ level[d] < level[t]

(* What one call of ParallelExecutor.execute_full_graph can make of a      *)
(* graph: no scheduled task fails and everything is COMPLETED, or the      *)
(* tasks of one group fail and the groups above it are not touched.  An id *)
(* the levels list but the graph no longer has always fails.  The module   *)
(* ParallelExecutor models the call step by step and is checked against    *)
(* this contract.                                                          *)

Unfinished(g) ==
  {t \in DOMAIN EffectiveLevels(g) : ~ (t \in g.nodes /\ g.status[t] = "COMPLETED")}

\* Mutant of FailureSets: an id that is not in the graph is passed over.
FailuresOfNodes(g) ==
  LET level == EffectiveLevels(g)
  IN  {F \in SUBSET (Unfinished(g) \cap g.nodes) : \A t, u \in F : level[t] = level[u]}

FailureSets(g) ==
  LET level == EffectiveLevels(g)
  IN  {F \in SUBSET Unfinished(g) :
         /\ \A t, u \in F : level[t] = level[u]
         /\ \A m \in Unfinished(g) \ g.nodes :
              m \in F \/ \E t \in F : level[t] < level[m]}

\* Mutant of StatusAfter: the groups above a failure are executed all the same.
StatusWithoutBarrier(g, F) ==
  [t \in g.nodes |-> IF t \in F THEN "FAILED"
                     ELSE IF t \in Unfinished(g) THEN "COMPLETED" ELSE g.status[t]]

StatusAfter(g, F) ==
  LET level == EffectiveLevels(g)
  IN  [t \in g.nodes |->
         IF t \in F THEN "FAILED"
         ELSE IF /\ t \in Unfinished(g)
                 /\ \A f \in F : level[t] <= level[f]
         THEN "COMPLETED"
         ELSE g.status[t]]
=============================================================================
