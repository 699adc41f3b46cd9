-------------------------- MODULE ParallelExecutor --------------------------
(***************************************************************************)
(* One call of ParallelExecutor.execute_full_graph                         *)
(* (engine/parallel_executor.py): the groups of the graph one after the    *)
(* other, and in each group one coroutine per unfinished task, admitted by *)
(* an asyncio.Semaphore(max_parallel) and joined by asyncio.gather.        *)
(*                                                                         *)
(* A coroutine gives up control only at an await.  Between its awaits a    *)
(* coroutine is one action here: from admission to the first await, from   *)
(* the end of the risk assessment to the call of the worker, and from the  *)
(* worker's answer to the return.  The order in which asyncio resumes      *)
(* coroutines is left open.                                                *)
(*                                                                         *)
(* The phase is not a variable: select_tools has set EXECUTE before the    *)
(* call and the call sets it again.  The ledger is left out.               *)
(***************************************************************************)
EXTENDS TaskGraph

CONSTANTS Tasks,              \* every task id that can occur
          Graphs,             \* the graphs execute_full_graph may be called with
          MaxParallel,        \* max_parallel, Settings.MAX_PARALLEL_TASKS
          HasRiskPredictor    \* whether a risk_predictor was injected

\* What execute_full_graph takes for granted of a graph.
WellFormed(g) == Executable(g, Tasks)

ASSUME TasksAssumption == IsFiniteSet(Tasks)
ASSUME MaxParallelAssumption == MaxParallel \in Nat \ {0}
ASSUME HasRiskPredictorAssumption == HasRiskPredictor \in BOOLEAN
ASSUME GraphsAssumption == \A g \in Graphs : WellFormed(g)

VARIABLES graph,        \* state.execution_graph as it was at the call
          status,       \* the live status of its nodes
          graphStatus,  \* graph.status
          needsReplan,  \* memory_context["_needs_replan"] and state.needs_replan
          errors,       \* the task ids this call appended an ExecutionError for
          control,      \* where execute_full_graph is
          group,        \* the index of the group being executed
          completed,    \* completed_ids
          pc,           \* where the coroutine of a task is
          success,      \* the "success" entry of what a coroutine returned
          permits       \* the value of the group's semaphore

vars == <<graph, status, graphStatus, needsReplan, errors, control, group,
          completed, pc, success, permits>>

Level == EffectiveLevels(graph)
GroupTasks(n) == ParallelGroup(graph, n)
Nonempty(done) == {n \in {Level[t] : t \in DOMAIN Level} : GroupTasks(n) \ done # {}}

Init ==
  /\ graph \in Graphs
  /\ status = graph.status
  /\ graphStatus = graph.state
  /\ needsReplan \in BOOLEAN
  /\ errors = {}
  /\ control = "called"
  /\ group = 0
  /\ completed = {}
  /\ pc = [t \in Tasks |-> "absent"]
  /\ success = [t \in Tasks |-> FALSE]
  /\ permits = MaxParallel

-----------------------------------------------------------------------------
(* execute_full_graph *)

\* Mutant of Launch: the semaphore is as large as the group.
LaunchUnbounded(n, done) ==
  /\ control' = "gathering"
  /\ group' = n
  /\ pc' = [t \in Tasks |-> IF t \in GroupTasks(n) \ done THEN "queued" ELSE "absent"]
  /\ success' = [t \in Tasks |-> FALSE]
  /\ permits' = Cardinality(GroupTasks(n) \ done)

\* execute_group: one coroutine per unfinished task and a fresh semaphore.
Launch(n, done) ==
  /\ control' = "gathering"
  /\ group' = n
  /\ pc' = [t \in Tasks |-> IF t \in GroupTasks(n) \ done THEN "queued" ELSE "absent"]
  /\ success' = [t \in Tasks |-> FALSE]
  /\ permits' = MaxParallel

\* The loop from group n on: groups with nothing left to do are skipped; with
\* none left the graph is COMPLETED.
LoopFrom(n, done) ==
  \/ \E m \in {k \in Nonempty(done) : k >= n} :
       /\ \A k \in Nonempty(done) : k >= n => m <= k
       /\ Launch(m, done)
       /\ graphStatus' = "EXECUTING"
       /\ UNCHANGED needsReplan
  \/ /\ \A k \in Nonempty(done) : k < n
     /\ control' = "returned"
     /\ graphStatus' = "COMPLETED"
     /\ needsReplan' = FALSE
     /\ UNCHANGED <<group, pc, success, permits>>

\* Mutant of Begin: what an earlier call completed is not taken over.
BeginAfresh ==
  /\ control = "called"
  /\ graph.nodes # {}
  /\ completed' = {}
  /\ LoopFrom(0, completed')
  /\ UNCHANGED <<graph, status, errors>>

\* Mutant of Begin: FAILED tasks of an earlier call count as done.
BeginSettled ==
  /\ control = "called"
  /\ graph.nodes # {}
  /\ completed' = {t \in graph.nodes : status[t] \in {"COMPLETED", "FAILED"}}
  /\ LoopFrom(0, completed')
  /\ UNCHANGED <<graph, status, errors>>

Begin ==
  /\ control = "called"
  /\ graph.nodes # {}
  /\ completed' = {t \in graph.nodes : status[t] = "COMPLETED"}
  /\ LoopFrom(0, completed')
  /\ UNCHANGED <<graph, status, errors>>

\* "if not graph.nodes: return state"
BeginEmpty ==
  /\ control = "called"
  /\ graph.nodes = {}
  /\ control' = "returned"
  /\ UNCHANGED <<graph, status, graphStatus, needsReplan, errors, group,
                 completed, pc, success, permits>>

Members == {t \in Tasks : pc[t] # "absent"}
\* Mutant of Failures: a failed result does not end the call.
NoFailures == {}

Failures == {t \in Members : ~ success[t]}

\* gather has every result: a failure ends the call, otherwise the next group.
GatherReturns ==
  /\ control = "gathering"
  /\ \A t \in Members : pc[t] = "returned"
  /\ completed' = completed \cup (Members \ Failures)
  /\ \/ /\ Failures # {}
        /\ control' = "returned"
        /\ graphStatus' = "FAILED"
        /\ needsReplan' = TRUE
        /\ UNCHANGED <<group, pc, success, permits>>
     \/ /\ Failures = {}
        /\ LoopFrom(group + 1, completed')
  /\ UNCHANGED <<graph, status, errors>>

-----------------------------------------------------------------------------
(* _run_one *)

\* Mutant of NotFound: gives back a permit it does not hold.
NotFoundReleases(t) ==
  /\ control = "gathering" /\ pc[t] = "queued" /\ permits > 0
  /\ t \notin graph.nodes
  /\ pc' = [pc EXCEPT ![t] = "returned"]
  /\ permits' = permits + 1
  /\ UNCHANGED <<graph, status, graphStatus, needsReplan, errors, control,
                 group, completed, success>>

\* A scheduled id the graph does not know: a failure without an await, so the
\* permit is taken and given back in the same step, and nothing is recorded.
NotFound(t) ==
  /\ control = "gathering" /\ pc[t] = "queued" /\ permits > 0
  /\ t \notin graph.nodes
  /\ pc' = [pc EXCEPT ![t] = "returned"]
  /\ UNCHANGED <<graph, status, graphStatus, needsReplan, errors, control,
                 group, completed, success, permits>>

\* Admission up to the first await: the risk assessment, or the worker.
Admit(t) ==
  /\ control = "gathering" /\ pc[t] = "queued" /\ permits > 0
  /\ t \in graph.nodes
  /\ permits' = permits - 1
  /\ \/ /\ HasRiskPredictor
        /\ pc' = [pc EXCEPT ![t] = "assessing"]
        /\ UNCHANGED status
     \/ /\ ~ HasRiskPredictor
        /\ pc' = [pc EXCEPT ![t] = "running"]
        /\ status' = [status EXCEPT ![t] = "RUNNING"]
  /\ UNCHANGED <<graph, graphStatus, needsReplan, errors, control, group,
                 completed, success>>

\* The assessment is done, or raised: the task runs whatever it said.
Assessed(t) ==
  /\ pc[t] = "assessing"
  /\ pc' = [pc EXCEPT ![t] = "running"]
  /\ status' = [status EXCEPT ![t] = "RUNNING"]
  /\ UNCHANGED <<graph, graphStatus, needsReplan, errors, control, group,
                 completed, success, permits>>

\* Mutant of Leave: the permit is kept.
LeaveHolding(t) ==
  /\ pc[t] = "running"
  /\ pc' = [pc EXCEPT ![t] = "returned"]
  /\ UNCHANGED <<graph, graphStatus, needsReplan, control, group, completed, permits>>

Leave(t) ==
  /\ pc[t] = "running"
  /\ pc' = [pc EXCEPT ![t] = "returned"]
  /\ permits' = permits + 1
  /\ UNCHANGED <<graph, graphStatus, needsReplan, control, group, completed>>

WorkerSucceeds(t) ==
  /\ Leave(t)
  /\ status' = [status EXCEPT ![t] = "COMPLETED"]
  /\ success' = [success EXCEPT ![t] = TRUE]
  /\ UNCHANGED errors

\* Mutant of WorkerFails: no ExecutionError is appended.
WorkerFailsUnrecorded(t) ==
  /\ Leave(t)
  /\ status' = [status EXCEPT ![t] = "FAILED"]
  /\ UNCHANGED <<errors, success>>

\* ExecutionResult(success=False) and an exception differ in the error's type
\* only.
WorkerFails(t) ==
  /\ Leave(t)
  /\ status' = [status EXCEPT ![t] = "FAILED"]
  /\ errors' = errors \cup {t}
  /\ UNCHANGED success

-----------------------------------------------------------------------------

Coroutine(t) ==
  NotFound(t) \/ Admit(t) \/ Assessed(t) \/ WorkerSucceeds(t) \/ WorkerFails(t)

Driver == Begin \/ BeginEmpty \/ GatherReturns

\* The caller of a finished call does nothing more with it.
Returned == control = "returned" /\ UNCHANGED vars

Next == Driver \/ (\E t \in Tasks : Coroutine(t)) \/ Returned

Spec == Init /\ [][Next]_vars

\* The event loop resumes every coroutine that can run, the risk predictor and
\* the worker answer every call.
Fairness == WF_vars(Driver) /\ \A t \in Tasks : WF_vars(Coroutine(t))

FairSpec == Spec /\ Fairness

-----------------------------------------------------------------------------
(* Properties *)

PcValues == {"absent", "queued", "assessing", "running", "returned"}

\* Every variable stays in its range.
TypeOK ==
  /\ WellFormed(graph)
  /\ status \in [graph.nodes -> TaskStatus]
  /\ graphStatus \in GraphStatus
  /\ needsReplan \in BOOLEAN
  /\ errors \subseteq Tasks
  /\ control \in {"called", "gathering", "returned"}
  /\ group \in Nat
  /\ completed \subseteq Tasks
  /\ pc \in [Tasks -> PcValues]
  /\ success \in [Tasks -> BOOLEAN]
  /\ permits \in 0..MaxParallel

Holders == {t \in Tasks : pc[t] \in {"assessing", "running"}}

\* The semaphore does its job in every group: at most MaxParallel coroutines are
\* past it, and no permit leaks from one group into the next.
ConcurrencyBound ==
  /\ Cardinality(Holders) <= MaxParallel
  /\ control = "gathering" => permits + Cardinality(Holders) = MaxParallel

\* A task that is being assessed or executed has only COMPLETED dependencies:
\* the groups, the barrier and the early return together honour the edges.
DependencyOrder ==
  \A t \in Holders : \A d \in Dependencies(graph, t) : status[d] = "COMPLETED"

\* The verdict of the call is truthful: COMPLETED means every node of the graph
\* is COMPLETED (also if the levels are stale), FAILED means somebody failed,
\* and a replan is asked for exactly in that case.
TruthfulVerdict ==
  (control = "returned" /\ graph.nodes # {}) =>
     /\ graphStatus \in {"COMPLETED", "FAILED"}
     /\ needsReplan <=> graphStatus = "FAILED"
     /\ graphStatus = "COMPLETED" =>
          errors = {} /\ \A t \in graph.nodes : status[t] = "COMPLETED"
     /\ graphStatus = "FAILED" =>
          (\E t \in graph.nodes : status[t] = "FAILED") \/ DOMAIN Level \ graph.nodes # {}

\* What the call returns is what the contract in TaskGraph says, and every
\* node that failed in this call has an ExecutionError.
MeetsContract ==
  (control = "returned" /\ graph.nodes # {}) =>
     \E F \in FailureSets(graph) :
        /\ status = StatusAfter(graph, F)
        /\ errors = F \cap graph.nodes
        /\ graphStatus = IF F = {} THEN "COMPLETED" ELSE "FAILED"

\* Completed work is never executed again or lost within a call.
CompletedIsStable ==
  [][\A t \in graph.nodes : status[t] = "COMPLETED" => status'[t] = "COMPLETED"]_vars

\* After a failure nothing of a later group is started: tasks start only while
\* everything at lower levels is COMPLETED.
FailFast ==
  [][\A t \in graph.nodes :
       (status[t] # "RUNNING" /\ status'[t] = "RUNNING") =>
          \A u \in graph.nodes \cap DOMAIN Level :
             Level[u] < Level[t] => status[u] = "COMPLETED"]_vars

\* The call returns: no group waits for ever on the semaphore or the gather.
Terminates == <>(control = "returned")

-----------------------------------------------------------------------------
(* The inductive strengthening of the properties above *)

\* Permits and coroutines account for one another; outside a group there are
\* no coroutines past the semaphore.
SemaphoreInv ==
  /\ control = "gathering" => permits + Cardinality(Holders) = MaxParallel
  /\ control # "gathering" => Holders = {}

\* The barrier: the coroutines are those of one group, everything below it is
\* in completed_ids and so is what the group skipped.
BarrierInv ==
  control = "gathering" =>
     /\ \A t \in Members : t \in DOMAIN Level /\ Level[t] = group /\ t \notin completed
     /\ \A u \in DOMAIN Level : Level[u] < group => u \in completed
     /\ \A u \in DOMAIN Level : Level[u] = group => u \in completed \/ u \in Members

\* completed_ids and the statuses agree, and a node nobody has touched is as it
\* was at the call.
StatusInv ==
  /\ control = "called" => /\ completed = {} /\ errors = {} /\ status = graph.status
                           /\ Members = {}
  /\ \A t \in completed : t \in graph.nodes /\ status[t] = "COMPLETED"
  /\ control # "called" =>
       \A t \in graph.nodes : graph.status[t] = "COMPLETED" => t \in completed
  /\ \A t \in graph.nodes : pc[t] = "running" <=> status[t] = "RUNNING"
  /\ \A t \in graph.nodes : (t \notin completed /\ pc[t] \in {"absent", "queued", "assessing"})
                              => status[t] = graph.status[t]
  /\ \A t \in Tasks : pc[t] \in {"assessing", "running"} => t \in graph.nodes

\* What the coroutines of the current group have returned.
ResultInv ==
  /\ control # "returned" => \A t \in errors : pc[t] = "returned" /\ ~ success[t]
  /\ \A t \in Tasks : success[t] => pc[t] = "returned" /\ t \in graph.nodes
  /\ \A t \in graph.nodes : pc[t] = "returned" =>
       status[t] = IF success[t] THEN "COMPLETED" ELSE "FAILED"
  /\ \A t \in graph.nodes : (pc[t] = "returned" /\ ~ success[t]) => t \in errors

IInv ==
  /\ TypeOK
  /\ SemaphoreInv
  /\ BarrierInv
  /\ StatusInv
  /\ ResultInv
  /\ TruthfulVerdict

-----------------------------------------------------------------------------
(* Refinement of DagExecution *)

\* The tasks this call has started: those it recorded as done or failed and
\* those now running.
TriedMap ==
  {t \in graph.nodes : \/ status[t] = "RUNNING"
                       \/ t \in errors
                       \/ status[t] = "COMPLETED" /\ graph.status[t] # "COMPLETED"}

VerdictMap ==
  IF control # "returned" THEN "open"
  ELSE IF graph.nodes = {} THEN "empty"
  ELSE IF graphStatus = "COMPLETED" THEN "completed" ELSE "failed"

Dag == INSTANCE DagExecution WITH tried <- TriedMap, verdict <- VerdictMap

\* The executor implements the abstract execution of a task graph.
RefinesDagExecution == Dag!DagSpec
=============================================================================
