-------------------------- MODULE AgentStateMachine --------------------------
(***************************************************************************)
(* One run of the LangGraph pipeline of AgenticStateMachine                *)
(* (engine/state_machine.py).  Every LangGraph node is one action: the     *)
(* node method with all it calls, followed by the edge out of the node.    *)
(* LangGraph runs one node per superstep here, so nothing interleaves; the *)
(* choices are the planner's, the workers', the evaluator's and the        *)
(* learning memory's, every one of which may also raise.                   *)
(*                                                                         *)
(* ParallelExecutor.execute_full_graph is one step, by the contract of     *)
(* TaskGraph that the module ParallelExecutor is checked against.          *)
(*                                                                         *)
(* LangGraph is external: a node's updates reach the next node unchanged,  *)
(* and ainvoke raises when the run takes more supersteps than its          *)
(* recursion limit, which run() and run_pipeline() leave at its default.   *)
(***************************************************************************)
EXTENDS TaskGraph

CONSTANTS Base,            \* the task ids of the planner, "default_task" among them
          DefaultTask,     \* "default_task"
          Plans,           \* the task dictionaries create_plan may return
          HasEvaluator,    \* whether an EvaluatorAgent was injected
          MaxReplan,       \* Settings.MAX_REPLAN_ATTEMPTS
          RecursionLimits  \* the recursion limits a run may be given

\* f"{failed_id}_retry_{count}"
Retry(t, count) == <<t, count>>

Ids == Base \cup {Retry(t, n) : t \in Base, n \in 1..MaxReplan}

DefaultPlan == [t \in {DefaultTask} |-> {}]
NoPlan == EmptyFunction

ASSUME LimitsAssumption == MaxReplan \in Nat /\ RecursionLimits \subseteq Nat
ASSUME HasEvaluatorAssumption == HasEvaluator \in BOOLEAN
ASSUME DefaultTaskAssumption == DefaultTask \in Base
\* No planner id looks like the id of a retry.
ASSUME RetryAssumption == \A t \in Base : \A n \in 1..MaxReplan : Retry(t, n) \notin Base
\* A planner may return any dictionary, but dictionaries are finite.
ASSUME PlansAssumption ==
  \A p \in Plans : DOMAIN p \subseteq Base /\ IsFiniteSet(DOMAIN p)

VARIABLES limit,          \* LangGraph's recursion_limit, fixed for the run
          node,           \* the LangGraph node that runs next, or "done", "aborted"
          steps,          \* supersteps taken
          phase,          \* state.current_phase
          plan,           \* memory_context["planner_tasks"]
          graph,          \* state.execution_graph
          needsReplan,    \* memory_context["_needs_replan"]
          replanCount,    \* memory_context["_replan_count"]
          taskErrors,     \* whether state.errors has an ExecutionError
          limitError,     \* whether state.errors has a MaxReplanAttemptsError
          rawLedger,      \* whether the ledger holds a dict of the scheduler
          approvalQueue,  \* the task ids with a pending request in approval_queue
          summary,        \* the counts in state.final_summary
          executions      \* history: how often parallel_execute has run

vars == <<limit, node, steps, phase, plan, graph, needsReplan, replanCount, taskErrors,
          limitError, rawLedger, approvalQueue, summary, executions>>

NoSummary == [total |-> 0, completed |-> 0, failed |-> 0, errors |-> FALSE]

WithStatus(s) == {t \in graph.nodes : graph.status[t] = s}

Init ==
  /\ limit \in RecursionLimits
  /\ node = "understand_goal"
  /\ steps = 0
  /\ phase = "UNDERSTAND_GOAL"
  /\ plan = NoPlan
  /\ graph = EmptyGraph
  /\ needsReplan = FALSE
  /\ replanCount = 0
  /\ taskErrors = FALSE
  /\ limitError = FALSE
  /\ rawLedger = FALSE
  /\ approvalQueue = {}
  /\ summary = NoSummary
  /\ executions = 0

\* One superstep: the node n runs, sets the phase, and the edge leads to m.
Superstep(n, newPhase, m) ==
  /\ node = n
  /\ steps < limit
  /\ steps' = steps + 1
  /\ limit' = limit
  /\ phase' = newPhase
  /\ node' = m

-----------------------------------------------------------------------------
(* Understanding and planning *)

UnderstandGoal ==
  /\ Superstep("understand_goal", "CONSTRAIN", "extract_constraints")
  /\ UNCHANGED <<plan, graph, needsReplan, replanCount, taskErrors, limitError,
                 rawLedger, approvalQueue, summary, executions>>

ExtractConstraints ==
  /\ Superstep("extract_constraints", "PLANNING", "plan_tasks")
  /\ UNCHANGED <<plan, graph, needsReplan, replanCount, taskErrors, limitError,
                 rawLedger, approvalQueue, summary, executions>>

\* create_plan returns any dictionary; an exception or an empty one leads to
\* the default task.  Nothing about the graph or the failures is passed in.
PlanTasks ==
  /\ Superstep("plan_tasks", "BUILD_DAG", "build_dag")
  /\ plan' \in (Plans \ {NoPlan}) \cup {DefaultPlan}
  /\ UNCHANGED <<graph, needsReplan, replanCount, taskErrors, limitError,
                 rawLedger, approvalQueue, summary, executions>>

\* build succeeds: the new graph takes the place of the old one.
BuildDag ==
  /\ Superstep("build_dag", "SCHEDULE", "schedule_tasks")
  /\ Buildable(plan)
  /\ graph' = Build(plan)
  /\ plan' = NoPlan
  /\ UNCHANGED <<needsReplan, replanCount, taskErrors, limitError, rawLedger,
                 approvalQueue, summary, executions>>

\* build raises: the phase is END, the old graph stays, the edge is the same.
BuildDagFails ==
  /\ Superstep("build_dag", "END", "schedule_tasks")
  /\ ~ Buildable(plan)
  /\ plan' = NoPlan
  /\ UNCHANGED <<graph, needsReplan, replanCount, taskErrors, limitError,
                 rawLedger, approvalQueue, summary, executions>>

-----------------------------------------------------------------------------
(* Scheduling and execution *)

\* TaskScheduler.schedule; it appends dicts, not LedgerEntry objects.
ScheduleTasks ==
  /\ graph.nodes # {}
  /\ Superstep("schedule_tasks", "RISK_ANALYSIS", "risk_analysis")
  /\ graph' = [graph EXCEPT !.state = "EXECUTING"]
  /\ rawLedger' = TRUE
  /\ UNCHANGED <<plan, needsReplan, replanCount, taskErrors, limitError,
                 approvalQueue, summary, executions>>

ScheduleNothing ==
  /\ graph.nodes = {}
  /\ Superstep("schedule_tasks", "APPROVAL", "risk_analysis")
  /\ UNCHANGED <<plan, graph, needsReplan, replanCount, taskErrors, limitError,
                 rawLedger, approvalQueue, summary, executions>>

\* The assessment of each node is stored on the node.  No request is enqueued.
RiskAnalysis ==
  /\ Superstep("risk_analysis", "TOOL_SELECT", "select_tools")
  /\ UNCHANGED <<plan, graph, needsReplan, replanCount, taskErrors, limitError,
                 rawLedger, approvalQueue, summary, executions>>

SelectTools ==
  /\ Superstep("select_tools", "EXECUTE", "parallel_execute")
  /\ UNCHANGED <<plan, graph, needsReplan, replanCount, taskErrors, limitError,
                 rawLedger, approvalQueue, summary, executions>>

\* Mutant of ParallelExecute: the failures leave no ExecutionError.
ExecuteUnrecorded ==
  /\ Superstep("parallel_execute", "EVALUATE", "evaluate")
  /\ executions' = executions + 1
  /\ \/ /\ graph.nodes = {}
        /\ UNCHANGED <<graph, needsReplan>>
     \/ /\ graph.nodes # {}
        /\ \E F \in FailureSets(graph) :
             /\ graph' = [graph EXCEPT
                            !.status = StatusAfter(graph, F),
                            !.state  = IF F = {} THEN "COMPLETED" ELSE "FAILED"]
             /\ needsReplan' = (F # {})
  /\ UNCHANGED <<plan, replanCount, taskErrors, limitError, rawLedger,
                 approvalQueue, summary>>

ParallelExecute ==
  /\ Superstep("parallel_execute", "EVALUATE", "evaluate")
  /\ executions' = executions + 1
  /\ \/ /\ graph.nodes = {}
        /\ UNCHANGED <<graph, needsReplan, taskErrors>>
     \/ /\ graph.nodes # {}
        /\ \E F \in FailureSets(graph) :
             /\ graph' = [graph EXCEPT
                            !.status = StatusAfter(graph, F),
                            !.state  = IF F = {} THEN "COMPLETED" ELSE "FAILED"]
             /\ needsReplan' = (F # {})
             /\ taskErrors' = (taskErrors \/ F \cap graph.nodes # {})
  /\ UNCHANGED <<plan, replanCount, limitError, rawLedger, approvalQueue, summary>>

-----------------------------------------------------------------------------
(* Evaluation and the replan loop *)

\* Mutant of FallbackVerdict: only the statuses are looked at.
VerdictByStatus == WithStatus("FAILED") # {}

\* The fallback verdict.  state.errors is never cleared.
FallbackVerdict == WithStatus("FAILED") # {} \/ taskErrors \/ limitError

\* Mutant of Verdicts: a run that completed nothing is replanned.
VerdictsWithoutProgress ==
  IF WithStatus("COMPLETED") = {} THEN {TRUE}
  ELSE IF ~ HasEvaluator \/ rawLedger THEN {FallbackVerdict}
  ELSE BOOLEAN

\* EvaluatorAgent.decide_replan reads .action of every ledger entry, which a
\* dict does not have; without failures it says no, otherwise what the model says.
Verdicts ==
  IF ~ HasEvaluator \/ rawLedger THEN {FallbackVerdict}
  ELSE IF WithStatus("FAILED") = {} THEN {FALSE}
  ELSE BOOLEAN

EvaluationFails ==
  /\ TRUE \in Verdicts
  /\ Superstep("evaluate", "REPLAN", "decide_replan")
  /\ needsReplan' = TRUE
  /\ UNCHANGED <<plan, graph, replanCount, taskErrors, limitError, rawLedger,
                 approvalQueue, summary, executions>>

EvaluationPasses ==
  /\ FALSE \in Verdicts
  /\ Superstep("evaluate", "APPROVAL", "approval")
  /\ needsReplan' = FALSE
  /\ UNCHANGED <<plan, graph, replanCount, taskErrors, limitError, rawLedger,
                 approvalQueue, summary, executions>>

\* Mutant of AcceptReplan: the attempt is not counted.
AcceptUncounted ==
  /\ replanCount < MaxReplan
  /\ Superstep("decide_replan", "PLANNING",
               IF needsReplan THEN "update_dag" ELSE "approval")
  /\ UNCHANGED <<plan, graph, needsReplan, replanCount, taskErrors, limitError,
                 rawLedger, approvalQueue, summary, executions>>

\* Mutant of AcceptReplan: one attempt too many.
AcceptOneMore ==
  /\ replanCount <= MaxReplan
  /\ Superstep("decide_replan", "PLANNING",
               IF needsReplan THEN "update_dag" ELSE "approval")
  /\ replanCount' = replanCount + 1
  /\ UNCHANGED <<plan, graph, needsReplan, taskErrors, limitError, rawLedger,
                 approvalQueue, summary, executions>>

\* decide_replan below the limit, then the conditional edge.
AcceptReplan ==
  /\ replanCount < MaxReplan
  /\ Superstep("decide_replan", "PLANNING",
               IF needsReplan THEN "update_dag" ELSE "approval")
  /\ replanCount' = replanCount + 1
  /\ UNCHANGED <<plan, graph, needsReplan, taskErrors, limitError, rawLedger,
                 approvalQueue, summary, executions>>

\* Mutant of RefuseReplan: the flag is not reset, so the edge leads to update_dag.
RefuseUnheeded ==
  /\ replanCount >= MaxReplan
  /\ Superstep("decide_replan", "APPROVAL",
               IF needsReplan THEN "update_dag" ELSE "approval")
  /\ limitError' = TRUE
  /\ UNCHANGED <<plan, graph, needsReplan, replanCount, taskErrors, rawLedger,
                 approvalQueue, summary, executions>>

RefuseReplan ==
  /\ replanCount >= MaxReplan
  /\ Superstep("decide_replan", "APPROVAL", "approval")
  /\ needsReplan' = FALSE
  /\ limitError' = TRUE
  /\ UNCHANGED <<plan, graph, replanCount, taskErrors, rawLedger, approvalQueue,
                 summary, executions>>

\* update_dag with a failed task: the subgraph behind the first FAILED node
\* (any, as the order of the dict is left open) gives way to one retry.
UpdateDag ==
  /\ Superstep("update_dag", "PLANNING", "plan_tasks")
  /\ \E t \in WithStatus("FAILED") :
       graph' = MutateOnFailure(graph, t,
                  [r \in {Retry(t, replanCount)} |-> Dependencies(graph, t)])
  /\ UNCHANGED <<plan, needsReplan, replanCount, taskErrors, limitError,
                 rawLedger, approvalQueue, summary, executions>>

\* "Nothing to replan": the flag is reset, unless there is no node at all; the
\* edge still leads to plan_tasks.
NothingToReplan ==
  /\ WithStatus("FAILED") = {}
  /\ Superstep("update_dag", "APPROVAL", "plan_tasks")
  /\ needsReplan' = (needsReplan /\ graph.nodes = {})
  /\ UNCHANGED <<plan, graph, replanCount, taskErrors, limitError, rawLedger,
                 approvalQueue, summary, executions>>

-----------------------------------------------------------------------------
(* The way out *)

\* Every pending request gets an answer of a gate of its own (see ApprovalGate).
Approval ==
  /\ Superstep("approval", "SUMMARY", "summary")
  /\ approvalQueue' = {}
  /\ UNCHANGED <<plan, graph, needsReplan, replanCount, taskErrors, limitError,
                 rawLedger, summary, executions>>

Summary ==
  /\ Superstep("summary", "MEMORY_STORE", "store_memory")
  /\ summary' = [total     |-> Cardinality(graph.nodes),
                 completed |-> Cardinality(WithStatus("COMPLETED")),
                 failed    |-> Cardinality(WithStatus("FAILED")),
                 errors    |-> taskErrors \/ limitError]
  /\ UNCHANGED <<plan, graph, needsReplan, replanCount, taskErrors, limitError,
                 rawLedger, approvalQueue, executions>>

StoreMemory ==
  /\ Superstep("store_memory", "END", "end")
  /\ UNCHANGED <<plan, graph, needsReplan, replanCount, taskErrors, limitError,
                 rawLedger, approvalQueue, summary, executions>>

End ==
  /\ Superstep("end", "END", "done")
  /\ UNCHANGED <<plan, graph, needsReplan, replanCount, taskErrors, limitError,
                 rawLedger, approvalQueue, summary, executions>>

\* GraphRecursionError: ainvoke raises and the state is lost to the caller.
RecursionLimitReached ==
  /\ node \notin {"done", "aborted"}
  /\ steps = limit
  /\ node' = "aborted"
  /\ UNCHANGED <<limit, steps, phase, plan, graph, needsReplan, replanCount, taskErrors,
                 limitError, rawLedger, approvalQueue, summary, executions>>

Finished == node \in {"done", "aborted"} /\ UNCHANGED vars

-----------------------------------------------------------------------------

Planning == UnderstandGoal \/ ExtractConstraints \/ PlanTasks \/ BuildDag \/ BuildDagFails
Execution == ScheduleTasks \/ ScheduleNothing \/ RiskAnalysis \/ SelectTools \/ ParallelExecute
Replanning ==
  \/ EvaluationFails \/ EvaluationPasses \/ AcceptReplan \/ RefuseReplan
  \/ UpdateDag \/ NothingToReplan
Ending == Approval \/ Summary \/ StoreMemory \/ End \/ RecursionLimitReached

Next == Planning \/ Execution \/ Replanning \/ Ending \/ Finished

Spec == Init /\ [][Next]_vars

\* Every node method returns or raises: LangGraph keeps taking supersteps.
FairSpec == Spec /\ WF_vars(Next)

-----------------------------------------------------------------------------
(* Properties *)

Nodes ==
  {"understand_goal", "extract_constraints", "plan_tasks", "build_dag",
   "schedule_tasks", "risk_analysis", "select_tools", "parallel_execute",
   "evaluate", "decide_replan", "update_dag", "approval", "summary",
   "store_memory", "end"}

Phases ==
  {"UNDERSTAND_GOAL", "CONSTRAIN", "PLANNING", "BUILD_DAG", "SCHEDULE",
   "RISK_ANALYSIS", "TOOL_SELECT", "EXECUTE", "EVALUATE", "REPLAN", "APPROVAL",
   "SUMMARY", "MEMORY_STORE", "END"}

\* Every variable stays in its range.
TypeOK ==
  /\ node \in Nodes \cup {"done", "aborted"}
  /\ limit \in RecursionLimits
  /\ steps \in 0..limit
  /\ phase \in Phases
  /\ plan \in Plans \cup {DefaultPlan, NoPlan}
  /\ graph.nodes \subseteq Ids
  /\ graph.status \in [graph.nodes -> TaskStatus]
  /\ graph.state \in GraphStatus
  /\ needsReplan \in BOOLEAN
  /\ replanCount \in 0..MaxReplan
  /\ taskErrors \in BOOLEAN
  /\ limitError \in BOOLEAN
  /\ rawLedger \in BOOLEAN
  /\ approvalQueue \subseteq Ids
  /\ executions \in Nat

\* The replan loop is bounded by its own counter: a graph is executed at most
\* once per accepted replan plus once, and the limit error is only reported
\* when every attempt has been used.
ReplanBudget ==
  /\ executions <= replanCount + 1
  /\ limitError => replanCount = MaxReplan

\* Whatever planner, failures and mutations have made of the graph, also when a
\* mutated graph is executed with levels from before the mutation, the executor
\* is only handed graphs it can execute in the order of their edges.
ExecutorPrecondition ==
  (node = "parallel_execute" /\ graph.nodes # {}) => Executable(graph, Ids)

\* A run that ends normally has not lost a failure: if a task ever failed, or
\* is FAILED now, all replans were used up, the limit error is recorded and
\* the summary mentions errors.  As state.errors is never cleared, this holds
\* even if the last execution repaired everything.
FailureIsReported ==
  (node = "done" /\ (taskErrors \/ WithStatus("FAILED") # {})) =>
     limitError /\ replanCount = MaxReplan /\ summary.errors

\* A summary without errors is earned: every task of the graph is COMPLETED,
\* none was dropped by a mutation, and the counts say so.
CleanSummaryMeansDone ==
  (node = "done" /\ ~ summary.errors) =>
     /\ WithStatus("COMPLETED") = graph.nodes
     /\ summary.completed = summary.total /\ summary.failed = 0
     /\ replanCount = 0

\* Once the limit is reached the graph is neither executed nor changed again.
LimitIsFinal ==
  [][limitError => /\ UNCHANGED <<graph, executions, replanCount>>
                   /\ limitError']_vars

\* The supersteps of the longest run: nine up to the first evaluation, nine per
\* replan, and five from the refused replan to the end.
LongestRun == 9 + 9 * MaxReplan + 5

\* If LangGraph's limit has room for a run without replans (13 supersteps), only
\* runs in which a task failed hit it.
OnlyFailuresAbort ==
  (node = "aborted" /\ limit >= 13) => taskErrors

\* The only cycle check is the builder's, but no mutation ever closes a cycle:
\* computing the levels of a mutated graph does not raise RecursionError, which
\* UpdateDag takes for granted.
GraphStaysAcyclic == Acyclic(graph)

\* With room for every replan the run always reaches its end node.
EndsNormally == limit >= LongestRun => <>(node = "done")

-----------------------------------------------------------------------------
(* The inductive strengthening of the properties above *)

BeforeExecution ==
  {"understand_goal", "extract_constraints", "plan_tasks", "build_dag",
   "schedule_tasks", "risk_analysis", "select_tools", "parallel_execute"}

WayOut == {"approval", "summary", "store_memory", "end", "done"}

\* A graph with nodes came from the builder, perhaps through mutations: it is
\* executable, its levels are those of planned tasks, only those have failed.
GraphInv ==
  /\ DOMAIN graph = GraphFields
  /\ graph.edges \subseteq graph.nodes \X graph.nodes
  /\ graph.nodes # {} => /\ Executable(graph, Ids)
                         /\ DOMAIN graph.levels # {}
                         /\ DOMAIN graph.levels \subseteq Base
  /\ WithStatus("FAILED") \subseteq DOMAIN graph.levels
  /\ node = "build_dag" => plan \in Plans \cup {DefaultPlan}

\* Every execution but the first has been paid for by an accepted replan.
BudgetInv ==
  /\ executions <= replanCount + (IF node \in BeforeExecution \cup {"update_dag"} THEN 0 ELSE 1)
  /\ node = "update_dag" => replanCount > 0
  /\ limitError => replanCount = MaxReplan /\ node \in WayOut \cup {"aborted"}

\* As long as no task has failed there has been no replan and no mutation.
UnharmedInv ==
  ~ taskErrors =>
     /\ replanCount = 0 /\ ~ limitError
     /\ WithStatus("FAILED") = {}
     /\ node \notin {"decide_replan", "update_dag"}
     /\ graph.nodes # {} => DOMAIN graph.levels = graph.nodes
     /\ node \in WayOut \cup {"evaluate"} => WithStatus("COMPLETED") = graph.nodes

\* The scheduler's dicts are in the ledger before any task can fail.
LedgerInv ==
  /\ taskErrors => rawLedger
  /\ node \in {"risk_analysis", "select_tools", "parallel_execute"} =>
       graph.nodes = {} \/ rawLedger

\* The way out is open only to runs without failures or without replans left.
ExitInv ==
  /\ (node \in WayOut /\ taskErrors) => limitError
  /\ node = "decide_replan" => needsReplan
  /\ node \in {"store_memory", "end", "done"} =>
       summary = [total     |-> Cardinality(graph.nodes),
                  completed |-> Cardinality(WithStatus("COMPLETED")),
                  failed    |-> Cardinality(WithStatus("FAILED")),
                  errors    |-> taskErrors \/ limitError]

IInv ==
  /\ TypeOK
  /\ GraphInv
  /\ BudgetInv
  /\ UnharmedInv
  /\ LedgerInv
  /\ ExitInv

-----------------------------------------------------------------------------
(* What the documentation says and the code does not do *)

\* evaluator.py: "Nothing failed - no replan needed regardless of score".
NoFailureNoReplan ==
  [][(node = "evaluate" /\ node' = "decide_replan") => WithStatus("FAILED") # {}]_vars

\* parallel_executor.py: completed ids survive replan loops.
CompletedSurvivesReplan ==
  [][\A t \in WithStatus("COMPLETED") :
       t \in graph'.nodes /\ graph'.status[t] = "COMPLETED"]_vars

\* The module documentation: after MAX_REPLAN_ATTEMPTS replans the graph
\* proceeds to approval regardless.
ReplanLoopReachesApproval == node # "aborted"
=============================================================================
