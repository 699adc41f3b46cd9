----------------------- MODULE AgentStateMachineProofs -----------------------
(***************************************************************************)
(* Proofs about AgentStateMachine, for any plans, any number of replans    *)
(* and any recursion limit.  IInv is inductive; the properties follow.     *)
(***************************************************************************)
EXTENDS AgentStateMachine, TaskGraphProofs

\* Most nodes leave the graph and the task errors alone.
GraphKept == UNCHANGED <<graph, taskErrors>>

LEMMA KeptFacts ==
  ASSUME GraphKept
  PROVE  /\ WithStatus("FAILED")' = WithStatus("FAILED")
         /\ WithStatus("COMPLETED")' = WithStatus("COMPLETED")
BY DEF GraphKept, WithStatus

LEMMA KeptGraphInv ==
  ASSUME GraphInv, GraphKept, node' = "build_dag" => plan' \in Plans \cup {DefaultPlan}
  PROVE  GraphInv'
BY KeptFacts DEF GraphInv, GraphKept

-----------------------------------------------------------------------------

\* A superstep between known nodes and phases, for the type invariant.
LEMMA SuperstepType ==
  ASSUME TypeOK, NEW n, NEW p \in Phases, NEW m \in Nodes \cup {"done"},
         Superstep(n, p, m)
  PROVE  /\ node' \in Nodes \cup {"done", "aborted"}
         /\ limit' \in RecursionLimits /\ steps' \in 0..limit'
         /\ phase' \in Phases
BY LimitsAssumption DEF TypeOK, Superstep

LEMMA InitInv == Init => IInv
<1> SUFFICES ASSUME Init PROVE IInv
  OBVIOUS
<1>1. graph.nodes = {} /\ graph.edges = {} /\ graph.status = EmptyFunction
      /\ graph.state = "BUILDING" /\ graph.levels = EmptyFunction
  BY DEF Init, EmptyGraph
<1>2. \A s : WithStatus(s) = {}
  BY <1>1 DEF WithStatus
<1>3. TypeOK
  <2>1. graph.status \in [graph.nodes -> TaskStatus]
    BY <1>1 DEF EmptyFunction
  <2>2. graph.state \in GraphStatus
    BY <1>1 DEF GraphStatus
  <2>3. node \in Nodes /\ phase \in Phases
    BY DEF Init, Nodes, Phases
  <2>4. limit \in RecursionLimits /\ steps \in 0..limit /\ replanCount \in 0..MaxReplan /\ executions \in Nat
    BY LimitsAssumption DEF Init
  <2>5. graph.nodes \subseteq Ids /\ approvalQueue \subseteq Ids
    BY <1>1 DEF Init
  <2>6. QED
    BY <2>1, <2>2, <2>3, <2>4, <2>5 DEF Init, TypeOK
<1>4. GraphInv
  BY <1>1, <1>2 DEF Init, GraphInv, EmptyGraph, GraphFields
<1>5. QED
  BY <1>1, <1>2, <1>3, <1>4, LimitsAssumption
  DEF Init, IInv, BudgetInv, UnharmedInv, LedgerInv, ExitInv, BeforeExecution, WayOut

-----------------------------------------------------------------------------
(* The nodes that keep the graph *)

LEMMA PlanningInv ==
  ASSUME IInv, UnderstandGoal \/ ExtractConstraints \/ PlanTasks \/ BuildDagFails
  PROVE  IInv'
<1>1. GraphKept /\ (node' = "build_dag" => plan' \in Plans \cup {DefaultPlan})
  BY DEF GraphKept, UnderstandGoal, ExtractConstraints, PlanTasks, BuildDagFails, Superstep
<1>2. TypeOK'
  BY LimitsAssumption DEF IInv, TypeOK, UnderstandGoal, ExtractConstraints, PlanTasks,
     BuildDagFails, Superstep, Nodes, Phases
<1>3. GraphInv'
  BY <1>1, KeptGraphInv DEF IInv
<1>4. (BudgetInv /\ UnharmedInv /\ LedgerInv /\ ExitInv)'
  BY <1>1, KeptFacts DEF IInv, GraphKept, BudgetInv, UnharmedInv, LedgerInv, ExitInv,
     BeforeExecution, WayOut, UnderstandGoal, ExtractConstraints, PlanTasks,
     BuildDagFails, Superstep
<1>5. QED
  BY <1>2, <1>3, <1>4 DEF IInv

LEMMA PreparationInv ==
  ASSUME IInv, ScheduleNothing \/ RiskAnalysis \/ SelectTools
  PROVE  IInv'
<1>1. GraphKept /\ node' # "build_dag"
  BY DEF GraphKept, ScheduleNothing, RiskAnalysis, SelectTools, Superstep
<1>2. TypeOK'
  BY LimitsAssumption DEF IInv, TypeOK, ScheduleNothing, RiskAnalysis, SelectTools,
     Superstep, Nodes, Phases
<1>3. GraphInv'
  BY <1>1, KeptGraphInv DEF IInv
<1>4. (BudgetInv /\ UnharmedInv /\ LedgerInv /\ ExitInv)'
  BY <1>1, KeptFacts DEF IInv, GraphKept, BudgetInv, UnharmedInv, LedgerInv, ExitInv,
     BeforeExecution, WayOut, ScheduleNothing, RiskAnalysis, SelectTools, Superstep
<1>5. QED
  BY <1>2, <1>3, <1>4 DEF IInv

\* With a task error the verdict is the fallback's, and it is to replan.
LEMMA VerdictFacts ==
  ASSUME IInv
  PROVE  /\ taskErrors => FALSE \notin Verdicts
         /\ ~ taskErrors => TRUE \notin Verdicts
<1>1. ASSUME taskErrors PROVE FALSE \notin Verdicts
  BY <1>1, HasEvaluatorAssumption DEF IInv, LedgerInv, TypeOK, Verdicts, FallbackVerdict
<1>2. ASSUME ~ taskErrors PROVE TRUE \notin Verdicts
  BY <1>2 DEF IInv, UnharmedInv, TypeOK, Verdicts, FallbackVerdict
<1>3. QED
  BY <1>1, <1>2

LEMMA EvaluationInv ==
  ASSUME IInv, EvaluationFails \/ EvaluationPasses
  PROVE  IInv'
<1>1. GraphKept /\ node' # "build_dag"
  BY DEF GraphKept, EvaluationFails, EvaluationPasses, Superstep
<1>2. TypeOK'
  <2>1. {"REPLAN", "APPROVAL"} \subseteq Phases /\ {"decide_replan", "approval"} \subseteq Nodes
    BY DEF Phases, Nodes
  <2>2. QED
    BY <2>1, SuperstepType DEF IInv, TypeOK, EvaluationFails, EvaluationPasses
<1>3. GraphInv'
  BY <1>1, KeptGraphInv DEF IInv
<1>4. CASE EvaluationFails
  <2>1. taskErrors
    BY <1>4, VerdictFacts DEF EvaluationFails
  <2>2. QED
    BY <1>1, <1>2, <1>3, <1>4, <2>1, KeptFacts DEF IInv, GraphKept, BudgetInv,
       UnharmedInv, LedgerInv, ExitInv, BeforeExecution, WayOut, EvaluationFails, Superstep
<1>5. CASE EvaluationPasses
  <2>1. ~ taskErrors
    BY <1>5, VerdictFacts DEF EvaluationPasses
  <2>2. QED
    BY <1>1, <1>2, <1>3, <1>5, <2>1, KeptFacts DEF IInv, GraphKept, BudgetInv,
       UnharmedInv, LedgerInv, ExitInv, BeforeExecution, WayOut, EvaluationPasses, Superstep
<1>6. QED
  BY <1>4, <1>5

LEMMA DecisionInv ==
  ASSUME IInv, AcceptReplan \/ RefuseReplan \/ NothingToReplan
  PROVE  IInv'
<1>1. GraphKept /\ node' # "build_dag"
  BY DEF GraphKept, AcceptReplan, RefuseReplan, NothingToReplan, Superstep
<1>2. GraphInv'
  BY <1>1, KeptGraphInv DEF IInv
<1>3. taskErrors
  BY DEF IInv, UnharmedInv, AcceptReplan, RefuseReplan, NothingToReplan, Superstep
<1>4. CASE AcceptReplan
  <2>1. needsReplan /\ node' = "update_dag"
    BY <1>4 DEF IInv, ExitInv, AcceptReplan, Superstep
  <2>2. replanCount' = replanCount + 1 /\ replanCount \in Nat /\ replanCount' \in 0..MaxReplan
    BY <1>4, LimitsAssumption DEF IInv, TypeOK, AcceptReplan
  <2>3. TypeOK'
    BY <1>4, <2>1, <2>2, LimitsAssumption DEF IInv, TypeOK, AcceptReplan, Superstep,
       Nodes, Phases
  <2>4. ~ limitError /\ ~ limitError'
    BY <1>4, LimitsAssumption DEF IInv, TypeOK, BudgetInv, AcceptReplan
  <2>5. BudgetInv'
    BY <1>4, <2>1, <2>2, <2>4 DEF IInv, TypeOK, BudgetInv, AcceptReplan, BeforeExecution,
       Superstep
  <2>6. (UnharmedInv /\ LedgerInv /\ ExitInv)'
    BY <1>1, <1>3, <1>4, <2>1 DEF IInv, GraphKept, UnharmedInv, LedgerInv, ExitInv,
       WayOut, AcceptReplan
  <2>7. QED
    BY <1>2, <2>3, <2>5, <2>6 DEF IInv
<1>5. CASE RefuseReplan
  <2>1. replanCount = MaxReplan
    BY <1>5, LimitsAssumption DEF IInv, TypeOK, RefuseReplan
  <2>2. TypeOK'
    <3>1. "APPROVAL" \in Phases /\ "approval" \in Nodes
      BY DEF Phases, Nodes
    <3>2. QED
      BY <1>5, <3>1, SuperstepType DEF IInv, TypeOK, RefuseReplan
  <2>3. QED
    BY <1>1, <1>2, <1>3, <1>5, <2>1, <2>2 DEF IInv, TypeOK, GraphKept, BudgetInv,
       UnharmedInv, LedgerInv, ExitInv, BeforeExecution, WayOut, RefuseReplan, Superstep
<1>6. CASE NothingToReplan
  <2>1. TypeOK'
    <3>1. "APPROVAL" \in Phases /\ "plan_tasks" \in Nodes
      BY DEF Phases, Nodes
    <3>2. QED
      BY <1>6, <3>1, SuperstepType DEF IInv, TypeOK, NothingToReplan
  <2>2. QED
    BY <1>1, <1>2, <1>3, <1>6, <2>1 DEF IInv, TypeOK, GraphKept, BudgetInv,
       UnharmedInv, LedgerInv, ExitInv, BeforeExecution, WayOut, NothingToReplan, Superstep
<1>7. QED
  BY <1>4, <1>5, <1>6

LEMMA EndingInv ==
  ASSUME IInv, Ending
  PROVE  IInv'
<1>1. GraphKept /\ node' # "build_dag"
  BY DEF GraphKept, Ending, Approval, Summary, StoreMemory, End,
     RecursionLimitReached, Superstep
<1>2. TypeOK'
  BY LimitsAssumption DEF IInv, TypeOK, Ending, Approval, Summary, StoreMemory, End,
     RecursionLimitReached, Superstep, Nodes, Phases
<1>3. GraphInv'
  BY <1>1, KeptGraphInv DEF IInv
<1>4. (BudgetInv /\ UnharmedInv /\ LedgerInv /\ ExitInv)'
  BY <1>1, KeptFacts DEF IInv, GraphKept, TypeOK, BudgetInv,
     UnharmedInv, LedgerInv, ExitInv, BeforeExecution, WayOut, Ending, Approval,
     Summary, StoreMemory, End, RecursionLimitReached, Superstep
<1>5. QED
  BY <1>2, <1>3, <1>4 DEF IInv

-----------------------------------------------------------------------------
(* The nodes that change the graph *)

\* The executor reads the levels attribute whenever it has one.
LEMMA LevelsFact ==
  ASSUME NEW g, DOMAIN g.levels # {}
  PROVE  EffectiveLevels(g) = g.levels
BY DEF EffectiveLevels

LEMMA ScheduleInv ==
  ASSUME IInv, ScheduleTasks
  PROVE  IInv'
<1>1. /\ graph' = [graph EXCEPT !.state = "EXECUTING"]
      /\ DOMAIN graph' = GraphFields
      /\ graph'.nodes = graph.nodes /\ graph'.edges = graph.edges
      /\ graph'.status = graph.status /\ graph'.levels = graph.levels
      /\ graph'.state = "EXECUTING"
  BY DEF ScheduleTasks, IInv, GraphInv, GraphFields
<1>2. \A s : WithStatus(s)' = WithStatus(s)
  BY <1>1 DEF WithStatus
<1>3. node' = "risk_analysis" /\ phase' = "RISK_ANALYSIS" /\ taskErrors' = taskErrors
  BY DEF ScheduleTasks, Superstep
<1>4. TypeOK'
  <2>1. "RISK_ANALYSIS" \in Phases /\ "risk_analysis" \in Nodes /\ "EXECUTING" \in GraphStatus
    BY DEF Phases, Nodes, GraphStatus
  <2>2. QED
    BY <1>1, <1>3, <2>1, SuperstepType DEF IInv, TypeOK, ScheduleTasks
<1>5. GraphInv'
  <2>1. ASSUME graph.nodes # {} PROVE Executable(graph, Ids)'
    <3>1. EffectiveLevels(graph)' = EffectiveLevels(graph)
      BY <1>1, <2>1, LevelsFact DEF IInv, GraphInv
    <3>2. \A t : Dependencies(graph', t) = Dependencies(graph, t)
      BY <1>1 DEF Dependencies
    <3>3. "EXECUTING" \in GraphStatus
      BY DEF GraphStatus
    <3>4. QED
      BY <1>1, <2>1, <3>1, <3>2, <3>3 DEF IInv, GraphInv, Executable
  <2>2. QED
    BY <1>1, <1>2, <1>3, <2>1 DEF IInv, GraphInv
<1>6. (BudgetInv /\ UnharmedInv /\ LedgerInv /\ ExitInv)'
  BY <1>1, <1>2, <1>3 DEF IInv, BudgetInv, UnharmedInv, LedgerInv, ExitInv,
     BeforeExecution, WayOut, ScheduleTasks, Superstep
<1>7. QED
  BY <1>4, <1>5, <1>6 DEF IInv

\* What the builder makes of a buildable dictionary.
LEMMA BuildFacts ==
  ASSUME NEW p, Buildable(p)
  PROVE  /\ DOMAIN Build(p) = GraphFields
         /\ Build(p).nodes = DOMAIN p
         /\ Build(p).edges \subseteq (DOMAIN p) \X (DOMAIN p)
         /\ Build(p).status = [t \in DOMAIN p |-> "PENDING"]
         /\ Build(p).state = "READY"
BY DEF Build, EmptyGraph, GraphFields, Buildable, DependenciesExist

LEMMA PlanFacts ==
  ASSUME NEW p \in Plans \cup {DefaultPlan}
  PROVE  DOMAIN p \subseteq Base /\ IsFiniteSet(DOMAIN p)
BY PlansAssumption, DefaultTaskAssumption, FS_Singleton DEF DefaultPlan

LEMMA BuildInv ==
  ASSUME IInv, BuildDag
  PROVE  IInv'
<1>1. plan \in Plans \cup {DefaultPlan} /\ Buildable(plan) /\ graph' = Build(plan)
  BY DEF IInv, GraphInv, BuildDag, Superstep
<1>2. node' = "schedule_tasks" /\ phase' = "SCHEDULE" /\ plan' = NoPlan
      /\ taskErrors' = taskErrors
  BY DEF BuildDag, Superstep
<1>3. DOMAIN plan \subseteq Base /\ IsFiniteSet(DOMAIN plan)
  BY <1>1, PlanFacts
<1>4. /\ DOMAIN graph' = GraphFields /\ graph'.nodes = DOMAIN plan
      /\ graph'.edges \subseteq graph'.nodes \X graph'.nodes
      /\ graph'.status = [t \in graph'.nodes |-> "PENDING"] /\ graph'.state = "READY"
  BY <1>1, BuildFacts
<1>5. DOMAIN graph'.levels = graph'.nodes /\ Executable(graph', Base)
  BY <1>1, <1>3, <1>4, BuiltGraphsAreExecutable
<1>6. \A t \in graph'.nodes : graph'.status[t] = "PENDING"
  BY <1>4
<1>7. WithStatus("FAILED")' = {}
  BY <1>6 DEF WithStatus
<1>8. TypeOK'
  <2>1. "SCHEDULE" \in Phases /\ "schedule_tasks" \in Nodes /\ "READY" \in GraphStatus
        /\ "PENDING" \in TaskStatus /\ Base \subseteq Ids
    BY DEF Phases, Nodes, GraphStatus, TaskStatus, Ids
  <2>2. QED
    BY <1>2, <1>3, <1>4, <2>1, SuperstepType DEF IInv, TypeOK, BuildDag
<1>9. GraphInv'
  <2>1. Executable(graph', Ids)
    BY <1>5 DEF Executable, Ids
  <2>2. QED
    BY <1>2, <1>3, <1>4, <1>5, <1>7, <2>1 DEF GraphInv
<1>10. (BudgetInv /\ UnharmedInv /\ LedgerInv /\ ExitInv)'
  BY <1>2, <1>5, <1>7 DEF IInv, BudgetInv, UnharmedInv, LedgerInv, ExitInv,
     BeforeExecution, WayOut, BuildDag, Superstep
<1>11. QED
  BY <1>8, <1>9, <1>10 DEF IInv

\* A call of the executor: it fails only scheduled ids, and unless some node
\* fails or has failed before it leaves nothing behind.
LEMMA ExecutionFacts ==
  ASSUME IInv, graph.nodes # {}, NEW F \in FailureSets(graph)
  PROVE  /\ EffectiveLevels(graph) = graph.levels
         /\ F \subseteq DOMAIN graph.levels
         /\ StatusAfter(graph, F) \in [graph.nodes -> TaskStatus \ {"RUNNING"}]
         /\ \A t \in graph.nodes : StatusAfter(graph, F)[t] = "FAILED" =>
              t \in F \/ graph.status[t] = "FAILED"
         /\ (F = {} /\ graph.nodes \subseteq DOMAIN graph.levels) =>
              \A t \in graph.nodes : StatusAfter(graph, F)[t] = "COMPLETED"
<1>1. EffectiveLevels(graph) = graph.levels
  BY LevelsFact DEF IInv, GraphInv
<1>2. F \subseteq DOMAIN graph.levels
  BY <1>1 DEF FailureSets, Unfinished
<1>3. graph.status \in [graph.nodes -> TaskStatus \ {"RUNNING"}]
  BY DEF IInv, GraphInv, Executable
<1>4. {"COMPLETED", "FAILED"} \subseteq TaskStatus \ {"RUNNING"}
  BY DEF TaskStatus
<1>5. QED
  BY <1>1, <1>2, <1>3, <1>4 DEF StatusAfter, Unfinished

LEMMA ExecuteInv ==
  ASSUME IInv, ParallelExecute
  PROVE  IInv'
<1>1. node = "parallel_execute" /\ node' = "evaluate" /\ phase' = "EVALUATE"
      /\ executions' = executions + 1 /\ steps' = steps + 1
      /\ UNCHANGED <<plan, replanCount, limitError, rawLedger, approvalQueue, summary>>
  BY DEF ParallelExecute, Superstep
<1>2. ~ limitError
  BY <1>1 DEF IInv, BudgetInv, WayOut
<1>3. BudgetInv'
  BY <1>1, <1>2 DEF IInv, TypeOK, BudgetInv, BeforeExecution
<1>4. "EVALUATE" \in Phases /\ "evaluate" \in Nodes
  BY DEF Phases, Nodes
<1>5. CASE graph.nodes = {}
  <2>1. GraphKept
    BY <1>5 DEF ParallelExecute, GraphKept
  <2>2. GraphInv'
    BY <1>1, <2>1, KeptGraphInv DEF IInv
  <2>3. TypeOK'
    <3>1. UNCHANGED <<graph, needsReplan, taskErrors>> /\ executions' \in Nat
      BY <1>1, <1>5 DEF IInv, TypeOK, ParallelExecute
    <3>2. Superstep("parallel_execute", "EVALUATE", "evaluate")
      BY DEF ParallelExecute
    <3>3. QED
      BY <1>1, <1>4, <3>1, <3>2, SuperstepType DEF IInv, TypeOK
  <2>4. WithStatus("COMPLETED") = {} /\ graph'.nodes = {}
    BY <1>5, <2>1 DEF WithStatus, GraphKept
  <2>5. (UnharmedInv /\ LedgerInv /\ ExitInv)'
    BY <1>1, <1>5, <2>1, <2>4, KeptFacts DEF IInv, GraphKept, UnharmedInv, LedgerInv,
       ExitInv, WayOut
  <2>6. QED
    BY <1>3, <2>2, <2>3, <2>5 DEF IInv
<1>6. CASE graph.nodes # {}
  <2>1. PICK F \in FailureSets(graph) :
          /\ graph' = [graph EXCEPT
                         !.status = StatusAfter(graph, F),
                         !.state  = IF F = {} THEN "COMPLETED" ELSE "FAILED"]
          /\ needsReplan' = (F # {})
          /\ taskErrors' = (taskErrors \/ F \cap graph.nodes # {})
    BY <1>6 DEF ParallelExecute
  <2>2. /\ DOMAIN graph' = GraphFields
        /\ graph'.nodes = graph.nodes /\ graph'.edges = graph.edges
        /\ graph'.status = StatusAfter(graph, F) /\ graph'.levels = graph.levels
        /\ graph'.state \in GraphStatus
    BY <2>1 DEF IInv, GraphInv, GraphFields, GraphStatus
  <2>3. /\ EffectiveLevels(graph) = graph.levels /\ EffectiveLevels(graph)' = graph.levels
        /\ F \subseteq DOMAIN graph.levels
        /\ graph'.status \in [graph.nodes -> TaskStatus \ {"RUNNING"}]
        /\ \A t \in graph.nodes : graph'.status[t] = "FAILED" =>
             t \in F \/ graph.status[t] = "FAILED"
    BY <1>6, <2>2, ExecutionFacts, LevelsFact DEF IInv, GraphInv
  <2>4. TypeOK'
    <3>1. graph'.status \in [graph'.nodes -> TaskStatus]
      BY <2>2, <2>3
    <3>2. needsReplan' \in BOOLEAN /\ taskErrors' \in BOOLEAN
      BY <2>1
    <3>3. executions' \in Nat
      BY <1>1 DEF IInv, TypeOK
    <3>4. QED
      BY <1>1, <1>4, <2>2, <3>1, <3>2, <3>3, SuperstepType DEF IInv, TypeOK, ParallelExecute
  <2>5. GraphInv'
    <3>1. \A t : Dependencies(graph', t) = Dependencies(graph, t)
      BY <2>2 DEF Dependencies
    <3>2. Executable(graph', Ids)
      BY <1>6, <2>2, <2>3, <3>1 DEF IInv, GraphInv, Executable
    <3>3. WithStatus("FAILED")' \subseteq DOMAIN graph.levels
      BY <2>2, <2>3 DEF IInv, GraphInv, WithStatus
    <3>4. QED
      BY <1>1, <1>6, <2>2, <3>2, <3>3 DEF IInv, GraphInv
  <2>6. ASSUME ~ taskErrors'
        PROVE  /\ ~ taskErrors
               /\ WithStatus("FAILED")' = {} /\ WithStatus("COMPLETED")' = graph'.nodes
    <3>1. ~ taskErrors /\ F \cap graph.nodes = {}
      BY <2>1, <2>6
    <3>2. DOMAIN graph.levels = graph.nodes
      BY <1>6, <3>1 DEF IInv, UnharmedInv
    <3>3. F = {}
      BY <2>3, <3>1, <3>2
    <3>4. \A t \in graph.nodes : graph'.status[t] = "COMPLETED"
      BY <1>6, <2>2, <3>2, <3>3, ExecutionFacts
    <3>5. QED
      BY <2>2, <3>1, <3>4 DEF WithStatus
  <2>7. (UnharmedInv /\ LedgerInv /\ ExitInv)'
    BY <1>1, <1>6, <2>2, <2>6 DEF IInv, UnharmedInv, LedgerInv, ExitInv, WayOut
  <2>8. QED
    BY <1>3, <2>4, <2>5, <2>7 DEF IInv
<1>7. QED
  BY <1>5, <1>6

\* What a mutation that replaces t by r makes of a graph: t is gone, r is there,
\* everything kept is as it was, and no edge leaves the graph.
Replaced(g, h, t, r) ==
  /\ DOMAIN h = GraphFields /\ h.levels = g.levels /\ h.state = "READY"
  /\ h.nodes = (g.nodes \ AffectedSubgraph(g, t)) \cup {r} /\ t \notin h.nodes
  /\ h.edges \subseteq h.nodes \X h.nodes
  /\ \A e \in h.edges : e \in g.edges \/ e[2] = r
  /\ h.status = [u \in h.nodes |-> IF u \in g.nodes \ AffectedSubgraph(g, t)
                                  THEN g.status[u] ELSE "PENDING"]

LEMMA MutationFacts ==
  ASSUME NEW g, NEW t, NEW r, NEW new, DOMAIN g = GraphFields,
         g.edges \subseteq g.nodes \X g.nodes, t # r, DOMAIN new = {r}
  PROVE  Replaced(g, MutateOnFailure(g, t, new), t, r)
<1> DEFINE h == MutateOnFailure(g, t, new)
           kept == g.nodes \ AffectedSubgraph(g, t)
           added == UNION {{<<d, u>> : d \in new[u] \cap (kept \cup DOMAIN new)} : u \in DOMAIN new}
<1>1. t \notin kept
  BY DEF AffectedSubgraph
<1>2. DOMAIN new = {r}
  OBVIOUS
<1>3. \A e \in added : e \in (kept \cup {r}) \X {r}
  BY <1>2
<1>4. /\ DOMAIN h = GraphFields /\ h.levels = g.levels /\ h.state = "READY"
      /\ h.nodes = kept \cup DOMAIN new
      /\ h.edges = {e \in g.edges : e[1] \notin AffectedSubgraph(g, t)
                                    /\ e[2] \notin AffectedSubgraph(g, t)} \cup added
      /\ h.status = [u \in kept \cup DOMAIN new |-> IF u \in kept THEN g.status[u] ELSE "PENDING"]
  BY DEF MutateOnFailure, Rewired, GraphFields
<1>5. h.nodes = kept \cup {r}
  BY <1>2, <1>4
<1>6. \A e \in h.edges : e \in h.nodes \X h.nodes /\ (e \in g.edges \/ e[2] = r)
  <2>1. SUFFICES ASSUME NEW e \in h.edges
                 PROVE  e \in h.nodes \X h.nodes /\ (e \in g.edges \/ e[2] = r)
    OBVIOUS
  <2>2. CASE e \in added
    BY <1>3, <1>5, <2>2
  <2>3. CASE e \in g.edges /\ e[1] \notin AffectedSubgraph(g, t) /\ e[2] \notin AffectedSubgraph(g, t)
    BY <1>5, <2>3
  <2>4. QED
    BY <1>4, <2>2, <2>3
<1>7. QED
  <2> HIDE DEF h
  <2>1. Replaced(g, h, t, r)
    BY <1>1, <1>2, <1>4, <1>5, <1>6 DEF Replaced
  <2>2. QED
    BY <2>1 DEF h

LEMMA UpdateInv ==
  ASSUME IInv, UpdateDag
  PROVE  IInv'
<1>1. node = "update_dag" /\ node' = "plan_tasks" /\ phase' = "PLANNING"
      /\ UNCHANGED <<plan, needsReplan, replanCount, taskErrors, limitError,
                     rawLedger, approvalQueue, summary, executions>>
  BY DEF UpdateDag, Superstep
<1>2. PICK t \in WithStatus("FAILED") :
        graph' = MutateOnFailure(graph, t,
                   [r \in {Retry(t, replanCount)} |-> Dependencies(graph, t)])
  BY DEF UpdateDag
<1> DEFINE new == Retry(t, replanCount)
<1>3. t \in graph.nodes /\ t \in DOMAIN graph.levels /\ t \in Base
      /\ graph.nodes # {} /\ DOMAIN graph.levels # {} /\ DOMAIN graph.levels \subseteq Base
  BY DEF WithStatus, IInv, GraphInv
<1>4. replanCount \in 1..MaxReplan
  BY <1>1, LimitsAssumption DEF IInv, TypeOK, BudgetInv
<1>5. new \in Ids /\ new \notin Base /\ new # t
  BY <1>3, <1>4, RetryAssumption DEF Ids
<1>6. /\ DOMAIN graph = GraphFields
      /\ graph.edges \subseteq graph.nodes \X graph.nodes
  BY DEF IInv, GraphInv
<1>7. /\ DOMAIN graph' = GraphFields /\ graph'.levels = graph.levels /\ graph'.state = "READY"
      /\ graph'.nodes \subseteq graph.nodes \cup {new} /\ t \notin graph'.nodes
      /\ new \in graph'.nodes
      /\ graph'.edges \subseteq graph'.nodes \X graph'.nodes
      /\ \A e \in graph'.edges : e \in graph.edges \/ e[2] = new
      /\ graph'.status = [u \in graph'.nodes |->
                            IF u \in graph.nodes \ AffectedSubgraph(graph, t)
                              THEN graph.status[u] ELSE "PENDING"]
  <2>1. PICK tasks : DOMAIN tasks = {new} /\ graph' = MutateOnFailure(graph, t, tasks)
    BY <1>2
  <2> HIDE DEF new
  <2>2. QED
    <3>1. Replaced(graph, MutateOnFailure(graph, t, tasks), t, new)
      BY <1>5, <1>6, <2>1, MutationFacts
    <3>2. QED
      BY <2>1, <3>1 DEF Replaced
<1>8. Executable(graph, Ids) /\ graph.status \in [graph.nodes -> TaskStatus \ {"RUNNING"}]
  BY <1>3 DEF IInv, GraphInv, Executable
<1>9. graph'.status \in [graph'.nodes -> TaskStatus \ {"RUNNING"}]
  <2>1. "PENDING" \in TaskStatus \ {"RUNNING"}
    BY DEF TaskStatus
  <2>2. QED
    BY <1>7, <1>8, <2>1
<1>10. TypeOK'
  <2>1. "PLANNING" \in Phases /\ "plan_tasks" \in Nodes /\ "READY" \in GraphStatus
    BY DEF Phases, Nodes, GraphStatus
  <2>2. graph'.nodes \subseteq Ids /\ graph'.status \in [graph'.nodes -> TaskStatus]
    BY <1>5, <1>7, <1>9 DEF IInv, TypeOK
  <2>3. QED
    BY <1>1, <1>7, <2>1, <2>2, SuperstepType DEF IInv, TypeOK, UpdateDag
<1>11. GraphInv'
  <2>1. Executable(graph', Ids)
    <3>1. EffectiveLevels(graph) = graph.levels /\ EffectiveLevels(graph') = graph.levels
      BY <1>3, <1>7, LevelsFact
    <3>2. \A u \in DOMAIN graph.levels : Dependencies(graph', u) \subseteq Dependencies(graph, u)
      <4>1. SUFFICES ASSUME NEW u \in DOMAIN graph.levels, NEW d \in Dependencies(graph', u)
                     PROVE  d \in Dependencies(graph, u)
        OBVIOUS
      <4>2. <<d, u>> \in graph'.edges /\ u # new
        BY <1>3, <1>5 DEF Dependencies
      <4>3. <<d, u>> \in graph.edges
        BY <1>7, <4>2
      <4>4. QED
        BY <1>6, <4>3 DEF Dependencies
    <3>3. "READY" \in GraphStatus
      BY DEF GraphStatus
    <3>4. graph'.nodes \subseteq Ids
      BY <1>5, <1>7 DEF IInv, TypeOK
    <3>5. QED
      BY <1>3, <1>7, <1>8, <1>9, <3>1, <3>2, <3>3, <3>4 DEF Executable
  <2>2. WithStatus("FAILED")' \subseteq WithStatus("FAILED")
    BY <1>7 DEF WithStatus
  <2>3. QED
    BY <1>1, <1>3, <1>7, <2>1, <2>2 DEF IInv, GraphInv
<1>12. taskErrors
  BY <1>1 DEF IInv, UnharmedInv
<1>13. (BudgetInv /\ UnharmedInv /\ LedgerInv /\ ExitInv)'
  BY <1>1, <1>12 DEF IInv, BudgetInv, UnharmedInv, LedgerInv, ExitInv,
     BeforeExecution, WayOut
<1>14. QED
  BY <1>10, <1>11, <1>13 DEF IInv

-----------------------------------------------------------------------------
(* The invariant and the properties *)

LEMMA StutterInv == IInv /\ UNCHANGED vars => IInv'
<1> SUFFICES ASSUME IInv, UNCHANGED vars PROVE IInv'
  OBVIOUS
<1>1. GraphKept
  BY DEF vars, GraphKept
<1>2. GraphInv'
  BY <1>1, KeptGraphInv DEF vars, IInv, GraphInv
<1>3. QED
  BY <1>2, KeptFacts, <1>1
  DEF vars, IInv, TypeOK, BudgetInv, UnharmedInv, LedgerInv, ExitInv

LEMMA Invariance == Spec => []IInv
<1>1. IInv /\ [Next]_vars => IInv'
  BY PlanningInv, PreparationInv, EvaluationInv, DecisionInv, EndingInv, ScheduleInv,
     BuildInv, ExecuteInv, UpdateInv, StutterInv
  DEF Next, Planning, Execution, Replanning, Finished
<1>2. QED
  BY <1>1, InitInv, PTL DEF Spec

\* Every variable of the pipeline stays in its range.
THEOREM TypeCorrect == Spec => []TypeOK
<1>1. IInv => TypeOK
  BY DEF IInv
<1>2. QED
  BY <1>1, Invariance, PTL

\* For any MAX_REPLAN_ATTEMPTS there is at most one execution more than there
\* are accepted replans, and the limit error means that all were used.
THEOREM ReplansAreBounded == Spec => []ReplanBudget
<1>1. IInv => ReplanBudget
  BY DEF IInv, TypeOK, BudgetInv, ReplanBudget
<1>2. QED
  BY <1>1, Invariance, PTL

\* The executor is only ever handed a graph it can execute, mutated or not.
THEOREM ExecutorGetsExecutableGraphs == Spec => []ExecutorPrecondition
<1>1. IInv => ExecutorPrecondition
  BY DEF IInv, GraphInv, ExecutorPrecondition
<1>2. QED
  BY <1>1, Invariance, PTL

\* No failure of a run that ends normally goes unreported.
THEOREM FailuresAreReported == Spec => []FailureIsReported
<1>1. ASSUME IInv, node = "done", taskErrors \/ WithStatus("FAILED") # {}
      PROVE  limitError /\ replanCount = MaxReplan /\ summary.errors
  <2>1. taskErrors
    BY <1>1 DEF IInv, UnharmedInv
  <2>2. limitError /\ replanCount = MaxReplan
    BY <1>1, <2>1 DEF IInv, ExitInv, BudgetInv, WayOut
  <2>3. summary.errors = (taskErrors \/ limitError)
    BY <1>1 DEF IInv, ExitInv
  <2>4. QED
    BY <2>1, <2>2, <2>3
<1>2. IInv => FailureIsReported
  BY <1>1 DEF FailureIsReported
<1>3. QED
  BY <1>2, Invariance, PTL

\* A summary without errors means that every task was done, at the first try.
THEOREM CleanSummariesAreEarned == Spec => []CleanSummaryMeansDone
<1>1. ASSUME IInv, node = "done", ~ summary.errors
      PROVE  CleanSummaryMeansDone
  <2>1. /\ summary.errors = (taskErrors \/ limitError)
        /\ summary.total = Cardinality(graph.nodes)
        /\ summary.completed = Cardinality(WithStatus("COMPLETED"))
        /\ summary.failed = Cardinality(WithStatus("FAILED"))
    BY <1>1 DEF IInv, ExitInv
  <2>2. /\ WithStatus("COMPLETED") = graph.nodes /\ WithStatus("FAILED") = {}
        /\ replanCount = 0
    BY <1>1, <2>1 DEF IInv, UnharmedInv, WayOut
  <2>3. QED
    BY <2>1, <2>2, FS_EmptySet DEF CleanSummaryMeansDone
<1>2. IInv => CleanSummaryMeansDone
  BY <1>1 DEF CleanSummaryMeansDone
<1>3. QED
  BY <1>2, Invariance, PTL

\* After the limit error the graph is not executed or changed any more.
THEOREM LimitEndsReplanning == Spec => LimitIsFinal
<1>1. ASSUME IInv, [Next]_vars, limitError
      PROVE  UNCHANGED <<graph, executions, replanCount>> /\ limitError'
  <2>1. node \in WayOut \cup {"aborted"}
    BY <1>1 DEF IInv, BudgetInv
  <2>2. Ending \/ UNCHANGED vars
    BY <1>1, <2>1 DEF WayOut, Next, Planning, Execution, Replanning, Finished,
       UnderstandGoal, ExtractConstraints, PlanTasks, BuildDag, BuildDagFails,
       ScheduleTasks, ScheduleNothing, RiskAnalysis, SelectTools, ParallelExecute,
       EvaluationFails, EvaluationPasses, AcceptReplan, RefuseReplan, UpdateDag,
       NothingToReplan, Superstep
  <2>3. QED
    BY <1>1, <2>2 DEF vars, Ending, Approval, Summary, StoreMemory, End,
       RecursionLimitReached
<1>2. IInv /\ [Next]_vars =>
        [limitError => UNCHANGED <<graph, executions, replanCount>> /\ limitError']_vars
  BY <1>1
<1>3. QED
  BY <1>2, Invariance, PTL DEF Spec, LimitIsFinal

-----------------------------------------------------------------------------
(* Runs without failures *)

\* The supersteps of a run in which nothing fails.
Path ==
  {<<"understand_goal", 0>>, <<"extract_constraints", 1>>, <<"plan_tasks", 2>>,
   <<"build_dag", 3>>, <<"schedule_tasks", 4>>, <<"risk_analysis", 5>>,
   <<"select_tools", 6>>, <<"parallel_execute", 7>>, <<"evaluate", 8>>,
   <<"approval", 9>>, <<"summary", 10>>, <<"store_memory", 11>>, <<"end", 12>>,
   <<"done", 13>>}

\* As long as no task has failed the run is on this path, or was too short for it.
PathInv ==
  ~ taskErrors => \/ <<node, steps>> \in Path
                  \/ node = "aborted" /\ limit < 13

LEMMA StepPath == IInv /\ IInv' /\ PathInv /\ [Next]_vars => PathInv'
<1> SUFFICES ASSUME IInv, IInv', PathInv, [Next]_vars, ~ taskErrors' PROVE PathInv'
  BY DEF PathInv
<1>1. TypeOK /\ UnharmedInv /\ UnharmedInv'
  BY DEF IInv
<1>2. CASE Planning
  <2>1. ~ taskErrors
    BY <1>2 DEF Planning, UnderstandGoal, ExtractConstraints, PlanTasks, BuildDag, BuildDagFails
  <2>2. QED
    BY <1>1, <1>2, <2>1 DEF Planning, UnderstandGoal, ExtractConstraints, PlanTasks, BuildDag,
       BuildDagFails, Superstep, PathInv, Path
<1>3. CASE Execution
  <2>1. ~ taskErrors
    BY <1>1, <1>3 DEF Execution, ScheduleTasks, ScheduleNothing, RiskAnalysis, SelectTools,
       ParallelExecute, TypeOK
  <2>2. /\ steps' = steps + 1
        /\ <<node, node'>> \in {<<"schedule_tasks", "risk_analysis">>, <<"risk_analysis", "select_tools">>,
                               <<"select_tools", "parallel_execute">>, <<"parallel_execute", "evaluate">>}
    BY <1>3 DEF Execution, ScheduleTasks, ScheduleNothing, RiskAnalysis, SelectTools,
       ParallelExecute, Superstep
  <2>3. QED
    BY <2>1, <2>2 DEF PathInv, Path
<1>4. CASE Replanning
  <2>1. ~ taskErrors
    BY <1>4 DEF Replanning, EvaluationFails, EvaluationPasses, AcceptReplan, RefuseReplan,
       UpdateDag, NothingToReplan
  <2>2. node = "evaluate" /\ node' = "approval" /\ steps' = steps + 1
    BY <1>1, <1>4, <2>1 DEF Replanning, EvaluationFails, EvaluationPasses, AcceptReplan,
       RefuseReplan, UpdateDag, NothingToReplan, Superstep, UnharmedInv
  <2>3. QED
    BY <2>1, <2>2 DEF PathInv, Path
<1>5. CASE Ending
  <2>1. CASE RecursionLimitReached
    BY <1>1, <2>1 DEF RecursionLimitReached, PathInv, Path
  <2>2. CASE Approval \/ Summary \/ StoreMemory \/ End
    BY <1>1, <2>2 DEF Approval, Summary, StoreMemory, End, Superstep, PathInv, Path
  <2>3. QED
    BY <1>5, <2>1, <2>2 DEF Ending
<1>6. CASE UNCHANGED vars
  BY <1>6 DEF vars, PathInv
<1>7. QED
  BY <1>2, <1>3, <1>4, <1>5, <1>6 DEF Next, Finished

\* LangGraph's recursion limit, if it has room for one pass through the
\* pipeline, only ever stops runs in which a task has failed.
THEOREM OnlyFailedRunsAbort == Spec => []OnlyFailuresAbort
<1>1. Init => PathInv
  BY DEF Init, PathInv, Path
<1>2. IInv /\ PathInv => OnlyFailuresAbort
  <2>1. SUFFICES ASSUME IInv, PathInv, node = "aborted", limit >= 13, ~ taskErrors
                 PROVE  FALSE
    BY DEF OnlyFailuresAbort, IInv, TypeOK
  <2>2. limit \in Nat
    BY <2>1, LimitsAssumption DEF IInv, TypeOK
  <2>3. QED
    BY <2>1, <2>2 DEF PathInv, Path
<1>3. QED
  BY <1>1, <1>2, StepPath, Invariance, PTL DEF Spec

-----------------------------------------------------------------------------
(* No cycles *)

\* A retry bears the number of the replan it was made for.
RetriesInv ==
  graph.nodes \subseteq
    Base \cup {Retry(t, n) : t \in Base,
                            n \in {k \in Nat : /\ k <= replanCount
                                               /\ node = "update_dag" => k < replanCount}}

OrderInv == RetriesInv /\ IsFiniteSet(graph.nodes) /\ Acyclic(graph)

\* Everything but build_dag and update_dag keeps the nodes and the edges.
LEMMA OtherSteps ==
  ASSUME IInv, [Next]_vars, ~BuildDag, ~UpdateDag
  PROVE  /\ graph'.nodes = graph.nodes /\ graph'.edges = graph.edges
         /\ replanCount' >= replanCount
         /\ node' = "update_dag" => replanCount' > replanCount \/ node = "update_dag"
<1>1. DOMAIN graph = GraphFields /\ replanCount \in Nat
  BY DEF IInv, GraphInv, TypeOK
<1>2. CASE UNCHANGED vars
  BY <1>1, <1>2 DEF vars
<1>3. CASE Planning
  BY <1>1, <1>3 DEF Planning, UnderstandGoal, ExtractConstraints, PlanTasks, BuildDagFails,
     Superstep
<1>4. CASE Execution
  <2>1. replanCount' = replanCount /\ node' # "update_dag"
    BY <1>4 DEF Execution, ScheduleTasks, ScheduleNothing, RiskAnalysis, SelectTools,
       ParallelExecute, Superstep
  <2>2. CASE ScheduleTasks
    BY <1>1, <2>1, <2>2 DEF ScheduleTasks, GraphFields
  <2>3. CASE ParallelExecute
    <3>1. graph' = graph \/ \E status, state :
             graph' = [graph EXCEPT !.status = status, !.state = state]
      BY <2>3 DEF ParallelExecute
    <3>2. graph'.nodes = graph.nodes /\ graph'.edges = graph.edges
      BY <1>1, <3>1 DEF GraphFields
    <3>3. QED
      BY <1>1, <2>1, <3>2
  <2>4. CASE ScheduleNothing \/ RiskAnalysis \/ SelectTools
    BY <1>1, <2>1, <2>4 DEF ScheduleNothing, RiskAnalysis, SelectTools
  <2>5. QED
    BY <1>4, <2>2, <2>3, <2>4 DEF Execution
<1>5. CASE Replanning
  <2>1. graph' = graph
    BY <1>5 DEF Replanning, EvaluationFails, EvaluationPasses, AcceptReplan, RefuseReplan,
       NothingToReplan
  <2>2. CASE AcceptReplan
    BY <1>1, <2>1, <2>2 DEF AcceptReplan
  <2>3. CASE EvaluationFails \/ EvaluationPasses \/ RefuseReplan \/ NothingToReplan
    <3>1. replanCount' = replanCount /\ node' # "update_dag"
      BY <2>3 DEF EvaluationFails, EvaluationPasses, RefuseReplan, NothingToReplan, Superstep
    <3>2. QED
      BY <1>1, <2>1, <3>1
  <2>4. QED
    BY <1>5, <2>2, <2>3 DEF Replanning
<1>6. CASE Ending
  BY <1>1, <1>6 DEF Ending, Approval, Summary, StoreMemory, End, RecursionLimitReached, Superstep
<1>7. QED
  BY <1>2, <1>3, <1>4, <1>5, <1>6 DEF Next, Finished

LEMMA BuildKeepsOrder ==
  ASSUME IInv, BuildDag
  PROVE  OrderInv'
<1>1. plan \in Plans \cup {DefaultPlan} /\ Buildable(plan) /\ graph' = Build(plan)
  BY DEF IInv, GraphInv, BuildDag, Superstep
<1>2. DOMAIN plan \subseteq Base /\ IsFiniteSet(DOMAIN plan)
  BY <1>1, PlanFacts
<1>3. graph'.nodes = DOMAIN plan /\ graph'.edges = BuiltEdges(plan)
  BY <1>1, BuildFields
<1>4. Acyclic(graph')
  BY <1>1, <1>3, BuiltDependencies
<1>5. QED
  BY <1>2, <1>3, <1>4 DEF OrderInv, RetriesInv

LEMMA UpdateKeepsOrder ==
  ASSUME IInv, OrderInv, UpdateDag
  PROVE  OrderInv'
<1>1. node = "update_dag" /\ node' = "plan_tasks" /\ replanCount' = replanCount
  BY DEF UpdateDag, Superstep
<1>2. PICK t \in WithStatus("FAILED") :
        graph' = MutateOnFailure(graph, t,
                   [r \in {Retry(t, replanCount)} |-> Dependencies(graph, t)])
  BY DEF UpdateDag
<1> DEFINE retry == Retry(t, replanCount)
           tasks == [r \in {retry} |-> Dependencies(graph, t)]
           h == Rewired(graph, t, tasks)
<1>3. replanCount \in 1..MaxReplan /\ t \in Base /\ t \in graph.nodes
  BY <1>1, LimitsAssumption DEF WithStatus, IInv, GraphInv, TypeOK, BudgetInv
<1>4. retry \notin graph.nodes
  <2>1. retry \notin Base
    BY <1>3, RetryAssumption
  <2>2. \A u \in Base, n \in Nat : n < replanCount => Retry(u, n) # retry
    BY <1>3 DEF Retry
  <2>3. QED
    BY <1>1, <2>1, <2>2 DEF OrderInv, RetriesInv
<1>5. \A S : ~Cycle(S, tasks)
  <2> SUFFICES ASSUME NEW S, Cycle(S, tasks) PROVE FALSE
    OBVIOUS
  <2>1. retry \in Dependencies(graph, t)
    BY DEF Cycle
  <2>2. QED
    BY <1>4, <2>1 DEF Dependencies
<1>6. /\ DOMAIN graph = GraphFields /\ graph.edges \subseteq graph.nodes \X graph.nodes
      /\ DOMAIN tasks = {retry} /\ IsFiniteSet(DOMAIN tasks)
      /\ DOMAIN tasks \cap (graph.nodes \ AffectedSubgraph(graph, t)) = {}
  BY <1>4, FS_Singleton DEF IInv, GraphInv
<1>7. /\ h.nodes = (graph.nodes \ AffectedSubgraph(graph, t)) \cup {retry}
      /\ graph'.nodes = h.nodes /\ graph'.edges = h.edges
  <2>1. DOMAIN h = GraphFields /\ h.nodes = (graph.nodes \ AffectedSubgraph(graph, t)) \cup {retry}
    BY <1>6, RewiredFields
  <2>2. graph' = [h EXCEPT !.meta = ComputeLevels(h), !.state = "READY"]
    BY <1>2 DEF MutateOnFailure
  <2> HIDE DEF h
  <2>3. QED
    BY <2>1, <2>2 DEF GraphFields
<1> HIDE DEF tasks
<1>8. IsFiniteSet(h.nodes) /\ Acyclic(h)
  BY <1>5, <1>6, MutationKeepsOrder DEF OrderInv
<1> HIDE DEF h
<1>9. Acyclic(graph')
  BY <1>7, <1>8, SameOrder
<1>10. RetriesInv'
  BY <1>1, <1>3, <1>7 DEF OrderInv, RetriesInv
<1>11. QED
  BY <1>7, <1>8, <1>9, <1>10 DEF OrderInv

LEMMA StepKeepsOrder == IInv /\ IInv' /\ OrderInv /\ [Next]_vars => OrderInv'
<1> SUFFICES ASSUME IInv, IInv', OrderInv, [Next]_vars PROVE OrderInv'
  OBVIOUS
<1>1. CASE ~BuildDag /\ ~UpdateDag
  <2>1. /\ graph'.nodes = graph.nodes /\ graph'.edges = graph.edges
        /\ replanCount' >= replanCount
        /\ node' = "update_dag" => replanCount' > replanCount \/ node = "update_dag"
    BY <1>1, OtherSteps
  <2>2. Acyclic(graph')
    BY <2>1, SameOrder DEF OrderInv
  <2>3. replanCount \in Nat /\ replanCount' \in Nat
    BY LimitsAssumption DEF IInv, TypeOK
  <2>4. RetriesInv'
    BY <2>1, <2>3 DEF OrderInv, RetriesInv
  <2>5. QED
    BY <2>1, <2>2, <2>4 DEF OrderInv
<1>2. QED
  BY <1>1, BuildKeepsOrder, UpdateKeepsOrder

\* From the builder's check on, the graph of a session never has a cycle.
THEOREM MutationsCloseNoCycle == Spec => []GraphStaysAcyclic
<1>1. Init => OrderInv
  BY EmptyIsAcyclic, FS_EmptySet DEF Init, OrderInv, RetriesInv, EmptyGraph
<1>2. OrderInv => GraphStaysAcyclic
  BY DEF OrderInv, GraphStaysAcyclic
<1>3. QED
  BY <1>1, <1>2, StepKeepsOrder, Invariance, PTL DEF Spec
=============================================================================
