--------------------- MODULE AdaptiveExecutionGraphProofs ---------------------
(***************************************************************************)
(* Proofs about AdaptiveExecutionGraph, for any plans, any replacements    *)
(* with new ids and any number of mutations.                               *)
(***************************************************************************)
EXTENDS AdaptiveExecutionGraph, TaskGraphProofs

PlanIds == UNION {DOMAIN p : p \in Plans}
NewIds == UNION {DOMAIN r : r \in Replacements}

-----------------------------------------------------------------------------
(* The inductive invariant *)

\* Nobody leaves a task RUNNING.
Typed ==
  /\ DOMAIN graph = GraphFields
  /\ graph.nodes \subseteq Ids /\ IsFiniteSet(graph.nodes)
  /\ graph.status \in [graph.nodes -> TaskStatus \ {"RUNNING"}]
  /\ graph.state \in GraphStatus
  /\ mutations \in 0..MaxMutations
  /\ graph.edges \subseteq graph.nodes \X graph.nodes

\* The attribute still holds the levels of the plan.  They ascend along the edges
\* between tasks of the plan, and since the first mutation they list a task that is
\* gone.
LevelsInv ==
  /\ graph.levels \in [DOMAIN graph.levels -> Nat]
  /\ DOMAIN graph.levels \subseteq PlanIds \cap Ids
  /\ graph.nodes \subseteq DOMAIN graph.levels \cup NewIds
  /\ \A d, t : (<<d, t>> \in graph.edges /\ t \in DOMAIN graph.levels) =>
        d \in DOMAIN graph.levels /\ graph.levels[d] < graph.levels[t]
  /\ mutations = 0 => graph.nodes = DOMAIN graph.levels
  /\ mutations > 0 => DOMAIN graph.levels \ graph.nodes # {}

\* What has been executed is of the plan, and finished work rests on finished work.
WorkInv ==
  /\ WithStatus("COMPLETED") \cup WithStatus("FAILED") \subseteq DOMAIN graph.levels
  /\ CompletedIsClosed
  /\ CompletedMeansDone

IInv == Typed /\ LevelsInv /\ WorkInv

LEMMA IdsAreApart == PlanIds \cap NewIds = {} /\ NewIds \subseteq Ids
BY ReplacementsAssumption DEF PlanIds, NewIds

\* As long as there is a task, the executor works from the attribute.
LEMMA LevelsFact ==
  ASSUME IInv, graph.nodes # {}
  PROVE  EffectiveLevels(graph) = graph.levels /\ DOMAIN graph.levels # {}
BY DEF IInv, Typed, LevelsInv, EffectiveLevels

-----------------------------------------------------------------------------

LEMMA InitInv == Init => IInv
<1> SUFFICES ASSUME Init PROVE IInv
  OBVIOUS
<1>1. PICK p \in Plans : graph = Build(p)
  BY DEF Init
<1>2. Buildable(p) /\ DOMAIN p \subseteq Ids /\ DOMAIN Build(p).levels = DOMAIN p
      /\ Executable(Build(p), Ids)
  BY PlansAssumption, BuiltGraphsAreExecutable
<1>3. /\ DOMAIN graph = GraphFields
      /\ graph.nodes = DOMAIN p
      /\ graph.edges \subseteq (DOMAIN p) \X (DOMAIN p)
      /\ graph.status = [t \in DOMAIN p |-> "PENDING"]
      /\ graph.state = "READY"
  BY <1>1, <1>2 DEF Build, EmptyGraph, GraphFields, Buildable, DependenciesExist
<1>4. Typed
  BY <1>2, <1>3, PlansAssumption, MaxMutationsAssumption DEF Init, Typed, TaskStatus, GraphStatus
<1>5. graph.levels \in [DOMAIN graph.levels -> Nat]
      /\ \A t \in DOMAIN graph.levels : \A d \in Dependencies(graph, t) :
           d \in DOMAIN graph.levels /\ graph.levels[d] < graph.levels[t]
  <2>1. CASE DOMAIN graph.levels = {}
    <3>1. graph.levels = [t \in {} |-> 0]
      <4>1. DOMAIN p = {}
        BY <1>1, <1>2, <2>1
      <4>2. QED
        BY <1>1, <4>1 DEF Build, ComputeLevels, EmptyGraph
    <3>2. QED
      BY <2>1, <3>1
  <2>2. CASE DOMAIN graph.levels # {}
    <3>1. EffectiveLevels(graph) = graph.levels
      BY <2>2 DEF EffectiveLevels
    <3>2. QED
      BY <1>1, <1>2, <3>1 DEF Executable
  <2>3. QED
    BY <2>1, <2>2
<1>6. LevelsInv
  <2>1. DOMAIN graph.levels = graph.nodes /\ graph.nodes \subseteq PlanIds \cap Ids
    BY <1>1, <1>2, <1>3 DEF PlanIds
  <2>2. \A d, t : <<d, t>> \in graph.edges => d \in Dependencies(graph, t) /\ t \in graph.nodes
    BY <1>3 DEF Dependencies
  <2>3. mutations = 0
    BY DEF Init
  <2>4. QED
    BY <1>5, <2>1, <2>2, <2>3 DEF LevelsInv
<1>7. WorkInv
  <2>1. WithStatus("COMPLETED") = {} /\ WithStatus("FAILED") = {}
    BY <1>3 DEF WithStatus
  <2>2. QED
    BY <1>3, <2>1 DEF WorkInv, CompletedIsClosed, CompletedMeansDone
<1>8. QED
  BY <1>4, <1>6, <1>7 DEF IInv

-----------------------------------------------------------------------------
(* Execute *)

\* What one execution makes of the statuses.
LEMMA ExecutionFacts ==
  ASSUME IInv, graph.nodes # {}, NEW F \in FailureSets(graph)
  PROVE  LET after == StatusAfter(graph, F)
             L == graph.levels
         IN  /\ after \in [graph.nodes -> TaskStatus \ {"RUNNING"}]
             /\ F \subseteq DOMAIN L
             /\ \A t \in WithStatus("COMPLETED") : after[t] = "COMPLETED"
             /\ \A t \in graph.nodes : after[t] = "FAILED" => t \in DOMAIN L
             /\ \A t \in graph.nodes : after[t] = "COMPLETED" =>
                   \/ t \in WithStatus("COMPLETED")
                   \/ t \in DOMAIN L /\ \A f \in F : t # f /\ L[t] <= L[f]
             /\ \A t \in graph.nodes :
                   (t \in DOMAIN L /\ \A f \in F : t # f /\ L[t] <= L[f]) => after[t] = "COMPLETED"
<1>1. EffectiveLevels(graph) = graph.levels
  BY LevelsFact
<1>2. F \subseteq Unfinished(graph) /\ Unfinished(graph) \subseteq DOMAIN graph.levels
  BY <1>1 DEF FailureSets, Unfinished
<1>3. \A t \in WithStatus("COMPLETED") : t \notin Unfinished(graph)
  BY DEF WithStatus, Unfinished
<1>4. \A t \in graph.nodes : (t \in DOMAIN graph.levels /\ t \notin Unfinished(graph)) =>
         t \in WithStatus("COMPLETED")
  BY <1>1 DEF WithStatus, Unfinished
<1>5. \A t \in graph.nodes :
        StatusAfter(graph, F)[t] =
          IF t \in F THEN "FAILED"
          ELSE IF t \in Unfinished(graph) /\ \A f \in F : graph.levels[t] <= graph.levels[f]
          THEN "COMPLETED" ELSE graph.status[t]
  BY <1>1 DEF StatusAfter
<1>6. StatusAfter(graph, F) \in [graph.nodes -> TaskStatus \ {"RUNNING"}]
  <2>1. {"COMPLETED", "FAILED"} \subseteq TaskStatus \ {"RUNNING"}
    BY DEF TaskStatus
  <2>2. QED
    BY <1>1, <2>1 DEF StatusAfter, IInv, Typed
<1>7. \A t \in WithStatus("COMPLETED") : StatusAfter(graph, F)[t] = "COMPLETED"
  BY <1>2, <1>3, <1>5 DEF WithStatus
<1>8. \A t \in graph.nodes : StatusAfter(graph, F)[t] = "FAILED" => t \in DOMAIN graph.levels
  BY <1>2, <1>5 DEF IInv, WorkInv, WithStatus
<1>9. \A t \in graph.nodes : StatusAfter(graph, F)[t] = "COMPLETED" =>
         \/ t \in WithStatus("COMPLETED")
         \/ t \in DOMAIN graph.levels /\ \A f \in F : t # f /\ graph.levels[t] <= graph.levels[f]
  BY <1>2, <1>5 DEF WithStatus
<1>10. \A t \in graph.nodes :
          (t \in DOMAIN graph.levels /\ \A f \in F : t # f /\ graph.levels[t] <= graph.levels[f])
             => StatusAfter(graph, F)[t] = "COMPLETED"
  BY <1>4, <1>5 DEF WithStatus
<1>11. QED
  BY <1>2, <1>6, <1>7, <1>8, <1>9, <1>10

\* Without failures nothing the levels list may be gone.
LEMMA NoFailureNoPhantom ==
  ASSUME IInv, graph.nodes # {}, {} \in FailureSets(graph)
  PROVE  graph.nodes = DOMAIN graph.levels
<1>1. Unfinished(graph) \ graph.nodes = {}
  BY DEF FailureSets
<1>2. DOMAIN graph.levels \subseteq graph.nodes
  BY <1>1, LevelsFact DEF Unfinished
<1>3. QED
  BY <1>2 DEF IInv, Typed, LevelsInv

LEMMA ExecuteInv ==
  ASSUME IInv, Execute
  PROVE  /\ IInv'
         /\ \A t \in WithStatus("COMPLETED") : t \in graph'.nodes /\ graph'.status[t] = "COMPLETED"
<1>1. PICK F \in FailureSets(graph) :
         graph' = [graph EXCEPT !.status = StatusAfter(graph, F),
                                !.state  = IF F = {} THEN "COMPLETED" ELSE "FAILED"]
  BY DEF Execute
<1>2. graph.nodes # {} /\ mutations' = mutations
  BY DEF Execute
<1>3. /\ DOMAIN graph' = GraphFields /\ graph'.nodes = graph.nodes /\ graph'.edges = graph.edges
      /\ graph'.levels = graph.levels /\ graph'.status = StatusAfter(graph, F)
      /\ graph'.state = IF F = {} THEN "COMPLETED" ELSE "FAILED"
  BY <1>1 DEF IInv, Typed, GraphFields
<1>4. Typed'
  BY <1>2, <1>3, ExecutionFacts DEF IInv, Typed, GraphStatus
<1>5. LevelsInv'
  BY <1>2, <1>3 DEF IInv, LevelsInv
<1>6. \A t \in WithStatus("COMPLETED") : t \in graph'.nodes /\ graph'.status[t] = "COMPLETED"
  BY <1>2, <1>3, ExecutionFacts DEF WithStatus
<1>7. (WithStatus("COMPLETED") \cup WithStatus("FAILED"))' \subseteq DOMAIN graph.levels
  <2>1. WithStatus("COMPLETED") \subseteq DOMAIN graph.levels
    BY DEF IInv, WorkInv
  <2>2. QED
    BY <1>2, <1>3, <2>1, ExecutionFacts DEF WithStatus
<1>8. CompletedIsClosed'
  <2> SUFFICES ASSUME NEW t \in graph.nodes, StatusAfter(graph, F)[t] = "COMPLETED",
                      NEW d \in graph.nodes, <<d, t>> \in graph.edges
               PROVE  StatusAfter(graph, F)[d] = "COMPLETED"
    BY <1>3 DEF CompletedIsClosed, WithStatus, Dependencies
  <2>1. CASE t \in WithStatus("COMPLETED")
    <3>1. d \in WithStatus("COMPLETED")
      BY <2>1 DEF IInv, WorkInv, CompletedIsClosed, Dependencies
    <3>2. QED
      BY <1>2, <3>1, ExecutionFacts
  <2>2. CASE t \in DOMAIN graph.levels /\ \A f \in F : t # f /\ graph.levels[t] <= graph.levels[f]
    <3>1. d \in DOMAIN graph.levels /\ graph.levels[d] < graph.levels[t]
      BY <2>2 DEF IInv, LevelsInv
    <3>2. F \subseteq DOMAIN graph.levels
      BY <1>2, ExecutionFacts
    <3>3. \A x \in DOMAIN graph.levels : graph.levels[x] \in Nat
      BY DEF IInv, LevelsInv
    <3>4. \A f \in F : d # f /\ graph.levels[d] <= graph.levels[f]
      BY <2>2, <3>1, <3>2, <3>3
    <3>5. QED
      BY <1>2, <3>1, <3>4, ExecutionFacts
  <2>3. QED
    BY <1>2, <2>1, <2>2, ExecutionFacts
<1>9. CompletedMeansDone'
  <2> SUFFICES ASSUME F = {}, NEW t \in graph.nodes
               PROVE  StatusAfter(graph, F)[t] = "COMPLETED"
    BY <1>3 DEF CompletedMeansDone, WithStatus
  <2>1. graph.nodes = DOMAIN graph.levels
    BY <1>2, NoFailureNoPhantom
  <2>2. QED
    BY <1>2, <2>1, ExecutionFacts
<1>10. QED
  BY <1>3, <1>4, <1>5, <1>6, <1>7, <1>8, <1>9 DEF IInv, WorkInv

-----------------------------------------------------------------------------
(* Mutations *)

\* The search never reaches finished work: what is not COMPLETED is closed under
\* dependents.
LEMMA AffectedIsUnfinished ==
  ASSUME IInv, NEW f \in WithStatus("FAILED")
  PROVE  f \in AffectedSubgraph(graph, f)
         /\ AffectedSubgraph(graph, f) \cap WithStatus("COMPLETED") = {}
<1> DEFINE open == graph.nodes \ WithStatus("COMPLETED")
<1>1. f \in graph.nodes /\ graph.status[f] = "FAILED"
  BY DEF WithStatus
<1>2. open \in SUBSET (graph.nodes \cup {f}) /\ f \in open
  BY <1>1 DEF WithStatus
<1>3. \A u \in open : Dependents(graph, u) \subseteq open
  <2> SUFFICES ASSUME NEW u \in open, NEW t \in graph.nodes, <<u, t>> \in graph.edges,
                      t \in WithStatus("COMPLETED")
               PROVE  FALSE
    BY DEF Dependents
  <2>1. u \in Dependencies(graph, t)
    BY DEF Dependencies
  <2>2. u \in WithStatus("COMPLETED")
    BY <2>1 DEF IInv, WorkInv, CompletedIsClosed
  <2>3. QED
    BY <2>2
<1>4. AffectedSubgraph(graph, f) \subseteq open
  BY <1>2, <1>3 DEF AffectedSubgraph
<1>5. f \in AffectedSubgraph(graph, f)
  BY DEF AffectedSubgraph
<1>6. QED
  BY <1>4, <1>5

\* The new nodes, edges and statuses.
LEMMA RewiredFacts ==
  ASSUME IInv, NEW f \in WithStatus("FAILED"), NEW r \in Replacements
  PROVE  LET g == Rewired(graph, f, r)
         IN  /\ DOMAIN g = GraphFields
             /\ g.levels = graph.levels /\ g.state = graph.state
             /\ f \notin g.nodes /\ f \in DOMAIN graph.levels
             /\ g.nodes \subseteq graph.nodes \cup DOMAIN r
             /\ g.edges \subseteq g.nodes \X g.nodes
             /\ \A d, t : (<<d, t>> \in g.edges /\ t \notin DOMAIN r) => <<d, t>> \in graph.edges
             /\ WithStatus("COMPLETED") \subseteq g.nodes
             /\ g.status \in [g.nodes -> TaskStatus \ {"RUNNING"}]
             /\ \A t \in g.nodes : \/ t \in graph.nodes /\ g.status[t] = graph.status[t]
                                   \/ t \in DOMAIN r /\ g.status[t] = "PENDING"
             /\ \A t \in WithStatus("COMPLETED") : g.status[t] = "COMPLETED"
<1> DEFINE affected == AffectedSubgraph(graph, f)
           kept == graph.nodes \ affected
           nodes == kept \cup DOMAIN r
           old == {e \in graph.edges : e[1] \notin affected /\ e[2] \notin affected}
           new == UNION {{<<d, t>> : d \in r[t] \cap nodes} : t \in DOMAIN r}
           status == [t \in nodes |-> IF t \in kept THEN graph.status[t] ELSE "PENDING"]
           g == Rewired(graph, f, r)
<1>1. /\ DOMAIN g = GraphFields /\ g.levels = graph.levels /\ g.state = graph.state
      /\ g.nodes = nodes /\ g.edges = old \cup new /\ g.status = status
  BY DEF Rewired, IInv, Typed, GraphFields
<1>2. f \in affected /\ affected \cap WithStatus("COMPLETED") = {}
  BY AffectedIsUnfinished
<1>3. f \in graph.nodes /\ f \in DOMAIN graph.levels
  BY DEF WithStatus, IInv, WorkInv
<1>4. f \notin nodes
  <2>1. f \notin NewIds
    BY <1>3, IdsAreApart DEF IInv, LevelsInv
  <2>2. QED
    BY <1>2, <2>1 DEF NewIds
<1>5. old \subseteq nodes \X nodes /\ new \subseteq nodes \X nodes
  <2>1. graph.edges \subseteq graph.nodes \X graph.nodes
    BY DEF IInv, Typed
  <2>2. QED
    BY <2>1
<1>6. \A d, t : <<d, t>> \in new => t \in DOMAIN r
  OBVIOUS
<1>7. WithStatus("COMPLETED") \subseteq kept
  BY <1>2 DEF WithStatus
<1>8. status \in [nodes -> TaskStatus \ {"RUNNING"}]
  <2>1. "PENDING" \in TaskStatus \ {"RUNNING"}
    BY DEF TaskStatus
  <2>2. graph.status \in [graph.nodes -> TaskStatus \ {"RUNNING"}]
    BY DEF IInv, Typed
  <2>3. QED
    BY <2>1, <2>2
<1>9. \A t \in nodes : \/ t \in graph.nodes /\ status[t] = graph.status[t]
                       \/ t \in DOMAIN r /\ status[t] = "PENDING"
  OBVIOUS
<1>10. \A t \in WithStatus("COMPLETED") : status[t] = "COMPLETED"
  BY <1>7 DEF WithStatus
<1> HIDE DEF nodes, old, new, status, g, kept
<1>11. \A d, t : (<<d, t>> \in g.edges /\ t \notin DOMAIN r) => <<d, t>> \in graph.edges
  BY <1>1, <1>6 DEF old
<1>12. QED
  BY <1>1, <1>3, <1>4, <1>5, <1>7, <1>8, <1>9, <1>10, <1>11 DEF nodes, kept, g

\* Whatever becomes of the metadata and of the state of the graph, short of COMPLETED.
LEMMA MutationInv ==
  ASSUME IInv, NEW f \in WithStatus("FAILED"), NEW r \in Replacements,
         Mutate(f, r) \/ MutateRaises(f, r)
  PROVE  /\ IInv'
         /\ \A t \in WithStatus("COMPLETED") : t \in graph'.nodes /\ graph'.status[t] = "COMPLETED"
<1> DEFINE g == Rewired(graph, f, r)
<1>1. mutations \in 0..MaxMutations /\ mutations < MaxMutations /\ mutations' = mutations + 1
      /\ mutations' \in 0..MaxMutations /\ mutations' > 0
  BY MaxMutationsAssumption DEF Mutate, MutateRaises, IInv, Typed
<1>2. f \in graph.nodes /\ graph.state # "COMPLETED"
  BY DEF WithStatus, IInv, WorkInv, CompletedMeansDone
<1>3. /\ DOMAIN graph' = GraphFields
      /\ graph'.nodes = g.nodes /\ graph'.edges = g.edges /\ graph'.status = g.status
      /\ graph'.levels = g.levels /\ graph'.state \in {graph.state, "READY"}
  <2>1. CASE Mutate(f, r)
    BY <2>1, RewiredFacts DEF Mutate, MutateOnFailure, GraphFields
  <2>2. CASE MutateRaises(f, r)
    BY <2>2, RewiredFacts DEF MutateRaises
  <2>3. QED
    BY <2>1, <2>2
<1>4. DOMAIN r \subseteq NewIds /\ DOMAIN r \subseteq Ids /\ IsFiniteSet(DOMAIN r)
  BY ReplacementsAssumption DEF NewIds
<1>5. DOMAIN r \cap DOMAIN graph.levels = {}
  BY <1>4, IdsAreApart DEF IInv, LevelsInv
<1> HIDE DEF g
<1>6. /\ g.levels = graph.levels
      /\ f \notin g.nodes /\ f \in DOMAIN graph.levels
      /\ g.nodes \subseteq graph.nodes \cup DOMAIN r
      /\ g.edges \subseteq g.nodes \X g.nodes
      /\ \A d, t : (<<d, t>> \in g.edges /\ t \notin DOMAIN r) => <<d, t>> \in graph.edges
      /\ WithStatus("COMPLETED") \subseteq g.nodes
      /\ g.status \in [g.nodes -> TaskStatus \ {"RUNNING"}]
      /\ \A t \in g.nodes : \/ t \in graph.nodes /\ g.status[t] = graph.status[t]
                            \/ t \in DOMAIN r /\ g.status[t] = "PENDING"
      /\ \A t \in WithStatus("COMPLETED") : g.status[t] = "COMPLETED"
  BY RewiredFacts DEF g
<1>7. Typed'
  <2>1. IsFiniteSet(graph.nodes \cup DOMAIN r)
    BY <1>4, FS_Union DEF IInv, Typed
  <2>2. IsFiniteSet(graph'.nodes)
    BY <1>3, <1>6, <2>1, FS_Subset
  <2>3. QED
    BY <1>1, <1>3, <1>4, <1>6, <2>2 DEF IInv, Typed, GraphStatus
<1>8. LevelsInv'
  BY <1>1, <1>3, <1>4, <1>5, <1>6 DEF IInv, LevelsInv
<1>9. \A s \in {"COMPLETED", "FAILED"} : \A t \in g.nodes : g.status[t] = s =>
         t \in WithStatus(s)
  BY <1>6 DEF WithStatus
<1>10. WithStatus("COMPLETED")' = WithStatus("COMPLETED")
       /\ WithStatus("FAILED")' \subseteq WithStatus("FAILED")
  BY <1>3, <1>6, <1>9 DEF WithStatus
<1>11. CompletedIsClosed'
  <2> SUFFICES ASSUME NEW t \in WithStatus("COMPLETED"), NEW d, <<d, t>> \in g.edges
               PROVE  d \in WithStatus("COMPLETED")
    BY <1>3, <1>10 DEF CompletedIsClosed, Dependencies
  <2>1. t \notin DOMAIN r
    BY <1>5 DEF IInv, WorkInv
  <2>2. <<d, t>> \in graph.edges
    BY <1>6, <2>1
  <2>3. d \in Dependencies(graph, t)
    BY <2>2 DEF Dependencies, IInv, Typed
  <2>4. QED
    BY <2>3 DEF IInv, WorkInv, CompletedIsClosed
<1>12. WorkInv'
  BY <1>2, <1>3, <1>6, <1>10, <1>11 DEF IInv, WorkInv, CompletedMeansDone
<1>13. QED
  BY <1>3, <1>6, <1>7, <1>8, <1>12 DEF IInv

LEMMA RescheduleInv ==
  ASSUME IInv, NEW t \in graph.nodes, Reschedule(t)
  PROVE  /\ IInv'
         /\ \A u \in WithStatus("COMPLETED") : u \in graph'.nodes /\ graph'.status[u] = "COMPLETED"
<1>1. /\ DOMAIN graph' = GraphFields /\ graph'.nodes = graph.nodes /\ graph'.edges = graph.edges
      /\ graph'.levels = graph.levels /\ graph'.state = graph.state
      /\ graph'.status = [graph.status EXCEPT ![t] = "PENDING"] /\ mutations' = mutations
  BY DEF Reschedule, IInv, Typed, GraphFields
<1>2. graph.status[t] # "COMPLETED" /\ DOMAIN graph.status = graph.nodes
  BY DEF Reschedule, WithStatus, IInv, Typed
<1>3. Typed' /\ LevelsInv'
  BY <1>1 DEF IInv, Typed, LevelsInv, TaskStatus
<1>4. WithStatus("COMPLETED")' = WithStatus("COMPLETED")
      /\ WithStatus("FAILED")' \subseteq WithStatus("FAILED")
  BY <1>1, <1>2 DEF WithStatus
<1>5. CompletedIsClosed'
  BY <1>1, <1>4 DEF IInv, WorkInv, CompletedIsClosed, Dependencies
<1>6. graph.state # "COMPLETED"
  BY <1>2 DEF IInv, WorkInv, CompletedMeansDone, WithStatus
<1>7. QED
  BY <1>1, <1>3, <1>4, <1>5, <1>6 DEF IInv, WorkInv, CompletedMeansDone, WithStatus

LEMMA NextInv ==
  ASSUME IInv, Next
  PROVE  /\ IInv'
         /\ \A t \in WithStatus("COMPLETED") : t \in graph'.nodes /\ graph'.status[t] = "COMPLETED"
<1>1. CASE Execute
  BY <1>1, ExecuteInv
<1>2. ASSUME NEW t \in graph.nodes, Reschedule(t)
      PROVE  IInv' /\ \A u \in WithStatus("COMPLETED") : u \in graph'.nodes /\ graph'.status[u] = "COMPLETED"
  BY <1>2, RescheduleInv
<1>3. ASSUME NEW t \in graph.nodes, NEW r \in Replacements, Mutate(t, r) \/ MutateRaises(t, r)
      PROVE  IInv' /\ \A u \in WithStatus("COMPLETED") : u \in graph'.nodes /\ graph'.status[u] = "COMPLETED"
  BY <1>3, MutationInv DEF Mutate, MutateRaises
<1>4. QED
  BY <1>1, <1>2, <1>3 DEF Next

LEMMA StepInv == IInv /\ [Next]_vars => IInv'
<1>1. ASSUME IInv, UNCHANGED vars PROVE IInv'
  BY <1>1 DEF vars, IInv, Typed, LevelsInv, WorkInv, CompletedIsClosed, CompletedMeansDone, WithStatus, Dependencies
<1>2. QED
  BY <1>1, NextInv

LEMMA Invariance == Spec => []IInv
BY InitInv, StepInv, PTL DEF Spec

-----------------------------------------------------------------------------

\* The graph stays a graph, without edges to or from tasks that are gone, whatever is
\* executed, mutated or rescheduled.
THEOREM TypeCorrect == Spec => []TypeOK
<1>1. IInv => TypeOK
  BY DEF IInv, Typed, TypeOK
<1>2. QED
  BY <1>1, Invariance, PTL

\* Stale as they are, the levels of the plan still order whatever is executed.
THEOREM LevelsAreAlwaysUsable == Spec => []LevelsStayUsable
<1>1. IInv => LevelsStayUsable
  <2> SUFFICES ASSUME IInv, graph.nodes # {} PROVE Executable(graph, Ids)
    BY DEF LevelsStayUsable
  <2>1. EffectiveLevels(graph) = graph.levels /\ DOMAIN graph.levels # {}
    BY LevelsFact
  <2>2. DOMAIN graph.levels \subseteq graph.nodes => graph.nodes \subseteq DOMAIN graph.levels
    BY DEF IInv, Typed, LevelsInv
  <2>3. QED
    BY <2>1, <2>2 DEF Executable, Dependencies, IInv, Typed, LevelsInv
<1>2. QED
  BY <1>1, Invariance, PTL

\* Finished work rests on finished work only.
THEOREM FinishedWorkIsClosed == Spec => []CompletedIsClosed
<1>1. IInv => CompletedIsClosed
  BY DEF IInv, WorkInv
<1>2. QED
  BY <1>1, Invariance, PTL

\* A COMPLETED graph has nothing left to do: either no mutation has taken anything out
\* of the groups, or the task it has taken out fails the execution.
THEOREM CompletedGraphsAreDone == Spec => []CompletedMeansDone
<1>1. IInv => CompletedMeansDone
  BY DEF IInv, WorkInv
<1>2. QED
  BY <1>1, Invariance, PTL

\* Completed work is neither thrown away nor repeated.
THEOREM CompletedWorkSurvives == Spec => CompletedSurvives
<1>1. IInv /\ [Next]_vars =>
        [\A t \in WithStatus("COMPLETED") :
            t \in graph'.nodes /\ graph'.status[t] = "COMPLETED"]_vars
  BY NextInv
<1>2. QED
  BY <1>1, Invariance, PTL DEF Spec, CompletedSurvives

\* A mutation raises only if it is handed a cycle or an id in use, or if an earlier
\* one has raised: what survives never waits for what is new.
THEOREM MutationsRaiseForCause == Spec => RaisesForCause
<1>1. ASSUME IInv, NEW t \in graph.nodes, NEW r \in Replacements, MutateRaises(t, r),
             \A S \in SUBSET DOMAIN r : S # {} => \E u \in S : r[u] \cap S = {},
             DOMAIN r \cap (graph.nodes \ AffectedSubgraph(graph, t)) = {},
             Acyclic(graph)
      PROVE  FALSE
  <2>1. /\ DOMAIN graph = GraphFields /\ IsFiniteSet(graph.nodes)
        /\ graph.edges \subseteq graph.nodes \X graph.nodes
    BY <1>1 DEF IInv, Typed
  <2>2. IsFiniteSet(DOMAIN r)
    BY ReplacementsAssumption
  <2>3. \A S : ~Cycle(S, r)
    BY <1>1 DEF Cycle
  <2>4. Acyclic(Rewired(graph, t, r))
    BY <1>1, <2>1, <2>2, <2>3, MutationKeepsOrder
  <2>5. QED
    BY <1>1, <2>4 DEF MutateRaises
<1> DEFINE Cause(t, r) ==
             \/ \E S \in SUBSET DOMAIN r : S # {} /\ \A u \in S : r[u] \cap S # {}
             \/ DOMAIN r \cap (graph.nodes \ AffectedSubgraph(graph, t)) # {}
             \/ ~ Acyclic(graph)
<1>2. IInv /\ [Next]_vars =>
        [\A t \in graph.nodes, r \in Replacements : MutateRaises(t, r) => Cause(t, r)]_vars
  BY <1>1
<1>3. QED
  BY <1>2, Invariance, PTL DEF Spec, RaisesForCause
=============================================================================
