----------------------- MODULE ParallelExecutorProofs -----------------------
(***************************************************************************)
(* What holds of ParallelExecutor for every set of tasks, every            *)
(* well-formed set of graphs and every MaxParallel: the inductive          *)
(* invariant IInv, the properties that follow from it, and that every step *)
(* is a step of DagExecution.                                              *)
(***************************************************************************)
EXTENDS ParallelExecutor, FiniteSetTheorems, TLAPS

\* What TypeOK says of the levels, with EffectiveLevels left folded.
LEMMA LevelFacts ==
  ASSUME TypeOK
  PROVE  /\ Level \in [DOMAIN Level -> Nat]
         /\ DOMAIN Level \subseteq Tasks
         /\ graph.nodes \subseteq Tasks
         /\ graph.nodes # {} => DOMAIN Level # {}
         /\ DOMAIN Level \subseteq graph.nodes => graph.nodes \subseteq DOMAIN Level
         /\ \A t \in DOMAIN Level : \A d \in Dependencies(graph, t) :
              d \in DOMAIN Level /\ Level[d] < Level[t]
         /\ graph.status \in [graph.nodes -> TaskStatus \ {"RUNNING"}]
BY DEF TypeOK, WellFormed, Executable, Level

\* The loop of execute_full_graph either launches the lowest group with work
\* left, or ends because nothing is left at all.
LEMMA LoopOutcome ==
  ASSUME TypeOK, NEW n \in Nat, NEW done, LoopFrom(n, done),
         \A u \in DOMAIN Level : Level[u] < n => u \in done
  PROVE  \/ /\ control' = "gathering"
            /\ group' \in Nat /\ n <= group'
            /\ pc' = [t \in Tasks |-> IF t \in DOMAIN Level /\ Level[t] = group' /\ t \notin done
                                      THEN "queued" ELSE "absent"]
            /\ success' = [t \in Tasks |-> FALSE]
            /\ permits' = MaxParallel
            /\ graphStatus' = "EXECUTING"
            /\ needsReplan' = needsReplan
            /\ \A u \in DOMAIN Level : Level[u] < group' => u \in done
         \/ /\ control' = "returned"
            /\ graphStatus' = "COMPLETED"
            /\ needsReplan' = FALSE
            /\ UNCHANGED <<group, pc, success, permits>>
            /\ DOMAIN Level \subseteq done
<1>1. Level \in [DOMAIN Level -> Nat]
  BY LevelFacts
<1>2. \A u \in DOMAIN Level : u \notin done => Level[u] \in Nonempty(done)
  BY DEF Nonempty, GroupTasks, ParallelGroup, Level
<1>3. Nonempty(done) \subseteq Nat
  BY <1>1 DEF Nonempty
<1>4. CASE \E m \in {k \in Nonempty(done) : k >= n} :
             /\ \A k \in Nonempty(done) : k >= n => m <= k
             /\ Launch(m, done)
             /\ graphStatus' = "EXECUTING"
             /\ UNCHANGED needsReplan
  <2>1. PICK m \in {k \in Nonempty(done) : k >= n} :
             /\ \A k \in Nonempty(done) : k >= n => m <= k
             /\ Launch(m, done)
             /\ graphStatus' = "EXECUTING"
             /\ UNCHANGED needsReplan
    BY <1>4
  <2>2. m \in Nat /\ group' = m /\ n <= m
    BY <1>3, <2>1 DEF Launch
  <2>3. ASSUME NEW u \in DOMAIN Level, Level[u] < m
        PROVE  u \in done
    BY <1>1, <1>2, <1>3, <2>1, <2>2, <2>3
  <2>4. pc' = [t \in Tasks |-> IF t \in DOMAIN Level /\ Level[t] = group' /\ t \notin done
                               THEN "queued" ELSE "absent"]
    BY <2>1, <2>2 DEF Launch, GroupTasks, ParallelGroup, Level
  <2>5. QED
    BY <2>1, <2>2, <2>3, <2>4 DEF Launch
<1>5. CASE /\ \A k \in Nonempty(done) : k < n
           /\ control' = "returned"
           /\ graphStatus' = "COMPLETED"
           /\ needsReplan' = FALSE
           /\ UNCHANGED <<group, pc, success, permits>>
  <2>1. DOMAIN Level \subseteq done
    BY <1>1, <1>2, <1>3, <1>5
  <2>2. QED
    BY <1>5, <2>1
<1>6. QED
  BY <1>4, <1>5 DEF LoopFrom

-----------------------------------------------------------------------------
(* The inductive invariant *)

LEMMA InitInv == Init => IInv
<1> SUFFICES ASSUME Init PROVE IInv
  OBVIOUS
<1>1. TypeOK
  BY GraphsAssumption, MaxParallelAssumption
  DEF Init, TypeOK, WellFormed, Executable, PcValues, GraphStatus
<1>2. Members = {} /\ Holders = {}
  BY DEF Init, Members, Holders
<1>3. SemaphoreInv /\ BarrierInv /\ TruthfulVerdict
  BY <1>2 DEF Init, SemaphoreInv, BarrierInv, TruthfulVerdict
<1>4. StatusInv
  BY <1>1, <1>2 DEF Init, StatusInv, TypeOK, WellFormed, Executable
<1>5. ResultInv
  BY <1>1 DEF Init, ResultInv, TypeOK, WellFormed, Executable
<1>6. QED
  BY <1>1, <1>3, <1>4, <1>5 DEF IInv

\* A fresh group, or the end of the loop, after everything below is done.
LEMMA LoopInv ==
  ASSUME IInv, NEW n \in Nat, LoopFrom(n, completed'),
         \A u \in DOMAIN Level : Level[u] < n => u \in completed',
         UNCHANGED <<graph, status, errors>>, errors = {}, Holders = {},
         completed' \subseteq graph.nodes,
         \A t \in graph.nodes : t \in completed' => status[t] = "COMPLETED",
         \A t \in graph.nodes : graph.status[t] = "COMPLETED" => t \in completed',
         \A t \in graph.nodes : t \notin completed' => status[t] = graph.status[t],
         \A t \in graph.nodes : (pc[t] = "returned" => success[t])
                                /\ pc[t] \notin {"running"}
  PROVE  IInv'
<1>1. TypeOK /\ StatusInv /\ ResultInv
  BY DEF IInv
<1>2. Level' = Level /\ graph' = graph /\ status' = status /\ errors' = errors
  BY DEF Level
<1>3. /\ Level \in [DOMAIN Level -> Nat]
      /\ DOMAIN Level \subseteq Tasks
      /\ graph.nodes \subseteq Tasks
      /\ DOMAIN Level \subseteq graph.nodes => graph.nodes \subseteq DOMAIN Level
      /\ graph.status \in [graph.nodes -> TaskStatus \ {"RUNNING"}]
  BY <1>1, LevelFacts
<1>4. completed' \subseteq Tasks /\ (\A t \in graph.nodes : status[t] # "RUNNING")
  BY <1>1, <1>3 DEF StatusInv
<1>5. CASE /\ control' = "gathering"
           /\ group' \in Nat
           /\ pc' = [t \in Tasks |-> IF t \in DOMAIN Level /\ Level[t] = group' /\ t \notin completed'
                                     THEN "queued" ELSE "absent"]
           /\ success' = [t \in Tasks |-> FALSE]
           /\ permits' = MaxParallel
           /\ graphStatus' = "EXECUTING"
           /\ needsReplan' = needsReplan
           /\ \A u \in DOMAIN Level : Level[u] < group' => u \in completed'
  <2>1. TypeOK'
    BY <1>1, <1>2, <1>3, <1>4, <1>5, MaxParallelAssumption
    DEF TypeOK, PcValues, GraphStatus
  <2>2. Members' = {t \in DOMAIN Level : Level[t] = group' /\ t \notin completed'}
    BY <1>3, <1>5 DEF Members
  <2>3. Holders' = {}
    BY <1>5 DEF Holders
  <2>4. SemaphoreInv'
    BY <1>5, <2>3, FS_EmptySet, MaxParallelAssumption DEF SemaphoreInv
  <2>5. BarrierInv'
    BY <1>2, <1>5, <2>2 DEF BarrierInv
  <2>6. StatusInv'
    BY <1>1, <1>2, <1>3, <1>4, <1>5 DEF StatusInv
  <2>7. ResultInv'
    BY <1>2, <1>3, <1>5 DEF ResultInv
  <2>8. TruthfulVerdict'
    BY <1>5 DEF TruthfulVerdict
  <2>9. QED
    BY <2>1, <2>4, <2>5, <2>6, <2>7, <2>8 DEF IInv
<1>6. CASE /\ control' = "returned"
           /\ graphStatus' = "COMPLETED"
           /\ needsReplan' = FALSE
           /\ UNCHANGED <<group, pc, success, permits>>
           /\ DOMAIN Level \subseteq completed'
  <2>1. TypeOK'
    BY <1>1, <1>2, <1>4, <1>6 DEF TypeOK, GraphStatus
  <2>2. SemaphoreInv' /\ BarrierInv'
    BY <1>6 DEF SemaphoreInv, BarrierInv, Holders
  <2>3. StatusInv'
    BY <1>1, <1>2, <1>3, <1>4, <1>6 DEF StatusInv, Holders
  <2>4. ResultInv'
    BY <1>1, <1>2, <1>3, <1>6 DEF ResultInv
  <2>5. TruthfulVerdict'
    BY <1>2, <1>3, <1>6 DEF TruthfulVerdict
  <2>6. QED
    BY <2>1, <2>2, <2>3, <2>4, <2>5 DEF IInv
<1>7. QED
  BY <1>1, <1>5, <1>6, LoopOutcome

LEMMA BeginInv ==
  ASSUME IInv, Begin
  PROVE  IInv'
<1>1. TypeOK /\ StatusInv /\ ResultInv /\ SemaphoreInv
  BY DEF IInv
<1>2. /\ control = "called" /\ UNCHANGED <<graph, status, errors>>
      /\ completed' = {t \in graph.nodes : status[t] = "COMPLETED"}
      /\ LoopFrom(0, completed')
  BY DEF Begin
<1>3. errors = {} /\ Holders = {} /\ status = graph.status /\ Members = {}
  BY <1>1, <1>2 DEF StatusInv, SemaphoreInv
<1>4. \A u \in DOMAIN Level : ~ (Level[u] < 0)
  BY <1>1, LevelFacts
<1>5. graph.nodes \subseteq Tasks
  BY <1>1, LevelFacts
<1>6. \A t \in graph.nodes : pc[t] = "absent"
  BY <1>3, <1>5 DEF Members
<1>7. QED
  BY <1>2, <1>3, <1>4, <1>6, LoopInv

LEMMA BeginEmptyInv ==
  ASSUME IInv, BeginEmpty
  PROVE  IInv'
<1>1. TypeOK /\ StatusInv /\ ResultInv /\ SemaphoreInv
  BY DEF IInv
<1>2. graph' = graph /\ graph.nodes = {} /\ control' = "returned" /\ control = "called"
      /\ Holders' = Holders /\ Level' = Level
  BY DEF BeginEmpty, Holders, Level
<1>3. TypeOK'
  BY <1>1 DEF BeginEmpty, TypeOK
<1>4. SemaphoreInv' /\ BarrierInv' /\ TruthfulVerdict'
  BY <1>1, <1>2 DEF SemaphoreInv, BarrierInv, TruthfulVerdict
<1>5. StatusInv' /\ ResultInv'
  BY <1>1, <1>2 DEF BeginEmpty, StatusInv, ResultInv
<1>6. QED
  BY <1>3, <1>4, <1>5 DEF IInv

LEMMA GatherReturnsInv ==
  ASSUME IInv, GatherReturns
  PROVE  IInv'
<1>1. TypeOK /\ StatusInv /\ ResultInv /\ SemaphoreInv /\ BarrierInv
  BY DEF IInv
<1>2. /\ control = "gathering"
      /\ \A t \in Members : pc[t] = "returned"
      /\ completed' = completed \cup (Members \ Failures)
      /\ UNCHANGED <<graph, status, errors>>
      /\ Level' = Level
  BY DEF GatherReturns, Level
<1>3. Holders = {}
  BY <1>2 DEF Members, Holders
<1>4. /\ Level \in [DOMAIN Level -> Nat]
      /\ DOMAIN Level \subseteq Tasks
      /\ graph.nodes \subseteq Tasks
      /\ graph.status \in [graph.nodes -> TaskStatus \ {"RUNNING"}]
  BY <1>1, LevelFacts
<1>5. \A t \in Members \ Failures : t \in graph.nodes /\ status[t] = "COMPLETED"
  BY <1>1, <1>2 DEF Members, Failures, ResultInv
<1>6. /\ completed' \subseteq graph.nodes
      /\ \A t \in completed' : status[t] = "COMPLETED"
      /\ \A t \in graph.nodes : graph.status[t] = "COMPLETED" => t \in completed'
  BY <1>1, <1>2, <1>5 DEF StatusInv
<1>7. CASE Failures # {} /\ control' = "returned" /\ graphStatus' = "FAILED"
           /\ needsReplan' = TRUE /\ UNCHANGED <<group, pc, success, permits>>
  <2>1. TypeOK'
    BY <1>1, <1>2, <1>4, <1>6, <1>7 DEF TypeOK, GraphStatus
  <2>2. SemaphoreInv' /\ BarrierInv'
    BY <1>3, <1>7 DEF SemaphoreInv, BarrierInv, Holders
  <2>3. StatusInv'
    BY <1>1, <1>2, <1>6, <1>7 DEF StatusInv
  <2>4. ResultInv'
    BY <1>1, <1>2, <1>7 DEF ResultInv
  <2>5. PICK t \in Members : pc[t] = "returned" /\ ~ success[t]
    BY <1>2, <1>7 DEF Failures
  <2>6. t \in graph.nodes => status[t] = "FAILED"
    BY <1>1, <2>5 DEF ResultInv
  <2>7. t \in DOMAIN Level
    BY <1>1, <1>2 DEF BarrierInv
  <2>8. TruthfulVerdict'
    BY <1>2, <1>7, <2>6, <2>7 DEF TruthfulVerdict
  <2>9. QED
    BY <2>1, <2>2, <2>3, <2>4, <2>8 DEF IInv
<1>8. CASE Failures = {} /\ LoopFrom(group + 1, completed')
  <2>1. \A t \in Members : success[t]
    BY <1>8 DEF Failures
  <2>2. errors = {}
    BY <1>1, <1>2, <2>1 DEF TypeOK, ResultInv, Members
  <2>3. Members \subseteq completed' /\ completed \subseteq completed'
    BY <1>2, <1>8
  <2>4. ASSUME NEW u \in DOMAIN Level, Level[u] < group + 1
        PROVE  u \in completed'
    <3>1. Level[u] < group \/ Level[u] = group
      BY <1>1, <1>4, <2>4 DEF TypeOK
    <3>2. QED
      BY <1>1, <1>2, <2>3, <3>1 DEF BarrierInv
  <2>5. \A t \in graph.nodes : (pc[t] = "returned" => success[t]) /\ pc[t] # "running"
    BY <1>2, <1>4, <2>1 DEF Members
  <2>6. \A t \in graph.nodes : t \notin completed' => status[t] = graph.status[t]
    <3>1. SUFFICES ASSUME NEW t \in graph.nodes, t \notin completed'
                   PROVE  status[t] = graph.status[t]
      OBVIOUS
    <3>2. pc[t] = "absent" /\ t \notin completed
      BY <1>4, <2>3, <3>1 DEF Members
    <3>3. QED
      BY <1>1, <3>2 DEF StatusInv
  <2>7. group + 1 \in Nat
    BY <1>1 DEF TypeOK
  <2>8. QED
    BY <1>2, <1>3, <1>6, <1>8, <2>2, <2>4, <2>5, <2>6, <2>7, LoopInv
<1>9. QED
  BY <1>7, <1>8 DEF GatherReturns

\* A coroutine that is not done keeps the call in the middle of a group.
LEMMA CoroutineFacts ==
  ASSUME IInv, NEW t \in Tasks, Coroutine(t)
  PROVE  /\ control = "gathering" /\ control' = "gathering"
         /\ UNCHANGED <<graph, graphStatus, needsReplan, group, completed>>
         /\ Level' = Level
         /\ pc[t] \in {"queued", "assessing", "running"}
         /\ t \notin completed
         /\ IsFiniteSet(Holders)
<1>1. UNCHANGED <<graph, graphStatus, needsReplan, group, completed, control>> /\ Level' = Level
  BY DEF Coroutine, NotFound, Admit, Assessed, WorkerSucceeds, WorkerFails, Leave, Level
<1>2. pc[t] \in {"queued", "assessing", "running"}
  BY DEF Coroutine, NotFound, Admit, Assessed, WorkerSucceeds, WorkerFails, Leave
<1>3. control = "gathering"
  <2>1. NotFound(t) \/ Admit(t) \/ t \in Holders
    BY DEF Coroutine, Assessed, WorkerSucceeds, WorkerFails, Leave, Holders
  <2>2. QED
    BY <2>1 DEF NotFound, Admit, IInv, SemaphoreInv
<1>4. t \notin completed
  BY <1>2, <1>3 DEF IInv, BarrierInv, Members
<1>5. IsFiniteSet(Holders)
  BY TasksAssumption, FS_Subset DEF Holders
<1>6. QED
  BY <1>1, <1>2, <1>3, <1>4, <1>5

LEMMA NotFoundInv ==
  ASSUME IInv, NEW t \in Tasks, NotFound(t)
  PROVE  IInv'
<1>1. Coroutine(t)
  BY DEF Coroutine
<1>2. TypeOK /\ SemaphoreInv /\ BarrierInv /\ StatusInv /\ ResultInv
  BY DEF IInv
<1>3. pc' = [pc EXCEPT ![t] = "returned"] /\ pc[t] = "queued" /\ t \notin graph.nodes
      /\ UNCHANGED <<status, errors, success, permits>>
  BY DEF NotFound
<1>4. TypeOK'
  BY <1>1, <1>2, <1>3, CoroutineFacts DEF TypeOK, PcValues
<1>5. Holders' = Holders /\ Members' = Members
  BY <1>2, <1>3 DEF TypeOK, Holders, Members
<1>6. SemaphoreInv' /\ BarrierInv' /\ TruthfulVerdict'
  BY <1>1, <1>2, <1>3, <1>5, CoroutineFacts DEF SemaphoreInv, BarrierInv, TruthfulVerdict
<1>7. StatusInv'
  BY <1>1, <1>2, <1>3, <1>5, CoroutineFacts DEF TypeOK, StatusInv
<1>8. ResultInv'
  BY <1>1, <1>2, <1>3, CoroutineFacts DEF TypeOK, ResultInv
<1>9. QED
  BY <1>4, <1>6, <1>7, <1>8 DEF IInv

LEMMA AdmitInv ==
  ASSUME IInv, NEW t \in Tasks, Admit(t)
  PROVE  IInv'
<1>1. Coroutine(t)
  BY DEF Coroutine
<1>2. TypeOK /\ SemaphoreInv /\ BarrierInv /\ StatusInv /\ ResultInv
  BY DEF IInv
<1>3. /\ pc[t] = "queued" /\ permits > 0 /\ t \in graph.nodes
      /\ permits' = permits - 1
      /\ UNCHANGED <<errors, success>>
  BY DEF Admit
<1>4. \/ pc' = [pc EXCEPT ![t] = "assessing"] /\ status' = status
      \/ pc' = [pc EXCEPT ![t] = "running"] /\ status' = [status EXCEPT ![t] = "RUNNING"]
  BY DEF Admit
<1>5. TypeOK'
  BY <1>1, <1>2, <1>3, <1>4, CoroutineFacts, MaxParallelAssumption DEF TypeOK, PcValues, TaskStatus
<1>6. Holders' = Holders \cup {t} /\ t \notin Holders /\ Members' = Members
  BY <1>2, <1>3, <1>4 DEF TypeOK, Holders, Members
<1>7. SemaphoreInv'
  <2>1. Cardinality(Holders') = Cardinality(Holders) + 1 /\ Cardinality(Holders) \in Nat
    BY <1>1, <1>6, CoroutineFacts, FS_AddElement, FS_CardinalityType
  <2>2. QED
    BY <1>1, <1>2, <1>3, <2>1, CoroutineFacts, MaxParallelAssumption DEF TypeOK, SemaphoreInv
<1>8. BarrierInv' /\ TruthfulVerdict'
  BY <1>1, <1>2, <1>6, CoroutineFacts DEF BarrierInv, TruthfulVerdict
<1>9. StatusInv' /\ ResultInv'
  <2>1. /\ UNCHANGED <<graph, completed, errors, success>>
        /\ control' = "gathering" /\ control = "gathering"
        /\ t \notin completed
    BY <1>1, <1>3, CoroutineFacts
  <2>2. pc \in [Tasks -> PcValues] /\ status \in [graph.nodes -> TaskStatus]
    BY <1>2 DEF TypeOK
  <2>3. CASE pc' = [pc EXCEPT ![t] = "assessing"] /\ status' = status
    <3>1. StatusInv'
      BY <1>2, <1>3, <2>1, <2>2, <2>3 DEF StatusInv
    <3>2. ResultInv'
      BY <1>2, <1>3, <2>1, <2>2, <2>3 DEF ResultInv
    <3>3. QED
      BY <3>1, <3>2
  <2>4. CASE pc' = [pc EXCEPT ![t] = "running"] /\ status' = [status EXCEPT ![t] = "RUNNING"]
    <3>1. StatusInv'
      BY <1>2, <1>3, <2>1, <2>2, <2>4 DEF StatusInv
    <3>2. ResultInv'
      BY <1>2, <1>3, <2>1, <2>2, <2>4 DEF ResultInv
    <3>3. QED
      BY <3>1, <3>2
  <2>5. QED
    BY <1>4, <2>3, <2>4
<1>11. QED
  BY <1>5, <1>7, <1>8, <1>9 DEF IInv

LEMMA AssessedInv ==
  ASSUME IInv, NEW t \in Tasks, Assessed(t)
  PROVE  IInv'
<1>1. Coroutine(t)
  BY DEF Coroutine
<1>2. TypeOK /\ SemaphoreInv /\ BarrierInv /\ StatusInv /\ ResultInv
  BY DEF IInv
<1>3. /\ pc[t] = "assessing"
      /\ pc' = [pc EXCEPT ![t] = "running"]
      /\ status' = [status EXCEPT ![t] = "RUNNING"]
      /\ UNCHANGED <<errors, success, permits>>
  BY DEF Assessed
<1>4. t \in graph.nodes
  BY <1>2, <1>3 DEF StatusInv
<1>5. TypeOK'
  BY <1>1, <1>2, <1>3, CoroutineFacts DEF TypeOK, PcValues, TaskStatus
<1>6. Holders' = Holders /\ Members' = Members
  BY <1>2, <1>3 DEF TypeOK, Holders, Members
<1>7. SemaphoreInv' /\ BarrierInv' /\ TruthfulVerdict'
  BY <1>1, <1>2, <1>3, <1>6, CoroutineFacts DEF SemaphoreInv, BarrierInv, TruthfulVerdict
<1>8. StatusInv'
  BY <1>1, <1>2, <1>3, <1>4, <1>6, CoroutineFacts DEF TypeOK, StatusInv
<1>9. ResultInv'
  BY <1>1, <1>2, <1>3, CoroutineFacts DEF TypeOK, ResultInv
<1>10. QED
  BY <1>5, <1>7, <1>8, <1>9 DEF IInv

LEMMA LeaveInv ==
  ASSUME IInv, NEW t \in Tasks, WorkerSucceeds(t) \/ WorkerFails(t)
  PROVE  IInv'
<1>1. Coroutine(t)
  BY DEF Coroutine
<1>2. TypeOK /\ SemaphoreInv /\ BarrierInv /\ StatusInv /\ ResultInv
  BY DEF IInv
<1>3. /\ pc[t] = "running"
      /\ pc' = [pc EXCEPT ![t] = "returned"]
      /\ permits' = permits + 1
  BY DEF WorkerSucceeds, WorkerFails, Leave
<1>4. \/ /\ status' = [status EXCEPT ![t] = "COMPLETED"]
         /\ success' = [success EXCEPT ![t] = TRUE]
         /\ errors' = errors
      \/ /\ status' = [status EXCEPT ![t] = "FAILED"]
         /\ success' = success
         /\ errors' = errors \cup {t}
  BY DEF WorkerSucceeds, WorkerFails
<1>5. t \in graph.nodes
  BY <1>2, <1>3 DEF StatusInv
<1>6. Holders' = Holders \ {t} /\ t \in Holders /\ Members' = Members
  BY <1>2, <1>3 DEF TypeOK, Holders, Members
<1>7. Cardinality(Holders') = Cardinality(Holders) - 1 /\ Cardinality(Holders) \in Nat \ {0}
  <2>1. Cardinality(Holders') = Cardinality(Holders) - 1
    BY <1>1, <1>6, CoroutineFacts, FS_RemoveElement
  <2>2. Cardinality(Holders) \in Nat /\ Cardinality(Holders) # 0
    BY <1>1, <1>6, CoroutineFacts, FS_CardinalityType, FS_EmptySet
  <2>3. QED
    BY <2>1, <2>2
<1>8. SemaphoreInv'
  BY <1>1, <1>2, <1>3, <1>7, CoroutineFacts, MaxParallelAssumption DEF TypeOK, SemaphoreInv
<1>9. permits' \in 0..MaxParallel
  BY <1>1, <1>2, <1>3, <1>7, CoroutineFacts, MaxParallelAssumption DEF TypeOK, SemaphoreInv
<1>10. TypeOK'
  BY <1>1, <1>2, <1>3, <1>4, <1>9, CoroutineFacts DEF TypeOK, PcValues, TaskStatus
<1>11. BarrierInv' /\ TruthfulVerdict'
  BY <1>1, <1>2, <1>6, CoroutineFacts DEF BarrierInv, TruthfulVerdict
<1>12. StatusInv'
  BY <1>1, <1>2, <1>3, <1>4, <1>5, <1>6, CoroutineFacts DEF TypeOK, StatusInv
<1>13. ResultInv'
  <2>1. success[t] = FALSE
    BY <1>2, <1>3 DEF TypeOK, ResultInv
  <2>2. /\ UNCHANGED graph
        /\ control' = "gathering" /\ control = "gathering"
    BY <1>1, CoroutineFacts
  <2>3. /\ pc \in [Tasks -> PcValues] /\ status \in [graph.nodes -> TaskStatus]
        /\ success \in [Tasks -> BOOLEAN] /\ errors \subseteq Tasks
        /\ graph.nodes \subseteq Tasks
    BY <1>2, LevelFacts DEF TypeOK
  <2>4. CASE status' = [status EXCEPT ![t] = "COMPLETED"]
             /\ success' = [success EXCEPT ![t] = TRUE] /\ errors' = errors
    BY <1>2, <1>3, <1>5, <2>1, <2>2, <2>3, <2>4 DEF ResultInv
  <2>5. CASE status' = [status EXCEPT ![t] = "FAILED"]
             /\ success' = success /\ errors' = errors \cup {t}
    BY <1>2, <1>3, <1>5, <2>1, <2>2, <2>3, <2>5 DEF ResultInv
  <2>6. QED
    BY <1>4, <2>4, <2>5
<1>14. QED
  BY <1>8, <1>10, <1>11, <1>12, <1>13 DEF IInv

LEMMA StepInv == IInv /\ [Next]_vars => IInv'
<1> SUFFICES ASSUME IInv, [Next]_vars PROVE IInv'
  OBVIOUS
<1>1. CASE Driver
  BY <1>1, BeginInv, BeginEmptyInv, GatherReturnsInv DEF Driver
<1>2. ASSUME NEW t \in Tasks, Coroutine(t)
      PROVE  IInv'
  BY <1>2, NotFoundInv, AdmitInv, AssessedInv, LeaveInv DEF Coroutine
<1>3. CASE UNCHANGED vars
  <2> USE <1>3 DEF vars
  <2>1. TypeOK' /\ SemaphoreInv' /\ BarrierInv'
    BY DEF IInv, TypeOK, SemaphoreInv, BarrierInv, Members, Holders, Level
  <2>2. StatusInv' /\ ResultInv' /\ TruthfulVerdict'
    BY DEF IInv, StatusInv, ResultInv, TruthfulVerdict, Members, Level
  <2>3. QED
    BY <2>1, <2>2 DEF IInv
<1>4. QED
  BY <1>1, <1>2, <1>3 DEF Next, Returned

LEMMA Invariance == Spec => []IInv
BY InitInv, StepInv, PTL DEF Spec

-----------------------------------------------------------------------------
(* The properties *)

\* Every variable stays in its range, whatever the graphs and the outcomes.
THEOREM TypeCorrect == Spec => []TypeOK
<1>1. IInv => TypeOK
  BY DEF IInv
<1>2. QED
  BY <1>1, Invariance, PTL

\* asyncio.Semaphore(max_parallel) of execute_group bounds the coroutines past
\* it, and every group gives back all it took.
THEOREM BoundedConcurrency == Spec => []ConcurrencyBound
<1>1. ASSUME IInv PROVE ConcurrencyBound
  <2>1. TypeOK /\ SemaphoreInv
    BY <1>1 DEF IInv
  <2>2. IsFiniteSet(Holders)
    BY TasksAssumption, FS_Subset DEF Holders
  <2>3. Cardinality(Holders) \in Nat
    BY <2>2, FS_CardinalityType
  <2>4. CASE control = "gathering"
    BY <2>1, <2>3, <2>4, MaxParallelAssumption DEF TypeOK, SemaphoreInv, ConcurrencyBound
  <2>5. CASE control # "gathering"
    BY <2>1, <2>5, FS_EmptySet, MaxParallelAssumption DEF SemaphoreInv, ConcurrencyBound
  <2>6. QED
    BY <2>4, <2>5
<1>2. QED
  BY <1>1, Invariance, PTL

\* What the barrier means for one member of the current group: everything it
\* depends on, and everything below it, is COMPLETED.
LEMMA MemberFacts ==
  ASSUME IInv, control = "gathering", NEW t \in Members
  PROVE  /\ t \in DOMAIN Level
         /\ \A u \in DOMAIN Level : Level[u] < Level[t] =>
              u \in graph.nodes /\ status[u] = "COMPLETED"
         /\ \A d \in Dependencies(graph, t) : status[d] = "COMPLETED"
<1>1. TypeOK /\ BarrierInv /\ StatusInv
  BY DEF IInv
<1>2. t \in DOMAIN Level /\ Level[t] = group
  BY <1>1 DEF BarrierInv
<1>3. \A u \in DOMAIN Level : Level[u] < Level[t] => u \in graph.nodes /\ status[u] = "COMPLETED"
  BY <1>1, <1>2 DEF BarrierInv, StatusInv
<1>4. \A d \in Dependencies(graph, t) : d \in DOMAIN Level /\ Level[d] < Level[t]
  BY <1>1, <1>2, LevelFacts
<1>5. QED
  BY <1>2, <1>3, <1>4

\* No task is assessed or executed before all its dependencies are COMPLETED.
THEOREM RespectsDependencies == Spec => []DependencyOrder
<1>1. ASSUME IInv PROVE DependencyOrder
  <2>1. SUFFICES ASSUME NEW t \in Holders
                 PROVE  \A d \in Dependencies(graph, t) : status[d] = "COMPLETED"
    BY DEF DependencyOrder
  <2>2. control = "gathering" /\ t \in Members
    BY <1>1, <2>1 DEF IInv, SemaphoreInv, Holders, Members
  <2>3. QED
    BY <1>1, <2>2, MemberFacts
<1>2. QED
  BY <1>1, Invariance, PTL

\* The graph status and the replan flag a call leaves behind are truthful.
THEOREM VerdictIsTruthful == Spec => []TruthfulVerdict
<1>1. IInv => TruthfulVerdict
  BY DEF IInv
<1>2. QED
  BY <1>1, Invariance, PTL

\* Only the coroutine of a task writes its status.
LEMMA StatusSteps ==
  ASSUME IInv, [Next]_vars
  PROVE  \/ status' = status
         \/ \E t \in Tasks : /\ control = "gathering" /\ t \in Members
                             /\ t \in graph.nodes /\ pc[t] # "returned"
                             /\ t \notin completed
                             /\ \E s \in TaskStatus : status' = [status EXCEPT ![t] = s]
<1>1. CASE Driver \/ UNCHANGED vars
  BY <1>1 DEF Driver, Begin, BeginEmpty, GatherReturns, vars
<1>2. ASSUME NEW t \in Tasks, Coroutine(t)
      PROVE  \/ status' = status
             \/ /\ control = "gathering" /\ t \in Members
                /\ t \in graph.nodes /\ pc[t] # "returned"
                /\ t \notin completed
                /\ \E s \in TaskStatus : status' = [status EXCEPT ![t] = s]
  <2>1. control = "gathering" /\ t \in Members /\ pc[t] # "returned" /\ t \notin completed
    BY <1>2, CoroutineFacts DEF Members
  <2>2. t \in graph.nodes \/ NotFound(t)
    BY <1>2 DEF Coroutine, Admit, Assessed, WorkerSucceeds, WorkerFails, Leave, IInv, StatusInv
  <2>3. status' = status \/ \E s \in TaskStatus : status' = [status EXCEPT ![t] = s]
    BY <1>2 DEF Coroutine, NotFound, Admit, Assessed, WorkerSucceeds, WorkerFails, TaskStatus
  <2>4. QED
    BY <2>1, <2>2, <2>3 DEF NotFound
<1>3. QED
  BY <1>1, <1>2 DEF Next, Returned

\* completed_ids and the barrier protect completed work: no call executes a
\* COMPLETED task again or changes its status.
THEOREM CompletedWorkIsKept == Spec => CompletedIsStable
<1>1. ASSUME IInv, [Next]_vars
      PROVE  [\A t \in graph.nodes : status[t] = "COMPLETED" => status'[t] = "COMPLETED"]_vars
  <2>1. SUFFICES ASSUME NEW u \in graph.nodes, status[u] = "COMPLETED"
                 PROVE  status'[u] = "COMPLETED"
    OBVIOUS
  <2>2. CASE status' = status
    BY <2>1, <2>2
  <2>3. ASSUME NEW t \in Tasks, control = "gathering", t \in Members,
               t \in graph.nodes, pc[t] # "returned", t \notin completed,
               NEW s \in TaskStatus, status' = [status EXCEPT ![t] = s]
        PROVE  status'[u] = "COMPLETED"
    <3>1. status[t] # "COMPLETED"
      <4>1. pc[t] \in {"queued", "assessing", "running"}
        BY <1>1, <2>3 DEF IInv, TypeOK, PcValues, Members
      <4>2. CASE pc[t] = "running"
        BY <1>1, <2>3, <4>2 DEF IInv, StatusInv
      <4>3. CASE pc[t] \in {"queued", "assessing"}
        BY <1>1, <2>3, <4>3 DEF IInv, StatusInv
      <4>4. QED
        BY <4>1, <4>2, <4>3
    <3>2. status \in [graph.nodes -> TaskStatus]
      BY <1>1 DEF IInv, TypeOK
    <3>3. QED
      BY <2>1, <2>3, <3>1, <3>2
  <2>4. QED
    BY <1>1, <2>2, <2>3, StatusSteps
<1>2. QED
  BY <1>1, Invariance, PTL DEF Spec, CompletedIsStable

\* The early return of execute_full_graph: a task starts only while everything
\* at lower levels is COMPLETED, so nothing starts above a failure.
THEOREM FailsFast == Spec => FailFast
<1>1. ASSUME IInv, [Next]_vars
      PROVE  [\A t \in graph.nodes :
                (status[t] # "RUNNING" /\ status'[t] = "RUNNING") =>
                   \A u \in graph.nodes \cap DOMAIN Level :
                      Level[u] < Level[t] => status[u] = "COMPLETED"]_vars
  <2>1. SUFFICES ASSUME NEW t \in graph.nodes, status[t] # "RUNNING", status'[t] = "RUNNING"
                 PROVE  \A u \in graph.nodes \cap DOMAIN Level :
                           Level[u] < Level[t] => status[u] = "COMPLETED"
    OBVIOUS
  <2>2. control = "gathering" /\ t \in Members
    <3>1. status \in [graph.nodes -> TaskStatus]
      BY <1>1 DEF IInv, TypeOK
    <3>2. QED
      BY <1>1, <2>1, <3>1, StatusSteps
  <2>3. QED
    BY <1>1, <2>2, MemberFacts
<1>2. QED
  BY <1>1, Invariance, PTL DEF Spec, FailFast

-----------------------------------------------------------------------------
(* The contract of the call *)

\* What MeetsContract needs besides IInv: only nodes get an ExecutionError, and
\* completed_ids has what was COMPLETED at the call and groups already done.
SettledInv ==
  /\ errors \subseteq graph.nodes
  /\ control = "gathering" =>
       \A t \in completed : \/ graph.status[t] = "COMPLETED"
                            \/ t \in DOMAIN Level /\ Level[t] < group

ContractInv == SettledInv /\ MeetsContract

LEMMA InitContract == Init => ContractInv
BY DEF Init, ContractInv, SettledInv, MeetsContract

\* The call ends well: F is empty, everything unfinished has been completed.
LEMMA CompletedContract ==
  ASSUME IInv', graph' = graph, graph.nodes # {}, control' = "returned",
         graphStatus' = "COMPLETED", DOMAIN Level \subseteq graph.nodes
  PROVE  MeetsContract'
<1> DEFINE F == {}
<1>1. TypeOK' /\ TruthfulVerdict' /\ Level' = Level
  BY DEF IInv, Level
<1>2. errors' = {} /\ \A t \in graph.nodes : status'[t] = "COMPLETED"
  BY <1>1 DEF TruthfulVerdict
<1>3. /\ status' \in [graph.nodes -> TaskStatus]
      /\ graph.nodes \subseteq DOMAIN Level
  BY <1>1 DEF TypeOK, WellFormed, Executable, Level
<1>4. {} \in FailureSets(graph)
  BY DEF FailureSets, Unfinished, Level
<1>5. status' = StatusAfter(graph, {})
  <2>1. \A t \in graph.nodes : StatusAfter(graph, {})[t] = "COMPLETED"
    BY <1>3 DEF StatusAfter, Unfinished, Level
  <2>2. DOMAIN StatusAfter(graph, {}) = graph.nodes
        /\ StatusAfter(graph, {}) = [t \in graph.nodes |-> StatusAfter(graph, {})[t]]
    BY DEF StatusAfter
  <2>3. QED
    BY <1>2, <1>3, <2>1, <2>2
<1>6. QED
  BY <1>2, <1>4, <1>5 DEF MeetsContract

LEMMA LoopContract ==
  ASSUME IInv, IInv', NEW n \in Nat, LoopFrom(n, completed'),
         \A u \in DOMAIN Level : Level[u] < n => u \in completed',
         UNCHANGED <<graph, status, errors>>, graph.nodes # {},
         errors \subseteq graph.nodes,
         \A t \in completed' : \/ graph.status[t] = "COMPLETED"
                               \/ t \in DOMAIN Level /\ Level[t] < n
  PROVE  ContractInv'
<1>1. TypeOK /\ Level' = Level /\ Level \in [DOMAIN Level -> Nat]
  BY LevelFacts DEF IInv, Level
<1>2. CASE control' = "gathering" /\ group' \in Nat /\ n <= group'
  <2>1. \A t \in DOMAIN Level : Level[t] < n => Level[t] < group'
    BY <1>1, <1>2
  <2>2. SettledInv'
    BY <1>1, <1>2, <2>1 DEF SettledInv
  <2>3. QED
    BY <1>2, <2>2 DEF ContractInv, MeetsContract
<1>3. CASE control' = "returned" /\ graphStatus' = "COMPLETED" /\ DOMAIN Level \subseteq completed'
  <2>1. completed' \subseteq graph.nodes
    BY DEF IInv, StatusInv
  <2>2. MeetsContract'
    BY <1>3, <2>1, CompletedContract
  <2>3. QED
    BY <1>3, <2>2 DEF ContractInv, SettledInv
<1>4. QED
  BY <1>1, <1>2, <1>3, LoopOutcome

\* The call ends with failures: they are the F of the contract.
LEMMA FailedContract ==
  ASSUME IInv, IInv', SettledInv, GatherReturns, Failures # {},
         control' = "returned", graphStatus' = "FAILED"
  PROVE  ContractInv'
<1>1. TypeOK /\ StatusInv /\ ResultInv /\ BarrierInv
  BY DEF IInv
<1>2. /\ control = "gathering" /\ UNCHANGED <<graph, status, errors>>
      /\ \A t \in Members : pc[t] = "returned"
  BY DEF GatherReturns
<1>3. /\ Level \in [DOMAIN Level -> Nat] /\ graph.nodes \subseteq Tasks
      /\ DOMAIN Level \subseteq Tasks /\ group \in Nat
      /\ status \in [graph.nodes -> TaskStatus]
  BY <1>1, LevelFacts DEF TypeOK
<1>4. \A t \in Failures : t \in DOMAIN Level /\ Level[t] = group /\ t \notin completed
  BY <1>1, <1>2 DEF Failures, BarrierInv
<1>5. ASSUME NEW m \in DOMAIN Level, m \notin completed, Level[m] <= group
      PROVE  m \in Failures \/ (m \in graph.nodes /\ status[m] = "COMPLETED")
  <2>1. m \in Members
    BY <1>1, <1>2, <1>3, <1>5 DEF BarrierInv
  <2>2. QED
    BY <1>1, <1>2, <2>1 DEF Failures, Members, ResultInv
<1>6. Failures \in FailureSets(graph)
  <2>1. Failures \subseteq Unfinished(graph)
    BY <1>1, <1>2, <1>4 DEF StatusInv, Unfinished, Level
  <2>2. ASSUME NEW m \in Unfinished(graph) \ graph.nodes
        PROVE  m \in Failures \/ \E t \in Failures : Level[t] < Level[m]
    <3>1. m \in DOMAIN Level /\ m \notin completed
      BY <1>1 DEF Unfinished, StatusInv, Level
    <3>2. PICK t \in Failures : TRUE
      OBVIOUS
    <3>3. Level[m] <= group => m \in Failures
      BY <1>5, <3>1
    <3>4. QED
      BY <1>3, <1>4, <3>1, <3>3, <3>2
  <2>3. \A t, u \in Failures : Level[t] = Level[u]
    BY <1>4
  <2>4. QED
    BY <2>1, <2>2, <2>3 DEF FailureSets, Level
<1>7. ASSUME NEW t \in graph.nodes
      PROVE  status[t] = StatusAfter(graph, Failures)[t]
  <2>1. CASE t \in Failures
    <3>1. status[t] = "FAILED"
      BY <1>1, <1>2, <2>1 DEF Failures, ResultInv
    <3>2. QED
      BY <2>1, <3>1 DEF StatusAfter
  <2>2. CASE t \notin Failures /\ t \in Unfinished(graph) /\ Level[t] <= group
    <3>1. status[t] = "COMPLETED"
      BY <1>1, <1>5, <2>2 DEF Unfinished, StatusInv, Level
    <3>2. \A f \in Failures : Level[t] <= Level[f]
      BY <1>4, <2>2
    <3>3. QED
      BY <2>2, <3>1, <3>2 DEF StatusAfter, Level
  <2>3. CASE t \notin Failures /\ t \in Unfinished(graph) /\ ~ (Level[t] <= group)
    <3>1. t \in DOMAIN Level /\ graph.status[t] # "COMPLETED"
      BY <2>3 DEF Unfinished, Level
    <3>2. t \notin completed
      BY <1>2, <1>3, <2>3, <3>1 DEF SettledInv
    <3>3. pc[t] = "absent"
      BY <1>1, <1>2, <1>3, <2>3 DEF Members, BarrierInv
    <3>4. status[t] = graph.status[t]
      BY <1>1, <3>2, <3>3 DEF StatusInv
    <3>5. \E f \in Failures : ~ (Level[t] <= Level[f])
      BY <1>4, <2>3
    <3>6. QED
      BY <2>3, <3>4, <3>5 DEF StatusAfter, Level
  <2>4. CASE t \notin Failures /\ t \notin Unfinished(graph)
    <3>1. StatusAfter(graph, Failures)[t] = graph.status[t]
      BY <2>4 DEF StatusAfter
    <3>2. CASE graph.status[t] = "COMPLETED"
      BY <1>1, <1>2, <3>1, <3>2 DEF StatusInv
    <3>3. CASE graph.status[t] # "COMPLETED"
      <4>1. t \notin DOMAIN Level
        BY <2>4, <3>3 DEF Unfinished, Level
      <4>2. t \notin completed /\ pc[t] = "absent"
        BY <1>1, <1>2, <1>3, <3>3, <4>1 DEF SettledInv, Members, BarrierInv
      <4>3. QED
        BY <1>1, <3>1, <4>2 DEF StatusInv
    <3>4. QED
      BY <3>2, <3>3
  <2>5. QED
    BY <2>1, <2>2, <2>3, <2>4
<1>8. status = StatusAfter(graph, Failures)
  <2>1. StatusAfter(graph, Failures) = [t \in graph.nodes |-> StatusAfter(graph, Failures)[t]]
    BY DEF StatusAfter
  <2>2. QED
    BY <1>3, <1>7, <2>1
<1>9. errors = Failures \cap graph.nodes
  <2>1. errors \subseteq Failures
    BY <1>1, <1>2 DEF TypeOK, ResultInv, Failures, Members
  <2>2. Failures \cap graph.nodes \subseteq errors
    BY <1>1, <1>2 DEF Failures, ResultInv
  <2>3. QED
    BY <2>1, <2>2 DEF SettledInv
<1>10. MeetsContract'
  BY <1>2, <1>6, <1>8, <1>9 DEF MeetsContract
<1>11. QED
  BY <1>2, <1>10 DEF ContractInv, SettledInv

LEMMA GatherContract ==
  ASSUME IInv, IInv', ContractInv, GatherReturns
  PROVE  ContractInv'
<1>1. TypeOK /\ StatusInv /\ ResultInv /\ BarrierInv /\ SettledInv
  BY DEF IInv, ContractInv
<1>2. /\ control = "gathering" /\ UNCHANGED <<graph, status, errors>>
      /\ completed' = completed \cup (Members \ Failures)
  BY DEF GatherReturns
<1>3. Level \in [DOMAIN Level -> Nat] /\ group \in Nat
  BY <1>1, LevelFacts DEF TypeOK
<1>4. CASE Failures # {} /\ control' = "returned" /\ graphStatus' = "FAILED"
  BY <1>1, <1>4, FailedContract
<1>5. CASE Failures = {} /\ LoopFrom(group + 1, completed')
  <2>1. \A u \in DOMAIN Level : Level[u] < group + 1 => u \in completed'
    <3>1. SUFFICES ASSUME NEW u \in DOMAIN Level, Level[u] < group + 1
                   PROVE  u \in completed'
      OBVIOUS
    <3>2. Level[u] < group \/ Level[u] = group
      BY <1>3, <3>1
    <3>3. QED
      BY <1>1, <1>2, <1>5, <3>2 DEF BarrierInv
  <2>2. \A t \in completed' : \/ graph.status[t] = "COMPLETED"
                              \/ t \in DOMAIN Level /\ Level[t] < group + 1
    <3>1. \A t \in Members : t \in DOMAIN Level /\ Level[t] < group + 1
      BY <1>1, <1>2, <1>3 DEF BarrierInv
    <3>2. \A t \in DOMAIN Level : Level[t] < group => Level[t] < group + 1
      BY <1>3
    <3>3. QED
      BY <1>1, <1>2, <3>1, <3>2 DEF SettledInv
  <2>3. CASE graph.nodes # {}
    BY <1>1, <1>2, <1>3, <1>5, <2>1, <2>2, <2>3, LoopContract DEF SettledInv
  <2>4. CASE graph.nodes = {}
    <3>1. completed' = {} /\ MeetsContract'
      BY <1>2, <2>4 DEF IInv, StatusInv, MeetsContract
    <3>2. QED
      BY <1>1, <1>2, <3>1 DEF ContractInv, SettledInv
  <2>5. QED
    BY <2>3, <2>4
<1>6. QED
  BY <1>4, <1>5 DEF GatherReturns

LEMMA StepContract == IInv /\ IInv' /\ ContractInv /\ [Next]_vars => ContractInv'
<1> SUFFICES ASSUME IInv, IInv', ContractInv, [Next]_vars PROVE ContractInv'
  OBVIOUS
<1>1. CASE Begin
  <2>1. /\ completed' = {t \in graph.nodes : status[t] = "COMPLETED"}
        /\ status = graph.status /\ graph.nodes # {}
        /\ UNCHANGED <<graph, status, errors>> /\ LoopFrom(0, completed')
    BY <1>1 DEF Begin, IInv, StatusInv
  <2>2. \A u \in DOMAIN Level : ~ (Level[u] < 0)
    BY LevelFacts DEF IInv
  <2>3. QED
    BY <2>1, <2>2, LoopContract DEF ContractInv, SettledInv
<1>2. CASE BeginEmpty
  BY <1>2 DEF BeginEmpty, ContractInv, SettledInv, MeetsContract
<1>3. CASE GatherReturns
  BY <1>3, GatherContract
<1>4. ASSUME NEW t \in Tasks, Coroutine(t)
      PROVE  ContractInv'
  <2>1. /\ control = "gathering" /\ control' = "gathering" /\ Level' = Level
        /\ UNCHANGED <<graph, group, completed>>
    BY <1>4, CoroutineFacts
  <2>2. errors' = errors \/ (t \in graph.nodes /\ errors' = errors \cup {t})
    BY <1>4 DEF Coroutine, NotFound, Admit, Assessed, WorkerSucceeds, WorkerFails, Leave,
                IInv, StatusInv
  <2>3. QED
    BY <2>1, <2>2 DEF ContractInv, SettledInv, MeetsContract
<1>5. CASE UNCHANGED vars
  BY <1>5 DEF vars, ContractInv, SettledInv, MeetsContract, Level
<1>6. QED
  BY <1>1, <1>2, <1>3, <1>4, <1>5 DEF Next, Driver, Returned

\* execute_full_graph keeps the contract the pipeline and the mutation model
\* take one step for: the statuses, errors and verdict it leaves behind are
\* those of a set of failures within one group.
THEOREM ContractIsMet == Spec => []MeetsContract
<1>1. IInv /\ IInv' /\ [Next]_vars /\ ContractInv => ContractInv'
  BY StepContract
<1>2. ContractInv => MeetsContract
  BY DEF ContractInv
<1>3. QED
  BY <1>1, <1>2, InitContract, Invariance, PTL DEF Spec

-----------------------------------------------------------------------------
(* Refinement of DagExecution *)

\* DagExecution has its own copy of the graph operators; they are the same.
LEMMA DagOperators ==
  /\ \A t : Dag!Dependencies(graph, t) = Dependencies(graph, t)
  /\ Dag!EffectiveLevels(graph) = EffectiveLevels(graph)
  /\ \A S : Dag!Cardinality(S) = Cardinality(S)
<1>1. \A t : Dag!Dependencies(graph, t) = Dependencies(graph, t)
  BY DEF Dag!Dependencies, Dependencies
<1>2. Dag!ComputeLevels(graph) = ComputeLevels(graph)
  BY Zenon DEF Dag!ComputeLevels, ComputeLevels, Dag!Dependencies, Dependencies, Dag!Max, Max
<1>3. \A S : Dag!Cardinality(S) = Cardinality(S)
  BY Zenon DEF Dag!Cardinality, Cardinality
<1>4. QED
  BY <1>1, <1>2, <1>3 DEF Dag!EffectiveLevels, EffectiveLevels

LEMMA DagInitStep == Init => Dag!DagInit
<1> SUFFICES ASSUME Init PROVE Dag!DagInit
  OBVIOUS
<1>1. graph.status \in [graph.nodes -> TaskStatus \ {"RUNNING"}]
  BY InitInv, LevelFacts DEF IInv
<1>2. TriedMap = {}
  BY <1>1 DEF Init, TriedMap
<1>3. VerdictMap = "open"
  BY DEF Init, VerdictMap
<1>4. QED
  BY <1>1, <1>2, <1>3 DEF Init, Dag!DagInit

LEMMA DagDriverStep ==
  ASSUME IInv, IInv', Driver
  PROVE  [Dag!DagNext]_(Dag!dagVars)
<1>1. UNCHANGED <<graph, status, errors>> /\ control # "returned"
  BY DEF Driver, Begin, BeginEmpty, GatherReturns
<1>2. TriedMap' = TriedMap /\ VerdictMap = "open"
  BY <1>1 DEF TriedMap, VerdictMap
<1>3. CASE control' # "returned"
  BY <1>1, <1>2, <1>3 DEF VerdictMap, Dag!dagVars
<1>4. CASE control' = "returned" /\ graph.nodes = {}
  <2>1. VerdictMap' = "empty"
    BY <1>1, <1>4 DEF VerdictMap
  <2>2. Dag!ConcludeEmpty
    BY <1>1, <1>2, <1>4, <2>1 DEF Dag!ConcludeEmpty
  <2>3. QED
    BY <2>2 DEF Dag!DagNext
<1>5. CASE control' = "returned" /\ graph.nodes # {}
  <2>1. graphStatus' \in {"COMPLETED", "FAILED"}
    BY <1>1, <1>5 DEF IInv, TruthfulVerdict
  <2>2. CASE graphStatus' = "COMPLETED"
    <3>1. \A t \in graph.nodes : status[t] = "COMPLETED"
      BY <1>1, <1>5, <2>2 DEF IInv, TruthfulVerdict
    <3>2. VerdictMap' = "completed"
      BY <1>1, <1>5, <2>2 DEF VerdictMap
    <3>3. Dag!ConcludeCompleted
      BY <1>1, <1>2, <1>5, <3>1, <3>2 DEF Dag!ConcludeCompleted
    <3>4. QED
      BY <3>3 DEF Dag!DagNext
  <2>3. CASE graphStatus' = "FAILED"
    <3>1. VerdictMap' = "failed"
      BY <1>1, <1>5, <2>3 DEF VerdictMap
    <3>2. Dag!Running = {}
      <4>1. Holders' = {} /\ pc' = pc
        <5>1. Holders' = {}
          BY <1>5 DEF IInv, SemaphoreInv
        <5>2. \A t \in graph.nodes : pc'[t] # "running"
          BY <1>1, <5>1, LevelFacts DEF IInv, Holders
        <5>3. pc' = pc
          BY <1>5 DEF Driver, Begin, BeginEmpty, GatherReturns, LoopFrom, Launch
        <5>4. QED
          BY <5>1, <5>3
      <4>2. \A t \in graph.nodes : pc[t] # "running"
        BY <4>1, LevelFacts DEF IInv, Holders
      <4>3. QED
        BY <4>2 DEF Dag!Running, IInv, StatusInv
    <3>3. Dag!Phantoms(graph) # {} \/ \E t \in TriedMap : status[t] = "FAILED"
      <4>1. control = "gathering" /\ Failures # {} /\ \A t \in Members : pc[t] = "returned"
        BY <1>5, <2>3 DEF Driver, Begin, BeginEmpty, GatherReturns, LoopFrom
      <4>2. PICK t \in Members : ~ success[t] /\ pc[t] = "returned"
        BY <4>1 DEF Failures
      <4>3. CASE t \in graph.nodes
        BY <4>2, <4>3 DEF IInv, ResultInv, TriedMap
      <4>4. CASE t \notin graph.nodes
        BY <4>1, <4>2, <4>4, DagOperators DEF IInv, BarrierInv, Level, Dag!Phantoms
      <4>5. QED
        BY <4>3, <4>4
    <3>4. Dag!ConcludeFailed
      BY <1>1, <1>2, <3>1, <3>2, <3>3 DEF Dag!ConcludeFailed
    <3>5. QED
      BY <3>4 DEF Dag!DagNext
  <2>4. QED
    BY <2>1, <2>2, <2>3
<1>6. QED
  BY <1>3, <1>4, <1>5

\* Admission without a risk predictor, or the end of the assessment: the step
\* that makes a task RUNNING.
LEMMA DagStartStep ==
  ASSUME IInv, NEW t \in Tasks, Admit(t) \/ Assessed(t),
         status' = [status EXCEPT ![t] = "RUNNING"]
  PROVE  Dag!Start(t)
<1>1. Coroutine(t)
  BY DEF Coroutine
<1>2. /\ control = "gathering" /\ control' = "gathering"
      /\ UNCHANGED <<graph, errors>> /\ t \notin completed
      /\ t \in Members /\ pc[t] \in {"queued", "assessing"}
      /\ t \in graph.nodes
  BY <1>1, CoroutineFacts DEF Admit, Assessed, Members, IInv, StatusInv
<1>3. status[t] = graph.status[t] /\ status[t] \notin {"COMPLETED", "RUNNING"}
  BY <1>2 DEF IInv, StatusInv
<1>4. t \notin TriedMap
  BY <1>2, <1>3 DEF TriedMap, IInv, ResultInv
<1>5. \A d \in Dependencies(graph, t) : status[d] = "COMPLETED"
  BY <1>2, MemberFacts
<1>6. Cardinality(Dag!Running) < MaxParallel
  <2>1. IsFiniteSet(Holders) /\ Cardinality(Holders) \in Nat
    BY TasksAssumption, FS_Subset, FS_CardinalityType DEF Holders
  <2>2. Dag!Running \subseteq Holders
    BY LevelFacts DEF Dag!Running, Holders, IInv, StatusInv
  <2>3. permits + Cardinality(Holders) = MaxParallel /\ permits \in 0..MaxParallel
    BY <1>2 DEF IInv, SemaphoreInv, TypeOK
  <2>4. IsFiniteSet(Dag!Running) /\ Cardinality(Dag!Running) \in Nat
        /\ Cardinality(Dag!Running) <= Cardinality(Holders)
    BY <2>1, <2>2, FS_Subset, FS_CardinalityType
  <2>5. CASE Admit(t)
    BY <2>1, <2>3, <2>4, <2>5, MaxParallelAssumption DEF Admit
  <2>6. CASE Assessed(t)
    <3>1. t \in Holders /\ t \notin Dag!Running
      BY <1>3, <2>6 DEF Assessed, Holders, Dag!Running
    <3>2. Cardinality(Dag!Running) < Cardinality(Holders)
      <4>1. Cardinality(Holders \ {t}) = Cardinality(Holders) - 1 /\ IsFiniteSet(Holders \ {t})
        BY <2>1, <3>1, FS_RemoveElement
      <4>2. Dag!Running \subseteq Holders \ {t}
        BY <2>2, <3>1
      <4>3. Cardinality(Dag!Running) <= Cardinality(Holders \ {t})
        BY <4>1, <4>2, FS_Subset
      <4>4. QED
        BY <2>1, <2>4, <4>1, <4>3
    <3>3. QED
      BY <2>1, <2>3, <2>4, <3>2, MaxParallelAssumption
  <2>7. QED
    BY <2>5, <2>6
<1>7. TriedMap' = TriedMap \cup {t}
  BY <1>2, <1>3 DEF TriedMap, IInv, TypeOK
<1>8. VerdictMap = "open" /\ VerdictMap' = "open"
  BY <1>2 DEF VerdictMap
<1>9. QED
  BY <1>2, <1>3, <1>4, <1>5, <1>6, <1>7, <1>8, DagOperators DEF Dag!Start

LEMMA DagFinishStep ==
  ASSUME IInv, NEW t \in Tasks, WorkerSucceeds(t) \/ WorkerFails(t)
  PROVE  Dag!Finish(t)
<1>1. Coroutine(t)
  BY DEF Coroutine
<1>2. /\ control = "gathering" /\ control' = "gathering" /\ UNCHANGED graph
      /\ t \notin completed /\ pc[t] = "running"
  BY <1>1, CoroutineFacts DEF WorkerSucceeds, WorkerFails, Leave
<1>3. t \in graph.nodes /\ status[t] = "RUNNING"
  BY <1>2 DEF IInv, StatusInv
<1>4. graph.status[t] # "COMPLETED"
  BY <1>2, <1>3 DEF IInv, StatusInv
<1>5. \/ status' = [status EXCEPT ![t] = "COMPLETED"] /\ errors' = errors
      \/ status' = [status EXCEPT ![t] = "FAILED"] /\ errors' = errors \cup {t}
  BY DEF WorkerSucceeds, WorkerFails
<1>6. TriedMap' = TriedMap
  BY <1>2, <1>3, <1>4, <1>5 DEF TriedMap, IInv, TypeOK
<1>7. VerdictMap' = VerdictMap
  BY <1>2 DEF VerdictMap
<1>8. QED
  BY <1>2, <1>3, <1>5, <1>6, <1>7 DEF Dag!Finish, Dag!Running

LEMMA DagStep == IInv /\ IInv' /\ [Next]_vars => [Dag!DagNext]_(Dag!dagVars)
<1> SUFFICES ASSUME IInv, IInv', [Next]_vars PROVE [Dag!DagNext]_(Dag!dagVars)
  OBVIOUS
<1>1. CASE Driver
  BY <1>1, DagDriverStep
<1>2. ASSUME NEW t \in Tasks, Coroutine(t)
      PROVE  [Dag!DagNext]_(Dag!dagVars)
  <2>1. control = "gathering" /\ control' = "gathering" /\ UNCHANGED <<graph, graphStatus>>
    BY <1>2, CoroutineFacts
  <2>2. CASE status' = status /\ errors' = errors
    BY <2>1, <2>2 DEF TriedMap, VerdictMap, Dag!dagVars
  <2>3. CASE (Admit(t) \/ Assessed(t)) /\ status' = [status EXCEPT ![t] = "RUNNING"]
    <3>1. Dag!Start(t) /\ t \in graph.nodes
      BY <2>3, DagStartStep DEF Dag!Start
    <3>2. QED
      BY <3>1 DEF Dag!DagNext
  <2>4. CASE WorkerSucceeds(t) \/ WorkerFails(t)
    <3>1. Dag!Finish(t) /\ t \in graph.nodes
      BY <2>4, DagFinishStep DEF Dag!Finish, Dag!Running
    <3>2. QED
      BY <3>1 DEF Dag!DagNext
  <2>5. QED
    BY <1>2, <2>2, <2>3, <2>4 DEF Coroutine, NotFound, Admit, Assessed
<1>3. CASE UNCHANGED vars
  BY <1>3 DEF vars, TriedMap, VerdictMap, Dag!dagVars
<1>4. QED
  BY <1>1, <1>2, <1>3 DEF Next, Returned

\* execute_full_graph, with its groups, coroutines and semaphores, executes the
\* graph the way DagExecution says: each task at most once and only after its
\* dependencies, at most MaxParallel together, with a truthful verdict.
THEOREM Refinement == Spec => RefinesDagExecution
BY Invariance, DagInitStep, DagStep, PTL DEF Spec, RefinesDagExecution, Dag!DagSpec
=============================================================================
