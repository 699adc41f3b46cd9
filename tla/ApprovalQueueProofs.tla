------------------------- MODULE ApprovalQueueProofs -------------------------
(***************************************************************************)
(* Proofs about ApprovalGate, for any requests and sessions, and about     *)
(* ApprovalQueue, for any objects, requests and consumers.                 *)
(*                                                                         *)
(* With the queue in front the gate still behaves like ApprovalGate, so    *)
(* that everything proved of the gate holds of the composition; and the    *)
(* queue serves every object once and in order.                            *)
(***************************************************************************)
EXTENDS ApprovalQueue, SequenceTheorems, TLAPS

-----------------------------------------------------------------------------
(* The gate *)

\* What IInv says of one request.
OneInv(r) ==
  /\ status[r] \in {"absent", "pending"} \cup Resolved
  /\ event[r] \in {"none", "clear", "set"}
  /\ waiter[r] \in {"idle", "waiting", "timing_out", "returned", "abandoned"}
  /\ told[r] \in {"nothing"} \cup Answers
  /\ told[r] # "nothing" => status[r] = told[r]
  /\ status[r] \in Answers => told[r] = status[r]
  /\ waiter[r] = "returned" => status[r] \in Resolved
  /\ waiter[r] \in {"returned", "abandoned"} => event[r] = "none"
  /\ (waiter[r] = "waiting" /\ status[r] # "pending") => event[r] = "set"
  /\ event[r] = "set" => status[r] \in Resolved
  /\ waiter[r] = "idle" <=> status[r] = "absent"
  /\ waiter[r] = "idle" => event[r] = "none"
  /\ waiter[r] = "waiting" => event[r] # "none"

Shape ==
  /\ DOMAIN status = Requests /\ DOMAIN event = Requests
  /\ DOMAIN waiter = Requests /\ DOMAIN told = Requests
  /\ status = [r \in Requests |-> status[r]] /\ event = [r \in Requests |-> event[r]]
  /\ waiter = [r \in Requests |-> waiter[r]] /\ told = [r \in Requests |-> told[r]]

LEMMA PerRequest == IInv <=> (Shape /\ \A r \in Requests : OneInv(r))
<1>1. IInv => Shape /\ \A r \in Requests : OneInv(r)
  BY DEF IInv, TypeOK, AnswerStands, ReturnsResolved, NoLostSignal, WaiterInv,
     Shape, OneInv
<1>2. ASSUME Shape, \A r \in Requests : OneInv(r)
      PROVE  IInv
  <2>1. TypeOK
    BY <1>2 DEF Shape, OneInv, TypeOK
  <2>2. AnswerStands /\ ReturnsResolved /\ NoLostSignal /\ WaiterInv
    BY <1>2 DEF OneInv, AnswerStands, ReturnsResolved, NoLostSignal, WaiterInv
  <2>3. QED
    BY <2>1, <2>2 DEF IInv
<1>3. QED
  BY <1>1, <1>2

\* Whatever happens to the variables of one request, OneInv survives it.
LEMMA CoroutineInv ==
  ASSUME Shape, \A q \in Requests : OneInv(q), NEW r \in Requests, Coroutine(r)
  PROVE  Shape' /\ \A q \in Requests : OneInv(q)'
<1>1. Shape'
  BY DEF Shape, Coroutine, Request, TimerFires, Resume, ResumeTimedOut, Abandon
<1>2. ASSUME NEW q \in Requests, q # r PROVE OneInv(q)'
  <2>1. status'[q] = status[q] /\ event'[q] = event[q] /\ waiter'[q] = waiter[q]
        /\ told'[q] = told[q]
    BY <1>2 DEF Shape, Coroutine, Request, TimerFires, Resume, ResumeTimedOut, Abandon
  <2>2. QED
    BY <2>1 DEF OneInv
<1>3. OneInv(r)'
  <2>1. CASE Request(r)
    BY <2>1 DEF Request, Shape, OneInv, Resolved, Answers
  <2>2. CASE TimerFires(r)
    BY <2>2 DEF TimerFires, Shape, OneInv, Resolved, Answers
  <2>3. CASE Resume(r)
    BY <2>3 DEF Resume, Shape, OneInv, Resolved, Answers
  <2>4. CASE ResumeTimedOut(r)
    BY <2>4 DEF ResumeTimedOut, Shape, OneInv, Resolved, Answers
  <2>5. CASE Abandon(r)
    BY <2>5 DEF Abandon, Shape, OneInv, Resolved, Answers
  <2>6. QED
    BY <2>1, <2>2, <2>3, <2>4, <2>5 DEF Coroutine
<1>4. QED
  BY <1>1, <1>2, <1>3

LEMMA RespondInv ==
  ASSUME Shape, \A q \in Requests : OneInv(q),
         NEW r \in Requests, NEW answer \in Answers, Respond(r, answer)
  PROVE  Shape' /\ \A q \in Requests : OneInv(q)'
<1>1. Shape'
  BY DEF Shape, Respond
<1>2. ASSUME NEW q \in Requests, q # r PROVE OneInv(q)'
  <2>1. status'[q] = status[q] /\ event'[q] = event[q] /\ waiter'[q] = waiter[q]
        /\ told'[q] = told[q]
    BY <1>2 DEF Shape, Respond
  <2>2. QED
    BY <2>1 DEF OneInv
<1>3. OneInv(r)'
  BY DEF Respond, Shape, OneInv, SetIfPresent, Resolved, Answers
<1>4. QED
  BY <1>1, <1>2, <1>3

LEMMA CancelInv ==
  ASSUME Shape, \A q \in Requests : OneInv(q),
         NEW s \in Sessions, CancelSession(s)
  PROVE  Shape' /\ \A q \in Requests : OneInv(q)'
<1>1. Shape'
  BY DEF Shape, CancelSession
<1>2. ASSUME NEW q \in Requests PROVE OneInv(q)'
  <2>1. waiter'[q] = waiter[q] /\ told'[q] = told[q]
    BY DEF CancelSession
  <2>2. \/ status'[q] = status[q] /\ event'[q] = event[q]
        \/ status[q] = "pending" /\ status'[q] = "expired" /\ event'[q] = SetIfPresent(event[q])
    BY DEF CancelSession
  <2>3. QED
    BY <2>1, <2>2 DEF OneInv, SetIfPresent, Resolved, Answers
<1>3. QED
  BY <1>1, <1>2

LEMMA InitInv == Init => IInv
<1>1. Init => Shape /\ \A r \in Requests : OneInv(r)
  BY DEF Init, Shape, OneInv, Resolved, Answers
<1>2. QED
  BY <1>1, PerRequest

LEMMA StepInv == IInv /\ [Next]_vars => IInv'
<1> SUFFICES ASSUME IInv, [Next]_vars PROVE IInv'
  OBVIOUS
<1>1. Shape /\ \A r \in Requests : OneInv(r)
  BY PerRequest
<1>2. ASSUME UNCHANGED vars PROVE Shape' /\ \A q \in Requests : OneInv(q)'
  BY <1>1, <1>2 DEF vars, Shape, OneInv
<1>3. Shape' /\ \A q \in Requests : OneInv(q)'
  BY <1>1, <1>2, CoroutineInv, RespondInv, CancelInv DEF Next, Outside, Finished
<1>4. QED
  <2>1. (IInv <=> (Shape /\ \A r \in Requests : OneInv(r)))'
    BY PerRequest, PTL
  <2>2. QED
    BY <1>3, <2>1

LEMMA Invariance == Spec => []IInv
BY InitInv, StepInv, PTL DEF Spec

\* Every variable of the gate stays in its range.
THEOREM TypeCorrect == Spec => []TypeOK
<1>1. IInv => TypeOK
  BY DEF IInv
<1>2. QED
  BY <1>1, Invariance, PTL

\* A human's answer is never overridden by a timeout or a cancellation.
THEOREM AnswersStand == Spec => []AnswerStands
<1>1. IInv => AnswerStands
  BY DEF IInv
<1>2. QED
  BY <1>1, Invariance, PTL

\* request_approval returns only resolved requests, and cleans up after itself.
THEOREM OnlyResolvedReturned == Spec => []ReturnsResolved
<1>1. IInv => ReturnsResolved
  BY DEF IInv
<1>2. QED
  BY <1>1, Invariance, PTL

\* Whoever waits for a resolved request has been signalled.
THEOREM SignalsAreKept == Spec => []NoLostSignal
<1>1. IInv => NoLostSignal
  BY DEF IInv
<1>2. QED
  BY <1>1, Invariance, PTL

\* The first resolution of a request is its last.
THEOREM ResolutionIsFinal == Spec => ResolvedOnce
<1>1. ASSUME IInv, [Next]_vars, NEW r \in Requests, status[r] \in Resolved
      PROVE  status'[r] = status[r]
  <2>1. status[r] # "pending" /\ waiter[r] # "idle" /\ Shape
    BY <1>1, PerRequest DEF OneInv, Resolved, Answers
  <2>2. ASSUME NEW q \in Requests, Coroutine(q) PROVE status'[r] = status[r]
    BY <2>1, <2>2 DEF Shape, Coroutine, Request, TimerFires, Resume, ResumeTimedOut, Abandon
  <2>3. ASSUME NEW q \in Requests, NEW answer \in Answers, Respond(q, answer)
        PROVE status'[r] = status[r]
    BY <2>1, <2>3 DEF Shape, Respond
  <2>4. ASSUME NEW s \in Sessions, CancelSession(s) PROVE status'[r] = status[r]
    BY <2>1, <2>4 DEF CancelSession
  <2>5. ASSUME UNCHANGED vars PROVE status'[r] = status[r]
    BY <2>5 DEF vars
  <2>6. QED
    BY <1>1, <2>2, <2>3, <2>4, <2>5 DEF Next, Outside, Finished
<1>2. IInv /\ [Next]_vars =>
        [\A r \in Requests : status[r] \in Resolved => status'[r] = status[r]]_vars
  BY <1>1
<1>3. QED
  BY <1>2, Invariance, PTL DEF Spec, ResolvedOnce

-----------------------------------------------------------------------------
(* The queue in front of the gate *)

\* The inductive strengthening of ServedOnceInOrder.  No object comes twice, what a
\* consumer is at has left the queue, and the request an object will be handed to
\* is not made before it leaves.
QueueTyped ==
  /\ queue \in Seq(Items) /\ left \in Seq(Items) /\ arrived \in Seq(Items)
  /\ serving \in [Consumers -> Items \cup {"nothing"}]

OnceEach == \A j, k \in DOMAIN arrived : arrived[j] = arrived[k] => j = k

ServedHasLeft == \A c \in Consumers : serving[c] # "nothing" => Among(serving[c], left)

OneConsumerEach ==
  \A c, d \in Consumers : (serving[c] = serving[d] /\ serving[c] # "nothing") => c = d

AskedAfterwards == \A i \in Items : ~Among(i, left) => status[HandedTo[i]] = "absent"

QueueInv ==
  /\ QueueTyped /\ left \o queue = arrived
  /\ OnceEach /\ ServedHasLeft /\ OneConsumerEach /\ AskedAfterwards

-----------------------------------------------------------------------------
(* Sequences *)

LEMMA AmongAppend ==
  ASSUME NEW S, NEW s \in Seq(S), NEW x \in S, NEW i
  PROVE  Among(i, Append(s, x)) <=> (Among(i, s) \/ i = x)
<1>1. /\ DOMAIN s = 1..Len(s) /\ Len(s) \in Nat
      /\ DOMAIN Append(s, x) = 1..(Len(s) + 1)
      /\ \A k \in 1..Len(s) : Append(s, x)[k] = s[k]
      /\ Append(s, x)[Len(s) + 1] = x
  OBVIOUS
<1>2. QED
  BY <1>1 DEF Among

LEMMA AmongConcat ==
  ASSUME NEW S, NEW s \in Seq(S), NEW t \in Seq(S), NEW i
  PROVE  Among(i, s \o t) <=> (Among(i, s) \/ Among(i, t))
<1>1. /\ Len(s) \in Nat /\ Len(t) \in Nat
      /\ DOMAIN s = 1..Len(s) /\ DOMAIN t = 1..Len(t)
      /\ DOMAIN (s \o t) = 1..(Len(s) + Len(t))
  BY LenProperties, ConcatProperties
<1>2. \A k \in 1..(Len(s) + Len(t)) :
         (s \o t)[k] = IF k <= Len(s) THEN s[k] ELSE t[k - Len(s)]
  BY ConcatProperties
<1>3. ASSUME Among(i, s \o t) PROVE Among(i, s) \/ Among(i, t)
  <2>1. PICK k \in 1..(Len(s) + Len(t)) : (s \o t)[k] = i
    BY <1>1, <1>3 DEF Among
  <2>2. CASE k <= Len(s)
    <3>1. k \in DOMAIN s /\ s[k] = i
      BY <1>1, <1>2, <2>1, <2>2
    <3>2. QED
      BY <3>1 DEF Among
  <2>3. CASE ~(k <= Len(s))
    <3>1. k - Len(s) \in DOMAIN t /\ t[k - Len(s)] = i
      BY <1>1, <1>2, <2>1, <2>3
    <3>2. QED
      BY <3>1 DEF Among
  <2>4. QED
    BY <2>2, <2>3
<1>4. ASSUME Among(i, s) PROVE Among(i, s \o t)
  <2>1. PICK k \in 1..Len(s) : s[k] = i
    BY <1>1, <1>4 DEF Among
  <2>2. k \in DOMAIN (s \o t) /\ (s \o t)[k] = i
    BY <1>1, <1>2, <2>1
  <2>3. QED
    BY <2>2 DEF Among
<1>5. ASSUME Among(i, t) PROVE Among(i, s \o t)
  <2>1. PICK k \in 1..Len(t) : t[k] = i
    BY <1>1, <1>5 DEF Among
  <2>2. /\ k + Len(s) \in 1..(Len(s) + Len(t)) /\ ~(k + Len(s) <= Len(s))
        /\ (k + Len(s)) - Len(s) = k
    BY <1>1, <2>1
  <2>3. k + Len(s) \in DOMAIN (s \o t) /\ (s \o t)[k + Len(s)] = i
    BY <1>1, <1>2, <2>1, <2>2
  <2>4. QED
    BY <2>3 DEF Among
<1>6. QED
  BY <1>3, <1>4, <1>5

\* What moves from the head of t to the end of s does not change s \o t.
LEMMA MoveHead ==
  ASSUME NEW S, NEW s \in Seq(S), NEW t \in Seq(S), t # <<>>
  PROVE  Append(s, Head(t)) \o Tail(t) = s \o t
<1>1. Head(t) \in S /\ Tail(t) \in Seq(S) /\ <<Head(t)>> \in Seq(S)
  BY HeadTailProperties
<1>2. <<Head(t)>> \o Tail(t) = t
  OBVIOUS
<1>3. Append(s, Head(t)) = s \o <<Head(t)>>
  BY <1>1
<1>4. (s \o <<Head(t)>>) \o Tail(t) = s \o (<<Head(t)>> \o Tail(t))
  BY <1>1, ConcatAssociative
<1>5. QED
  BY <1>2, <1>3, <1>4

LEMMA AppendBehind ==
  ASSUME NEW S, NEW s \in Seq(S), NEW t \in Seq(S), NEW x \in S
  PROVE  s \o Append(t, x) = Append(s \o t, x)
<1>1. Append(t, x) = t \o <<x>> /\ <<x>> \in Seq(S)
  OBVIOUS
<1>2. (s \o t) \o <<x>> = s \o (t \o <<x>>)
  BY <1>1, ConcatAssociative
<1>3. s \o t \in Seq(S)
  OBVIOUS
<1>4. Append(s \o t, x) = (s \o t) \o <<x>>
  BY <1>1, <1>3
<1>5. QED
  BY <1>1, <1>2, <1>4

\* An object that is queued has not left.
LEMMA QueuedOrLeft ==
  ASSUME QueueTyped, left \o queue = arrived, OnceEach, NEW i, Among(i, queue)
  PROVE  ~Among(i, left)
<1>1. /\ Len(left) \in Nat /\ Len(queue) \in Nat
      /\ DOMAIN left = 1..Len(left) /\ DOMAIN queue = 1..Len(queue)
      /\ DOMAIN arrived = 1..(Len(left) + Len(queue))
  BY LenProperties, ConcatProperties DEF QueueTyped
<1>2. \A k \in 1..(Len(left) + Len(queue)) :
         arrived[k] = IF k <= Len(left) THEN left[k] ELSE queue[k - Len(left)]
  BY ConcatProperties DEF QueueTyped
<1>3. PICK k \in 1..Len(queue) : queue[k] = i
  BY <1>1 DEF Among
<1>4. /\ k + Len(left) \in 1..(Len(left) + Len(queue)) /\ ~(k + Len(left) <= Len(left))
      /\ (k + Len(left)) - Len(left) = k
  BY <1>1, <1>3
<1>5. arrived[k + Len(left)] = i
  BY <1>2, <1>3, <1>4
<1>6. ASSUME NEW j \in 1..Len(left), left[j] = i PROVE FALSE
  <2>1. j \in 1..(Len(left) + Len(queue)) /\ j <= Len(left) /\ j # k + Len(left)
    BY <1>1, <1>3
  <2>2. arrived[j] = i
    BY <1>2, <1>6, <2>1
  <2>3. QED
    BY <1>1, <1>4, <1>5, <2>1, <2>2 DEF OnceEach
<1>7. QED
  BY <1>1, <1>6 DEF Among

-----------------------------------------------------------------------------
(* The invariant *)

LEMMA QueueInitInv == QueueInit => IInv /\ QueueInv
<1> SUFFICES ASSUME QueueInit PROVE IInv /\ QueueInv
  OBVIOUS
<1>1. IInv
  BY InitInv DEF QueueInit
<1>2. QueueTyped /\ OnceEach /\ ServedHasLeft /\ OneConsumerEach
  BY DEF QueueInit, QueueTyped, OnceEach, ServedHasLeft, OneConsumerEach
<1>3. left \o queue = arrived
  BY DEF QueueInit
<1>4. AskedAfterwards
  BY QueueAssumption DEF QueueInit, Init, AskedAfterwards
<1>5. QED
  BY <1>1, <1>2, <1>3, <1>4 DEF QueueInv

LEMMA EnqueueInv ==
  ASSUME QueueInv, NEW i \in Items, Enqueue(i)
  PROVE  QueueInv'
<1> USE DEF Enqueue
<1>1. QueueTyped'
  BY DEF QueueInv, QueueTyped
<1>2. (left \o queue = arrived)'
  BY AppendBehind DEF QueueInv, QueueTyped
<1>3. OnceEach'
  <2>1. /\ Len(arrived) \in Nat /\ DOMAIN arrived = 1..Len(arrived)
        /\ DOMAIN arrived' = 1..(Len(arrived) + 1)
        /\ \A k \in 1..Len(arrived) : arrived'[k] = arrived[k]
        /\ arrived'[Len(arrived) + 1] = i
    BY DEF QueueInv, QueueTyped
  <2>2. \A k \in 1..Len(arrived) : arrived[k] # i
    BY <2>1 DEF Among
  <2>3. QED
    BY <2>1, <2>2 DEF QueueInv, OnceEach
<1>4. ServedHasLeft' /\ OneConsumerEach'
  BY DEF QueueInv, ServedHasLeft, OneConsumerEach, Among
<1>5. AskedAfterwards'
  BY DEF QueueInv, AskedAfterwards, Among, vars
<1>6. QED
  BY <1>1, <1>2, <1>3, <1>4, <1>5 DEF QueueInv

\* The object at the head: it has not left, so nobody is at it, and after it has left
\* the requests of the others are still to come.
LEMMA ProcessNextInv ==
  ASSUME IInv, QueueInv, NEW c \in Consumers, ProcessNext(c)
  PROVE  QueueInv' /\ [Next]_vars
<1> DEFINE i == Head(queue)
<1>1. /\ queue # <<>> /\ queue' = Tail(queue) /\ left' = Append(left, i)
      /\ serving[c] = "nothing" /\ arrived' = arrived
      /\ \/ Request(HandedTo[i]) /\ serving' = [serving EXCEPT ![c] = i]
         \/ UNCHANGED vars /\ serving' = serving
  BY DEF ProcessNext
<1>2. i \in Items /\ Tail(queue) \in Seq(Items) /\ Among(i, queue)
  <2>1. i \in Items /\ Tail(queue) \in Seq(Items) /\ i = queue[1] /\ 1 \in DOMAIN queue
    BY <1>1, HeadTailProperties DEF QueueInv, QueueTyped
  <2>2. QED
    BY <2>1 DEF Among
<1>3. ~Among(i, left)
  BY <1>2, QueuedOrLeft DEF QueueInv
<1>4. \A x : Among(x, left') <=> (Among(x, left) \/ x = i)
  BY <1>1, <1>2, AmongAppend DEF QueueInv, QueueTyped
<1>5. QueueTyped'
  BY <1>1, <1>2 DEF QueueInv, QueueTyped
<1>6. (left \o queue = arrived)'
  BY <1>1, MoveHead DEF QueueInv, QueueTyped
<1>7. OnceEach'
  BY <1>1 DEF QueueInv, OnceEach
<1>8. ServedHasLeft' /\ OneConsumerEach'
  <2>1. \A d \in Consumers : serving[d] # "nothing" => Among(serving[d], left) /\ serving[d] # i
    BY <1>3 DEF QueueInv, ServedHasLeft
  <2>2. \A d \in Consumers : serving'[d] = serving[d] \/ (d = c /\ serving'[d] = i)
    BY <1>1 DEF QueueInv, QueueTyped
  <2>3. QED
    BY <1>4, <2>1, <2>2 DEF QueueInv, ServedHasLeft, OneConsumerEach
<1>9. AskedAfterwards'
  <2> SUFFICES ASSUME NEW j \in Items, ~Among(j, left') PROVE status'[HandedTo[j]] = "absent"
    BY DEF AskedAfterwards
  <2>1. ~Among(j, left) /\ j # i
    BY <1>4
  <2>2. status[HandedTo[j]] = "absent" /\ HandedTo[j] # HandedTo[i]
    BY <1>2, <2>1, QueueAssumption DEF QueueInv, AskedAfterwards
  <2>3. HandedTo[j] \in Requests /\ Shape
    BY PerRequest, QueueAssumption
  <2>4. QED
    BY <1>1, <2>2, <2>3 DEF Request, vars, Shape
<1>10. [Next]_vars
  <2>1. HandedTo[i] \in Requests
    BY <1>2, QueueAssumption
  <2>2. QED
    BY <1>1, <2>1 DEF Next, Coroutine
<1>11. QED
  BY <1>5, <1>6, <1>7, <1>8, <1>9, <1>10 DEF QueueInv

LEMMA ProcessReturnsInv ==
  ASSUME QueueInv, NEW c \in Consumers, ProcessReturns(c)
  PROVE  QueueInv'
<1>1. QueueTyped' /\ (left \o queue = arrived)' /\ OnceEach' /\ AskedAfterwards'
  BY DEF ProcessReturns, QueueInv, QueueTyped, OnceEach, AskedAfterwards, Among, vars
<1>2. \A d \in Consumers : serving'[d] = serving[d] \/ serving'[d] = "nothing"
  BY DEF ProcessReturns, QueueInv, QueueTyped
<1>3. left' = left
  BY DEF ProcessReturns
<1>4. ServedHasLeft' /\ OneConsumerEach'
  BY <1>2, <1>3 DEF QueueInv, ServedHasLeft, OneConsumerEach, Among
<1>5. QED
  BY <1>1, <1>4 DEF QueueInv

LEMMA ClearInv ==
  ASSUME QueueInv, Clear
  PROVE  QueueInv'
<1>1. QueueTyped' /\ left' = arrived' /\ queue' = <<>> /\ arrived' = arrived
  BY DEF Clear, QueueInv, QueueTyped
<1>2. (left \o queue = arrived)'
  BY <1>1, ConcatEmptySeq DEF QueueTyped
<1>3. \A x : Among(x, left) => Among(x, left')
  BY AmongConcat DEF Clear, QueueInv, QueueTyped
<1>4. ServedHasLeft' /\ OneConsumerEach' /\ OnceEach' /\ AskedAfterwards'
  BY <1>1, <1>3 DEF Clear, QueueInv, ServedHasLeft, OneConsumerEach, OnceEach, AskedAfterwards, vars
<1>5. QED
  BY <1>1, <1>2, <1>4 DEF QueueInv

\* The gate makes no request of HandedTo by itself, and resolves only what is pending.
LEMMA GateStepInv ==
  ASSUME IInv, QueueInv, GateStep
  PROVE  QueueInv' /\ [Next]_vars
<1>1. Shape /\ \A r \in Requests : OneInv(r)
  BY PerRequest
<1>2. ASSUME NEW j \in Items, status[HandedTo[j]] = "absent"
      PROVE  status'[HandedTo[j]] = "absent"
  <2> DEFINE h == HandedTo[j]
  <2>1. h \in Requests /\ waiter[h] = "idle"
    BY <1>1, <1>2, QueueAssumption DEF OneInv
  <2>2. ASSUME NEW r \in Requests, r # h, Request(r) PROVE status'[h] = "absent"
    BY <1>1, <1>2, <2>1, <2>2 DEF Request, Shape
  <2>3. ASSUME NEW r \in Requests, TimerFires(r) \/ Resume(r) \/ Abandon(r)
        PROVE status'[h] = "absent"
    BY <1>2, <2>3 DEF TimerFires, Resume, Abandon
  <2>4. ASSUME NEW r \in Requests, ResumeTimedOut(r) PROVE status'[h] = "absent"
    BY <1>1, <1>2, <2>1, <2>4 DEF ResumeTimedOut, Shape
  <2>5. ASSUME NEW r \in Requests, NEW answer \in Answers, Respond(r, answer)
        PROVE status'[h] = "absent"
    BY <1>1, <1>2, <2>1, <2>5 DEF Respond, Shape
  <2>6. ASSUME NEW s \in Sessions, CancelSession(s) PROVE status'[h] = "absent"
    BY <1>2, <2>1, <2>6 DEF CancelSession
  <2>7. QED
    BY <2>2, <2>3, <2>4, <2>5, <2>6 DEF GateStep, Outside
<1>3. AskedAfterwards'
  BY <1>2 DEF GateStep, queueVars, QueueInv, AskedAfterwards, Among
<1>4. QueueInv'
  BY <1>3 DEF GateStep, queueVars, QueueInv, QueueTyped, OnceEach, ServedHasLeft,
     OneConsumerEach, Among
<1>5. [Next]_vars
  BY DEF GateStep, Next, Coroutine
<1>6. QED
  BY <1>4, <1>5

LEMMA QueueStepInv == IInv /\ QueueInv /\ [QueueNext]_allVars => QueueInv' /\ [Next]_vars
<1> SUFFICES ASSUME IInv, QueueInv, [QueueNext]_allVars PROVE QueueInv' /\ [Next]_vars
  OBVIOUS
<1>1. ASSUME NEW i \in Items, Enqueue(i) PROVE QueueInv' /\ [Next]_vars
  BY <1>1, EnqueueInv DEF Enqueue
<1>2. ASSUME NEW c \in Consumers, Consumer(c) PROVE QueueInv' /\ [Next]_vars
  BY <1>2, ProcessNextInv, ProcessReturnsInv DEF Consumer, ProcessReturns
<1>3. CASE Clear
  BY <1>3, ClearInv DEF Clear
<1>4. CASE GateStep
  BY <1>4, GateStepInv
<1>5. CASE UNCHANGED allVars
  <2>1. UNCHANGED vars /\ UNCHANGED <<queue, serving, arrived, left>> /\ UNCHANGED status
    BY <1>5 DEF allVars, queueVars, vars
  <2>2. QED
    BY <2>1 DEF QueueInv, QueueTyped, OnceEach, ServedHasLeft, OneConsumerEach,
       AskedAfterwards, Among
<1>6. QED
  BY <1>1, <1>2, <1>3, <1>4, <1>5 DEF QueueNext

LEMMA QueueInvariance == QueueSpec => [](IInv /\ QueueInv)
<1>1. IInv /\ QueueInv /\ [QueueNext]_allVars => IInv' /\ QueueInv'
  BY QueueStepInv, StepInv
<1>2. QED
  BY <1>1, QueueInitInv, PTL DEF QueueSpec

-----------------------------------------------------------------------------

\* The composition implements the gate, fairness included: whatever queue and
\* consumers do is, seen from the gate, a step the gate may take by itself.
THEOREM QueueKeepsGate == QueueSpec => EventSpec
<1>1. QueueInit => Init
  BY DEF QueueInit
<1>2. QED
  BY <1>1, QueueStepInv, QueueInvariance, PTL DEF QueueSpec, EventSpec, Spec

\* What a human was told stands, with the queue in front as well.
THEOREM AnswersStandBehindQueue == QueueSpec => []AnswerStands
BY QueueKeepsGate, AnswersStand, PTL DEF EventSpec

\* process_next gets a resolved request back from the gate, or none at all.
THEOREM OnlyResolvedBehindQueue == QueueSpec => []ReturnsResolved
BY QueueKeepsGate, OnlyResolvedReturned, PTL DEF EventSpec

\* The queue hands over every object once and in order, to one consumer, and asks
\* the human for none that is still queued.
THEOREM ServesOnceInOrder == QueueSpec => []ServedOnceInOrder
<1>1. QueueInv => ServedOnceInOrder
  <2> SUFFICES ASSUME QueueInv PROVE ServedOnceInOrder
    OBVIOUS
  <2>1. \A i \in Items : Among(i, queue) => status[HandedTo[i]] = "absent"
    BY QueuedOrLeft DEF QueueInv, AskedAfterwards
  <2>2. QED
    BY <2>1 DEF QueueInv, OneConsumerEach, ServedOnceInOrder
<1>2. QED
  BY <1>1, QueueInvariance, PTL
==============================================================================
