---------------------------- MODULE ApprovalQueue ----------------------------
(***************************************************************************)
(* ApprovalQueue (approval/approval_queue.py) in front of its gate.        *)
(*                                                                         *)
(* process_next never awaits the object it dequeues: it asks the gate for  *)
(* a request of its own, with a new id.  HandedTo says which; an object    *)
(* made by enqueue_new is not known to the gate and stays pending for      *)
(* good, one of enqueue is a request the gate knows.                       *)
(***************************************************************************)
EXTENDS ApprovalGate, Sequences

CONSTANTS Items,      \* the objects that are ever enqueued
          HandedTo,   \* the request process_next makes for an object
          Consumers   \* the coroutines that call process_next or process_all

\* An object is a request of the gate, or one of enqueue_new's.
ASSUME QueueAssumption ==
  /\ HandedTo \in [Items -> Requests]
  /\ \A i, j \in Items : HandedTo[i] = HandedTo[j] => i = j
  /\ \A i \in Items : HandedTo[i] \notin Items

VARIABLES queue,      \* _queue
          serving,    \* the object each consumer is processing, "nothing" between two
          arrived,    \* history: the objects enqueued, in order
          left        \* history: the objects taken out, in order, and how each left

queueVars == <<queue, serving, arrived, left>>
allVars == <<vars, queueVars>>

QueueInit ==
  /\ Init
  /\ queue = <<>>
  /\ serving = [c \in Consumers |-> "nothing"]
  /\ arrived = <<>>
  /\ left = <<>>

New(i) == i \notin Requests

\* request.status of an object in the queue.
StatusOf(i) == IF New(i) THEN "pending" ELSE status[i]

Among(i, s) == \E k \in DOMAIN s : s[k] = i

\* enqueue of a request of the gate, which a caller has from get_pending or from
\* request_approval itself, or enqueue_new.
Enqueue(i) ==
  /\ ~Among(i, arrived) /\ StatusOf(i) # "absent"
  /\ queue' = Append(queue, i)
  /\ arrived' = Append(arrived, i)
  /\ UNCHANGED <<vars, serving, left>>

\* Mutant of ProcessNext: the object is peeked at and stays in the queue.
ProcessPeeked(c) ==
  LET i == Head(queue)
  IN  /\ queue # <<>> /\ serving[c] = "nothing"
      /\ StatusOf(i) = "pending"
      /\ Request(HandedTo[i])
      /\ serving' = [serving EXCEPT ![c] = i]
      /\ left' = Append(left, i)
      /\ UNCHANGED <<queue, arrived>>

\* process_next up to the await of the gate.  An object resolved meanwhile is
\* returned at once; on an empty queue the caller gets None.
ProcessNext(c) ==
  LET i == Head(queue)
  IN  /\ queue # <<>> /\ serving[c] = "nothing"
      /\ queue' = Tail(queue)
      /\ left' = Append(left, i)
      /\ IF StatusOf(i) = "pending"
         THEN Request(HandedTo[i]) /\ serving' = [serving EXCEPT ![c] = i]
         ELSE UNCHANGED <<vars, serving>>
      /\ UNCHANGED arrived

\* The gate has returned the request it made, or the consumer's task was cancelled;
\* process_all goes on with the next object.
ProcessReturns(c) ==
  /\ serving[c] # "nothing" /\ waiter[HandedTo[serving[c]]] \in {"returned", "abandoned"}
  /\ serving' = [serving EXCEPT ![c] = "nothing"]
  /\ UNCHANGED <<vars, queue, arrived, left>>

\* clear.
Clear ==
  /\ queue # <<>>
  /\ queue' = <<>>
  /\ left' = left \o queue
  /\ UNCHANGED <<vars, serving, arrived>>

Consumer(c) == ProcessNext(c) \/ ProcessReturns(c)

\* Everything that may happen to the gate besides; the requests of HandedTo are
\* made by consumers only.
GateStep ==
  /\ \/ \E r \in Requests : \/ (\A i \in Items : HandedTo[i] # r) /\ Request(r)
                            \/ TimerFires(r) \/ Resume(r) \/ ResumeTimedOut(r) \/ Abandon(r)
     \/ Outside
  /\ UNCHANGED queueVars

QueueNext ==
  (\E i \in Items : Enqueue(i)) \/ (\E c \in Consumers : Consumer(c)) \/ Clear \/ GateStep

\* The loop resumes what is ready, with or without a queue in front.
QueueSpec == QueueInit /\ [][QueueNext]_allVars /\ LoopFairness

-----------------------------------------------------------------------------

\* The queue is FIFO and hands over every object once, however many consumers
\* process it and whatever is enqueued or cleared meanwhile: what has left it and
\* what is in it are, together and in this order, what has been enqueued; no two
\* consumers are at the same object; and the human is asked for no object that is
\* still queued.
ServedOnceInOrder ==
  /\ left \o queue = arrived
  /\ \A c, d \in Consumers : (serving[c] = serving[d] /\ serving[c] # "nothing") => c = d
  /\ \A i \in Items : Among(i, queue) => status[HandedTo[i]] = "absent"
=============================================================================
