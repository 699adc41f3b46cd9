----------------------------- MODULE ApprovalGate -----------------------------
(***************************************************************************)
(* ApprovalGate (approval/approval_gate.py): coroutines that wait for a    *)
(* human, the human's answers, the timeout of asyncio.wait_for and the     *)
(* cancellation of a session, on one event loop.                           *)
(*                                                                         *)
(* Code between two awaits is one action.  A coroutine whose event is set, *)
(* or whose timer has fired, runs again only when the loop resumes it, and *)
(* anything may happen before that; the timer may also fire after the      *)
(* event was set, and then wait_for may raise TimeoutError all the same.   *)
(* Every request has an id of its own, so each element of Requests stands  *)
(* for one call of request_approval.                                       *)
(***************************************************************************)

CONSTANTS Requests,   \* the calls of request_approval
          Sessions,   \* the sessions they belong to
          SessionOf   \* request.session_id

ASSUME SessionOfAssumption == SessionOf \in [Requests -> Sessions]

VARIABLES status,  \* request.status, "absent" before the call
          event,   \* the entry of _approval_events: "none", "clear" or "set"
          waiter,  \* where the coroutine in request_approval is
          told     \* history: the status a successful respond() has returned

vars == <<status, event, waiter, told>>

Answers == {"approved", "rejected"}
Resolved == Answers \cup {"expired"}

Init ==
  /\ status = [r \in Requests |-> "absent"]
  /\ event = [r \in Requests |-> "none"]
  /\ waiter = [r \in Requests |-> "idle"]
  /\ told = [r \in Requests |-> "nothing"]

-----------------------------------------------------------------------------
(* request_approval *)

\* Up to the await: the request and its event are registered.
Request(r) ==
  /\ waiter[r] = "idle"
  /\ status' = [status EXCEPT ![r] = "pending"]
  /\ event' = [event EXCEPT ![r] = "clear"]
  /\ waiter' = [waiter EXCEPT ![r] = "waiting"]
  /\ UNCHANGED told

\* wait_for's timer; the coroutine will see a TimeoutError.
TimerFires(r) ==
  /\ waiter[r] = "waiting"
  /\ waiter' = [waiter EXCEPT ![r] = "timing_out"]
  /\ UNCHANGED <<status, event, told>>

\* Back from the await, in order: the finally clause, the return.
Resume(r) ==
  /\ waiter[r] = "waiting" /\ event[r] = "set"
  /\ event' = [event EXCEPT ![r] = "none"]
  /\ waiter' = [waiter EXCEPT ![r] = "returned"]
  /\ UNCHANGED <<status, told>>

\* Mutants of ResumeTimedOut: whatever the request says, it expires; it never
\* does; it gets a status no one knows; the coroutine goes back to waiting.
TimedOutAlways(r) ==
  /\ waiter[r] = "timing_out"
  /\ status' = [status EXCEPT ![r] = "expired"]
  /\ event' = [event EXCEPT ![r] = "none"]
  /\ waiter' = [waiter EXCEPT ![r] = "returned"]
  /\ UNCHANGED told

TimedOutPending(r) ==
  /\ waiter[r] = "timing_out"
  /\ event' = [event EXCEPT ![r] = "none"]
  /\ waiter' = [waiter EXCEPT ![r] = "returned"]
  /\ UNCHANGED <<status, told>>

TimedOutUnknown(r) ==
  /\ waiter[r] = "timing_out"
  /\ status' = [status EXCEPT ![r] = IF @ = "pending" THEN "timed_out" ELSE @]
  /\ event' = [event EXCEPT ![r] = "none"]
  /\ waiter' = [waiter EXCEPT ![r] = "returned"]
  /\ UNCHANGED told

TimedOutAgain(r) ==
  /\ waiter[r] = "timing_out"
  /\ waiter' = [waiter EXCEPT ![r] = "waiting"]
  /\ UNCHANGED <<status, event, told>>

\* Back with a TimeoutError: expired, but "only if still pending".
ResumeTimedOut(r) ==
  /\ waiter[r] = "timing_out"
  /\ status' = [status EXCEPT ![r] = IF @ = "pending" THEN "expired" ELSE @]
  /\ event' = [event EXCEPT ![r] = "none"]
  /\ waiter' = [waiter EXCEPT ![r] = "returned"]
  /\ UNCHANGED told

\* The task of the coroutine is cancelled: only the finally clause runs, and a
\* pending request stays pending with nobody waiting for it.
Abandon(r) ==
  /\ waiter[r] \in {"waiting", "timing_out"}
  /\ event' = [event EXCEPT ![r] = "none"]
  /\ waiter' = [waiter EXCEPT ![r] = "abandoned"]
  /\ UNCHANGED <<status, told>>

-----------------------------------------------------------------------------
(* The other side *)

\* Mutant of SetIfPresent: the event is forgotten.
LeaveEvent(e) == e

SetIfPresent(e) == IF e = "clear" THEN "set" ELSE e

\* respond.  An id that is unknown or not pending any more returns None and
\* changes nothing.
Respond(r, answer) ==
  /\ status[r] = "pending"
  /\ status' = [status EXCEPT ![r] = answer]
  /\ event' = [event EXCEPT ![r] = SetIfPresent(@)]
  /\ told' = [told EXCEPT ![r] = answer]
  /\ UNCHANGED waiter

\* cancel_pending_for_session: all pending requests of the session at once.
CancelSession(s) ==
  LET cancelled == {r \in Requests : SessionOf[r] = s /\ status[r] = "pending"}
  IN  /\ cancelled # {}
      /\ status' = [r \in Requests |-> IF r \in cancelled THEN "expired" ELSE status[r]]
      /\ event' = [r \in Requests |->
                     IF r \in cancelled THEN SetIfPresent(event[r]) ELSE event[r]]
      /\ UNCHANGED <<waiter, told>>

-----------------------------------------------------------------------------

Coroutine(r) ==
  Request(r) \/ TimerFires(r) \/ Resume(r) \/ ResumeTimedOut(r) \/ Abandon(r)

Outside ==
  \/ \E r \in Requests, answer \in Answers : Respond(r, answer)
  \/ \E s \in Sessions : CancelSession(s)

Finished ==
  /\ \A r \in Requests : waiter[r] \in {"returned", "abandoned"} /\ status[r] # "pending"
  /\ UNCHANGED vars

Next == (\E r \in Requests : Coroutine(r)) \/ Outside \/ Finished

Spec == Init /\ [][Next]_vars

\* The event loop resumes what is ready.
LoopFairness ==
  \A r \in Requests : WF_vars(Resume(r)) /\ WF_vars(ResumeTimedOut(r))

\* Nothing is assumed of timers, humans and cancellations.
EventSpec == Spec /\ LoopFairness

\* What a caller may rely on in addition: timeouts are finite
\* (APPROVAL_TIMEOUT_SECONDS is 300) and the loop's timers fire.
TimersFire == \A r \in Requests : WF_vars(TimerFires(r))

-----------------------------------------------------------------------------
(* Properties *)

\* Every variable stays in its range.
TypeOK ==
  /\ status \in [Requests -> {"absent", "pending"} \cup Resolved]
  /\ event \in [Requests -> {"none", "clear", "set"}]
  /\ waiter \in [Requests -> {"idle", "waiting", "timing_out", "returned", "abandoned"}]
  /\ told \in [Requests -> {"nothing"} \cup Answers]

\* What a human was told has been recorded is what the request says for ever
\* after: no timeout and no cancellation that races with the answer wins, and
\* an answer on record is one somebody gave.
AnswerStands ==
  \A r \in Requests :
     /\ told[r] # "nothing" => status[r] = told[r]
     /\ status[r] \in Answers => told[r] = status[r]

\* request_approval never returns a pending request, and leaves no event behind.
ReturnsResolved ==
  \A r \in Requests :
     /\ waiter[r] = "returned" => status[r] \in Resolved
     /\ waiter[r] \in {"returned", "abandoned"} => event[r] = "none"

\* No wake-up is lost: a coroutine that waits for a resolved request has its
\* event set, and a set event belongs to a resolved request.
NoLostSignal ==
  \A r \in Requests :
     /\ (waiter[r] = "waiting" /\ status[r] # "pending") => event[r] = "set"
     /\ event[r] = "set" => status[r] \in Resolved

\* A request is resolved once: approved, rejected and expired are final.
ResolvedOnce ==
  [][\A r \in Requests : status[r] \in Resolved => status'[r] = status[r]]_vars

\* A coroutine whose request has been answered gets away, timer or not.
AnsweredIsReleased ==
  \A r \in Requests :
     (waiter[r] = "waiting" /\ status[r] \in Resolved)
        ~> waiter[r] \in {"returned", "abandoned"}

\* With the timers nobody waits for ever for a human who does not answer.
NobodyWaitsForever ==
  TimersFire => \A r \in Requests :
                  waiter[r] = "waiting" ~> waiter[r] \in {"returned", "abandoned"}

-----------------------------------------------------------------------------
(* The inductive strengthening of the properties above *)

\* A request exists from its coroutine's first step on, and a waiting coroutine
\* has an event.
WaiterInv ==
  \A r \in Requests :
     /\ waiter[r] = "idle" <=> status[r] = "absent"
     /\ waiter[r] = "idle" => event[r] = "none"
     /\ waiter[r] = "waiting" => event[r] # "none"

IInv == TypeOK /\ AnswerStands /\ ReturnsResolved /\ NoLostSignal /\ WaiterInv
=============================================================================
