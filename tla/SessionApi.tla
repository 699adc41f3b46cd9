------------------------------ MODULE SessionApi ------------------------------
(***************************************************************************)
(* The HTTP session API (api/routes.py) on top of ConnectionManager: the   *)
(* in-memory store of sessions, start_execution and run_demo, and the      *)
(* background tasks that run the pipeline and write its outcome back.      *)
(*                                                                         *)
(* The pipeline works on a state of its own, so all that the store ever    *)
(* sees of a run is its end: the mapping that LangGraph's ainvoke returns, *)
(* or a copy of what is there with the graph marked FAILED.  A stored      *)
(* mapping has none of the attributes the handlers read.  The handlers     *)
(* that only read, and the goal and files of a session, change nothing     *)
(* that is modelled.                                                       *)
(***************************************************************************)
EXTENDS ConnectionManager, FiniteSetsExt

\* The background tasks; each makes at most one broadcast, which goes by its name.
Runs == Broadcasts

VARIABLES sessions,      \* "absent"; "fresh" from create_initial_state; "failed",
                         \* the same with its graph FAILED; "values", a mapping
          run,           \* the background tasks
          pipeline       \* app.state.langraph_app is not None

apiVars == <<connectionVars, sessions, run, pipeline>>

Unused == [pc |-> "free", session |-> "none", quiet |-> FALSE]

ApiInit ==
  /\ ConnectionInit
  /\ sessions = [s \in Sessions |-> "absent"]
  /\ run = [r \in Runs |-> Unused]
  /\ pipeline \in BOOLEAN

-----------------------------------------------------------------------------
(* Handlers; each answers and changes what is modelled in one step.        *)

CreateSession(s) ==
  /\ sessions[s] = "absent"
  /\ sessions' = [sessions EXCEPT ![s] = "fresh"]

\* set_goal, get_session, get_graph and get_ledger answer 404 without the
\* session, and fail on a mapping.
HasAttributes(s) == sessions[s] \in {"fresh", "failed"}

\* sessions[s].current_phase.  No run ever writes the store's AgentState, and
\* update_graph_status keeps the phase.
Phase(s) == IF HasAttributes(s) THEN "UNDERSTAND_GOAL" ELSE "none"

CanStart(s) == Phase(s) = "UNDERSTAND_GOAL" /\ pipeline

\* asyncio.create_task(run_pipeline()).
Start(s, r) ==
  /\ CanStart(s)
  /\ run[r].pc = "free"
  /\ run' = [run EXCEPT ![r] = [pc |-> "running", session |-> s, quiet |-> FALSE]]
  /\ UNCHANGED sessions

\* run_demo: a session of its own, whose run reports to nobody.  Without a
\* pipeline the session is all there is.
RunDemo(s, r) ==
  /\ CreateSession(s)
  /\ run[r].pc = "free"
  /\ run' = IF pipeline
            THEN [run EXCEPT ![r] = [pc |-> "running", session |-> s, quiet |-> TRUE]]
            ELSE run
  /\ UNCHANGED <<connectionVars, pipeline>>

-----------------------------------------------------------------------------
(* The background task *)

\* The event that ends a run, sent unless it is a demo's.
Announce(r, message) ==
  IF run[r].quiet THEN UNCHANGED sending ELSE Broadcast(r, run[r].session, message)

\* Mutant of Settled: the outcome goes to the task and not to the store.
SettledInTask(r, outcome) ==
  /\ run' = [run EXCEPT ![r].pc = outcome]
  /\ UNCHANGED <<active, endpoint, peer, sessionOf, inbox, sessions, pipeline>>

Settled(r, outcome) ==
  /\ sessions' = [sessions EXCEPT ![run[r].session] = outcome]
  /\ run' = [run EXCEPT ![r].pc = "done"]
  /\ UNCHANGED <<active, endpoint, peer, sessionOf, inbox, pipeline>>

\* ainvoke returns: the mapping is stored, then END is announced.
Returns(r) ==
  /\ run[r].pc = "running"
  /\ Announce(r, "END")
  /\ Settled(r, "values")

\* Mutant of Raises: the failure of one run overwrites the result of another.
RaisesAnyway(r) ==
  /\ run[r].pc = "running"
  /\ Announce(r, "error")
  /\ Settled(r, "failed")

\* ainvoke raises (GraphRecursionError, for one): the graph of what is stored is
\* marked FAILED and the error is announced.
Raises(r) ==
  /\ run[r].pc = "running" /\ HasAttributes(run[r].session)
  /\ Announce(r, "error")
  /\ Settled(r, "failed")

\* The same when another run of the session has stored its mapping: the
\* exception handler itself raises, nothing is stored and nobody hears of it.
RaisesUnheard(r) ==
  /\ run[r].pc = "running" /\ ~HasAttributes(run[r].session)
  /\ run' = [run EXCEPT ![r].pc = "died"]
  /\ UNCHANGED <<connectionVars, sessions, pipeline>>

Background(r) == Returns(r) \/ Raises(r) \/ RaisesUnheard(r)

-----------------------------------------------------------------------------
(* Clients and the network *)

\* A socket number is used again once nobody refers to the old connection.
FreeSockets ==
  {c \in Sockets : /\ endpoint[c] = "none"
                   /\ \A b \in Broadcasts : c \notin sending[b].dead}

\* A client opens a connection; any session id will do.
Open(s) ==
  /\ FreeSockets # {}
  /\ LET c == Min(FreeSockets)
     IN  /\ endpoint' = [endpoint EXCEPT ![c] = "accepting"]
         /\ peer' = [peer EXCEPT ![c] = "up"]
         /\ sessionOf' = [sessionOf EXCEPT ![c] = s]
         /\ inbox' = [inbox EXCEPT ![c] = <<>>]
  /\ UNCHANGED <<active, sending>>

Receive(c) ==
  /\ peer[c] = "up" /\ inbox[c] # <<>>
  /\ inbox' = [inbox EXCEPT ![c] = Tail(@)]
  /\ UNCHANGED <<active, endpoint, peer, sessionOf, sending>>

Drop(c) ==
  /\ peer[c] = "up"
  /\ Gone({c})
  /\ UNCHANGED <<active, endpoint, sessionOf>>

-----------------------------------------------------------------------------

Connections ==
  \/ \E c \in Sockets : Endpoint(c) \/ Leave(c) \/ Receive(c) \/ Drop(c)
  \/ \E b \in Broadcasts : Sender(b)
  \/ \E s \in Sessions : Open(s)

Handlers ==
  \/ \E s \in Sessions : CreateSession(s) /\ UNCHANGED <<connectionVars, run, pipeline>>
  \/ \E s \in Sessions, r \in Runs :
        RunDemo(s, r) \/ (Start(s, r) /\ UNCHANGED <<connectionVars, pipeline>>)

Next ==
  \/ Connections /\ UNCHANGED <<sessions, run, pipeline>>
  \/ Handlers
  \/ \E r \in Runs : Background(r)

Spec == ApiInit /\ [][Next]_apiVars

\* The event loop resumes endpoints, and receive_text raises once the peer has
\* gone.  Nothing is assumed of clients, the network, runs and broadcasts.
EndpointFairness ==
  \A c \in Sockets :
     WF_apiVars((Endpoint(c) \/ (peer[c] = "gone" /\ Leave(c))) /\ UNCHANGED <<sessions, run, pipeline>>)

FairSpec == Spec /\ EndpointFairness

-----------------------------------------------------------------------------
(* Properties *)

\* Every variable stays in its range.
TypeOK ==
  /\ ConnectionTypeOK
  /\ sessions \in [Sessions -> {"absent", "fresh", "failed", "values"}]
  /\ run \in [Runs -> [pc : {"free", "running", "done", "died"},
                       session : Sessions \cup {"none"}, quiet : BOOLEAN]]
  /\ pipeline \in BOOLEAN

\* What has been announced stays true of the store, with several runs of one
\* session ending in any order: after END there is the result, and no failure
\* takes its place; after an error the session is not as good as new.
AnnouncedIsStored ==
  /\ \A b \in Broadcasts :
       /\ sending[b].message = "END" => sessions[sending[b].session] = "values"
       /\ sending[b].message = "error" => sessions[sending[b].session] \in {"failed", "values"}
  /\ \A c \in Sockets :
       "END" \in ToSet(inbox[c]) => sessions[sessionOf[c]] = "values"

\* The comment at routes.py:197: "Prevent duplicate starts".
NoDuplicateStart ==
  \A q, r \in Runs :
     (run[q].pc = "running" /\ run[r].pc = "running" /\ run[q].session = run[r].session)
        => q = r
=============================================================================
