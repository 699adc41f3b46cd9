---------------------------- MODULE AgentServices ----------------------------
(***************************************************************************)
(* The agents that ask language models and the worker, on one event loop.  *)
(***************************************************************************)
EXTENDS LlmAgents, WorkerAgent

vars == <<routerVars, agentVars, workerVars>>

Init == RouterInit /\ AgentInit /\ WorkerInit

\* The methods of supervisor and planner.
Agents ==
  /\ \E c \in AgentCalls : AgentStep(c) \/ (\E m \in Methods : Ask(c, m))
  /\ UNCHANGED workerVars

\* The worker, the model it asks, and whoever changes its tools.
Workers ==
  /\ \/ \E t \in Tasks : TaskStep(t)
     \/ /\ (\E c \in Routed : ModelStep(c)) \/ ResetUsage
        /\ UNCHANGED workerVars
     \/ /\ \E tool \in WorkerTools : Unregister(tool) \/ RegisterTool(tool)
        /\ UNCHANGED routerVars
  /\ UNCHANGED agentVars

Next == Agents \/ Workers

Spec == Init /\ [][Next]_vars

\* Models and tools answer or fail: the HTTP clients have timeouts, the tools
\* return canned data.  The event loop resumes what slept or has an answer.  That
\* anybody asks for anything is not assumed.
Progress ==
  /\ \A c \in AgentCalls : WF_vars(AgentStep(c) /\ Agents)
  /\ \A c \in Routed : WF_vars(ModelStep(c) /\ Workers)
  /\ \A t \in Tasks : WF_vars(TaskStep(t) /\ work[t].pc # "idle" /\ Workers)

FairSpec == Spec /\ Progress

-----------------------------------------------------------------------------

\* Every variable stays in its range.
TypeOK == RouterTypeOK /\ AgentTypeOK /\ WorkerTypeOK

\* Whoever is told of failure is told so late enough: RuntimeError of the router
\* means that every model was given up on, a failed task that no tool of the chain
\* was left out, the usage log agrees, and methods with a fallback of their own never pass
\* the RuntimeError on.
FailureIsExhaustive ==
  RaisedMeansExhausted /\ LogIsTruthful /\ FallbacksCover /\ WorkerExhausted

\* Every retry loop and every walk along a chain ends, whatever fails meanwhile and
\* however tools come and go: who asks is answered.
EverybodyIsAnswered ==
  /\ \A c \in Calls : call[c].pc = "waiting" ~> call[c].pc \in {"returned", "raised"}
  /\ \A t \in Tasks :
        work[t].pc = "assessing" ~> work[t].pc \in {"succeeded", "failed", "rejected"}
=============================================================================
