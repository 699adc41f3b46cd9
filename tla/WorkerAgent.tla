----------------------------- MODULE WorkerAgent -----------------------------
(***************************************************************************)
(* WorkerAgent and its own ToolRegistry (agents/worker.py).  For a tool of *)
(* a high-risk category the worker asks a model first, through a caller's  *)
(* adapter around the router; it then walks the tool's fallback chain.     *)
(* Tools come and go meanwhile.                                            *)
(***************************************************************************)
EXTENDS ModelRouter, SequencesExt

CONSTANTS Tasks,         \* the tasks given to execute_task
          ToolOf,        \* task.input["tool"]
          Consulting,    \* the tasks executed with a model_router
          RiskCallOf,    \* the router call a task's assessment would make
          WorkerTools,   \* the names of tools
          HighRisk,      \* the tools of category EMAIL or GENERAL
          Handlers,      \* the tools registered with a handler
          WorkerChain    \* ToolRegistration.fallback_chain

\* A chain names no tool twice: the walk ends with the first failure of a tool that
\* has the name of the last one.
ASSUME WorkerAssumption ==
  /\ ToolOf \in [Tasks -> WorkerTools] /\ RiskCallOf \in [Tasks -> Routed]
  /\ \A tool \in WorkerTools :
        /\ WorkerChain[tool] \in Seq(WorkerTools \ {tool})
        /\ \A i, j \in DOMAIN WorkerChain[tool] : WorkerChain[tool][i] = WorkerChain[tool][j] => i = j

VARIABLES registered,    \* ToolRegistry._tools
          work           \* the coroutines in execute_task; history: the tools they
                         \* tried and the names they skipped

workerVars == <<registered, work>>

WorkerInit ==
  /\ registered = WorkerTools
  /\ work = [t \in Tasks |-> [pc |-> "idle", chain |-> <<>>, at |-> 0, tried |-> {}, skipped |-> {}]]

Unregister(tool) ==
  /\ tool \in registered
  /\ registered' = registered \ {tool}
  /\ UNCHANGED work

RegisterTool(tool) ==
  /\ tool \notin registered
  /\ registered' = registered \cup {tool}
  /\ UNCHANGED work

\* resolve_fallback_chain: of a tool that is gone, nothing but its name is known.
ResolveFallbackChain(tool) ==
  IF tool \in registered THEN <<tool>> \o WorkerChain[tool] ELSE <<tool>>

\* Mutant of Walked: an unregistered name ends the walk.
WalkedUntilGone(w) ==
  LET i == w.at + 1
  IN  IF i <= Len(w.chain) /\ w.chain[i] \in registered \cap Handlers
      THEN [w EXCEPT !.pc = "calling", !.at = i] ELSE [w EXCEPT !.pc = "failed"]

\* The loop of execute_with_fallback from one suspension to the next: names that
\* are not registered are skipped, a tool without a handler fails at once, and the
\* failure of a tool that has the name of the last one ends the walk.
Walked(w) ==
  LET later == (w.at + 1)..Len(w.chain)
      fails(i) == w.chain[i] \in registered \ Handlers
      callable == {j \in later :
                     /\ w.chain[j] \in registered \cap Handlers
                     /\ \A i \in later : (i < j /\ fails(i)) => w.chain[i] # Last(w.chain)}
      next == IF callable = {} THEN Len(w.chain) + 1 ELSE Min(callable)
      failing == {w.chain[i] : i \in {j \in later : j < next /\ fails(j)}}
      missing == {w.chain[i] : i \in {j \in later : j < next /\ w.chain[j] \notin registered}}
  IN  [pc |-> IF callable = {} THEN "failed" ELSE "calling", chain |-> w.chain, at |-> next,
       tried |-> w.tried \cup failing, skipped |-> w.skipped \cup missing]

Executing(t) == Walked([work[t] EXCEPT !.chain = ResolveFallbackChain(ToolOf[t])])

Assessable(t) == ToolOf[t] \in registered \cap HighRisk /\ t \in Consulting

\* execute_task where no model is asked: a tool nobody registered, one of low or
\* medium risk, or no model_router.
StartTask(t) ==
  /\ work[t].pc = "idle" /\ ~Assessable(t)
  /\ work' = [work EXCEPT ![t] = IF ToolOf[t] \in registered THEN Executing(t)
                                 ELSE [@ EXCEPT !.pc = "rejected"]]
  /\ UNCHANGED <<registered, routerVars>>

\* execute_task for a tool of high risk: the model is asked.
StartAssessment(t) ==
  /\ work[t].pc = "idle" /\ Assessable(t)
  /\ CallModel(RiskCallOf[t])
  /\ work' = [work EXCEPT ![t].pc = "assessing"]
  /\ UNCHANGED registered

\* The model has judged, or has answered what is no risk level, or the call has
\* raised: then the category's HIGH stands.  Only CRITICAL stops the worker.
Assessed(t, level) ==
  LET c == RiskCallOf[t]
  IN  /\ work[t].pc = "assessing"
      /\ call[c].pc = "returned" \/ (call[c].pc = "raised" /\ level = "HIGH")
      /\ work' = [work EXCEPT ![t] = IF level = "CRITICAL" THEN [@ EXCEPT !.pc = "rejected"]
                                     ELSE Executing(t)]
      /\ UNCHANGED <<registered, routerVars>>

\* The handler returns or raises.
ToolSettles(t, success) ==
  LET w == [work[t] EXCEPT !.tried = @ \cup {work[t].chain[work[t].at]}]
  IN  /\ work[t].pc = "calling"
      /\ work' = [work EXCEPT ![t] =
            IF success THEN [w EXCEPT !.pc = "succeeded"]
            ELSE IF w.chain[w.at] = Last(w.chain) THEN [w EXCEPT !.pc = "failed"]
            ELSE Walked(w)]
      /\ UNCHANGED <<registered, routerVars>>

TaskStep(t) ==
  \/ StartTask(t) \/ StartAssessment(t)
  \/ \E level \in {"LOW", "MEDIUM", "HIGH", "CRITICAL"} : Assessed(t, level)
  \/ \E success \in BOOLEAN : ToolSettles(t, success)

-----------------------------------------------------------------------------

WorkerTypeOK ==
  /\ registered \subseteq WorkerTools
  /\ work \in [Tasks -> [pc : {"idle", "assessing", "calling", "succeeded", "failed", "rejected"},
                         chain : Seq(WorkerTools), at : Nat,
                         tried : SUBSET WorkerTools, skipped : SUBSET WorkerTools]]
  /\ \A t \in Tasks : work[t].pc = "calling" => work[t].at \in DOMAIN work[t].chain

\* A task fails only when every name of its chain was tried or not registered when
\* its turn came, and a rejected task has touched no tool.
WorkerExhausted ==
  \A t \in Tasks :
     /\ work[t].pc = "failed" => ToSet(work[t].chain) \subseteq work[t].tried \cup work[t].skipped
     /\ work[t].pc = "rejected" => work[t].tried = {}
=============================================================================
