# Verification of the DO-IT agent

TLA+ models of the execution engine, the approval layer, the HTTP and WebSocket
API, the tool marketplace and the model-backed agents of this repository,
model-checked with TLC; every safety property TLC checks is also proved with TLAPS. All paths below are
relative to the repository.

1. [The system](#1-the-system)
2. [What is where](#2-what-is-where)
3. [The modules](#3-the-modules)
4. [The runs](#4-the-runs)
5. [The proofs](#5-the-proofs)
6. [Disagreements between code and documentation](#6-disagreements-between-code-and-documentation)
7. [Limits](#7-limits)
8. [What is left](#8-what-is-left)

## 1. The system

A user states a goal; a LangGraph pipeline plans tasks for it, builds a
dependency graph, executes the tasks in parallel, evaluates, replans on failure
and reports. FastAPI and a WebSocket give a React client access to it. Everything
in the backend runs on one asyncio event loop: control changes hands only at an
`await`, so the hazards are those of cooperative scheduling (state read before an
`await` and used after it, a list that changes while somebody walks it), of
timers, of retries and fallbacks, and of long sequences of legal steps.

| Component | State it keeps | Operations | Talks to |
|---|---|---|---|
| Agentic state machine `src/engine/state_machine.py` | `AgentState`: phase, plan, graph, flags and counters in `memory_context`, errors, ledger | 15 LangGraph nodes, 2 conditional edges | all of the engine, by calls |
| Parallel executor `src/engine/parallel_executor.py` | a semaphore per group, `completed_ids` per call | `execute_full_graph`, `execute_group` | worker, risk predictor (awaits) |
| Dependency graph builder `src/engine/dependency_graph.py` | none | `build`, `compute_parallel_groups`, `get_ready_tasks` | writes the graph's levels |
| Adaptive execution graph `src/engine/execution_graph.py` | the wrapped graph | `mutate_on_failure`, `get_affected_subgraph` | rewrites the graph the others read |
| Scheduler `src/engine/scheduler.py` | none | `schedule`, `reschedule_on_failure` | graph status, ledger |
| Approval gate `src/approval/approval_gate.py` | requests, an `asyncio.Event` per waiter | `request_approval`, `respond`, `cancel_pending_for_session` | HTTP and WebSocket handlers |
| Approval queue `src/approval/approval_queue.py` | a FIFO of requests | `enqueue`, `enqueue_new`, `process_next`, `process_all`, `clear` | the gate |
| HTTP API `src/api/routes.py`, `server.py` | `sessions`, the compiled pipeline | create, goal, start, demo, status, respond | starts the pipeline as a task |
| WebSocket manager `src/api/websocket_manager.py` | a list of sockets per session | `connect`, `disconnect`, `broadcast`, the endpoint | clients |
| Tool marketplace `src/tools/registry.py`, `base_tool.py` | tools, metrics | ranking, `execute_with_fallback`, `update_metrics` | tools |
| Risk predictor `src/risk/risk_predictor.py` | none | `assess` | reads the metrics |
| Worker agent `src/agents/worker.py` | its own tool registry | `execute_task`, `execute_with_fallback` | handlers, model router |
| Model router `src/model_routing/router.py` | usage log | `call_model`, `get_usage_report`, `reset_usage` | model providers |
| Planner, supervisor, evaluator `src/agents/` | none | six methods over a `_call_llm` each; `decide_replan` | model providers |
| Ledger `src/ledger/execution_ledger.py` | memory list and SQLite table | `record`, queries | SQLite |
| Learning memory `src/memory/` | preferences, plans, tool results | `record_tool_result`, `find_recovery_pattern`, `save_plan` | — |
| Frontend `frontend/src` | execution context, socket | reconnect, event reducer | the API |

What makes each one correct:

* **Executor** – a task runs only after its dependencies are COMPLETED; never more
  than `max_parallel` at a time; completed work is kept; nothing is started
  after a failed group; the verdict is truthful; the call returns.
* **Graph and mutation** – edges join existing nodes, levels ascend along the edges,
  completed work survives, the graph can be executed again.
* **Pipeline** – replans are bounded, a failure cannot disappear from the report,
  the executor only gets graphs it can execute, every run ends.
* **Approval gate and queue** – one resolution per request, an answer once given
  stands, no wake-up is lost, nobody waits for ever; a queued request is served
  once and in order, by one consumer.
* **API and sockets** – a session runs once; what was announced is what the store
  says; a listed client gets every broadcast; a vanished one is forgotten and a
  living one is never struck off.
* **Tools and risk** – the metrics are those of what happened however calls overlap;
  a walk along a fallback chain leaves nothing out; danger is put before a human.
* **Models and agents** – failure is reported only after every retry and fallback,
  methods that promise a fallback never pass the error on, everybody is answered.

## 2. What is where

| Module | Content |
|---|---|
| `TaskGraph` | task dictionaries and graphs as values; builder, levels, mutation and the contract of the executor as operators |
| `DagExecution` | the abstract promise: execution of a task graph without groups, coroutines or semaphores |
| `ParallelExecutor` | one call of `execute_full_graph`; implements `DagExecution` |
| `AdaptiveExecutionGraph` | execute / mutate / reschedule in any order on one graph |
| `AgentStateMachine` | one run of the pipeline, the executor by its contract |
| `ApprovalGate` | waiting coroutines, humans, timers, cancellations |
| `ApprovalQueue` | the queue and its consumers, composed with `ApprovalGate` and shown to implement it |
| `ConnectionManager` | sockets, endpoint coroutines, broadcasts |
| `SessionApi` | sessions and background runs, composed with `ConnectionManager` |
| `ToolRegistry` | the marketplace: ranking, fallback walks, metrics |
| `RiskPredictor` | assessments over the metrics of `ToolRegistry` |
| `ModelRouter` | model calls with retries and fallback models, usage log |
| `LlmAgents` | the methods of supervisor, planner and evaluator over `ModelRouter` |
| `WorkerAgent` | a worker's walk along a chain of tools, and the model it asks first |
| `AgentServices` | `LlmAgents` and `WorkerAgent` on one event loop |
| `MC…` | the instances TLC checks |
| `TaskGraphProofs` | what the recursive operators of `TaskGraph` compute, for every graph |
| `…Proofs` | the theorems of a component; `ApprovalQueueProofs` has those of the gate, `RiskPredictorProofs` those of `ToolRegistry`, `SessionApiProofs` those of `ConnectionManager` |

Three compositions tie components together. `TaskGraph` is the glue of the engine:
`FailureSets` and `StatusAfter` say what one call of the executor can make of a
graph. `ParallelExecutor` is proved to meet this contract (`MeetsContract`), and
`AgentStateMachine` and `AdaptiveExecutionGraph` take one step where the code
makes the call. In the other direction `Executable` is what the executor assumes
of a graph: the executor's theorems assume it and `ExecutorPrecondition` is the
pipeline's proof that it always holds. `ApprovalQueue` and `SessionApi` extend the
modules of what they call, and their steps contain the callee's.

Operators whose comment begins "Mutant of" are faulty variants of the definition
that follows them. They are used by nothing: replacing the definition by its
mutant shows that the property named beside it in `PROJECT.json` can be violated.

## 3. The modules

In every module an action is the code between two awaits, so every interleaving
asyncio can produce is a behaviour.

### TaskGraph

A graph is a record of `nodes`, `edges`, `status`, `levels`, `meta` and `state`.
`levels` is the attribute `graph.topological_levels`, `meta` the entry
`graph.metadata["topological_levels"]`. There are two because the code has two:
`build` writes both, `mutate_on_failure` only the second, and
`compute_parallel_groups` reads the first if it is not empty. `EffectiveLevels`
is that rule, and most of what is interesting about mutation follows from it.
An id that the levels list but the graph no longer has is called a phantom.

Recursive functions and least sets stand for the searches of the code:
`ComputeLevels` for the memoised depth-first search, `Sorted` for the rounds of
Kahn's algorithm, `AffectedSubgraph` for the breadth-first search.

### ParallelExecutor

| Model | Code (`parallel_executor.py`) |
|---|---|
| `Begin`, `BeginEmpty` | 314–343, up to the first `execute_group` |
| `Launch` | 161, 280–281: fresh semaphore, one coroutine per pending task |
| `NotFound` | 166–174 |
| `Admit` | 165–181: `async with semaphore` up to the first await |
| `Assessed` | 182–216: back from the risk predictor, up to the worker |
| `WorkerSucceeds`, `WorkerFails` | 217–278: back from the worker to the return |
| `GatherReturns` | 354–397: results, early return or next group |

`asyncio.Semaphore` hands permits out in FIFO order; the model lets any waiting
coroutine have a permit, which only adds behaviours.

### AgentStateMachine

One action per LangGraph node, edge included; where a method takes different
exits there is one action per exit (`BuildDag`/`BuildDagFails`,
`AcceptReplan`/`RefuseReplan`, …). `Superstep` counts supersteps because
LangGraph does: a run that needs more than its recursion limit is aborted by an
exception in `ainvoke`. `Verdicts` is what `evaluate` can conclude, which
depends on a detail far away: the scheduler writes dictionaries into the ledger
(`rawLedger`), `EvaluatorAgent.decide_replan` reads `.action` of every entry, and
the `AttributeError` lands in the fallback of `evaluate`.

`executions` is a history variable. `limit` is the recursion limit of the run.

### AdaptiveExecutionGraph

The pipeline replaces a failed task by one retry and then throws the mutated
graph away. The class promises more, so this module uses it as its documentation
says: execute, mutate with any replacement, reschedule, execute again. A
replacement may name dependencies that do not exist (dropped without notice) or
close a cycle (`MutateRaises`: nodes and edges have changed, then
`compute_topological_levels` hits Python's recursion limit).

### ApprovalGate and ApprovalQueue

`waiter` is where the coroutine in `request_approval` is; `timing_out` is the
interval between the timer of `asyncio.wait_for` and the coroutine running again,
during which a human may still answer. `Abandon` is the cancellation of the
waiting task: the `finally` clause runs, the request stays pending. `told` is
history: what a successful `respond` told its caller.

The queue holds objects, and the gate's requests are not those objects:
`process_next` hands the gate the fields of the object it took out, and the gate
makes a request of its own. `HandedTo` is that new request. An object of `enqueue`
is itself a request of the gate, so a human may be asked a second time for what
was already pending; an object of `enqueue_new` is known to nobody and stays
pending for good. `process_all` is a consumer that goes on. `left` and `arrived`
are histories. A consumer whose task is cancelled loses the object it has popped.

### ConnectionManager and SessionApi

| Model | Code |
|---|---|
| `Accept`, `AcceptFails`, `Register` | `connect`: the await of `accept` and what follows it |
| `Leave` | every way out of `websocket_endpoint`, `disconnect` included |
| `Broadcast`, `Send`, `SendToNobody`, `SendEnds` | `broadcast`, from one `send_json` to the next |
| `Open`, `Receive`, `Drop`, `Gone` | clients and the network (external) |
| `CreateSession`, `Start`, `RunDemo` | the handlers that change the store |
| `Returns`, `Raises`, `RaisesUnheard` | `run_pipeline` after its `ainvoke` |

`broadcast` iterates over the list object, so `next` is the iterator's index into a
list that `disconnect` shortens meanwhile. Once a list is empty its key is deleted
and a later `connect` starts another list, which a broadcast under way never sees
(`live`). `due` is history: the sockets listed when a broadcast began, still
connected, and not yet sent the message.

What the store knows of a run is only its end. The pipeline works on its own state
(`routes.py:216`), so the phase in the store stays UNDERSTAND_GOAL; `ainvoke`
returns a mapping that replaces the stored `AgentState` (`"values"`), and every
handler that reads an attribute of it fails from then on. That is also what happens
to the exception handler of a second run (`RaisesUnheard`).

### ToolRegistry and RiskPredictor

A client picks the best tool, and executes it with its fallbacks later; tools may
be registered in between. `Walk` skips names nobody has registered, `ToolReturns` is
`execute_with_metrics` together with `update_metrics` and the loop's next turn.
`Updated` keeps the code's moving averages, in integers: shares are in units of
1/`One`, which is divisible by any number of calls the instance can make, so that
the division loses nothing. `RegistryAssumption` also says that a chain names no tool
twice, as those of the shipped tools do not. `tried` and `skipped` are histories: the
results a client got, and the names its walk passed while nobody had registered them.

Nothing in `assess` awaits, so an assessment is a function (`Assess`) of the metrics
of the moment. The name of an action is the set of keywords that occur in it, the
input is whether `_check_security` flags it.

### ModelRouter, LlmAgents, WorkerAgent, AgentServices

`call` has the place of each model call: model, attempt, and whether it waits for
the provider or in `asyncio.sleep`. Both `call_model` and the `_call_llm` of the
agents are such calls; they differ in the number of models, in `_is_non_retryable`
(`Fatal`), and in the usage log, a list to which only the router appends, once for each
attempt that has ended. `gaveUpOn` is history.

`LlmAgents` has what each method makes of a payload or of the RuntimeError: an
answer of the model, a default, the phase the rules give, or an exception. Payloads
are of four kinds; a JSON value that is no object breaks `.get`, which no method
catches except `generate_summary`, which never asks for a field.

`WorkerAgent` has the interval in which `execute_task` waits for a model while tools
come and go: whether the tool exists is read before, its fallback chain after it.
`Walked` is the loop of `execute_with_fallback` between two handlers. A tool without
a handler fails at once; `attempt_name == chain[-1]` ends the walk, which is why
`WorkerAssumption` says that a chain names no tool twice (with a repetition of its
last name it ends early).

## 4. The runs

| Run | Question | Bounds | Distinct states |
|---|---|---|---|
| `ParallelExecutor` | Are semaphore, barrier, fail-fast and verdict right in every interleaving, is the contract met, is `DagExecution` implemented, does the call return? | all acyclic plans of 4 tasks, fresh, without levels, in a second call, and mutated (5 ids); 2 permits; with risk predictor | 47,173 |
| `AgentStateMachine` | Is the replan loop bounded, is no failure lost, does a run with room for it reach its end? | 6 plans, two of them invalid; 3 replans; recursion limits 25 and 41 | 2,438 |
| `ApprovalGate` | Do answers stand, is everything queued served once and in order, is everybody released? | 3 requests in 2 sessions, one of them made by a consumer for a queued request and one for an object of `enqueue_new`; 2 consumers | 30,019 |
| `AdaptiveExecutionGraph` | Does repeated mutation keep the graph sound, is COMPLETED true of it, and what can make it raise? | all plans of 3 tasks, 12 replacements, 3 mutations | 2,566 |
| `SessionApi` | Does the socket list match the endpoints, does the store match the announcements, are the dead forgotten? | 2 sockets that connect again and again, 2 sessions, 2 runs with one broadcast each | 496,588 |
| `ToolMarketplace` | Do metrics and fallbacks agree with what happened, is danger always put before a human? | 3 concurrent clients, 2 tools and one that comes late, 2 latencies, 2 thresholds, 6 kinds of action; clients are symmetric | 48,282 |
| `AgentServices` | Is failure reported only after everything was tried, is everybody answered? | an agent call, and a worker task with a routed call over 2 models, 2 tools that come and go; 2 attempts | 113,120 |
| five violation runs | see section 6 | as above | |

Why the bounds suffice. Four tasks give all shapes that matter to the executor: a
group wider than the two permits, a diamond, chains of different lengths, and
failures below, beside and above unfinished work; the fifth id is the retry of a
mutation. Three replans are the shipped `MAX_REPLAN_ATTEMPTS`. 41 is the exact
number of supersteps of the longest run, 25 LangGraph's default in the releases
`requirements.txt` names. Three requests in two sessions cover a cancellation that
hits one request that waits and one that was just answered while a third belongs
to someone else; two consumers can be at the queue together, and the queue holds up
to two objects. After three mutations a plan of three tasks has been replaced
completely. Two sockets are the least with which a disconnect shifts the list under
a broadcast; two runs of one session end in either order. Three clients let a
metric be updated by calls that overlap in every order, with a walk that passes a
name before and after it is registered; the chains are those of the server's
transport tools. Two attempts distinguish the first, the last and the one in
between two pauses; two models distinguish "next model" from "raise".

Deadlock is checked for `ParallelExecutor` and `AgentStateMachine`, where the end is
an action that stutters. In the others the instance really comes to rest: a graph
that a mutation has emptied, requests that are all resolved and consumed, broadcasts
and clients that have had their turn.

Fairness, which the event loop justifies: it runs every ready callback.

* `ParallelExecutor`: weak fairness of each coroutine and of the driver. It assumes
  that a worker and the risk predictor answer every call; neither has a timeout in
  the code.
* `AgentStateMachine`: weak fairness of the next step. LangGraph goes on after
  every node that returns.
* `ApprovalGate`: weak fairness of resuming a coroutine whose event is set or whose
  timer has fired. Nothing is assumed about humans. `NobodyWaitsForever` has the
  fairness of the timers as its hypothesis; `AnsweredIsReleased` does without.
* `SessionApi`: endpoints are resumed, and `receive_text` raises when the peer has
  gone. Nothing is assumed of clients, runs and broadcasts.
* `AgentServices`: model calls and tools answer or fail (the providers' HTTP clients
  have timeouts), sleeping coroutines wake up. That anybody asks is not assumed.

## 5. The proofs

44 theorems are listed in `PROJECT.json`. Each proof module has an inductive
invariant, lemmas `Init => IInv` and `IInv /\ [Next]_vars => IInv'` with one step per
action, and theorems that follow. Nothing is assumed but the named `ASSUME`s of the
modules, which say what the constants are; TLC evaluates them in the runs.

**TaskGraph.** What the builder and the mutation compute, for any finite graph. The
library's induction rules cannot be instantiated by the prover, so an induction is an
argument by the least counterexample (`LeastFailure`): it is 0, or its predecessor is
good. `RoundsExist` and `LevelsExist` build the recursive functions by it, after which
their equations can be used. `CycleCheckIsExact`: the number of a task's round is a rank
that grows along the edges, so a cycle is never sorted; and a round that removes nothing
leaves a set whose members all wait for each other, which is a cycle. `LevelsAscend` is
an induction along such a rank. `BuiltGraphsAreExecutable` combines them.
`MutationKeepsOrder`: survivors never wait for anything new, so the survivors among the
members of a cycle would be a cycle of the old graph, and without survivors it is one
of the new tasks. Two theorems make the contract of the executor fit to stand for a call:
it leaves an outcome for every executable graph (`CallsHaveAnOutcome`), so the models that
use it are not stuck where the code goes on, and what a call leaves can be executed again
(`ExecutionKeepsOrder`).

**ParallelExecutor.** `ConcurrencyBound` is inductive only with the account of the
permits (`SemaphoreInv`). `DependencyOrder` needs the barrier (`BarrierInv`: the
coroutines are those of one group, and everything below is in `completed_ids`),
the agreement of `completed_ids` with the statuses (`StatusInv`) and of results with
statuses (`ResultInv`); then a dependency has a lower level, is in `completed_ids`
and so is COMPLETED. `ContractIsMet` adds `SettledInv` (completed ids come from the
call or from a group already done, only nodes get an ExecutionError); the failed
members of the last group are the failure set the contract asks for. The graphs are
any for which `Executable` holds, with a risk predictor or without. `Refinement`
shows that each step is a step of `DagExecution` or a stutter under the mapping
`TriedMap`, `VerdictMap`.

**AgentStateMachine.** `ExecutorPrecondition` is the hard one: a mutated graph may
reach the executor (when the next plan is rejected) with levels from before the
mutation. `GraphInv` carries that levels are on planned ids only, that FAILED
nodes are among them and that edges join nodes; a mutation removes the failed task,
which makes it a phantom, and phantoms are what allows a node to be missing from
the levels. `BudgetInv`, `UnharmedInv`, `LedgerInv` and `ExitInv` connect counters,
errors and position in the pipeline; `UnharmedInv` says that without a failure
there has been no replan, and `LedgerInv` that the evaluator always ends in its
fallback when something failed. `OnlyFailedRunsAbort` adds `PathInv`: without a
failure the number of supersteps is the position in the pipeline.
That `Build` gives a plan levels that ascend along its edges is
`BuiltGraphsAreExecutable`; of the plans it is only assumed that they are finite and
over the planner's ids. `MutationsCloseNoCycle` adds that no graph of a run ever has a
cycle: a retry inherits the dependencies of the failed task and bears an id no task had
before (`RetriesInv`), so `MutationKeepsOrder` applies to every mutation, and
`update_dag` never meets the RecursionError that `mutate_on_failure` may raise
elsewhere. This invariant, `GraphStaysAcyclic`, is in no run.

**AdaptiveExecutionGraph.** All its properties. `LevelsInv` says what the attribute
holds for ever: the levels of the plan, ascending along the edges between planned
tasks, with a phantom since the first mutation. `CompletedMeansDone` rests on the phantom:
an execution without failures means that nothing the levels list is missing
(`NoFailureNoPhantom`), so nothing was ever replaced and the levels list every task.
That only planned tasks are ever executed (`WorkInv`) is what makes completed work
closed under dependencies.
`RaisesForCause` rests on `MutationKeepsOrder`: if the new tasks have no cycle, reuse no
surviving id and the graph had no cycle, then the mutated graph has none. Each of the
three causes is needed; TLC finds a counterexample without any one of them.

**ApprovalGate, ApprovalQueue.** The checked invariants of the gate plus `WaiterInv`
are inductive. `QueueKeepsGate` proves that the composition implements the gate
alone, fairness of the event loop included, so every theorem of the gate carries
over to the queue (two are stated). `ServedOnceInOrder` needs that what a consumer
is at has left the queue, that no object arrives twice, and that the request for an
object is not made before it leaves.

**ToolRegistry.** `AttemptsAreAccounted`: what a client has results from lies before its
position in the chain (`WalkInv`), so, as chains name no tool twice, the call under way
brings the first result of its tool for that client (`OneMoreResult`). A tool therefore
gets at most as many calls as there are clients, which is what makes `One` divisible by
their number and the running mean exact (`UpdatedCounts`). That `get_best_tool` always
finds a registered tool follows from the bounds of the score (`ScoreIsBounded`).

**RiskPredictor.** `DangerNeedsApproval` follows from the definitions for every state
of the metrics: one HIGH makes the level HIGH, and the reading words bypass LOW and
MEDIUM only.

**AgentServices.** `FailureIsExhaustive`: a call gives up on its models in their order
(`RetryInv`), an entry of the log is either the attempt that answered or one that
its call has behind it (`LogInv`), so the attempt that is appended next is not in it
yet (`LogGrows`), an answer of a method is made when its call ends
(`AnswerInv`), and a walk has accounted for every name before its position
(`WalkInv`). `Walked` passes several names at once, so the proof shows that all names
between two positions are among those it adds to `tried` or `skipped`. The usage
report counts no success twice because the map from successes to calls is injective.

**SessionApi, ConnectionManager.** One inductive invariant for both. `Rest` is a
recursive function over the list; `RestFacts` shows by induction along the list that it
leaves the sockets that are not struck off, and none twice. `BoundInv` gives
every endpoint, broadcast and run at work its session. `PeersInv` is what
`ListMatchesEndpoints` needs: a broadcast takes for dead only who has gone, and since the
number of such a socket is not used again before the broadcast has struck it off, a
living peer is never struck off in its place. Nothing is on its way to a peer that has
gone, so an END in an inbox belongs to a socket with a session, and
`AnnouncedIsStored` follows from the order in which a run stores and announces, and
from `Raises` being impossible once a result is stored (`StoreAnnounced`). The proof
needs neither the numbering of the sockets nor a bound on runs, sessions or
connections.

Only model-checked: the liveness properties (`Terminates`, `EndsNormally`,
`AnsweredIsReleased`, `NobodyWaitsForever`, `GoneIsForgotten`, `EverybodyIsAnswered`),
which are out of the prover's reach.

## 6. Disagreements between code and documentation

Runs that show one:

| Run | The text | The code |
|---|---|---|
| `NoFailureNoReplan` | `evaluator.py:216` "Nothing failed — no replan needed regardless of score" | after one failure a fully completed run is replanned until all attempts are used: the evaluator always raises on the scheduler's ledger entries, and `state.errors` is never cleared |
| `CompletedSurvivesReplan` | `parallel_executor.py:332` completed ids survive replan loops; `state_machine.py:17` | `update_dag` leads to `plan_tasks`, the new plan replaces the mutated graph |
| `ReplanLoopReachesApproval` | `state_machine.py:20-21` after the last replan the graph proceeds to approval | the default recursion limit aborts the run in the second replan |
| `NoDuplicateStart` | `routes.py:197` "Prevent duplicate starts" | the guard reads a phase that no run ever changes: every start while a run is under way starts another |
| `BroadcastReachesAll` | `websocket_manager.py:82` "to every connected client" | a disconnect during a broadcast shifts the list and the next client is skipped |

Met while modelling, with no run of their own:

* `execution_graph.py:9-11` says that after a mutation the graph can "recompute
  topological levels, and continue execution". `mutate_on_failure` writes the new
  levels to `graph.metadata` only (122), and `compute_parallel_groups` prefers the
  attribute `build` has filled (`dependency_graph.py:173`). The replacement is in no
  parallel group and is never executed, and the id of the removed task stays in its
  group and fails every execution as "not found in graph" (`parallel_executor.py:167-174`).
  In the model this is `LevelsInv` with the contract of the executor; no property says
  that it should be so. `CompletedMeansDone` holds with the stale levels and would hold
  with fresh ones.
* `state_machine.py:418-420`: risky tasks get an approval request enqueued; nothing in
  `src/` ever enqueues one, so `approval_queue` is empty in every state.
* `risk_predictor.py:93-97`: a failure rate above 0.3 triggers approval (the level
  becomes MEDIUM, nobody is asked); bookings always need approval (one whose name
  contains a reading keyword, such as `check_booking` or "checkout", does not).
* `parallel_executor.py:179` calls `assess(task_id, state)`, which takes more
  arguments: the TypeError is caught, and no assessment in the executor ever works.
* After END the store holds a mapping, so `get_session`, `get_graph` and `get_ledger` of
  a finished session end in an AttributeError.
* `server.py:112,121`: `app.state.approval_gate` stays None, so shutdown cancels no
  pending request; the pipeline's approval node uses a gate of its own
  (`state_machine.py:664-666`), which no handler answers.
* `generate_summary` asks for text but `_call_llm` insists on JSON: a plain answer ends
  in the template.
* A worker assesses the tool of the task, never the fallbacks it may execute instead,
  and a tool that is unregistered during the assessment loses its chain.
* Of the rules in `supervisor.py:301-340`, the phases CONSTRAIN, PLANNING,
  RISK_ANALYSIS, TOOL_SELECT and APPROVAL lead to END.

## 7. Limits

* Contents are left out: descriptions, inputs and outputs of tasks, ledger text,
  scores, prompts, goals and files of a session. Planner, worker, models, tools and
  humans are free choices.
* LangGraph is external. The models take it that a node's updates reach the next
  node unchanged. Releases that validate the state between nodes would object to
  the dictionaries in the ledger and to the exception object in `errors`.
* A planner's `action` is taken to be a string, as its prompt demands:
  `select_tools` raises on anything else, and that would end the run.
* Planner ids do not look like retry ids (`RetryAssumption`), and replacements have
  new ids, as those of `update_dag`, the only caller, have.
* The order of a dictionary is left open where the code takes "the first".
* Some of what is modelled is not wired into the server: `execute_with_fallback` of the
  marketplace is called by `tests/test_tool_marketplace.py` only, `WorkerAgent`,
  `ApprovalQueue`, `decide_next_phase` and the router's `call_model` by nothing in
  `src/`. The models use them as their documentation says.
* The executor is checked with a risk predictor; without one only the proofs speak.
* Process crashes: sessions live in memory only, so a restart starts from nothing
  and there is no recovery to model.
* Not modelled: the learning memory (`learning_memory.py` has an indentation error
  and cannot be imported, so the server runs without it), the execution ledger (the
  pipeline appends to `state.ledger` and never calls it), `risk/metrics.py`,
  `model_config.py` and `core/config.py` (tables and counters nothing reads), the
  frontend (its client composed with `SessionApi` has more than ten million states
  with one socket per client, and alone it has no promise to check), the demo
  scripts, `get_ready_tasks`, `get_model` and the marketplace's `required_capability`.

## 8. What is left

1. The frontend's reconnection and event reducer against an abstraction of
   `ConnectionManager` that keeps only what one client sees.
2. `DependencyGraphBuilder`: Kahn's algorithm and the searches step by step, shown to
   compute the operators of `TaskGraph`.
3. `ExecutionLedger`: memory and SQLite after an error between the two writes, once
   the pipeline uses it.
