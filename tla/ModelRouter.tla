----------------------------- MODULE ModelRouter -----------------------------
(***************************************************************************)
(* The calls of language models: call_model of model_routing/router.py,    *)
(* which tries a primary and a fallback model, and the _call_llm of        *)
(* supervisor and planner, which try one.  Both retry with a pause after   *)
(* each failure; the router moves on at once when the error says that the  *)
(* model itself is out of reach, and keeps a usage log.                    *)
(*                                                                         *)
(* Calls run concurrently on one event loop and share the log.             *)
(***************************************************************************)
EXTENDS Naturals, Sequences, FiniteSets

CONSTANTS Calls,       \* the calls of a model
          ModelsOf,    \* models_to_try, in order; one model for an agent's _call_llm
          Models,      \* the names of models
          Routed,      \* the calls that go through the router
          MaxRetries   \* max_retries and MAX_RETRIES

\* A fallback that is the primary model again is not in models_to_try.
ASSUME RouterAssumption ==
  /\ MaxRetries \in Nat \ {0} /\ IsFiniteSet(Calls) /\ Routed \subseteq Calls
  /\ \A c \in Calls :
        /\ ModelsOf[c] \in Seq(Models) /\ ModelsOf[c] # <<>>
        /\ \A i, j \in DOMAIN ModelsOf[c] : ModelsOf[c][i] = ModelsOf[c][j] => i = j

VARIABLES call,        \* where each call is
          log,         \* _call_log: the finished attempts of routed calls
          gaveUpOn     \* history: the models a call has left behind, and after how
                       \* many attempts (0: it is out of reach)

routerVars == <<call, log, gaveUpOn>>

RouterInit ==
  /\ call = [c \in Calls |-> [pc |-> "idle", model |-> 1, attempt |-> 1]]
  /\ log = <<>>
  /\ gaveUpOn = [c \in Calls |-> {}]

Model(c) == ModelsOf[c][call[c].model]

\* call_model or _call_llm, up to the first await.
CallModel(c) ==
  /\ call[c].pc = "idle"
  /\ call' = [call EXCEPT ![c].pc = "waiting"]
  /\ UNCHANGED <<log, gaveUpOn>>

Entry(c, success) ==
  [call |-> c, model |-> Model(c), attempt |-> call[c].attempt, success |-> success]

\* Mutant of Logged: the failure of an attempt is recorded where it is caught and once
\* more where the call decides what comes next.
LoggedTwice(c, success) ==
  log' = IF c \in Routed
         THEN log \o (IF success THEN <<Entry(c, TRUE)>>
                      ELSE <<Entry(c, FALSE), Entry(c, FALSE)>>)
         ELSE log

Logged(c, success) == log' = IF c \in Routed THEN Append(log, Entry(c, success)) ELSE log

\* The model answers; an agent also parses the answer.
Answers(c) ==
  /\ call[c].pc = "waiting"
  /\ Logged(c, TRUE)
  /\ call' = [call EXCEPT ![c].pc = "returned"]
  /\ UNCHANGED gaveUpOn

\* Mutant of NextModel: the loop over the models ends with the first.
NoNextModel(c) == [call[c] EXCEPT !.pc = "raised"]

\* Mutant of NextModel: after the last model the first one has its turn again.
FirstModelAgain(c) ==
  [pc |-> "waiting", model |-> (call[c].model % Len(ModelsOf[c])) + 1, attempt |-> 1]

\* The next of models_to_try, or RuntimeError.
NextModel(c) ==
  IF call[c].model < Len(ModelsOf[c])
  THEN [pc |-> "waiting", model |-> call[c].model + 1, attempt |-> 1]
  ELSE [call[c] EXCEPT !.pc = "raised"]

\* _is_non_retryable, which only the router asks.
Fatal(c, retryable) == c \in Routed /\ ~retryable

\* The attempt raises.
AnswerFails(c, retryable) ==
  /\ call[c].pc = "waiting"
  /\ Logged(c, FALSE)
  /\ IF Fatal(c, retryable) \/ call[c].attempt = MaxRetries
     THEN /\ call' = [call EXCEPT ![c] = NextModel(c)]
          /\ gaveUpOn' = [gaveUpOn EXCEPT ![c] =
                            @ \cup {[model |-> Model(c),
                                     after |-> IF Fatal(c, retryable) THEN 0
                                               ELSE call[c].attempt]}]
     ELSE /\ call' = [call EXCEPT ![c].pc = "pausing"]
          /\ UNCHANGED gaveUpOn

\* Mutant of Retry: the attempt after the last one.
RetryTwice(c) ==
  /\ call[c].pc = "pausing"
  /\ call' = [call EXCEPT ![c].pc = "waiting", ![c].attempt = @ + 2]
  /\ UNCHANGED <<log, gaveUpOn>>

\* Back from asyncio.sleep.
Retry(c) ==
  /\ call[c].pc = "pausing"
  /\ call' = [call EXCEPT ![c] = [pc |-> "waiting", model |-> @.model, attempt |-> @.attempt + 1]]
  /\ UNCHANGED <<log, gaveUpOn>>

\* reset_usage, at any time.
ResetUsage ==
  /\ log # <<>>
  /\ log' = <<>>
  /\ UNCHANGED <<call, gaveUpOn>>

\* get_usage_report.
UsageReport ==
  LET ok == {i \in DOMAIN log : log[i].success}
  IN  [total |-> Len(log), successful |-> Cardinality(ok), failed |-> Len(log) - Cardinality(ok)]

ModelStep(c) == Answers(c) \/ (\E retryable \in BOOLEAN : AnswerFails(c, retryable)) \/ Retry(c)

-----------------------------------------------------------------------------

LogEntry == [call : Routed, model : Models, attempt : 1..MaxRetries, success : BOOLEAN]

RouterTypeOK ==
  /\ call \in [Calls -> [pc : {"idle", "waiting", "pausing", "returned", "raised"},
                         model : Nat, attempt : 1..MaxRetries]]
  /\ \A c \in Calls : call[c].model \in DOMAIN ModelsOf[c]
  /\ log \in Seq(LogEntry)
  /\ gaveUpOn \in [Calls -> SUBSET [model : Models, after : 0..MaxRetries]]

\* The docstring of call_model: "RuntimeError: If all models and retries are
\* exhausted", and not before.
RaisedMeansExhausted ==
  \A c \in Calls :
     call[c].pc = "raised" =>
       \A i \in DOMAIN ModelsOf[c] :
          \E g \in gaveUpOn[c] : /\ g.model = ModelsOf[c][i]
                                 /\ g.after \in {0, MaxRetries}

\* The attempts of a call at one model stand in the log in their order, and none of
\* them twice.
LoggedInOrder ==
  \A i, j \in DOMAIN log :
     (i < j /\ log[i].call = log[j].call) =>
        log[i].model # log[j].model \/ log[i].attempt < log[j].attempt

\* The usage log records a success for the attempt that answered a call and for no
\* other, and no attempt twice, so that the report counts each once.
LogIsTruthful ==
  /\ \A i \in DOMAIN log :
       LET e == log[i]
       IN  e.success <=> /\ call[e.call].pc = "returned"
                         /\ e.model = Model(e.call) /\ e.attempt = call[e.call].attempt
  /\ LoggedInOrder
  /\ UsageReport.successful <= Cardinality({c \in Routed : call[c].pc = "returned"})
=============================================================================
