------------------------------ MODULE LlmAgents ------------------------------
(***************************************************************************)
(* The model-backed methods of the supervisor, the planner and the         *)
(* evaluator (agents/supervisor.py, planner.py, evaluator.py).  Each asks  *)
(* one model through _call_llm and deals with what it parses, or with the  *)
(* RuntimeError, before it suspends again: that is part of the action in   *)
(* which the call ends.                                                    *)
(***************************************************************************)
EXTENDS ModelRouter

CONSTANT Situations   \* the session states decide_next_phase may be asked about:
                      \* [phase |-> a StatePhase, statuses |-> those of its tasks]

VARIABLES method,     \* the method behind each call of an agent
          answer      \* what its caller got

agentVars == <<method, answer>>

AgentCalls == Calls \ Routed

Methods == {"interpret_goal", "decide_next_phase", "generate_summary", "create_plan", "replan",
            "evaluate"}

\* Those that catch the RuntimeError of _call_llm.
WithFallback == Methods \ {"interpret_goal", "create_plan"}

\* What the JSON of the model's answer is: an object with the fields asked for,
\* with wrong values in them, or without them, or no object at all.
Payloads == {"fields", "wrong_values", "no_fields", "not_an_object"}

AgentInit ==
  /\ method = [c \in AgentCalls |-> "interpret_goal"]
  /\ answer = [c \in AgentCalls |-> "none"]

Ask(c, m) ==
  /\ CallModel(c)
  /\ method' = [method EXCEPT ![c] = m]
  /\ UNCHANGED answer

\* _rule_based_phase.
RuleBasedPhase(s) ==
  CASE s.phase = "UNDERSTAND_GOAL" -> "BUILD_DAG"
    [] s.phase = "BUILD_DAG" -> "SCHEDULE"
    [] s.phase = "SCHEDULE" -> IF s.statuses = {} THEN "END" ELSE "EXECUTE"
    [] s.phase = "EXECUTE" ->
         IF s.statuses \subseteq {"COMPLETED", "FAILED", "SKIPPED"} THEN "EVALUATE" ELSE "EXECUTE"
    [] s.phase = "EVALUATE" -> IF "FAILED" \in s.statuses THEN "REPLAN" ELSE "SUMMARY"
    [] s.phase = "REPLAN" -> "SCHEDULE"
    [] OTHER -> "END"

(* The methods, given a payload or "no_answer" from _call_llm.  "model" is the *)
(* model's answer, "default" a substitute; .get on what is no object raises an *)
(* AttributeError nobody catches.                                              *)

InterpretGoal(p) == IF p = "no_answer" THEN "RuntimeError" ELSE "model"

\* The rules look at the state as it is by now.
DecideNextPhase(p, s) ==
  CASE p = "fields" -> "model" [] p = "not_an_object" -> "AttributeError"
    [] OTHER -> RuleBasedPhase(s)

\* Mutant of GenerateSummary: the RuntimeError is not caught.
GenerateSummaryOrRaise(p) == IF p = "no_answer" THEN "RuntimeError" ELSE "model"

\* Whatever was parsed becomes text; otherwise the template summary.
GenerateSummary(p) == IF p = "no_answer" THEN "default" ELSE "model"

\* Without tasks in the answer there is the single default task.
CreatePlan(p) ==
  CASE p = "no_answer" -> "RuntimeError" [] p = "not_an_object" -> "AttributeError"
    [] p = "no_fields" -> "default" [] OTHER -> "model"

\* No modified tasks, or no answer: {}.
Replan(p) ==
  CASE p = "not_an_object" -> "AttributeError" [] p \in {"no_fields", "no_answer"} -> "default"
    [] OTHER -> "model"

\* Missing scores count as 0.0 (1.0 for safety); scores out of range, or no answer,
\* are replaced by the heuristic score.
Evaluate(p) ==
  CASE p = "not_an_object" -> "AttributeError" [] p \in {"wrong_values", "no_answer"} -> "default"
    [] OTHER -> "model"

AnswerOf(m, p, s) ==
  CASE m = "interpret_goal" -> InterpretGoal(p) [] m = "decide_next_phase" -> DecideNextPhase(p, s)
    [] m = "generate_summary" -> GenerateSummary(p) [] m = "create_plan" -> CreatePlan(p)
    [] m = "replan" -> Replan(p) [] m = "evaluate" -> Evaluate(p)

\* _call_llm returns what it parsed; {} for an empty answer.
AgentAnswers(c, payload, s) ==
  /\ Answers(c)
  /\ answer' = [answer EXCEPT ![c] = AnswerOf(method[c], payload, s)]
  /\ UNCHANGED method

\* An attempt fails: no answer, an error of the provider, text that is no JSON.
AgentAttemptFails(c, s) ==
  /\ AnswerFails(c, TRUE)
  /\ answer' = IF call'[c].pc = "raised"
               THEN [answer EXCEPT ![c] = AnswerOf(method[c], "no_answer", s)] ELSE answer
  /\ UNCHANGED method

AgentStep(c) ==
  \/ \E s \in Situations, payload \in Payloads : AgentAnswers(c, payload, s)
  \/ \E s \in Situations : AgentAttemptFails(c, s)
  \/ Retry(c) /\ UNCHANGED agentVars

-----------------------------------------------------------------------------

Phases == {"BUILD_DAG", "SCHEDULE", "EXECUTE", "EVALUATE", "REPLAN", "SUMMARY", "END"}

AgentTypeOK ==
  /\ method \in [AgentCalls -> Methods]
  /\ answer \in [AgentCalls -> Phases \cup {"none", "model", "default", "AttributeError", "RuntimeError"}]

\* "Falls back to a deterministic rule-based state machine if the LLM call fails",
\* "Falls back to a template summary", "Fallback: return an empty dict": the caller
\* of one of these methods never sees that the model is down, and no method gives
\* up on the model before all attempts are used.
FallbacksCover ==
  \A c \in AgentCalls :
     /\ answer[c] = "RuntimeError" => call[c].pc = "raised" /\ method[c] \notin WithFallback
     /\ call[c].pc = "raised" =>
          /\ answer[c] \notin {"none", "model", "AttributeError"}
          /\ call[c].attempt = MaxRetries
=============================================================================
