---------------------------- MODULE RiskPredictor ----------------------------
(***************************************************************************)
(* RiskPredictor (risk/risk_predictor.py) over the metrics of the          *)
(* marketplace.  Nothing in assess suspends, so an assessment is a         *)
(* function of the metrics at the moment of the call.                      *)
(*                                                                         *)
(* The name of an action is the set of the keywords that occur in it, the  *)
(* input whether it has a field or a value that _check_security flags.     *)
(***************************************************************************)
EXTENDS ToolRegistry

CONSTANTS Actions,       \* the actions of the tasks
          KeywordsIn,    \* the keywords that occur in the name of an action
          MediumTools,   \* tools whose name contains one of medium_risk_tools
          Thresholds     \* cost_threshold, in units of 0.0001 dollars

RiskOrder == [LOW |-> 0, MEDIUM |-> 1, HIGH |-> 2, CRITICAL |-> 3]

MaxRisk(levels) == CHOOSE a \in levels : \A b \in levels : RiskOrder[b] <= RiskOrder[a]

SecurityKeywords == {"payment", "credit_card", "cvv", "password", "otp", "aadhaar", "pan_card",
  "bank_account", "ssn", "passport", "delete", "cancel", "refund", "transfer", "pay", "charge"}

ApprovalActions == {"payment", "booking", "reservation", "purchase", "transfer", "cancel", "pay",
  "book", "buy", "order", "checkout", "fund", "refund", "delete", "execute", "run"}

SafeActions == {"search", "lookup", "fetch", "get", "check", "read", "view", "list"}

Mentions(action, keywords) == KeywordsIn[action] \cap keywords # {}

\* _estimate_cost: the average cost or 2 dollars, times the first multiplier found.
EstimateCost(action, tool) ==
  LET base == IF tool \in Registered /\ metrics[tool].cost > 0 THEN metrics[tool].cost ELSE 20000
      tenths == IF Mentions(action, {"booking"}) THEN 30
                ELSE IF Mentions(action, {"search"}) THEN 5
                ELSE IF Mentions(action, {"check"}) THEN 3
                ELSE IF Mentions(action, {"send"}) THEN 2 ELSE 10
  IN  (base * tenths) \div 10

CheckSecurity(action, sensitive) == Mentions(action, SecurityKeywords) \/ sensitive

\* _llm_risk_analysis, which asks no model.
LlmRisk(action, tool) ==
  IF Mentions(action, {"payment", "refund", "cancel_booking"}) THEN "HIGH"
  ELSE IF tool \in MediumTools THEN "MEDIUM" ELSE "LOW"

\* Steps 1 to 4 of assess; a tool without metrics has no history.
RiskLevel(action, tool, sensitive, threshold) ==
  LET cost == EstimateCost(action, tool)
  IN  MaxRisk({"LOW", LlmRisk(action, tool)}
        \cup (IF tool \in Registered /\ 10 * metrics[tool].failureRate > 3 * One
              THEN {"MEDIUM"} ELSE {})
        \cup (IF cost > threshold THEN {"HIGH"} ELSE IF 2 * cost > threshold THEN {"MEDIUM"} ELSE {})
        \cup (IF CheckSecurity(action, sensitive) THEN {"HIGH"} ELSE {}))

\* Mutant of ReadOnly: the name alone makes an action safe.
ReadByName(action, risk) == Mentions(action, SafeActions)

\* The bypass of _requires_approval for actions that only read.
ReadOnly(action, risk) == Mentions(action, SafeActions) /\ risk \in {"LOW", "MEDIUM"}

\* assess: the level and whether a human is asked, decided by _requires_approval.
Assess(action, tool, sensitive, threshold) ==
  LET risk == RiskLevel(action, tool, sensitive, threshold)
  IN  [risk_level |-> risk,
       requires_approval |->
         \/ risk = "CRITICAL"
         \/ EstimateCost(action, tool) > threshold
         \/ /\ ~ReadOnly(action, risk)
            /\ Mentions(action, ApprovalActions) \/ CheckSecurity(action, sensitive)]

-----------------------------------------------------------------------------

\* assess "triggers approval if": the cost is above the threshold or a security
\* flag is present, whatever the name of the action says and whatever the tools'
\* history, and then the level is HIGH.  The docstring's other two triggers are
\* not part of this: a failure rate above 0.3 raises the level to MEDIUM only, and
\* a booking whose name contains a reading keyword ("check_booking", "checkout")
\* is approved without asking.
DangerNeedsApproval ==
  \A action \in Actions, tool \in Names, sensitive \in BOOLEAN, threshold \in Thresholds :
     LET assessment == Assess(action, tool, sensitive, threshold)
     IN  (EstimateCost(action, tool) > threshold \/ CheckSecurity(action, sensitive)) =>
           assessment = [risk_level |-> "HIGH", requires_approval |-> TRUE]
=============================================================================
