\* MAX_REPLAN_ATTEMPTS = 3 does not fit into LangGraph's default of 25 supersteps.
SPECIFICATION Spec
CONSTANTS
  a = a
  b = b
  c = c
  default_task = default_task
  Base <- MCBase
  DefaultTask = default_task
  Plans <- MCPlans
  HasEvaluator = FALSE
  MaxReplan = 3
  RecursionLimits <- DefaultLimit
INVARIANTS ReplanLoopReachesApproval
