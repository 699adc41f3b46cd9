\* MAX_REPLAN_ATTEMPTS = 3, under LangGraph's default limit and under one that
\* has room for every replan.
SPECIFICATION FairSpec
CONSTANTS
  a = a
  b = b
  c = c
  default_task = default_task
  Base <- MCBase
  DefaultTask = default_task
  Plans <- MCPlans
  HasEvaluator = TRUE
  MaxReplan = 3
  RecursionLimits <- BothLimits
INVARIANTS TypeOK ReplanBudget ExecutorPrecondition FailureIsReported CleanSummaryMeansDone OnlyFailuresAbort
PROPERTIES LimitIsFinal EndsNormally
