\* A replan throws completed tasks away.
SPECIFICATION Spec
CONSTANTS
  a = a
  b = b
  c = c
  default_task = default_task
  Base <- MCBase
  DefaultTask = default_task
  Plans <- MCPlans
  HasEvaluator = FALSE
  MaxReplan = 3
  RecursionLimits <- AmpleLimit
PROPERTIES CompletedSurvivesReplan
