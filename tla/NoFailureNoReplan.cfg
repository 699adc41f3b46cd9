\* An evaluator is injected, and still a run without failed tasks is replanned.
SPECIFICATION Spec
CONSTANTS
  a = a
  b = b
  c = c
  default_task = default_task
  Base <- MCBase
  DefaultTask = default_task
  Plans <- MCPlans
  HasEvaluator = TRUE
  MaxReplan = 3
  RecursionLimits <- AmpleLimit
PROPERTIES NoFailureNoReplan
