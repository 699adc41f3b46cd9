\* Replacements with new ids only.  A graph that a mutation has emptied is never
\* executed or mutated again: that is an end, not a deadlock.
SPECIFICATION Spec
CONSTANTS
  a = a
  b = b
  c = c
  m = m
  n = n
  Ids <- MCIds
  Plans <- MCPlans
  Replacements <- FreshReplacements
  MaxMutations = 3
CHECK_DEADLOCK FALSE
INVARIANTS TypeOK LevelsStayUsable CompletedIsClosed CompletedMeansDone
PROPERTIES CompletedSurvives RaisesForCause
