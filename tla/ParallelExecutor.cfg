SPECIFICATION FairSpec
CONSTANTS
  a = a
  b = b
  c = c
  d = d
  e = e
  Tasks <- MCTasks
  Graphs <- MCGraphs
  MaxParallel = 2
  HasRiskPredictor = TRUE
INVARIANTS
  TypeOK
  ConcurrencyBound
  DependencyOrder
  TruthfulVerdict
  MeetsContract
PROPERTIES
  CompletedIsStable
  FailFast
  Terminates
  RefinesDagExecution
