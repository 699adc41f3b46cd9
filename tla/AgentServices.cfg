\* Retries, fallback models, fallback methods and the worker's chain.
\* Every call and task is made once, so everything stops.
SPECIFICATION FairSpec
CONSTANTS
  agentCall = agentCall
  riskCall = riskCall
  t1 = t1
  primary = primary
  local = local
  wa = wa
  wb = wb
  Calls <- MCCalls
  ModelsOf <- MCModelsOf
  Models <- MCModels
  Routed <- MCRouted
  MaxRetries = 2
  Situations <- MCSituations
  Tasks <- MCTasks
  ToolOf <- MCToolOf
  Consulting <- MCTasks
  RiskCallOf <- MCRiskCallOf
  WorkerTools <- MCWorkerTools
  HighRisk = {wa}
  Handlers <- MCWorkerTools
  WorkerChain <- MCWorkerChain
INVARIANTS TypeOK FailureIsExhaustive
PROPERTIES EverybodyIsAnswered
CHECK_DEADLOCK FALSE
