\* Metrics under concurrent calls, fallback chains, and risk assessments from them.
\* The clients and the late registration are finite, so everything stops.
SPECIFICATION Spec
CONSTANTS
  c1 = c1
  c2 = c2
  c3 = c3
  Clients <- MCClients
  Startup <- MCStartup
  LateTools <- MCLate
  FallbackOf <- MCFallbackOf
  Latencies = {2000, 6000}
  One = 60000
  Actions <- MCActions
  KeywordsIn <- MCKeywordsIn
  MediumTools = {"flight_search", "flight_search_mock", "train_search"}
  Thresholds = {5000, 1000000}
SYMMETRY Symmetry
INVARIANTS AttemptsAreAccounted DangerNeedsApproval
CHECK_DEADLOCK FALSE
