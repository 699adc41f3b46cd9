\* The gate with a queue in front: safety, and release by answers alone and, if the
\* timers fire, without answers.  When every request is resolved all is at rest.
SPECIFICATION QueueSpec
CONSTANTS
  direct = direct
  again = again
  r1 = r1
  new1 = new1
  s1 = s1
  s2 = s2
  k1 = k1
  k2 = k2
  Requests <- MCRequests
  Sessions <- MCSessions
  SessionOf <- MCSessionOf
  Items <- MCItems
  HandedTo <- MCHandedTo
  Consumers <- MCConsumers
INVARIANTS TypeOK AnswerStands ReturnsResolved NoLostSignal ServedOnceInOrder
PROPERTIES ResolvedOnce AnsweredIsReleased NobodyWaitsForever
CHECK_DEADLOCK FALSE
