SPECIFICATION Spec
CONSTANTS
  s1 = s1
  s2 = s2
  x = x
  y = y
  Sockets <- MCSockets
  Sessions <- MCSessions
  Broadcasts <- MCBroadcasts
INVARIANT NoDuplicateStart
CHECK_DEADLOCK FALSE
