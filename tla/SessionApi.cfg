\* The server under any clients, with one session or two.
SPECIFICATION FairSpec
CONSTANTS
  s1 = s1
  s2 = s2
  x = x
  y = y
  Sockets <- MCSockets
  Sessions <- MCSessions
  Broadcasts <- MCBroadcasts
INVARIANTS TypeOK ListMatchesEndpoints AnnouncedIsStored
PROPERTIES GoneIsForgotten
CHECK_DEADLOCK FALSE
