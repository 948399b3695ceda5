CONSTANTS
  Macs = {h1, a}
  NoMac = nomac
  h1 = h1
  h2 = h2
  a = a
  b = b
  Clients = {c1, c2}
  IfaceLists <- OneIface
  Datagrams <- OneNeighbor
  TIMEOUT = 3
  BROADCAST_INTERVAL = 2
  SELECT_TIMEOUT = 1
  BACKLOG = 1
  Faults = {"getifaddrs", "accept", "kill"}
  StartTime = 2
  MaxIter = 1
  MaxClock = 7
  MaxInbox = 1

SPECIFICATION FairSpec
INVARIANT NeverBlocked
INVARIANT KnownUntilTimeout
INVARIANT HelloCadence
PROPERTY ClientsAnswered
PROPERTY ImplementsDirectory
