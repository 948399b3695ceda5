CONSTANTS
  Macs = {h1, h2}
  NoMac = nomac
  h1 = h1
  h2 = h2
  a = a
  b = b
  Clients = {}
  IfaceLists <- TwoIfaces
  Datagrams <- NoNeighbor
  TIMEOUT = 3
  BROADCAST_INTERVAL = 2
  SELECT_TIMEOUT = 1
  BACKLOG = 0
  Faults = {}
  StartTime = 2
  MaxIter = 2
  MaxClock = 8
  MaxInbox = 3

SPECIFICATION Spec
INVARIANT NoSelfNeighbor
