CONSTANTS
  Macs = {h1, a}
  NoMac = nomac
  h1 = h1
  h2 = h2
  a = a
  b = b
  Clients = {c1}
  IfaceLists <- OneIface
  Datagrams <- OneNeighbor
  TIMEOUT = 3
  BROADCAST_INTERVAL = 2
  SELECT_TIMEOUT = 1
  BACKLOG = 0
  Faults = {"abort"}
  StartTime = 2
  MaxIter = 1
  MaxClock = 8
  MaxInbox = 1

SPECIFICATION Spec
PROPERTY RunsContinuously
