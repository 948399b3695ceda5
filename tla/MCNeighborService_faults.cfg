CONSTANTS
  Macs = {h1, h2, a, b}
  NoMac = nomac
  h1 = h1
  h2 = h2
  a = a
  b = b
  Clients = {c1}
  IfaceLists <- SomeIfaces
  Datagrams <- Faulty
  TIMEOUT = 2
  BROADCAST_INTERVAL = 2
  SELECT_TIMEOUT = 1
  BACKLOG = 1
  Faults = {"select", "accept", "getifaddrs", "abort", "kill"}
  StartTime = 2
  MaxIter = 1
  MaxClock = 5
  MaxInbox = 1

SPECIFICATION Spec
INVARIANT OneEntryPerMac
PROPERTY LinesOnlyRenewed
