CONSTANTS
  Hosts = {h1, h2}
  DummyOwn = d1
  DummyNeighbor = h2
  Clients = {c1}
  HostOf <- OnFirst
  h1 = h1
  h2 = h2
  MAX_NO_REPLY = 4
  BROADCAST_INTERVAL = 1
  POLL_TIMEOUT = 1
  BACKLOG = 0
  Copies = 1
  MaxWait = 2
  MaxInbox = 2
  MaxLosses = 1
  Horizon = 7

SPECIFICATION FairSpec
INVARIANT BroadcastCadence
INVARIANT MutualKnowledge
INVARIANT DeadForgotten
PROPERTY ClientsAnswered
