CONSTANTS
  Proxies = {p1, p2}
  Clients = {c1}
  MaxChain = 3
  MaxSegments = 3
SPECIFICATION FairSpec
INVARIANTS
  StreamsExact
  CurrentSocketClosed
PROPERTY RelayEnds
