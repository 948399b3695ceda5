CONSTANTS
  Proxies = {p1, p2}
  Clients = {c1}
  MaxChain = 2
  MaxSegments = 1
SPECIFICATION Spec
INVARIANT ThroughChain
