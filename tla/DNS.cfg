CONSTANTS
  Peers = {p1, p2}
  Domains = {"laptop"}
  Addr4 = {a1, a2}
  Addr6 = {b}
  AdminIP = AdminIP
  None = None
  Saved <- MCSaved
  MaxChanges = 3
SPECIFICATION Spec
INVARIANTS
  ResolvesKnownPeers
  ReverseCurrent
  NoLeak
SYMMETRY Symmetry
CHECK_DEADLOCK FALSE
