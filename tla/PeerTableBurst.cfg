SPECIFICATION Spec
SYMMETRY PeerSymmetry
CONSTANTS
  p1 = p1
  p2 = p2
  p3 = p3
  None = None
  Peers = {p1, p2}
  Network = 8
  Local = 9
  Broadcast = 15
  Manual = {10, 11, 13}
  Reported = {20, 21}
  MaxChanges = 2
INVARIANTS
  Reachable
