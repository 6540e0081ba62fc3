CONSTANTS
  Peers = {p1, p2}
  NumBuf = 4
  None = None
  MaxInst = 2
  ChanCap = 1
  Batch = 2
  MaxPackets = 2
  MaxChanges = 2
  W = 3
  AddrWords = {0, 1, 6, 7}
  LoadWords = {0, 1, 4, 7}
SPECIFICATION MCSpec
SYMMETRY Symmetry
INVARIANTS
  OwnedOnce
  NoSendOnClosed
  TagsTrue
  ForwardNeedsRole
  RewriteVerifies
CHECK_DEADLOCK FALSE
