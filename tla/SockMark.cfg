SPECIFICATION FairSpec
CONSTANTS
  Socks = {s1}
  Kinds = {"udpDual", "udpAny"}
  Uplinks = {1, 2}
  Tables <- SmallTables
  MaxMoves = 1
  MaxTrouble = 1
  BurstMax = 1
INVARIANTS BoundToUplink IndexFresh
PROPERTIES Redetects ClosedEvicted
CHECK_DEADLOCK FALSE
