SPECIFICATION MCSpec
CONSTANTS
  Peers = {p1}
  MaxBoots = 3
  MaxChanges = 3
  Conns = {c1, c2}
  Reaching = {c1}
INVARIANT ProtectionFollows
PROPERTIES BootstrapEnds KeepsDialing NobodyWaits SessionEnds ServicesStop
CHECK_DEADLOCK FALSE
