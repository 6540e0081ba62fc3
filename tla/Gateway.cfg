SPECIFICATION Spec
CONSTANTS
  Peers = {p1}
  Workers = {w1, w2}
  Main = main
  None = none
  Malformed = malformed
  FirstGateway = {none, malformed}
  ClientSupported = TRUE
  ServerSupported = TRUE
  SplitDNS = TRUE
  OSFails = {"routes", "nat", "dns"}
  Calls = {"enable", "disable", "serverOn", "serverOff", "remove"}
  MaxCalls = 2
SYMMETRY Symmetry
CONSTRAINT Unsaved
INVARIANTS NoBlackHole ClientAgrees ServerAgrees NoDnsLeak
