CONSTANTS
  Uplinks = {eth, wifi}
  Uplinks6 = {eth}
  Tun = Tun
  None = None
  Platforms = {"linux", "windows"}
  MaxCalls = 3
  MaxTrouble = 1
SPECIFICATION Spec
INVARIANTS
  NothingForgotten
  FailClosed
  ExemptionsFollow
CHECK_DEADLOCK FALSE
