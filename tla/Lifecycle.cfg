SPECIFICATION FairSpec
CONSTANTS
  MaxStarts = 2
  MaxDevs = 2
  Users = {"Read"}
  Enabled = {"socks", "dns", "routes"}
INVARIANTS SwapInvisible DevicesOwned
PROPERTY CloseQuiesces
CHECK_DEADLOCK FALSE
