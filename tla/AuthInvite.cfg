SPECIFICATION Spec
CONSTANTS
  Peers = {p1, p2}
  Invites = {i1}
  Workers = {w1, w2}
  RetryLoop = retry
  StatusLoop = status
  None = none
  AutoAccept = FALSE
  UseLimits = {0, 1}
  StatusInfos = {"deny"}
  Calls = {"auth", "invite", "revoke", "expire", "remove", "connected"}
  MaxBusy = 2
  MaxRestarts = 1
SYMMETRY Symmetry
INVARIANTS InviteUses
PROPERTY RedemptionAtomic
