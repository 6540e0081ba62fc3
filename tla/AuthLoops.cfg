SPECIFICATION FairSpec
CONSTANTS
  Peers = {p1}
  Invites = {}
  Workers = {w1, w2}
  RetryLoop = retry
  StatusLoop = status
  None = none
  AutoAccept = TRUE
  UseLimits = {}
  StatusInfos = {"declined", "allow"}
  Calls = {"auth", "status", "friend", "accept", "remove", "settings", "retry", "exchangeAll", "proxy"}
  MaxBusy = 2
  MaxRestarts = 0
INVARIANTS ConfirmedHeard
PROPERTIES NoResurrection StaleOfferHealed
