SPECIFICATION FairTrackerSpec
CHECK_DEADLOCK FALSE
CONSTANTS
  s1 = s1
  c1 = c1
  c2 = c2
  Servers = {s1}
  Clients = {c1, c2}
  Priority <- MCPriority
  MaxRetry = 3
  Patience = 1
  MaxRestarts = 1
  MaxDeaths = 2
INVARIANTS OffersArePending KeysGrantedOnce NoIdleDevice CountMeansTaken
PROPERTIES GrantsFollowPriority RequestsEnd
