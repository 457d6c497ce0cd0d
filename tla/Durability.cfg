CONSTANTS
  Docs = {d1, d2}
  Attempts = 2
  AttemptTimeout = 1
  BaseDelay = 1
  ShutdownTimeout = 3
  MaxDocument = 2
  Careless = {d2}
  MaxUpdates = 3
SPECIFICATION FairSpec
INVARIANTS NothingLost
PROPERTIES StoredGetsNewer OneWindowCoversOneStore CloseSettles
CHECK_DEADLOCK FALSE
