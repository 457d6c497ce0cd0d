CONSTANTS
  Docs = {d1}
  Attempts = 3
  AttemptTimeout = 2
  BaseDelay = 1
  ShutdownTimeout = 12
  MaxDocument = 2
  Careless = {}
  MaxUpdates = 2
SPECIFICATION FairSpec
PROPERTY LastAttemptBeforeForce
CHECK_DEADLOCK FALSE
