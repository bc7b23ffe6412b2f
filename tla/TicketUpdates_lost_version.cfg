SPECIFICATION UpdatesSpec
CONSTANTS
  k1 = k1
  k2 = k2
  k3 = k3
  k4 = k4
  NULL = NULL
  Keys = {k1}
  ForeignKeys = {}
  UpdatesPerRun = 2
  LostAcks = TRUE
  EarlyEdits = FALSE
INVARIANTS
  MissingVersionIsInFlight
CHECK_DEADLOCK FALSE
