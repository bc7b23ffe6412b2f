SPECIFICATION FairUpdatesSpec
CONSTANTS
  k1 = k1
  k2 = k2
  k3 = k3
  k4 = k4
  NULL = NULL
  Keys = {k1, k2, k3, k4}
  ForeignKeys = {k4}
  UpdatesPerRun = 2
  LostAcks = TRUE
  EarlyEdits = TRUE
INVARIANTS
  UpdatesInv
  AnswerIsProjected
  MissingVersionIsKnown
PROPERTIES
  ImplementsTicketHistory
  UpdateIsAnswered
  CreationCompletes
CHECK_DEADLOCK FALSE
