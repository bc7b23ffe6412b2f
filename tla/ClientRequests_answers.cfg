SPECIFICATION FairSpec
CONSTANTS
  NULL = NULL
  Requests = {1, 2}
  Commands <- EveryCommand
  Stopping = {"Tickets", "Orders"}
INVARIANTS
  RequestsInv
  OpenRunIsUndecided
  
  KeyNamesOneCreation
  AnswerTellsOutcome
  OnlyRefusalsEndRuns
PROPERTIES
  RequestIsAnswered
  ShutdownEnds
CHECK_DEADLOCK FALSE
