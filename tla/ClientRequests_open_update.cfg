SPECIFICATION Spec
CONSTANTS
  NULL = NULL
  Requests = {1, 2}
  Commands = {"UpdateTicket"}
  Stopping = {}
INVARIANTS
  OpenRunAnswers503
CHECK_DEADLOCK FALSE
