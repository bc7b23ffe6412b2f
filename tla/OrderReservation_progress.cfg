SPECIFICATION FairOrdersSpec
CONSTANTS
  t1 = t1
  t2 = t2
  u1 = u1
  u2 = u2
  o1 = o1
  o2 = o2
  o3 = o3
  NULL = NULL
  Tickets = {t1}
  Users = {u1}
  Orders = {o1, o2}
  Outcomes = {"Failed"}
  LostAcks = TRUE
  DbClockLags = TRUE
  RepeatRequests = TRUE
INVARIANTS
  AcknowledgedOrderHoldsClaim
PROPERTIES
  AnsweredOrderMeetsDeadline
  CanceledOrderFreesTicket
CHECK_DEADLOCK FALSE
