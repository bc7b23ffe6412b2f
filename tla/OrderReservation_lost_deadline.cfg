SPECIFICATION OrdersSpec
CONSTANTS
  t1 = t1
  t2 = t2
  u1 = u1
  u2 = u2
  o1 = o1
  o2 = o2
  o3 = o3
  NULL = NULL
  Tickets = {t1}
  Users = {u1}
  Orders = {o1}
  Outcomes = {"Succeeded", "Failed"}
  LostAcks = TRUE
  DbClockLags = FALSE
  RepeatRequests = FALSE
INVARIANTS
  CreatedOrderHasDeadline
CHECK_DEADLOCK FALSE
