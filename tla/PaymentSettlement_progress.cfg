SPECIFICATION FairPaymentsSpec
CONSTANTS
  t1 = t1
  u1 = u1
  o1 = o1
  o2 = o2
  w1 = w1
  w2 = w2
  NULL = NULL
  Tickets = {t1}
  Users = {u1}
  Orders = {o1}
  Outcomes = {"Succeeded", "Failed"}
  LostAcks = TRUE
  DbClockLags = TRUE
  RepeatRequests = FALSE
  Workers = {w1}
PROPERTIES
  CheckoutEnds
  PaymentSettles
CHECK_DEADLOCK FALSE
