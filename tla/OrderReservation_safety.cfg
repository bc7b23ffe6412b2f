SPECIFICATION OrdersSpec
CONSTANTS
  t1 = t1
  t2 = t2
  u1 = u1
  u2 = u2
  o1 = o1
  o2 = o2
  o3 = o3
  NULL = NULL
  Tickets = {t1}
  Users = {u1, u2}
  Orders = {o1, o2}
  Outcomes = {"Succeeded", "Failed"}
  LostAcks = TRUE
  DbClockLags = TRUE
  RepeatRequests = FALSE
SYMMETRY Symmetry
INVARIANTS
  AtMostOneBlocking
  ReservationInv
PROPERTIES
  ClaimLeavesOnlyCanceledOrder
  CheckoutEndsByResolution
  ImplementsTicketSale
CHECK_DEADLOCK FALSE
