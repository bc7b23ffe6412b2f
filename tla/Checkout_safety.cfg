SPECIFICATION Spec
CONSTANTS
  t1 = t1
  u1 = u1
  u2 = u2
  o1 = o1
  o2 = o2
  w1 = w1
  k1 = k1
  k2 = k2
  k3 = k3
  NULL = NULL
  Tickets = {t1}
  Users = {u1}
  Orders = {o1}
  Outcomes = {"Failed"}
  LostAcks = TRUE
  DbClockLags = TRUE
  RepeatRequests = FALSE
  Workers = {}
  Keys = {k1, k2}
  ForeignKeys = {}
  UpdatesPerRun = 2
  EarlyEdits = TRUE
INVARIANTS
  CheckoutInv
PROPERTIES
  AnsweredOrderFreezesTicket
  QuoteIsCurrent
  RecordedPriceIsFinal
  TicketsAreUsedAsAssumed
CHECK_DEADLOCK FALSE
