SPECIFICATION Spec
CONSTANTS
  u1 = u1
  u2 = u2
  b1 = b1
  b2 = b2
  s1 = s1
  s2 = s2
  r1 = r1
  r2 = r2
  NULL = NULL
  Users = {u1}
  Browsers = {b1, b2}
  Sessions = {s1, s2}
  Requests = {r1, r2}
SYMMETRY Symmetry
INVARIANTS
  SessionsInv
  AdmittedUserSignedInHere
  SignedOutSessionStaysAway
PROPERTIES
  CookieIsNotStale
  UnauthenticatedIsTrue
  SignInTellsSession
CHECK_DEADLOCK FALSE
