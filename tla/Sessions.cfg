SPECIFICATION SessionsSpec
CONSTANTS
  Proc = {p1, p2, p3}
  Nobody = Nobody
  MaxRequests = 3
INVARIANTS
  OneSignIn
PROPERTIES
  EndedStaysEnded
  RequestsEnd
CHECK_DEADLOCK FALSE
