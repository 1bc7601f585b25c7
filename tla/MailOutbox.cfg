SPECIFICATION MailSpec
CONSTANTS
  Worker = {w1, w2}
  LeaseMinutes = 3
  MaxAttempts = 3
  MaxDelay = 4
  MaxMishaps = 2
INVARIANTS
  AtMostOnce
PROPERTIES
  MailSettles
CHECK_DEADLOCK FALSE
