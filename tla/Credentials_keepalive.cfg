SPECIFICATION FairSpec
CONSTANTS
  MaxFailures = 2
  MaxIssued = 2
  MaxRestarts = 1
  CookieAlways = TRUE
INVARIANTS SecretAtHand
PROPERTIES BackOrRemoved
\* a removed account takes no step
CHECK_DEADLOCK FALSE
