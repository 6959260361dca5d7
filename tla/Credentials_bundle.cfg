SPECIFICATION Spec
CONSTANTS
  MaxFailures = 2
  MaxIssued = 2
  MaxRestarts = 1
  CookieAlways = TRUE
INVARIANTS BundleKept
\* a removed account takes no step
CHECK_DEADLOCK FALSE
