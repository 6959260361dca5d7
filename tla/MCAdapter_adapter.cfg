SPECIFICATION Spec
CONSTANTS
  Parts = {"sandbox", "prewarm", "turn", "tickets", "files"}
  Callers = {s1, p1}
  Starters = {s1}
  PoolSize = 2
  CallAttempts = 2
  MaxTickets = 4
  MaxAttachments = 2
  FetchConcurrency = 2
  Letters <- MCLetters
  r1 = r1
  r2 = r2
  c1 = c1
  pw = pw
  Requests = {r1, r2}
  Recasters = {c1}
  Prewarmer = pw
  Attempts = 2
  PrepareRetries = 1
  MaxReconnects = 1
  MaxSandboxes = 2
  Casts <- MCCasts
  w1 = w1
  w2 = w2
  Warmable = {w1, w2}
  Interval = 5
  SandboxTTL = 10
  RefreshAfter = 5
  MinGap = 1
  BackoffBase = 5
  BackoffMax = 25
  ChainMax = 2
  MaxJitter = 2
  Workers = 1
  MaxFailures = 2
  Fleets <- MCFleets
  TurnBudget = 30
  CallMax = 10
  MaxPollFailures = 2
  RelayMax = 40
  Slots = 1
  Turns = {}
SYMMETRY TurnSymmetry
INVARIANTS GoesAlong StartHasSandbox ColdBounded
PROPERTIES KeepsContract NeverOlder
\* turns end, and the bounds on sandboxes and failures are reached
CHECK_DEADLOCK FALSE
