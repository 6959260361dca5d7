SPECIFICATION FairSpec
CONSTANTS
  Parts = {"sandbox", "material"}
  Callers = {s1, p1}
  Starters = {s1}
  PoolSize = 2
  CallAttempts = 2
  MaxTickets = 4
  MaxAttachments = 2
  FetchConcurrency = 2
  Letters <- MCLetters
  r1 = r1
  r2 = r2
  c1 = c1
  pw = pw
  Requests = {r1, r2}
  Recasters = {}
  Prewarmer = pw
  Attempts = 1
  PrepareRetries = 1
  MaxReconnects = 0
  MaxSandboxes = 1
  Casts <- MCPair
  w1 = w1
  w2 = w2
  Warmable = {w1, w2}
  Interval = 4
  SandboxTTL = 8
  RefreshAfter = 4
  MinGap = 1
  BackoffBase = 4
  BackoffMax = 20
  ChainMax = 1
  MaxJitter = 2
  Workers = 1
  MaxFailures = 2
  Fleets <- MCFleets
  TurnBudget = 30
  CallMax = 10
  MaxPollFailures = 2
  RelayMax = 40
  Slots = 2
  Turns = {u1}
PROPERTIES TurnsEnd KeptWarm
\* turns end
CHECK_DEADLOCK FALSE
