SPECIFICATION Spec
CONSTANTS
  Handlers = {h1, h2, h3}
  Capacities = {0, 1, 2}
  MaxGates = 3
  Requests = {q1}
  Buckets = 3
  Span = 2
  ProbeInterval = 2
  MinAttempts = 3
  Samples = {"ok", "upstreamFailure", "badRequest", "clientGone"}
  MaxPerBucket = 2
  Picks = 2
  EmptyRetries = 1
  MaxPicks = 2
  MaxPings = 1
  x1 = x1
  x2 = x2
  n1 = n1
  n2 = n2
  Askers = {x1, x2}
  Namespaces = {n1, n2}
  Prompts <- MCPrompts
  Policies <- MCPolicies
  Short = 1
  Long = 2
  Lookback = 2
  FastTokens = 30
  PrefixTokens = 6
INVARIANTS GateSound RingExact ChatMessage ClaudeMessage UsageSound
PROPERTIES EntryDecided Heals ChatReplies ClaudeReplies
\* requests end
CHECK_DEADLOCK FALSE
