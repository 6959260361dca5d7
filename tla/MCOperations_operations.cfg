SPECIFICATION Spec
CONSTANTS
  Accts = {1, 2, 3}
  Strategies = {"rr", "weighted", "fill"}
  Weights = {1, 2}
  Priorities = {0, 1}
  MaxPicksMade = 4
  MaxShifts = 1
  Users = {u1, u2}
  Minute = 2
  Day = 2
  Limits = {0, 1}
  LastTick = 3
  MaxUses = 2
  MaxEdits = 2
  Followers = {f1}
  Room = 1
  Sizes = {1, 2}
  MaxLogs = 3
  MaxResizes = 1
  Visitors = {v1, v2}
  RingSeconds = 3
  MeterWindow = 2
  LastSecond = 7
  Accounts = {a1, a2}
  First = a1
  Own = {a1}
  Exits = {e1, e2}
  NoExit = NoExit
  Configured = TRUE
  Admins = {m1}
  MaxChanges = 3
  Calls = {"Shell", "Grep", "search", "Search", "ripgrep", "Edit", "Task", "subagent", "delegate", "Delete", "LS", "computeruse", "other"}
  Declarable = {"bash", "edit", "grep", "glob", "task", "search"}
  Fields = {{}, {"path"}, {"path", "old_str"}, {"query"}, {"pattern", "path"}, {"task"}}
  Schemas = {{}, {"command"}, {"file_path", "input"}, {"regex", "path"}, {"prompt", "description"}}
  MaxDeclared = 2
  Protocols = {"openai", "anthropic", "responses", "gemini"}
  Names = {n1, n2}
  NoName = NoName
  ImageSizes = {1, 3}
  PerImage = 2
  Budget = 3
  MaxTurns = 3
  Editors = {m1, m2}
  Documents <- MCDocuments
  MaxSettings = 2
  Searchers = {u1}
  PageEditors = {m1, m2}
  MaxKeys = 2
  MaxSecrets = 3
  MaxSearches = 2
  MaxSaves = 3
INVARIANTS Observed WaysFollow LimitsKept TakenInTurn CallsUsable ConversationKept Followed
PROPERTIES StartKeeps
CHECK_DEADLOCK FALSE
