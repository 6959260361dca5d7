SPECIFICATION Spec
CONSTANTS
  r1 = r1
  r2 = r2
  NoAccount = NoAccount
  Requests = {q1, q2, q3}
  Accounts = {a1, a2}
  Kind <- ClaudeJSON
  Faults = {"rate_limit", "region"}
  Limit = 2
  DegradedLimit = 1
  CredentialLimit = 0
  BudgetOn = FALSE
  EmptyRetryMax = 0
SYMMETRY SlotSymmetry
INVARIANTS SlotsMatchHolders HoldersWithinLimit
