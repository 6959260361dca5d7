SPECIFICATION Spec
CONSTANTS
  r1 = r1
  r2 = r2
  NoAccount = NoAccount
  Requests = {r1, r2}
  Accounts = {a1, a2, a3}
  Kind <- StreamKinds
  Faults = {"forbidden", "canceled"}
  Limit = 0
  DegradedLimit = 0
  CredentialLimit = 2
  BudgetOn = TRUE
  EmptyRetryMax = 2
SYMMETRY AccountSymmetry
PROPERTIES NoRetryAfterContent GoneClientSparesAccount
