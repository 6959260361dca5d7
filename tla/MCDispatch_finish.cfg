SPECIFICATION FairSpec
CONSTANTS
  r1 = r1
  r2 = r2
  NoAccount = NoAccount
  Requests = {r1, r2}
  Accounts = {a1, a2}
  Kind <- OpenAIKinds
  Faults = {"server", "region"}
  Limit = 1
  DegradedLimit = 1
  CredentialLimit = 0
  BudgetOn = TRUE
  EmptyRetryMax = 0
INVARIANTS AlwaysAnswered
PROPERTIES RequestsFinish
