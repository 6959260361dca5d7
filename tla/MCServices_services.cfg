SPECIFICATION Spec
CONSTANTS
  t1 = t1
  t2 = t2
  t3 = t3
  g3 = g3
  Jobs = {t1, t2, t3}
  Cancelers = {c1}
  Cancelable = {t1}
  Limits = {1, 2}
  KeepTasks = 2
  Items <- MCItems
  BatchSize = 3
  BatchCrashes = 2
  Plains = {k1, k2}
  FlushEvery = 2
  MaxKeyId = 2
  MaxUses = 3
  GroupNames = {g1, g2, g3}
  Members = {a1, a2}
  BoundKeys = {k1}
  NoGroup = none
  Admins = {m1, m2}
  MaxAsked = 2
  None = None
  Names = {n1, n2}
  Objects = {o1, o2}
  MaxCred = 2
  MaxCounts = 1
  SaveMayFail = TRUE
  FlushMayFail = TRUE
INVARIANTS KeysKept RenameKeepsReach CleanMeansStored
PROPERTIES RunnerIsSemaphore TakenOnEnds
\* batches end, and the bounds on keys, tasks and restarts are reached
CHECK_DEADLOCK FALSE
