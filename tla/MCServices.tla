----------------------------- MODULE MCServices ------------------------------
(* One run for machines that share no state with another one: the documents  *)
(* of the pool, the task runner, a message batch, the client keys and the    *)
(* groups.  `part` names the one a behaviour exercises; the others stay as   *)
(* they began.                                                               *)
EXTENDS AccountStore, Tasks, Batches, Keys, Groups

CONSTANTS t1, t2, t3, g3

VARIABLE part

vars == <<part, storeVars, jobVars, batchVars, keyVars, groupVars>>

MCItems == [t \in Jobs |-> IF t = t1 THEN 2 ELSE 0]

Pool(A) == part = "pool" /\ A /\ UNCHANGED <<part, jobVars, batchVars, keyVars, groupVars>>
Work(A) == part = "tasks" /\ A /\ UNCHANGED <<part, storeVars, batchVars, keyVars, groupVars>>
Batch(A) == part = "batches" /\ A /\ UNCHANGED <<part, storeVars, jobVars, keyVars, groupVars>>
Key(A) == part = "keys" /\ A /\ UNCHANGED <<part, storeVars, jobVars, batchVars, groupVars>>
Group(A) == part = "groups" /\ A /\ UNCHANGED <<part, storeVars, jobVars, batchVars, keyVars>>

Init ==
  /\ part \in {"pool", "tasks", "batches", "keys", "groups"}
  /\ StoreInit /\ BatchesInit /\ KeysInit
  /\ TasksInit /\ (part = "tasks" \/ runner.max = Max(Limits))
  /\ GroupsInit
  /\ registry = IF part = "groups" THEN GroupNames \ {g3} ELSE {}
  /\ \A a \in Members : memberOf[a] = registry

Next ==
  \/ \E t \in Jobs :
       \/ Work(Enqueue(t)) \/ Work(AcquireSlot(t)) \/ Work(StartTask(t)) \/ Work(BeginItem(t))
       \/ Work(ItemDone(t)) \/ Work(FnReturns(t)) \/ Work(RecordEnd(t)) \/ Work(ReleaseSlot(t))
       \/ \E c \in Cancelers : Work(CancelBegins(c, t))
  \/ \E c \in Cancelers : Work(CancelChecks(c)) \/ Work(CancelMarks(c))
  \/ Work(SetConcurrency) \/ Work(TasksRestart)
  \/ Batch(CreateBatch) \/ Batch(WorkerWrites) \/ Batch(SeesCancel) \/ Batch(GoesOn)
  \/ Batch(Results) \/ Batch(Finish)
  \/ Batch(CancelBatch) \/ Batch(KillerMarshals) \/ Batch(KillerWrites) \/ Batch(BatchRestart)
  \/ Key(CreateKey) \/ Key(SetMaster) \/ Key(FlushKeys) \/ Key(Loaded) \/ Key(BootKeys)
  \/ \E i \in Ids : Key(DeleteKey(i)) \/ Key(RotateKey(i)) \/ Key(ResetStats(i)) \/ Key(RecordUsage(i))
  \/ Group(CreateGroup) \/ Group(SetMembership) \/ Group(FlushMembers) \/ Group(GroupsRestart)
  \/ \E m \in Admins :
       \/ Group(RenameRegistered(m)) \/ Group(RenameKeys(m)) \/ Group(RenameReturns(m))
       \/ Group(DeleteBegins(m)) \/ Group(DeleteLists(m)) \/ Group(DeleteUnbound(m))
       \/ Group(DeleteWrites(m)) \/ Group(DeleteRecord(m))
       \/ \E a \in Members : Group(RenameMember(m, a)) \/ Group(DeleteReads(m, a))
       \/ \E k \in BoundKeys : Group(DeleteUnbinds(m, k))
  \/ \E n \in Names :
       \/ Pool(AddAPIKey(n)) \/ Pool(SetToken(n)) \/ Pool(Remove(n)) \/ Pool(Begin(n))
  \/ \E o \in Objects : Pool(RequestEnds(o)) \/ Pool(RefreshEnds(o))
  \/ Pool(FlushTake) \/ Pool(FlushWrite) \/ Pool(Crash)

Spec == Init /\ [][Next]_vars /\ TasksFairness /\ BatchesFairness
-----------------------------------------------------------------------------
(* What has been taken on comes to an end: a task that waits for a slot, and *)
(* a batch that nobody cancels, over restarts.                               *)
TakenOnEnds == QueuedRuns /\ UncancelledEnds
=============================================================================
