------------------------------- MODULE Batches -------------------------------
(* A message batch, api/batches.go: the record in memory, the goroutine that *)
(* sends its requests one by one, the handler that cancels it, and the row   *)
(* in PostgreSQL that every change is copied to.                             *)
EXTENDS Naturals, FiniteSets

CONSTANTS
  BatchSize,    \* requests of the batch
  BatchCrashes  \* bound: restarts of the process

ASSUME BatchesAssumption == BatchSize \in Nat \ {0} /\ BatchCrashes \in Nat

VARIABLES
  batch,    \* status and, for each request, how many results it has
  row,      \* the stored payload
  worker,   \* processBatch, or the handler that created the batch
  killer,   \* handleBatchesCancel
  crashes

batchVars == <<batch, row, worker, killer, crashes>>

Positions == 1..BatchSize
NoBatch == [status |-> "none", results |-> [i \in Positions |-> 0]]
Terminal == {"ended", "cancelled"}

(* snap is what save has marshalled and not yet written; then is where the   *)
(* caller goes on.                                                           *)
Resting == [pc |-> "idle", next |-> 1, snap |-> NoBatch, then |-> "idle"]
NoKiller == [pc |-> "idle", snap |-> NoBatch]

BatchesInit ==
  /\ batch = NoBatch /\ row = NoBatch /\ crashes = 0
  /\ worker = Resting /\ killer = NoKiller
-----------------------------------------------------------------------------
(* save marshals without the lock.  The results are only appended to by the  *)
(* worker itself, so its own picture is that of the moment it looks at the   *)
(* status.                                                                   *)
SaveThen(next, then) ==
  worker' = [pc |-> "write", next |-> next, snap |-> batch', then |-> then]

(* createBatch: entered in the list, saved, and only then worked on.         *)
CreateBatch ==
  /\ batch.status = "none"
  /\ batch' = [batch EXCEPT !.status = "in_progress"]
  /\ SaveThen(1, "loop")
  /\ UNCHANGED <<row, killer, crashes>>

(* UpsertBatch: the row becomes what was marshalled; an error is dropped.    *)
WorkerWrites ==
  /\ worker.pc = "write"
  /\ row' \in {row, worker.snap}
  /\ worker' = [Resting EXCEPT !.pc = worker.then, !.next = worker.next]
  /\ UNCHANGED <<batch, killer, crashes>>

(* isCancelled, before a request: a batch that is being cancelled is marked  *)
(* and saved, and the worker stops.                                          *)
SeesCancel ==
  /\ worker.pc = "loop" /\ worker.next \in Positions
  /\ \/ /\ batch.status = "canceling"
        /\ batch' = [batch EXCEPT !.status = "cancelled"]
        /\ SaveThen(worker.next, "over")
     \/ /\ batch.status = "cancelled"
        /\ worker' = [Resting EXCEPT !.pc = "over"]
        /\ UNCHANGED batch
  /\ UNCHANGED <<row, killer, crashes>>

GoesOn ==
  /\ worker.pc = "loop" /\ worker.next \in Positions
  /\ batch.status \notin {"canceling", "cancelled"}
  /\ worker' = [worker EXCEPT !.pc = "send"]
  /\ UNCHANGED <<batch, row, killer, crashes>>

(* The request is answered or fails, and has its result either way.          *)
Results ==
  /\ worker.pc = "send"
  /\ batch' = [batch EXCEPT !.results[worker.next] = @ + 1]
  /\ SaveThen(worker.next + 1, "loop")
  /\ UNCHANGED <<row, killer, crashes>>

(* finish: ended, unless a cancel has come meanwhile.                        *)
Finish ==
  /\ worker.pc = "loop" /\ worker.next \notin Positions
  /\ batch' = [batch EXCEPT !.status = IF @ = "in_progress" THEN "ended" ELSE @]
  /\ SaveThen(worker.next, "over")
  /\ UNCHANGED <<row, killer, crashes>>
-----------------------------------------------------------------------------
(* cancel changes the status under the lock, and saves after it: the results *)
(* are looked at first, the status later.                                    *)
CancelBatch ==
  /\ killer.pc = "idle" /\ batch.status = "in_progress"
  /\ batch' = [batch EXCEPT !.status = "canceling"]
  /\ killer' = [NoKiller EXCEPT !.pc = "results"]
  /\ UNCHANGED <<row, worker, crashes>>

KillerMarshals ==
  /\ \/ /\ killer.pc = "results"
        /\ killer' = [pc |-> "status", snap |-> [NoBatch EXCEPT !.results = batch.results]]
     \/ /\ killer.pc = "status"
        /\ killer' = [pc |-> "write", snap |-> [killer.snap EXCEPT !.status = batch.status]]
  /\ UNCHANGED <<batch, row, worker, crashes>>

KillerWrites ==
  /\ killer.pc = "write"
  /\ row' \in {row, killer.snap}
  /\ killer' = NoKiller
  /\ UNCHANGED <<batch, worker, crashes>>
-----------------------------------------------------------------------------
(* mutant of Restored: a batch that was in progress is only listed *)
RestoredIdle(b) == Resting

(* restoreBatches: a batch that was in progress is worked on from its first  *)
(* request; one that was being cancelled is only listed.                     *)
Restored(b) == IF b.status = "in_progress" THEN [Resting EXCEPT !.pc = "loop"] ELSE Resting

BatchRestart ==
  /\ crashes < BatchCrashes
  /\ crashes' = crashes + 1
  /\ batch' = row /\ worker' = Restored(row) /\ killer' = NoKiller
  /\ UNCHANGED row

WorkerStep == WorkerWrites \/ SeesCancel \/ GoesOn \/ Results \/ Finish
KillerStep == KillerMarshals \/ KillerWrites
BatchesNext == CreateBatch \/ WorkerStep \/ CancelBatch \/ KillerStep \/ BatchRestart

BatchesSpec == BatchesInit /\ [][BatchesNext]_batchVars

(* The goroutine runs; a request of it ends (Dispatch), and so does a query. *)
BatchesFairness == WF_batchVars(WorkerStep) /\ WF_batchVars(KillerStep)
BatchesFairSpec == BatchesSpec /\ BatchesFairness
-----------------------------------------------------------------------------
(* A batch that is reported as ended, by this process or a later one that    *)
(* reads the row, has a result for each of its requests (batches.go:171,     *)
(* :211, :385 hand them out then): not lost to failed requests, to saves     *)
(* that overtake each other, or to a restart.                                *)
EndedComplete ==
  \A b \in {batch, row} :
    b.status = "ended" => \A i \in Positions : b.results[i] > 0

(* A batch that nobody cancels ends, as long as it has been stored before    *)
(* the process goes down: the next one takes it up (batches.go:555).         *)
UncancelledEnds ==
  row.status = "in_progress" ~> batch.status \in Terminal \cup {"canceling"}

(* batches.go:150, :194: a cancelled batch is brought to a final status, and *)
(* its results can then be had.  Fails: nothing looks at the mark after the  *)
(* last request, and a restart does not take the batch up.                   *)
CancelledEnds == batch.status = "canceling" ~> batch.status \in Terminal

(* A request is answered once.  Fails: after a restart the worker begins     *)
(* with the first request and appends to the results that were stored.       *)
OneResultEach == \A i \in Positions : batch.results[i] <= 1
=============================================================================
