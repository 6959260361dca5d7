-------------------------------- MODULE Tasks --------------------------------
(* Background tasks of the administration: tasks/store.go keeps their        *)
(* records, tasks/runner.go runs them in a limited number of slots, and      *)
(* api/admin_tasks.go works their items off with goroutines of its own.      *)
EXTENDS Naturals, Sequences, FiniteSets

CONSTANTS
  Jobs,       \* tasks there may be
  Cancelers,  \* Runner.Cancel calls at a time
  Cancelable, \* bound: the tasks somebody cancels
  Limits,     \* the concurrency limits that are set
  KeepTasks,  \* maxTasks
  Items       \* the items of each

ASSUME TasksAssumption ==
  /\ Limits \subseteq Nat \ {0} /\ Limits # {} /\ KeepTasks \in Nat \ {0}
  /\ Items \in [Jobs -> Nat]

VARIABLES
  order,     \* Store.order, oldest first
  status,    \* Store.items: the status of each record
  runner,    \* Runner.active, waiters and max
  pc,        \* Runner.run, per task
  canceled,  \* its context is cancelled
  left,      \* items not begun
  atWork,    \* item goroutines at work
  canceler   \* Runner.Cancel, per call

jobVars == <<order, status, runner, pc, canceled, left, atWork, canceler>>

Ended == {"success", "failed", "canceled"}
Active == {"pending", "running"}
Gone == "gone"                      \* no record
NoCall == [pc |-> "idle", job |-> Gone]

TasksInit ==
  /\ order = <<>> /\ status = [t \in Jobs |-> Gone]
  /\ \E n \in Limits : runner = [active |-> 0, waiters |-> <<>>, max |-> n]
  /\ pc = [t \in Jobs |-> "none"]
  /\ canceled = [t \in Jobs |-> FALSE]
  /\ left = Items /\ atWork = [t \in Jobs |-> 0]
  /\ canceler = [c \in Cancelers |-> NoCall]
-----------------------------------------------------------------------------
(* setStatus: a record that has been trimmed is left alone.  saveLocked      *)
(* writes the document under the same lock: it always has the same records.  *)
SetStatus(t, s) ==
  status' = IF status[t] = Gone THEN status ELSE [status EXCEPT ![t] = s]

(* Enqueue: the record first; the oldest one, whatever it is at, is dropped  *)
(* when there are too many.                                                  *)
Enqueue(t) ==
  /\ pc[t] = "none" /\ status[t] = Gone
  /\ LET o == Append(order, t) IN
     IF Len(o) > KeepTasks
     THEN /\ order' = Tail(o)
          /\ status' = [status EXCEPT ![t] = "pending", ![Head(o)] = Gone]
     ELSE order' = o /\ status' = [status EXCEPT ![t] = "pending"]
  /\ pc' = [pc EXCEPT ![t] = "acquire"]
  /\ UNCHANGED <<runner, canceled, left, atWork, canceler>>

(* acquire: a slot, or a place in the queue.                                 *)
AcquireSlot(t) ==
  /\ pc[t] = "acquire"
  /\ IF runner.active < runner.max
     THEN /\ runner' = [runner EXCEPT !.active = @ + 1]
          /\ pc' = [pc EXCEPT ![t] = "start"]
     ELSE /\ runner' = [runner EXCEPT !.waiters = Append(@, t)]
          /\ pc' = [pc EXCEPT ![t] = "wait"]
  /\ UNCHANGED <<order, status, canceled, left, atWork, canceler>>

(* The cancel function is entered in the map, then the task runs.            *)
StartTask(t) ==
  \/ /\ pc[t] = "start"
     /\ pc' = [pc EXCEPT ![t] = "entered"]
     /\ UNCHANGED <<order, status, runner, canceled, left, atWork, canceler>>
  \/ /\ pc[t] = "entered"
     /\ SetStatus(t, "running")
     /\ pc' = [pc EXCEPT ![t] = "run"]
     /\ UNCHANGED <<order, runner, canceled, left, atWork, canceler>>

(* The loop of runAccountBatch: the context is looked at, then a place in    *)
(* sem is waited for (as many as the limit was when the function began), and *)
(* a goroutine does the item.                                                *)
BeginItem(t) ==
  \/ /\ pc[t] = "run" /\ left[t] > 0 /\ ~canceled[t]
     /\ pc' = [pc EXCEPT ![t] = "place"]
     /\ UNCHANGED <<order, status, runner, canceled, left, atWork, canceler>>
  \/ /\ pc[t] = "place" /\ \E n \in Limits : atWork[t] < n
     /\ left' = [left EXCEPT ![t] = @ - 1] /\ atWork' = [atWork EXCEPT ![t] = @ + 1]
     /\ pc' = [pc EXCEPT ![t] = "run"]
     /\ UNCHANGED <<order, status, runner, canceled, canceler>>

ItemDone(t) ==
  /\ atWork[t] > 0
  /\ atWork' = [atWork EXCEPT ![t] = @ - 1]
  /\ UNCHANGED <<order, status, runner, pc, canceled, left, canceler>>

(* The function returns, after the last item, or at once when the loop sees  *)
(* a cancelled context; then run looks at the context.                       *)
FnReturns(t) ==
  /\ pc[t] = "run"
  /\ \/ left[t] = 0 /\ atWork[t] = 0
     \/ left[t] > 0 /\ canceled[t]
  /\ pc' = [pc EXCEPT ![t] = IF canceled[t] THEN "recordCanceled" ELSE "record"]
  /\ UNCHANGED <<order, status, runner, canceled, left, atWork, canceler>>

RecordEnd(t) ==
  /\ \/ pc[t] = "recordCanceled" /\ SetStatus(t, "canceled")
     \/ pc[t] = "record" /\ \E s \in {"success", "failed"} : SetStatus(t, s)
  /\ pc' = [pc EXCEPT ![t] = "release"]
  /\ UNCHANGED <<order, runner, canceled, left, atWork, canceler>>

(* mutant of HandOn: nobody is woken *)
HandOnToNobody(t) ==
  /\ runner' = [runner EXCEPT !.active = @ - 1]
  /\ pc' = [pc EXCEPT ![t] = "over"]

(* mutant of HandOn: the slot is given back and handed on as well *)
HandOnTwice(t) ==
  IF runner.waiters = <<>>
  THEN /\ runner' = [runner EXCEPT !.active = @ - 1]
       /\ pc' = [pc EXCEPT ![t] = "over"]
  ELSE /\ runner' = [runner EXCEPT !.active = @ - 1, !.waiters = Tail(@)]
       /\ pc' = [pc EXCEPT ![t] = "over", ![Head(runner.waiters)] = "start"]

(* release: the slot goes to the first in the queue, or becomes free.        *)
HandOn(t) ==
  IF runner.waiters = <<>>
  THEN /\ runner' = [runner EXCEPT !.active = @ - 1]
       /\ pc' = [pc EXCEPT ![t] = "over"]
  ELSE /\ runner' = [runner EXCEPT !.waiters = Tail(@)]
       /\ pc' = [pc EXCEPT ![t] = "over", ![Head(runner.waiters)] = "start"]

ReleaseSlot(t) ==
  /\ pc[t] = "release"
  /\ HandOn(t) /\ canceled' = [canceled EXCEPT ![t] = FALSE]
  /\ UNCHANGED <<order, status, left, atWork, canceler>>

SetConcurrency ==
  /\ \E n \in Limits \ {runner.max} : runner' = [runner EXCEPT !.max = n]
  /\ UNCHANGED <<order, status, pc, canceled, left, atWork, canceler>>
-----------------------------------------------------------------------------
Entered == {"entered", "run", "place", "record", "recordCanceled", "release"}
HasCancel(t) == pc[t] \in Entered

(* Cancel: the context first, if the task runs.  A record that is neither    *)
(* unfinished nor cancelled, and does not run, is refused.                   *)
CancelBegins(c, t) ==
  /\ canceler[c] = NoCall /\ pc[t] # "none" /\ t \in Cancelable
  /\ canceled' = [canceled EXCEPT ![t] = @ \/ HasCancel(t)]
  /\ canceler' = [canceler EXCEPT ![c] =
       IF status[t] = Gone \/ (status[t] \in {"success", "failed"} /\ ~HasCancel(t))
       THEN NoCall ELSE [pc |-> "check", job |-> t]]
  /\ UNCHANGED <<order, status, runner, pc, left, atWork>>

(* markCanceled looks under the lock, and records under it a second time.    *)
CancelChecks(c) ==
  /\ canceler[c].pc = "check"
  /\ canceler' = [canceler EXCEPT ![c] =
       IF status[canceler[c].job] \in Active THEN [@ EXCEPT !.pc = "mark"] ELSE NoCall]
  /\ UNCHANGED <<order, status, runner, pc, canceled, left, atWork>>

CancelMarks(c) ==
  /\ canceler[c].pc = "mark"
  /\ SetStatus(canceler[c].job, "canceled")
  /\ canceler' = [canceler EXCEPT ![c] = NoCall]
  /\ UNCHANGED <<order, runner, pc, canceled, left, atWork>>

(* The process ends and starts again: what was unfinished has failed.        *)
TasksRestart ==
  /\ status' = [t \in Jobs |-> IF status[t] \in Active THEN "failed" ELSE status[t]]
  /\ \E n \in Limits : runner' = [active |-> 0, waiters |-> <<>>, max |-> n]
  /\ pc' = [t \in Jobs |-> IF pc[t] = "none" THEN "none" ELSE "over"]
  /\ canceled' = [t \in Jobs |-> FALSE]
  /\ left' = [t \in Jobs |-> IF pc[t] = "none" THEN left[t] ELSE 0]
  /\ atWork' = [t \in Jobs |-> 0]
  /\ canceler' = [c \in Cancelers |-> NoCall]
  /\ UNCHANGED order

RunStep(t) ==
  \/ AcquireSlot(t) \/ StartTask(t) \/ BeginItem(t) \/ FnReturns(t) \/ RecordEnd(t)
  \/ ReleaseSlot(t)

TasksNext ==
  \/ \E t \in Jobs : Enqueue(t) \/ RunStep(t) \/ ItemDone(t)
  \/ \E c \in Cancelers : CancelChecks(c) \/ CancelMarks(c)
                          \/ \E t \in Jobs : CancelBegins(c, t)
  \/ SetConcurrency \/ TasksRestart

TasksSpec == TasksInit /\ [][TasksNext]_jobVars

(* Goroutines run and items end, by the timeouts of what they call.          *)
TasksFairness ==
  \A t \in Jobs : WF_jobVars(RunStep(t)) /\ WF_jobVars(ItemDone(t))

TasksFairSpec == TasksSpec /\ TasksFairness
-----------------------------------------------------------------------------
Holding == {t \in Jobs : pc[t] \in {"start"} \cup Entered}

Sem == INSTANCE Semaphore WITH
  Procs <- Jobs, holders <- Holding, queue <- runner.waiters, limit <- runner.max

(* The number of slots and the list of channels implement a first-come       *)
(* first-served semaphore, across hand-overs and changes of the limit.       *)
RunnerIsSemaphore == Sem!SemSpec

(* A task that waits for a slot gets one, however the limit is changed, and  *)
(* comes to its end.                                                         *)
QueuedRuns == \A t \in Jobs : pc[t] = "acquire" ~> pc[t] = "over"

(* A task that has ended, cancelled or not, stays so.  Fails: one that is    *)
(* cancelled while it waits for a slot is run when its turn comes.           *)
EndedStays ==
  [][\A t \in Jobs : status[t] \in Ended /\ status'[t] # Gone
                       => status'[t] = status[t]]_jobVars

(* SetConcurrency: the new limit holds for whoever takes a slot after it.    *)
(* Fails: a slot that is handed on does not look at the limit.               *)
LimitHolds ==
  [][\A t \in Jobs : t \notin Holding /\ t \in Holding'
                       => Cardinality(Holding') <= runner.max]_jobVars
=============================================================================
