----------------------------- MODULE Semaphore ------------------------------
(* What tasks.Runner promises of its slots, tasks/runner.go acquire and      *)
(* release: who holds one and who waits, in the order of arrival.  The code  *)
(* keeps a number and a list of channels instead.                            *)
EXTENDS Naturals, Sequences, FiniteSets

CONSTANTS Procs, Limits

VARIABLES holders, queue, limit

semVars == <<holders, queue, limit>>

Queued == {queue[i] : i \in 1..Len(queue)}

SemInit == holders = {} /\ queue = <<>> /\ limit \in Limits

Enter(p) ==
  /\ p \notin holders \cup Queued
  /\ IF Cardinality(holders) < limit
     THEN holders' = holders \cup {p} /\ UNCHANGED queue
     ELSE queue' = Append(queue, p) /\ UNCHANGED holders
  /\ UNCHANGED limit

(* A slot that is given back goes to who has waited longest.                 *)
LeaveSlot(p) ==
  /\ p \in holders
  /\ IF queue = <<>> THEN holders' = holders \ {p} /\ UNCHANGED queue
     ELSE /\ holders' = (holders \ {p}) \cup {Head(queue)}
          /\ queue' = Tail(queue)
  /\ UNCHANGED limit

SetSemLimit == limit' \in Limits /\ UNCHANGED <<holders, queue>>

(* The process restarts: nobody holds or waits.                              *)
Reboot == holders' = {} /\ queue' = <<>> /\ limit' \in Limits

SemNext == (\E p \in Procs : Enter(p) \/ LeaveSlot(p)) \/ SetSemLimit \/ Reboot

SemSpec == SemInit /\ [][SemNext]_semVars
=============================================================================
