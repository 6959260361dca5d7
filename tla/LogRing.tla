------------------------------- MODULE LogRing -------------------------------
(* The request log of admin/logs.go: a ring in memory, channels of the       *)
(* administrators' pages that follow it, and PostgreSQL as its sink.         *)
(*                                                                           *)
(* An entry of the ring is [id, log]; a log is the number of its Add, which  *)
(* orders them by age.  What an entry says is left out.                      *)
EXTENDS Integers, Sequences, FiniteSets, SequencesExt

CONSTANTS
  Followers,       \* pages that subscribe
  Room,            \* capacity of a channel (32)
  Sizes,           \* capacities an administrator may choose
  MaxLogs, MaxResizes  \* bounds

ASSUME LogRingAssumption ==
  /\ Sizes \subseteq Nat \ {0} /\ Sizes # {}
  /\ Room \in Nat \ {0} /\ MaxLogs \in Nat /\ MaxResizes \in Nat

VARIABLES
  ring,       \* entries, next and max of LogStore, and how often max changed
  added,      \* logs added, and how many of them before the last Clear
  sending,    \* events on their way: the log, and who is still to get it
  channels,   \* per follower: subscribed or not, and what waits for it
  inserting,  \* goroutines that insert a log, or truncate: log 0
  rows        \* the table request_logs

logVars == <<ring, added, sending, channels, inserting, rows>>

LogInit ==
  /\ \E m \in Sizes : ring = [entries |-> <<>>, next |-> 0, max |-> m, resized |-> 0]
  /\ added = [logs |-> 0, cleared |-> 0]
  /\ sending = {} /\ channels = [f \in Followers |-> [on |-> FALSE, waits |-> <<>>]]
  /\ inserting = {} /\ rows = {}
-----------------------------------------------------------------------------
(* mutant of Appended: one entry more than there is room for *)
AppendedOneMore(r, log) ==
  IF Len(r.entries) <= r.max
  THEN [r EXCEPT !.entries = Append(@, [id |-> Len(r.entries), log |-> log])]
  ELSE [r EXCEPT !.entries[r.next + 1] = [id |-> r.next, log |-> log],
                 !.next = (r.next + 1) % r.max]

Appended(r, log) ==
  IF Len(r.entries) < r.max
  THEN [r EXCEPT !.entries = Append(@, [id |-> Len(r.entries), log |-> log])]
  ELSE [r EXCEPT !.entries[r.next + 1] = [id |-> r.next, log |-> log],
                 !.next = (r.next + 1) % r.max]

(* The channels are those of the moment the event is published, after the    *)
(* lock is released; the row is inserted by a goroutine of its own.          *)
AddLog ==
  /\ added.logs < MaxLogs
  /\ LET log == added.logs + 1 IN
     /\ ring' = Appended(ring, log)
     /\ sending' = sending \cup {[log |-> log, to |-> {}, begun |-> FALSE]}
     /\ inserting' = inserting \cup {log}
  /\ added' = [added EXCEPT !.logs = @ + 1]
  /\ UNCHANGED <<channels, rows>>

Publish(e) ==
  /\ e \in sending /\ ~e.begun
  /\ sending' = (sending \ {e}) \cup
       {[e EXCEPT !.begun = TRUE, !.to = {f \in Followers : channels[f].on}]}
  /\ UNCHANGED <<ring, added, channels, inserting, rows>>

(* A channel that is full loses the event.  (Who has left meanwhile gets it  *)
(* in a channel that nobody reads.)                                          *)
Deliver(e, f) ==
  /\ e \in sending /\ e.begun /\ f \in e.to
  /\ sending' = (sending \ {e}) \cup {[e EXCEPT !.to = @ \ {f}]}
  /\ channels' = [channels EXCEPT ![f].waits =
       IF channels[f].on /\ Len(@) < Room THEN Append(@, e.log) ELSE @]
  /\ UNCHANGED <<ring, added, inserting, rows>>

Published(e) ==
  /\ e \in sending /\ e.begun /\ e.to = {}
  /\ sending' = sending \ {e}
  /\ UNCHANGED <<ring, added, channels, inserting, rows>>

Subscribe(f) ==
  /\ ~channels[f].on
  /\ channels' = [channels EXCEPT ![f] = [on |-> TRUE, waits |-> <<>>]]
  /\ sending' = {[e EXCEPT !.to = @ \ {f}] : e \in sending}
  /\ UNCHANGED <<ring, added, inserting, rows>>

Follow(f) ==
  /\ channels[f].on
  /\ \/ channels[f].waits # <<>>
        /\ channels' = [channels EXCEPT ![f].waits = Tail(@)]
     \/ channels' = [channels EXCEPT ![f] = [on |-> FALSE, waits |-> <<>>]]
  /\ UNCHANGED <<ring, added, sending, inserting, rows>>

(* InsertLog and ClearLogs; an error is dropped.                             *)
Insert ==
  /\ \E log \in inserting :
       /\ inserting' = inserting \ {log}
       /\ \/ rows' = IF log = 0 THEN {} ELSE rows \cup {log}
          \/ UNCHANGED rows
  /\ UNCHANGED <<ring, added, sending, channels>>

ClearLogs ==
  /\ added.cleared = 0 /\ added.logs > 0
  /\ ring' = [ring EXCEPT !.entries = <<>>, !.next = 0]
  /\ added' = [added EXCEPT !.cleared = added.logs]
  /\ inserting' = inserting \cup {0}
  /\ UNCHANGED <<sending, channels, rows>>

Resized(r, max) ==
  LET n == Len(r.entries)
      drop == n - max
  IN CASE drop <= 0 -> r
       [] drop > 0 /\ r.next >= drop ->
            [r EXCEPT !.entries = SubSeq(@, drop + 1, n), !.next = @ - drop]
       [] OTHER ->
            [r EXCEPT !.entries = SubSeq(@, r.next + 1, n) \o SubSeq(@, 1, drop - r.next),
                      !.next = 0]

SetMax(max) ==
  /\ max # ring.max /\ ring.resized < MaxResizes
  /\ ring' = [Resized(ring, max) EXCEPT !.max = max, !.resized = @ + 1]
  /\ UNCHANGED <<added, sending, channels, inserting, rows>>

LogNext ==
  \/ AddLog \/ Insert \/ ClearLogs
  \/ \E max \in Sizes : SetMax(max)
  \/ \E f \in Followers : Subscribe(f) \/ Follow(f)
  \/ \E e \in sending : Publish(e) \/ Published(e) \/ \E f \in Followers : Deliver(e, f)

LogSpec == LogInit /\ [][LogNext]_logVars
-----------------------------------------------------------------------------
(* QueryFilter without a sink, and Get.                                      *)
Listed == [i \in DOMAIN ring.entries |-> Reverse(ring.entries)[i].log]
Found(id) == {i \in DOMAIN ring.entries : ring.entries[i].id = id}

Newest(n) == {log \in added.cleared + 1 .. added.logs : log > added.logs - n}

(* Until its capacity is changed, the ring holds the latest logs, as many as *)
(* it has room for, and finds each by its id, however often it wrapped and   *)
(* whatever was cleared.                                                     *)
KeepsNewest ==
  ring.resized = 0 =>
    /\ ToSet(Listed) = Newest(ring.max) /\ Len(Listed) = Cardinality(Newest(ring.max))
    /\ \A i \in DOMAIN ring.entries : Found(ring.entries[i].id) = {i}

(* logs.go:95: a ring that shrinks drops the oldest.  Fails: it grows by     *)
(* copies of the oldest, or drops those after them.                          *)
ShrinksToNewest ==
  [][ring'.resized # ring.resized /\ ring.resized = 0 /\ ring'.max < ring.max =>
       ToSet(Listed') = Newest(ring'.max) /\ Len(Listed') <= ring'.max]_logVars

(* logs.go:202: the latest first.  Fails as soon as the ring wraps.          *)
NewestFirst ==
  ring.resized = 0 => \A i, j \in DOMAIN Listed : i < j => Listed[i] > Listed[j]

(* A table that was cleared has only logs from after it.  Fails: an insert   *)
(* that is still under way when the table is truncated.                      *)
ClearedForGood ==
  added.cleared > 0 /\ 0 \notin inserting => \A log \in rows : log > added.cleared

(* Followers see the logs in the order they were added.  Fails: the lock is  *)
(* released between adding and publishing.                                   *)
InOrder ==
  \A f \in Followers : \A i, j \in DOMAIN channels[f].waits :
    i < j => channels[f].waits[i] < channels[f].waits[j]
=============================================================================
