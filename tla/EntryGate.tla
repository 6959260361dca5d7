----------------------------- MODULE EntryGate -----------------------------
(* The entry gate in front of /v1/*: a request puts a token into the gate    *)
(* channel before it is served, waits when the channel is full, is refused   *)
(* when it has waited too long, and takes a token out when it is done.  When *)
(* the wanted capacity has changed the next request to arrive after the      *)
(* recheck interval replaces the channel, under gateMu, and moves the tokens *)
(* of the old one.                                                           *)
(*                                                                           *)
(* A buffered channel is a counter: a blocked send or receive that is handed *)
(* a value directly is the receive followed at once by the send.             *)
EXTENDS Naturals, FiniteSets, FiniteSetsExt

CONSTANTS
  Handlers,     \* goroutines of the HTTP server, each serves many requests
  Capacities,   \* values gateCapacity may have, 0 = the pool is empty
  MaxGates      \* bound: channels made

ASSUME EntryGateAssumption ==
  /\ IsFiniteSet(Handlers)
  /\ Capacities \subseteq Nat /\ Capacities # {}
  /\ MaxGates \in Nat \ {0}

Gates == 1..MaxGates

VARIABLES
  want,    \* what gateCapacity returns now
  due,     \* gateRecheckInterval has passed since gateCheckedAt
  gate,    \* Server.gate, 0 = nil
  size,    \* capacity of each channel
  tokens,  \* tokens in each channel
  at,      \* where a handler is
  slot     \* ch: the channel the handler uses, 0 = nil

gateVars == <<want, due, gate, size, tokens, at, slot>>

Goto(h, l) == at' = [at EXCEPT ![h] = l]

GateInit ==
  /\ want \in Capacities
  /\ due = TRUE
  /\ gate = 0
  /\ size = [g \in Gates |-> 0]
  /\ tokens = [g \in Gates |-> 0]
  /\ at = [h \in Handlers |-> "idle"]
  /\ slot = [h \in Handlers |-> 0]

(* Accounts come and go, the administrator edits gateway_concurrency.        *)
Reconfigure ==
  /\ want' \in Capacities \ {want}
  /\ UNCHANGED <<due, gate, size, tokens, at, slot>>

Recheck ==
  /\ ~due /\ gate < MaxGates
  /\ due' = TRUE
  /\ UNCHANGED <<want, gate, size, tokens, at, slot>>

ArriveAtGate(h) ==
  /\ at[h] = "idle"
  /\ Goto(h, "enter")
  /\ UNCHANGED <<want, due, gate, size, tokens, slot>>

MutexFree == \A h \in Handlers : at[h] # "drain"

(* gateAcquire up to the loop that drains the old channel.                   *)
Enter(h) ==
  /\ at[h] = "enter" /\ MutexFree
  /\ IF (gate = 0 \/ due) /\ want > 0
     THEN \/ /\ gate = 0
             /\ gate' = 1 /\ size' = [size EXCEPT ![1] = want]
             /\ due' = FALSE
             /\ slot' = [slot EXCEPT ![h] = 1] /\ Goto(h, "wait")
          \/ /\ gate > 0 /\ want = size[gate]
             /\ due' = FALSE
             /\ slot' = [slot EXCEPT ![h] = gate] /\ Goto(h, "wait")
             /\ UNCHANGED <<gate, size>>
          \/ /\ gate > 0 /\ want # size[gate]
             /\ size' = [size EXCEPT ![gate + 1] = want]
             /\ Goto(h, "drain")
             /\ UNCHANGED <<due, gate, slot>>
     ELSE /\ slot' = [slot EXCEPT ![h] = gate]
          /\ Goto(h, IF gate = 0 THEN "serve" ELSE "wait")
          /\ UNCHANGED <<due, gate, size>>
  /\ UNCHANGED <<want, tokens>>

(* One turn of the loop: a token moves to the new channel; the loop ends     *)
(* when the old channel is empty, or when the new one is full, the token     *)
(* just taken being dropped.                                                 *)
Moves(g) == tokens[g] > 0 /\ tokens[g + 1] < size[g + 1]

DrainTokensCopied(g) ==    \* mutant of DrainTokens
  [tokens EXCEPT ![g + 1] = IF Moves(g) THEN @ + 1 ELSE @]

DrainTokens(g) ==
  [tokens EXCEPT ![g]     = IF @ > 0 THEN @ - 1 ELSE @,
                 ![g + 1] = IF Moves(g) THEN @ + 1 ELSE @]

Drain(h) ==
  /\ at[h] = "drain"
  /\ tokens' = DrainTokens(gate)
  /\ IF Moves(gate)
     THEN UNCHANGED <<due, gate, at, slot>>
     ELSE /\ gate' = gate + 1 /\ due' = FALSE
          /\ slot' = [slot EXCEPT ![h] = gate + 1] /\ Goto(h, "wait")
  /\ UNCHANGED <<want, size>>

TakeWhenFull(h) ==    \* mutant of Take
  /\ at[h] = "wait" /\ tokens[slot[h]] <= size[slot[h]]
  /\ tokens' = [tokens EXCEPT ![slot[h]] = @ + 1]
  /\ Goto(h, "serve")
  /\ UNCHANGED <<want, due, gate, size, slot>>

(* The send succeeds, or the queue time is over (429) or the client left.    *)
Take(h) ==
  /\ at[h] = "wait" /\ tokens[slot[h]] < size[slot[h]]
  /\ tokens' = [tokens EXCEPT ![slot[h]] = @ + 1]
  /\ Goto(h, "serve")
  /\ UNCHANGED <<want, due, gate, size, slot>>

GiveUpNever(h) ==    \* mutant of GiveUp
  /\ at[h] = "wait" /\ at[h] = "idle"
  /\ UNCHANGED gateVars

GiveUp(h) ==
  /\ at[h] = "wait"
  /\ Goto(h, "idle")
  /\ slot' = [slot EXCEPT ![h] = 0]
  /\ UNCHANGED <<want, due, gate, size, tokens>>

(* next.ServeHTTP has returned; the deferred receive runs if there is a slot. *)
RequestServed(h) ==
  /\ at[h] = "serve"
  /\ Goto(h, IF slot[h] = 0 THEN "idle" ELSE "release")
  /\ UNCHANGED <<want, due, gate, size, tokens, slot>>

Release(h) ==
  /\ at[h] = "release" /\ tokens[slot[h]] > 0
  /\ tokens' = [tokens EXCEPT ![slot[h]] = @ - 1]
  /\ Goto(h, "idle")
  /\ slot' = [slot EXCEPT ![h] = 0]
  /\ UNCHANGED <<want, due, gate, size>>

HandlerStep(h) == Drain(h) \/ Take(h) \/ GiveUp(h) \/ RequestServed(h) \/ Release(h)

GateNext ==
  \/ Reconfigure \/ Recheck
  \/ \E h \in Handlers : ArriveAtGate(h) \/ Enter(h) \/ HandlerStep(h)

GateSpec == GateInit /\ [][GateNext]_gateVars

(* A handler keeps running; the queue time ends (gate_queue_sec); the round  *)
(* a request is served in ends (Dispatch, RequestsFinish).  Go's mutex hands *)
(* itself to a waiter that has starved for 1 ms, hence strong fairness for   *)
(* the step that takes gateMu.                                               *)
GateFairSpec ==
  GateSpec /\ \A h \in Handlers : WF_gateVars(HandlerStep(h)) /\ SF_gateVars(Enter(h))
-----------------------------------------------------------------------------
(* Properties.                                                               *)

GateTypeOK ==
  /\ want \in Capacities
  /\ due \in BOOLEAN
  /\ gate \in 0..MaxGates
  /\ size \in [Gates -> Capacities \cup {0}]
  /\ tokens \in [Gates -> Nat]
  /\ at \in [Handlers -> {"idle", "enter", "drain", "wait", "serve", "release"}]
  /\ slot \in [Handlers -> 0..MaxGates]

HoldersOf(g) == {h \in Handlers : slot[h] = g /\ at[h] \in {"serve", "release"}}

(* The first resize has begun.                                               *)
Resized == gate > 1 \/ ~MutexFree

(* Until the first resize no more requests are in service through the gate   *)
(* than it has slots, and one that has been served gives its slot back       *)
(* without waiting for anybody.  (Later those that wait on the old channel,  *)
(* or hold a slot of it, come on top, and a release may find no token.)      *)
SoundUntilResized ==
  ~Resized =>
    /\ gate > 0 =>
         Cardinality({h \in HoldersOf(gate) : at[h] = "serve"}) <= size[gate]
    /\ \A h \in Handlers : at[h] = "release" => tokens[slot[h]] > 0

(* Whatever the resizes, every token in a channel is owed by a request that  *)
(* is still there: moving tokens between channels makes none.                *)
EveryTokenOwed ==
  MapThenSumSet(LAMBDA g : tokens[g], Gates)
    <= Cardinality(UNION {HoldersOf(g) : g \in Gates})

(* No slot is given twice, and none is made of nothing.                      *)
GateSound == SoundUntilResized /\ EveryTokenOwed

(* Whatever the resizes, a request that reaches the gate is served or        *)
(* refused: it hangs neither on gateMu nor on a channel nobody drains.       *)
EntryDecided ==
  \A h \in Handlers : at[h] = "enter" ~> at[h] \in {"serve", "idle"}

(* "Requests in flight hold the old channel and are not affected by a        *)
(* resize": a served request gets rid of its slot and the handler returns.   *)
ServedRequestReturns ==
  \A h \in Handlers : at[h] = "release" ~> at[h] = "idle"
=============================================================================
