------------------------------- MODULE Material -------------------------------
(* The chat material of adapter/prism/sentinel.go: a ring of slots, each     *)
(* filled by the login sidecar with what a browser session of one account    *)
(* looks like, kept warm in the background, and picked by every turn twice:  *)
(* for the project of its sandbox chain, and for the metadata of its start.  *)
EXTENDS Naturals, FiniteSets

CONSTANTS
  Slots,       \* materialSlots()
  Turns        \* turns at a time

ASSUME MaterialAssumption == Slots \in Nat \ {0}

VARIABLES
  slot,        \* chatMatSlotArr: metadata there, not older than its TTL, within
               \* the back-off after a failure
  fetching,    \* chatMatFlight: the slots that are being refreshed
  ring,        \* chatMatRR, modulo the number of slots
  warmer,      \* chatMatWarmer: what each slot's goroutine of a sweep is at
  chat         \* startTurn: pick, chain, pick, start

materialVars == <<slot, fetching, ring, warmer, chat>>

Ring == 0..(Slots - 1)
Own == Slots      \* no slot: the project and the metadata of the account itself
Unfilled == [filled |-> FALSE, fresh |-> FALSE, failing |-> FALSE]

(* at is the slot that is looked at, seen how many have been.                *)
NoTurn == [pc |-> "idle", at |-> 0, seen |-> 0, project |-> Own, metadata |-> Own]

MaterialInit ==
  /\ slot = [s \in Ring |-> Unfilled] /\ fetching = {} /\ ring = 0
  /\ warmer = [s \in Ring |-> "idle"] /\ chat = [t \in Turns |-> NoTurn]

Usable(s) == slot[s].filled /\ slot[s].fresh
After(s, n) == (s + n) % Slots
-----------------------------------------------------------------------------
(* The slots are looked at in turn, from the next one of the ring.           *)
FirstFresh(start) ==
  LET near == {n \in Ring : Usable(After(start, n))} IN
  IF near = {} THEN Own
  ELSE After(start, CHOOSE n \in near : \A m \in near : n <= m)

Took(t, s) ==
  chat' = [chat EXCEPT ![t] =
    IF @.pc \in {"idle", "ensure1", "joined1", "landed1"}
    THEN [NoTurn EXCEPT !.pc = "chain", !.project = s]
    ELSE [@ EXCEPT !.pc = "start", !.metadata = s]]

(* pickChatMaterial: the first fresh slot, or the next slot is refreshed.    *)
Pick(t) ==
  /\ chat[t].pc \in {"idle", "chain"}
  /\ LET start == After(ring, 1) IN
     /\ ring' = start
     /\ IF FirstFresh(start) # Own THEN Took(t, FirstFresh(start))
        ELSE chat' = [chat EXCEPT ![t].pc = IF @ = "idle" THEN "ensure1" ELSE "ensure2",
                                  ![t].at = start, ![t].seen = 0]
  /\ UNCHANGED <<slot, fetching, warmer>>

(* ensureChatMaterialSlot: nothing to do for a fresh slot or one that has    *)
(* failed lately; otherwise the flight of the slot is joined.                *)
NextSlot(t) ==
  IF chat[t].seen + 1 = Slots THEN Took(t, Own)
  ELSE chat' = [chat EXCEPT ![t].pc = IF @ \in {"ensure1", "landed1"} THEN "ensure1" ELSE "ensure2",
                            ![t].at = After(@, 1), ![t].seen = @ + 1]

Ensure(t) ==
  /\ chat[t].pc \in {"ensure1", "ensure2"}
  /\ IF Usable(chat[t].at) THEN Took(t, chat[t].at)
     ELSE IF slot[chat[t].at].failing THEN NextSlot(t)
     ELSE chat' = [chat EXCEPT ![t].pc = IF @ = "ensure1" THEN "joined1" ELSE "joined2"]
  /\ UNCHANGED <<slot, fetching, ring, warmer>>

(* The flight is joined, or begun; all it does first is to look at the       *)
(* freshness again.                                                          *)
JoinFlight(t) ==
  /\ chat[t].pc \in {"joined1", "joined2"}
  /\ IF Usable(chat[t].at)
     THEN Took(t, chat[t].at) /\ UNCHANGED fetching
     ELSE /\ fetching' = fetching \cup {chat[t].at}
          /\ chat' = [chat EXCEPT ![t].pc = IF @ = "joined1" THEN "wait1" ELSE "wait2"]
  /\ UNCHANGED <<slot, ring, warmer>>

(* The flight of the slot has ended: its material, or the next slot.         *)
Landed(t) ==
  /\ chat[t].pc \in {"landed1", "landed2"}
  /\ IF Usable(chat[t].at) THEN Took(t, chat[t].at) ELSE NextSlot(t)
  /\ UNCHANGED <<slot, fetching, ring, warmer>>

(* The upstream takes the start, or refuses it with a 400, for which the     *)
(* slot is emptied, whatever it holds by now.  A refused turn ends if the    *)
(* refusal is of the request's own fault; otherwise it picks again, for as   *)
(* many attempts as it has.                                                  *)
StartIsTaken(t) ==
  /\ chat[t].pc = "start" /\ chat' = [chat EXCEPT ![t] = NoTurn]
  /\ UNCHANGED <<slot, fetching, ring, warmer>>

StartIsRefused(t) ==
  /\ chat[t].pc = "start" /\ chat[t].metadata # Own
  /\ slot' = [slot EXCEPT ![chat[t].metadata].filled = FALSE]
  /\ \E next \in {NoTurn, [chat[t] EXCEPT !.pc = "chain", !.metadata = Own]} :
       chat' = [chat EXCEPT ![t] = next]
  /\ UNCHANGED <<fetching, ring, warmer>>
-----------------------------------------------------------------------------
(* The flight ends for all who wait for it.                                  *)
Lands(s) ==
  /\ s \in fetching /\ fetching' = fetching \ {s}
  /\ warmer' = [warmer EXCEPT ![s] = IF @ = "wait" THEN "idle" ELSE @]
  /\ chat' = [t \in Turns |->
       IF chat[t].at # s THEN chat[t]
       ELSE [chat[t] EXCEPT !.pc = IF @ = "wait1" THEN "landed1"
                                   ELSE IF @ = "wait2" THEN "landed2" ELSE @]]
  /\ UNCHANGED ring

(* The sidecar answers, with material, or not, or with less than is needed.  *)
Refreshed(s) ==
  /\ Lands(s)
  /\ slot' = [slot EXCEPT ![s] = [filled |-> TRUE, fresh |-> TRUE, failing |-> FALSE]]

RefreshFails(s) ==
  /\ Lands(s)
  /\ slot' = [slot EXCEPT ![s].failing = TRUE]

(* Two minutes, and the back-off, pass.                                      *)
Expires(s) ==
  /\ slot[s].fresh /\ slot' = [slot EXCEPT ![s].fresh = FALSE]
  /\ UNCHANGED <<fetching, ring, warmer, chat>>

BackoffOver(s) ==
  /\ slot[s].failing /\ slot' = [slot EXCEPT ![s].failing = FALSE]
  /\ UNCHANGED <<fetching, ring, warmer, chat>>

(* mutant of Stale: a slot that has never been filled waits for a turn *)
Outdated(s) == slot[s].filled /\ ~slot[s].fresh

Stale(s) == ~Usable(s)

(* chatMatWarmer, every 20 s: a goroutine for each slot that is not fresh;   *)
(* the next sweep waits for all of them.                                     *)
Sweep ==
  /\ \A s \in Ring : warmer[s] = "idle"
  /\ \E s \in Ring : Stale(s)
  /\ warmer' = [s \in Ring |-> IF Stale(s) THEN "ensure" ELSE "idle"]
  /\ UNCHANGED <<slot, fetching, ring, chat>>

WarmStep(s) ==
  /\ \/ /\ warmer[s] = "ensure" /\ ~Usable(s) /\ ~slot[s].failing
        /\ warmer' = [warmer EXCEPT ![s] = "joined"] /\ UNCHANGED fetching
     \/ /\ warmer[s] \in {"ensure", "joined"} /\ Usable(s)
        /\ warmer' = [warmer EXCEPT ![s] = "idle"] /\ UNCHANGED fetching
     \/ /\ warmer[s] = "ensure" /\ slot[s].failing
        /\ warmer' = [warmer EXCEPT ![s] = "idle"] /\ UNCHANGED fetching
     \/ /\ warmer[s] = "joined" /\ ~Usable(s) /\ fetching' = fetching \cup {s}
        /\ warmer' = [warmer EXCEPT ![s] = "wait"]
  /\ UNCHANGED <<slot, ring, chat>>

TurnStep(t) ==
  \/ Pick(t) \/ Ensure(t) \/ JoinFlight(t) \/ Landed(t) \/ StartIsTaken(t) \/ StartIsRefused(t)

SlotStep(s) == Refreshed(s) \/ RefreshFails(s) \/ Expires(s) \/ BackoffOver(s) \/ WarmStep(s)

MaterialNext == Sweep \/ (\E t \in Turns : TurnStep(t)) \/ (\E s \in Ring : SlotStep(s))

MaterialSpec == MaterialInit /\ [][MaterialNext]_materialVars

(* The warmer runs, a call of the sidecar ends (three minutes), a back-off   *)
(* ends, and a slot whose refreshes never succeed is not the case at hand.   *)
MaterialFairness ==
  /\ WF_materialVars(Sweep)
  /\ \A s \in Ring :
       /\ WF_materialVars(WarmStep(s)) /\ WF_materialVars(BackoffOver(s))
       /\ SF_materialVars(Refreshed(s))
MaterialFairSpec == MaterialSpec /\ MaterialFairness
-----------------------------------------------------------------------------
(* Every slot is filled and becomes fresh again and again, whether turns     *)
(* come or not: emptied by a 400, after failures, in a race of turns and     *)
(* warmer for its flight, its warming is never forgotten.                    *)
KeptWarm == \A s \in Ring : []<>Usable(s)

(* client.go:848: the project of the sandbox chain is the one of the start's *)
(* metadata.  Fails: both are picked, and the ring has moved on between.     *)
SelfConsistent ==
  \A t \in Turns : chat[t].pc = "start" /\ chat[t].metadata # Own
                     => chat[t].project = chat[t].metadata

(* A slot that has failed is left alone for its back-off (:310).  Fails: who *)
(* has looked before the failure begins the next flight after it.            *)
BackoffHolds ==
  [][\A s \in Ring : s \in fetching' /\ s \notin fetching => ~slot[s].failing]_materialVars
=============================================================================
