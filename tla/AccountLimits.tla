---------------------------- MODULE AccountLimits ----------------------------
(* What one account may still do: the requests of the last minute and of the *)
(* UTC day against its limits, the limits of its group, the switch, and the  *)
(* quota policy that works it (pool/account.go).  Slots are in Dispatch.     *)
(*                                                                           *)
(* A tick is the step of the clock that tells uses apart.  A usage answer of *)
(* the site is "none" without meters, "left", or "full"; which bucket is     *)
(* full is left out, and so are the counters nobody reads back.              *)
EXTENDS Integers, Sequences, FiniteSets, SequencesExt

CONSTANTS
  Users,            \* requests
  Minute, Day,      \* ticks of the sliding window and of a day
  Limits,           \* values of rpm and of daily_max; 0 is none
  LastTick, MaxUses, \* bounds: ticks, uses that are counted, and changes by
  MaxEdits          \* the administrator, usage answers and restarts

ASSUME AccountLimitsAssumption ==
  /\ Minute \in Nat \ {0} /\ Day \in Nat \ {0} /\ 0 \in Limits /\ Limits \subseteq Nat
  /\ IsFiniteSet(Users) /\ LastTick \in Nat /\ MaxUses \in Nat /\ MaxEdits \in Nat

VARIABLES
  tick,      \* the clock
  limits,    \* rpm and dailyMax of the account and of its group
  counts,    \* useTimes, dailyDay, dailyCount
  switch,    \* enabled, and disableReason: "" or "quota"
  usage,     \* vendorUsage
  user,      \* per request: "idle" or "inside"
  document,  \* what is saved of them
  told       \* history: see ToldInit

limitVars == <<tick, limits, counts, switch, usage, user, document, told>>

Today == tick \div Day
NoCounts == [uses |-> <<>>, day |-> 0, daily |-> 0]

Saved == [daily |-> [day |-> counts.day, daily |-> counts.daily], switch |-> switch,
          limits |-> limits.own, usage |-> usage, told |-> [hand |-> told.hand, over |-> told.over]]

(* Edits, and whether the limits changed; uses counted, those of the day,    *)
(* those not saved yet, and those a restart has lost; the last word of the   *)
(* administrator on the switch, and whether it came after the last usage.    *)
ToldInit == [edits |-> 0, relimited |-> FALSE, uses |-> 0, day |-> 0, used |-> 0, unsaved |-> 0, lost |-> 0,
             hand |-> TRUE, over |-> FALSE]

LimitsInit ==
  /\ tick = 0
  /\ \E own \in Limits \X Limits : limits = [own |-> own, group |-> <<0, 0>>]
  /\ counts = NoCounts /\ switch = [on |-> TRUE, reason |-> ""] /\ usage = "none"
  /\ user = [u \in Users |-> "idle"] /\ told = ToldInit
  /\ document = Saved
-----------------------------------------------------------------------------
(* How many uses at the front are too old.                                   *)
Expired(uses) ==
  CHOOSE i \in 0..Len(uses) :
    /\ \A j \in 1..i : uses[j] <= tick - Minute
    /\ i < Len(uses) => uses[i + 1] > tick - Minute

(* pruneUsesLocked *)
Pruned(c) ==
  [uses |-> SubSeq(c.uses, Expired(c.uses) + 1, Len(c.uses)), day |-> Today,
   daily |-> IF c.day = Today THEN c.daily ELSE 0]

(* effectiveLimitsLocked: 0 leaves it to the group *)
Effective == [i \in 1..2 |-> IF limits.own[i] > 0 THEN limits.own[i] ELSE limits.group[i]]

(* mutant of OverLimit: an account at its limit is not over it *)
OverLimitLate(c) ==
  \/ Effective[1] > 0 /\ Len(c.uses) > Effective[1]
  \/ Effective[2] > 0 /\ c.daily > Effective[2]

OverLimit(c) ==
  \/ Effective[1] > 0 /\ Len(c.uses) >= Effective[1]
  \/ Effective[2] > 0 /\ c.daily >= Effective[2]

Edits == told.edits < MaxEdits
Edited == [told EXCEPT !.edits = @ + 1]

(* ReadyWithLimits, which prunes whether or not it lets the request in.      *)
Enter(u) ==
  /\ user[u] = "idle"
  /\ counts' = Pruned(counts)
  /\ user' = [user EXCEPT ![u] = IF switch.on /\ ~OverLimit(counts') THEN "inside" ELSE "idle"]
  /\ UNCHANGED <<tick, limits, switch, usage, document, told>>

(* mutant of Used: a use is added to the count of whatever day there is *)
UsedUnpruned == [counts EXCEPT !.uses = Append(@, tick), !.daily = @ + 1]

(* recordUseLocked *)
Used == [Pruned(counts) EXCEPT !.uses = Append(@, tick), !.daily = @ + 1]

Use ==
  /\ told.uses < MaxUses
  /\ counts' = Used
  /\ told' = LET t == IF told.day = Today THEN told
                      ELSE [told EXCEPT !.day = Today, !.used = 0, !.unsaved = 0, !.lost = 0]
             IN [t EXCEPT !.uses = @ + 1, !.used = @ + 1, !.unsaved = @ + 1]

(* MarkSuccess and MarkFailure: a use is counted when the request ends, and  *)
(* not at all when it was refused for itself or its client has gone.  A      *)
(* quota failure switches the account off, but not one that is off by hand.  *)
Succeeds(u) ==
  /\ user[u] = "inside" /\ user' = [user EXCEPT ![u] = "idle"]
  /\ Use
  /\ UNCHANGED <<tick, limits, switch, usage, document>>

Uncounted(u) ==
  /\ user[u] = "inside" /\ user' = [user EXCEPT ![u] = "idle"]
  /\ UNCHANGED <<tick, limits, counts, switch, usage, document, told>>

OutOfQuota(u) ==
  /\ user[u] = "inside" /\ user' = [user EXCEPT ![u] = "idle"]
  /\ Use
  /\ switch' = IF switch.on \/ switch.reason = "quota" THEN [on |-> FALSE, reason |-> "quota"]
               ELSE switch
  /\ UNCHANGED <<tick, limits, usage, document>>
-----------------------------------------------------------------------------
(* mutant of Policy: only an account that was switched off stays so *)
PolicyAnswered(s, answer) ==
  IF answer = "left" /\ s.reason = "quota" THEN [on |-> TRUE, reason |-> ""] ELSE s

(* applyQuotaPolicyLocked, called if there are meters: an account that is    *)
(* off by hand has no reason and is given one.                               *)
Policy(s, answer) ==
  CASE answer = "full" -> [on |-> FALSE, reason |-> "quota"]
    [] answer = "left" /\ ~s.on /\ s.reason = "quota" -> [on |-> TRUE, reason |-> ""]
    [] OTHER -> s

RememberUsage ==
  /\ Edits
  /\ usage' \in {"none", "left", "full"}
  /\ switch' = Policy(switch, usage')
  /\ told' = [Edited EXCEPT !.over = FALSE]
  /\ UNCHANGED <<tick, limits, counts, user, document>>

SwitchByHand ==
  /\ Edits
  /\ \E on \in BOOLEAN :
       /\ switch' = [on |-> on, reason |-> IF on THEN "" ELSE switch.reason]
       /\ told' = [Edited EXCEPT !.hand = on, !.over = on]
  /\ UNCHANGED <<tick, limits, counts, usage, user, document>>

(* ApplyAdminPatch with limits, or UpdateGroup, whose limits are not in the  *)
(* document of the account.                                                  *)
SetLimits ==
  /\ Edits
  /\ \E own, group \in Limits \X Limits :
       /\ own = limits.own \/ group = limits.group
       /\ limits' = [own |-> own, group |-> group] /\ limits' # limits
  /\ told' = [Edited EXCEPT !.relimited = TRUE]
  /\ UNCHANGED <<tick, counts, switch, usage, user, document>>

(* The flusher saves what has changed, once a second.                        *)
Flush ==
  /\ document # Saved
  /\ document' = Saved /\ told' = [told EXCEPT !.unsaved = 0]
  /\ UNCHANGED <<tick, limits, counts, switch, usage, user>>

(* applyPersisted: the day and its count come back, the minute does not; the *)
(* policy looks at the usage that was saved.                                 *)
Restored(d) == [uses |-> <<>>, day |-> d.daily.day, daily |-> d.daily.daily]

Restart ==
  /\ Edits
  /\ counts' = Restored(document)
  /\ limits' = [limits EXCEPT !.own = document.limits]
  /\ usage' = document.usage /\ switch' = Policy(document.switch, document.usage)
  /\ user' = [u \in Users |-> "idle"]
  /\ told' = [Edited EXCEPT !.lost = @ + told.unsaved, !.unsaved = 0, !.relimited = TRUE,
                            !.hand = document.told.hand,
                            !.over = document.told.over /\ document.usage # "full"]
  /\ UNCHANGED <<tick, document>>

Elapse ==
  /\ tick < LastTick /\ tick' = tick + 1
  /\ UNCHANGED <<limits, counts, switch, usage, user, document, told>>

LimitsNext ==
  \/ RememberUsage \/ SwitchByHand \/ SetLimits \/ Flush \/ Restart \/ Elapse
  \/ \E u \in Users : Enter(u) \/ Succeeds(u) \/ Uncounted(u) \/ OutOfQuota(u)

LimitsSpec == LimitsInit /\ [][LimitsNext]_limitVars
-----------------------------------------------------------------------------
AtWork == Cardinality({u \in Users : user[u] = "inside"})
LastMinute == Len(Pruned(counts).uses)

(* While the limits stay as they are, the requests of the last minute and    *)
(* those inside exceed rpm by no more than the requests that were let in     *)
(* together: uses are counted at the end, and the window and the day are     *)
(* pruned by whoever looks.                                                  *)
OverrunBounded ==
  ~told.relimited /\ Effective[1] > 0 => LastMinute + AtWork <= Effective[1] - 1 + Cardinality(Users)

(* The count of the day is exactly the uses of this UTC day that were not    *)
(* lost with a crash, over midnights and restarts in any order.              *)
DailyExact ==
  Pruned(counts).daily = IF told.day = Today THEN told.used - told.lost ELSE 0

(* An account whose last usage said that nothing is left is off, until the   *)
(* administrator switches it on or the site answers otherwise.               *)
FullIsOff == usage = "full" /\ ~told.over => ~switch.on

(* The limits of an account hold, in the window, for the day and by quota.   *)
LimitsKept == OverrunBounded /\ DailyExact /\ FullIsOff

(* account.go:813: the policy does not touch an account switched off by      *)
(* hand.  Fails: full usage gives it the reason "quota", or it had it when   *)
(* it was switched off, and the next usage switches it on.                   *)
ManualStaysOff == ~told.hand => ~switch.on

(* An account that ran out of quota stays off until the site says otherwise. *)
(* Fails: a restart applies the policy to a usage from before.               *)
RestartKeepsOff ==
  [][Restart /\ document.switch.reason = "quota" => ~switch'.on]_limitVars
=============================================================================
