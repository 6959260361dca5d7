--------------------------- MODULE DispatchProofs ---------------------------
(* Proofs about Dispatch: type correctness, and that the concurrency slots   *)
(* of an account are exactly those its requests hold.                        *)
EXTENDS Dispatch, FiniteSetTheorems, TLAPS

(* The bookkeeping between an account iterator and its handler: what is held *)
(* has been tried, and what Pick proposes has not.                           *)
Bookkeeping ==
  \A r \in Requests :
    /\ pc[r] \in Holding => acc[r] \in tried[r]
    /\ pc[r] \in {"acquire", "swapAcquire"} => cand[r] \in Accounts \ tried[r]
    /\ pc[r] = "swapped" => cand[r] \in tried[r] /\ cand[r] # acc[r]

IInv == TypeOK /\ Bookkeeping

-----------------------------------------------------------------------------
LEMMA InitIInv == Init => IInv
BY DispatchAssumption DEF Init, IInv, TypeOK, Bookkeeping, Labels, Holding

LEMMA ReleasedType ==
  ASSUME TypeOK, NEW a PROVE Released(a) \in [Accounts -> Nat]
<1>1. inflight \in [Accounts -> Nat]
  BY DEF TypeOK
<1>2. CASE a \in Accounts
  BY <1>1, <1>2 DEF Released
<1>3. CASE a \notin Accounts
  <2>1. Released(a) = inflight
    BY <1>1, <1>3 DEF Released
  <2> QED
    BY <1>1, <2>1
<1> QED
  BY <1>2, <1>3

LEMMA AnswerType ==
  ASSUME TypeOK, NEW r \in Requests,
         NEW o \in {"ok", "error", "silent", "aborted"}, Answer(r, o)
  PROVE  /\ outcome' \in [Requests -> {"none", "ok", "error", "silent", "aborted"}]
         /\ status' \in [Requests -> {"none", "200", "error"}]
<1>1. DOMAIN status = Requests /\ DOMAIN outcome = Requests
  BY DEF TypeOK
<1>2. outcome' = [outcome EXCEPT ![r] = o]
  BY DEF Answer
<1>3. status' \in {status, [status EXCEPT ![r] = "200"], [status EXCEPT ![r] = "error"]}
  <2>1. CASE status[r] # "none" \/ o \notin {"ok", "error"}
    BY <2>1, status' = status DEF Answer, TypeOK
  <2> QED
    BY <2>1 DEF Answer
<1> QED
  BY <1>2, <1>3 DEF TypeOK

(* Type correctness and the bookkeeping are preserved by every step.         *)
LEMMA StepIInv == IInv /\ [Next]_vars => IInv'
<1> SUFFICES ASSUME IInv, [Next]_vars PROVE IInv'
  OBVIOUS
<1> USE DispatchAssumption DEF IInv, TypeOK, Bookkeeping, Labels, Holding, Goto
<1>1. ASSUME NEW r \in Requests, Admit(r) PROVE IInv'
  BY <1>1 DEF Admit, accountVars
<1>2. ASSUME NEW r \in Requests, Shed(r) PROVE IInv'
  BY <1>2 DEF Shed, Answer, accountVars
<1>3. ASSUME NEW r \in Requests, Pick(r) PROVE IInv'
  BY <1>3 DEF Pick, Candidates, accountVars
<1>4. ASSUME NEW r \in Requests, Acquire(r) PROVE IInv'
  <2>1. CASE Full(cand[r])
    <3>1. /\ pc' = [pc EXCEPT ![r] = IF pc[r] = "acquire" THEN "pick" ELSE "swap"]
          /\ cand' = [cand EXCEPT ![r] = NoAccount]
          /\ pc[r] \in {"acquire", "swapAcquire"}
      BY <1>4, <2>1 DEF Acquire
    <3>2. UNCHANGED <<accountVars, acc, tried, sent, extra, empties, gone,
                      shown, outcome, status>>
      BY <1>4, <2>1 DEF Acquire, accountVars
    <3> QED
      BY <3>1, <3>2 DEF accountVars
  <2>2. CASE ~Full(cand[r]) /\ pc[r] = "acquire"
    <3>1. /\ pc' = [pc EXCEPT ![r] = "stream"]
          /\ inflight' = [inflight EXCEPT ![cand[r]] = @ + 1]
          /\ tried' = [tried EXCEPT ![r] = @ \cup {cand[r]}]
          /\ acc' = [acc EXCEPT ![r] = cand[r]]
          /\ cand' = [cand EXCEPT ![r] = NoAccount]
          /\ sent' = [sent EXCEPT ![r] = FALSE]
          /\ extra' = [extra EXCEPT ![r] = FALSE]
      BY <1>4, <2>2 DEF Acquire
    <3>2. status' \in [Requests -> {"none", "200", "error"}]
      BY <1>4, <2>2 DEF Acquire
    <3>3. UNCHANGED <<degraded, enabled, hasToken, failClass, empties, gone,
                      shown, outcome>>
      BY <1>4 DEF Acquire
    <3>4. TypeOK'
      <4>1. cand[r] \in Accounts
        BY <2>2
      <4>2. /\ inflight' \in [Accounts -> Nat]
            /\ tried' \in [Requests -> SUBSET Accounts]
            /\ acc' \in [Requests -> Accounts \cup {NoAccount}]
            /\ cand' \in [Requests -> Accounts \cup {NoAccount}]
            /\ pc' \in [Requests -> Labels]
        BY <3>1, <4>1
      <4> QED
        BY <3>1, <3>2, <3>3, <4>2
    <3>5. Bookkeeping'
      BY <2>2, <3>1, <3>2, <3>3
    <3> QED
      BY <3>4, <3>5
  <2>3. CASE ~Full(cand[r]) /\ pc[r] = "swapAcquire"
    BY <1>4, <2>3 DEF Acquire
  <2> QED
    BY <1>4, <2>1, <2>2, <2>3 DEF Acquire
<1>5. ASSUME NEW r \in Requests, PickFails(r) PROVE IInv'
  <2>1. /\ outcome' \in [Requests -> {"none", "ok", "error", "silent", "aborted"}]
        /\ status' \in [Requests -> {"none", "200", "error"}]
    BY <1>5 DEF PickFails, Answer
  <2>2. /\ UNCHANGED <<acc, cand, tried, sent, extra, empties, gone, shown>>
        /\ \/ pc[r] = "pick" /\ pc' = [pc EXCEPT ![r] = "done"] /\ UNCHANGED accountVars
           \/ /\ pc[r] = "swap" /\ pc' = [pc EXCEPT ![r] = "releaseDone"]
              /\ MarkSuccess(acc[r])
    BY <1>5 DEF PickFails
  <2> QED
    BY <2>1, <2>2 DEF MarkSuccess, accountVars
<1>6. ASSUME NEW r \in Requests, Emit(r) PROVE IInv'
  BY <1>6 DEF Emit, accountVars, Streaming
<1>7. ASSUME NEW r \in Requests, ExtraRound(r) PROVE IInv'
  BY <1>7 DEF ExtraRound, accountVars
<1>8. ASSUME NEW r \in Requests, StreamEmpty(r) PROVE IInv'
  <2>1. CASE empties[r] < EmptyRetryMax
    <3>1. /\ pc[r] = "stream" /\ pc' = [pc EXCEPT ![r] = "releaseRetry"]
          /\ empties' = [empties EXCEPT ![r] = @ + 1]
          /\ UNCHANGED <<accountVars, acc, cand, tried, sent, extra, gone, shown,
                         outcome, status>>
      BY <1>8, <2>1 DEF StreamEmpty
    <3>2. empties' \in [Requests -> 0..EmptyRetryMax]
      BY <2>1, <3>1
    <3> QED
      BY <3>1, <3>2 DEF accountVars
  <2>2. CASE ~(empties[r] < EmptyRetryMax)
    <3>1. /\ outcome' = [outcome EXCEPT ![r] = "error"] /\ UNCHANGED empties
          /\ pc[r] = "stream" /\ pc' = [pc EXCEPT ![r] = "releaseDone"]
          /\ UNCHANGED <<accountVars, acc, cand, tried, sent, extra, gone, shown>>
      BY <1>8, <2>2 DEF StreamEmpty, Answer
    <3>2. status' \in [Requests -> {"none", "200", "error"}]
      BY <1>8, <2>2 DEF StreamEmpty, Answer
    <3> QED
      BY <3>1, <3>2 DEF accountVars
  <2> QED
    BY <2>1, <2>2
<1>9. ASSUME NEW r \in Requests, StreamSucceeds(r) PROVE IInv'
  BY <1>9 DEF StreamSucceeds, Answer, MarkSuccess, Streaming
<1>10. ASSUME NEW r \in Requests, Refused(r) PROVE IInv'
  BY <1>10 DEF Refused, accountVars
<1>11. ASSUME NEW r \in Requests, NEW f \in Faults, StreamFails(r, f) PROVE IInv'
  <2>1. f \in AllFaults
    OBVIOUS
  <2>2. UNCHANGED accountVars \/ MarkFailure(acc[r], f)
    BY <1>11 DEF StreamFails
  <2>3. /\ inflight' \in [Accounts -> Nat]
        /\ degraded' \in [Accounts -> BOOLEAN]
        /\ enabled' \in [Accounts -> BOOLEAN]
        /\ hasToken' \in [Accounts -> BOOLEAN]
        /\ failClass' \in [Accounts -> {"none"} \cup {ClassOf(g) : g \in AllFaults}]
    <3>1. CASE UNCHANGED accountVars
      BY <3>1 DEF accountVars
    <3>2. CASE MarkFailure(acc[r], f) /\ Uncounted(f)
      BY <3>2 DEF MarkFailure
    <3>3. CASE MarkFailure(acc[r], f) /\ ~Uncounted(f)
      <4> DEFINE a == acc[r]
                 Classes == {"none"} \cup {ClassOf(g) : g \in AllFaults}
      <4> HIDE DEF a, Classes
      <4>1. /\ enabled' = [enabled EXCEPT ![a] = @ /\ f # "quota"]
            /\ degraded' = [degraded EXCEPT ![a] = @ \/ f = "rate_limit"]
            /\ hasToken' = [hasToken EXCEPT ![a] =
                   @ /\ f # "unauthorized" /\ ~(f = "forbidden" /\ failClass[a] = "auth")]
            /\ UNCHANGED inflight
        BY <3>3, Zenon DEF MarkFailure, a
      <4>2. failClass' = [failClass EXCEPT ![a] = ClassOf(f)] \/ failClass' = failClass
        BY <3>3, Zenon DEF MarkFailure, a
      <4>3. ClassOf(f) \in Classes
        BY <2>1, Zenon DEF Classes
      <4>4. failClass \in [Accounts -> Classes]
        BY Zenon DEF Classes
      <4>5. failClass' \in [Accounts -> Classes]
        BY <4>2, <4>3, <4>4
      <4>6. /\ enabled' \in [Accounts -> BOOLEAN]
            /\ degraded' \in [Accounts -> BOOLEAN]
            /\ hasToken' \in [Accounts -> BOOLEAN]
        BY <4>1
      <4> QED
        BY <4>1, <4>5, <4>6, Zenon DEF Classes
    <3> QED
      BY <2>2, <3>1, <3>2, <3>3
  <2>4. QED
    <3>1. /\ pc[r] = "stream"
          /\ \/ pc' = [pc EXCEPT ![r] = "releaseRetry"]
             \/ pc' = [pc EXCEPT ![r] = "releaseDone"]
          /\ UNCHANGED <<acc, cand, tried, sent, extra, empties, gone, shown>>
      BY <1>11 DEF StreamFails
    <3>2. \/ UNCHANGED <<outcome, status>>
          \/ Answer(r, "error")
          \/ Answer(r, "silent")
      BY <1>11, Zenon DEF StreamFails
    <3>3. /\ outcome' \in [Requests -> {"none", "ok", "error", "silent", "aborted"}]
          /\ status' \in [Requests -> {"none", "200", "error"}]
      BY <3>2, AnswerType
    <3>4. TypeOK'
      BY <2>3, <3>1, <3>3
    <3>5. Bookkeeping'
      BY <3>1
    <3> QED
      BY <3>4, <3>5
<1>12. ASSUME NEW r \in Requests, Release(r) PROVE IInv'
  BY <1>12 DEF Release, Released
<1>13. ASSUME NEW r \in Requests, ReleaseOld(r) PROVE IInv'
  BY <1>13 DEF ReleaseOld, Released
<1>14. ASSUME NEW r \in Requests, Retry(r) PROVE IInv'
  BY <1>14 DEF Retry, accountVars
<1>15. ASSUME NEW r \in Requests, BudgetExhausted(r) PROVE IInv'
  <2>1. /\ inflight' \in [Accounts -> Nat]
        /\ outcome' \in [Requests -> {"none", "ok", "error", "silent", "aborted"}]
        /\ status' \in [Requests -> {"none", "200", "error"}]
    BY <1>15, ReleasedType, AnswerType DEF BudgetExhausted
  <2> QED
    BY <1>15, <2>1 DEF BudgetExhausted
<1>16. ASSUME NEW r \in Requests, ClientGone(r) PROVE IInv'
  BY <1>16 DEF ClientGone, accountVars
<1>17. ASSUME NEW a \in Accounts, SetEnabled(a) \/ Relogin(a) PROVE IInv'
  BY <1>17 DEF SetEnabled, Relogin, requestVars
<1>18. CASE UNCHANGED vars
  BY <1>18 DEF vars, accountVars, requestVars
<1> QED
  BY <1>1, <1>2, <1>3, <1>4, <1>5, <1>6, <1>7, <1>8, <1>9, <1>10, <1>11,
     <1>12, <1>13, <1>14, <1>15, <1>16, <1>17, <1>18 DEF Next, RequestStep

THEOREM IInvHolds == Spec => []IInv
BY InitIInv, StepIInv, PTL DEF Spec

(* Every variable keeps its type, for any set of requests and accounts.      *)
THEOREM TypeCorrect == Spec => []TypeOK
BY IInvHolds, PTL DEF IInv

-----------------------------------------------------------------------------
LEMMA HeldByFinite ==
  ASSUME NEW a PROVE IsFiniteSet(HeldBy(a)) /\ Cardinality(HeldBy(a)) \in Nat
<1>1. HeldBy(a) \in SUBSET Requests
  BY DEF HeldBy
<1>2. IsFiniteSet(HeldBy(a))
  BY <1>1, FS_Subset, DispatchAssumption
<1> QED
  BY <1>2, FS_CardinalityType

(* What changes neither the handlers' accounts nor which of them hold one    *)
(* changes no HeldBy.                                                        *)
Quiet ==
  /\ acc' = acc
  /\ \A r \in Requests :
       /\ pc[r] \in Holding <=> pc'[r] \in Holding
       /\ pc[r] = "swapped" <=> pc'[r] = "swapped"
       /\ pc[r] = "swapped" => cand'[r] = cand[r]

LEMMA QuietKeepsHolders == Quiet => \A a : HeldBy(a)' = HeldBy(a)
BY DEF Quiet, HeldBy

(* The steps that touch no slot.                                             *)
QuietStep(r) ==
  \/ Admit(r) \/ Shed(r) \/ Pick(r) \/ (Acquire(r) /\ Full(cand[r]))
  \/ PickFails(r) \/ Emit(r) \/ ExtraRound(r) \/ StreamEmpty(r)
  \/ StreamSucceeds(r) \/ Refused(r) \/ (\E f \in Faults : StreamFails(r, f))
  \/ Retry(r) \/ ClientGone(r)

LEMMA QuietSteps ==
  ASSUME IInv, NEW r \in Requests, QuietStep(r)
  PROVE  Quiet /\ inflight' = inflight
<1>1. pc \in [Requests -> Labels] /\ cand \in [Requests -> Accounts \cup {NoAccount}]
  BY DEF IInv, TypeOK
<1> USE <1>1 DEF Quiet, Holding, Goto
<1>2. CASE Admit(r) \/ Shed(r) \/ Retry(r) \/ ClientGone(r)
  BY <1>2 DEF Admit, Shed, Retry, ClientGone, accountVars
<1>3. CASE Pick(r)
  BY <1>3 DEF Pick, accountVars
<1>4. CASE Acquire(r) /\ Full(cand[r])
  BY <1>4 DEF Acquire
<1>5. CASE PickFails(r)
  BY <1>5 DEF PickFails, MarkSuccess, accountVars
<1>6. CASE Emit(r) \/ ExtraRound(r) \/ Refused(r)
  BY <1>6 DEF Emit, ExtraRound, Refused, accountVars
<1>7. CASE StreamEmpty(r) \/ StreamSucceeds(r)
  BY <1>7 DEF StreamEmpty, StreamSucceeds, MarkSuccess, accountVars
<1>8. ASSUME NEW f \in Faults, StreamFails(r, f) PROVE Quiet /\ inflight' = inflight
  <2>1. inflight' = inflight
    BY <1>8 DEF StreamFails, MarkFailure, accountVars
  <2>2. /\ pc[r] = "stream"
        /\ \/ pc' = [pc EXCEPT ![r] = "releaseRetry"]
           \/ pc' = [pc EXCEPT ![r] = "releaseDone"]
        /\ UNCHANGED <<acc, cand>>
    BY <1>8 DEF StreamFails
  <2> QED
    BY <2>1, <2>2
<1> QED
  BY <1>2, <1>3, <1>4, <1>5, <1>6, <1>7, <1>8 DEF QuietStep

LEMMA StepSlots ==
  ASSUME ~BudgetOn, IInv, SlotsMatchHolders, [Next]_vars
  PROVE  SlotsMatchHolders'
<1>1. \A a : IsFiniteSet(HeldBy(a)) /\ Cardinality(HeldBy(a)) \in Nat
  BY HeldByFinite
<1>2. CASE Quiet /\ inflight' = inflight
  BY <1>2, QuietKeepsHolders DEF SlotsMatchHolders
<1>3. ASSUME NEW r \in Requests, Acquire(r), ~Full(cand[r])
      PROVE  SlotsMatchHolders'
  <2> DEFINE c == cand[r]
  <2>1. /\ c \in Accounts \ tried[r]
        /\ inflight' = [inflight EXCEPT ![c] = @ + 1]
    BY <1>3 DEF Acquire, IInv, Bookkeeping
  <2>2. r \notin HeldBy(c)
    BY <1>3, <2>1 DEF Acquire, HeldBy, Holding, IInv, Bookkeeping
  <2>3. ASSUME NEW a \in Accounts
        PROVE  HeldBy(a)' = IF a = c THEN HeldBy(a) \cup {r} ELSE HeldBy(a)
    <3>1. ASSUME NEW q \in Requests
          PROVE  q \in HeldBy(a)' <=> q \in HeldBy(a) \/ (q = r /\ a = c)
      <4>1. CASE pc[r] = "acquire"
        <5>1. /\ pc' = [pc EXCEPT ![r] = "stream"]
              /\ acc' = [acc EXCEPT ![r] = c]
              /\ cand' = [cand EXCEPT ![r] = NoAccount]
          BY <1>3, <4>1 DEF Acquire, Goto
        <5> QED
          BY <4>1, <5>1, <2>1 DEF HeldBy, Holding, IInv, TypeOK
      <4>2. CASE pc[r] = "swapAcquire"
        <5>1. pc' = [pc EXCEPT ![r] = "swapped"] /\ UNCHANGED <<acc, cand>>
          BY <1>3, <4>2 DEF Acquire, Goto
        <5> QED
          BY <4>2, <5>1, <2>1 DEF HeldBy, Holding, IInv, TypeOK
      <4> QED
        BY <1>3, <4>1, <4>2 DEF Acquire
    <3>2. HeldBy(a)' \subseteq Requests /\ HeldBy(a) \subseteq Requests
      BY DEF HeldBy
    <3> QED
      BY <3>1, <3>2
  <2> SUFFICES ASSUME NEW a \in Accounts PROVE (inflight[a] = Cardinality(HeldBy(a)))'
    BY DEF SlotsMatchHolders
  <2>4. inflight[a] = Cardinality(HeldBy(a)) /\ inflight \in [Accounts -> Nat]
    BY DEF SlotsMatchHolders, IInv, TypeOK
  <2>5. CASE a = c
    <3>1. Cardinality(HeldBy(a)') = Cardinality(HeldBy(a)) + 1
      BY <1>1, <2>2, <2>3, <2>5, FS_AddElement
    <3> QED
      BY <2>1, <2>4, <2>5, <3>1
  <2>6. CASE a # c
    BY <2>1, <2>3, <2>4, <2>6
  <2> QED
    BY <2>5, <2>6
<1>4. ASSUME NEW r \in Requests, Release(r) \/ ReleaseOld(r)
      PROVE  SlotsMatchHolders'
  <2> DEFINE c == acc[r]
  <2>1. c \in Accounts /\ inflight' = Released(c) /\ r \in HeldBy(c)
    BY <1>4 DEF Release, ReleaseOld, IInv, TypeOK, Bookkeeping, HeldBy, Holding
  <2>2. ASSUME NEW a \in Accounts
        PROVE  HeldBy(a)' = IF a = c THEN HeldBy(a) \ {r} ELSE HeldBy(a)
    <3>1. ASSUME NEW q \in Requests
          PROVE  q \in HeldBy(a)' <=> q \in HeldBy(a) /\ ~(q = r /\ a = c)
      <4>1. CASE Release(r)
        <5>1. /\ pc[r] \in {"releaseRetry", "releaseDone"}
              /\ pc' = [pc EXCEPT ![r] = "retry"] \/ pc' = [pc EXCEPT ![r] = "done"]
              /\ UNCHANGED <<acc, cand>>
          BY <4>1 DEF Release, Goto
        <5> QED
          BY <5>1 DEF HeldBy, Holding, IInv, TypeOK
      <4>2. CASE ReleaseOld(r)
        <5>1. /\ pc[r] = "swapped"
              /\ pc' = [pc EXCEPT ![r] = "stream"]
              /\ acc' = [acc EXCEPT ![r] = cand[r]]
              /\ cand' = [cand EXCEPT ![r] = NoAccount]
              /\ cand[r] # acc[r]
          BY <4>2 DEF ReleaseOld, Goto, IInv, Bookkeeping
        <5> QED
          BY <5>1 DEF HeldBy, Holding, IInv, TypeOK
      <4> QED
        BY <1>4, <4>1, <4>2
    <3>2. HeldBy(a)' \subseteq Requests /\ HeldBy(a) \subseteq Requests
      BY DEF HeldBy
    <3> QED
      BY <3>1, <3>2
  <2> SUFFICES ASSUME NEW a \in Accounts PROVE (inflight[a] = Cardinality(HeldBy(a)))'
    BY DEF SlotsMatchHolders
  <2>3. inflight[a] = Cardinality(HeldBy(a)) /\ inflight \in [Accounts -> Nat]
    BY DEF SlotsMatchHolders, IInv, TypeOK
  <2>4. CASE a = c
    <3>1. Cardinality(HeldBy(a)') = Cardinality(HeldBy(a)) - 1
      BY <1>1, <2>1, <2>2, <2>4, FS_RemoveElement
    <3>2. inflight[a] # 0
      BY <1>1, <2>1, <2>3, <2>4, FS_EmptySet
    <3> QED
      BY <2>1, <2>3, <2>4, <3>1, <3>2 DEF Released
  <2>5. CASE a # c
    BY <2>1, <2>2, <2>3, <2>5 DEF Released
  <2> QED
    BY <2>4, <2>5
<1>5. CASE UNCHANGED vars \/ \E a \in Accounts : SetEnabled(a) \/ Relogin(a)
  <2>1. Quiet /\ inflight' = inflight
    BY <1>5 DEF SetEnabled, Relogin, vars, accountVars, requestVars, Quiet
  <2> QED
    BY <1>2, <2>1
<1>6. ASSUME NEW r \in Requests,
             Admit(r) \/ Shed(r) \/ RequestStep(r) \/ ClientGone(r)
      PROVE  SlotsMatchHolders'
  <2>1. CASE QuietStep(r)
    BY <1>2, <2>1, QuietSteps
  <2>2. CASE ~QuietStep(r)
    <3>1. ~BudgetExhausted(r)
      BY DEF BudgetExhausted
    <3>2. (Acquire(r) /\ ~Full(cand[r])) \/ Release(r) \/ ReleaseOld(r)
      BY <1>6, <2>2, <3>1, Zenon DEF QuietStep, RequestStep
    <3> QED
      BY <1>3, <1>4, <3>2
  <2> QED
    BY <2>1, <2>2
<1> QED
  BY <1>5, <1>6 DEF Next

LEMMA InitSlots == Init => SlotsMatchHolders
<1> SUFFICES ASSUME Init, NEW a \in Accounts PROVE inflight[a] = Cardinality(HeldBy(a))
  BY DEF SlotsMatchHolders
<1>1. HeldBy(a) = {}
  BY DEF Init, HeldBy, Holding
<1> QED
  BY <1>1, FS_EmptySet DEF Init

(* With no retry budget configured, the counter of every account equals the  *)
(* number of requests that hold one of its slots, for any number of requests *)
(* and accounts, any handlers and any limits.                                *)
THEOREM SlotsExact == ASSUME ~BudgetOn PROVE Spec => []SlotsMatchHolders
<1>1. IInv /\ SlotsMatchHolders /\ [Next]_vars => SlotsMatchHolders'
  BY StepSlots
<1> QED
  BY <1>1, InitSlots, IInvHolds, PTL DEF Spec

-----------------------------------------------------------------------------
(* Without the budget, and when a 429 really lowers the limit, no account    *)
(* ever serves more requests than account_concurrency.                       *)
THEOREM LimitKept ==
  ASSUME ~BudgetOn, DegradedLimit \in 1..Limit
  PROVE  Spec => []HoldersWithinLimit
<1> DEFINE Within == \A a \in Accounts : inflight[a] <= Limit
<1>1. Init => Within
  BY DispatchAssumption DEF Init
<1>2. IInv /\ Within /\ [Next]_vars => Within'
  <2> SUFFICES ASSUME IInv, Within, [Next]_vars, NEW a \in Accounts
               PROVE  inflight'[a] <= Limit
    OBVIOUS
  <2>1. inflight \in [Accounts -> Nat] /\ Limit \in Nat /\ Limit > 0
    BY DispatchAssumption DEF IInv, TypeOK
  <2>2. ASSUME NEW r \in Requests, Acquire(r), ~Full(cand[r])
        PROVE  inflight'[a] <= Limit
    <3>1. inflight' = [inflight EXCEPT ![cand[r]] = @ + 1]
      BY <2>2 DEF Acquire
    <3>2. cand[r] \in Accounts
      BY <2>2 DEF Acquire, IInv, Bookkeeping
    <3>3. LimitOf(cand[r]) \in 1..Limit
      BY <2>1 DEF LimitOf
    <3>4. inflight[cand[r]] + 1 <= Limit
      BY <2>1, <2>2, <3>2, <3>3 DEF Full
    <3> QED
      BY <2>1, <3>1, <3>2, <3>4
  <2>3. ASSUME NEW r \in Requests, QuietStep(r) PROVE inflight'[a] <= Limit
    BY <2>3, QuietSteps
  <2>4. ASSUME NEW r \in Requests, Release(r) \/ ReleaseOld(r) \/ BudgetExhausted(r)
        PROVE  inflight'[a] <= Limit
    <3>1. inflight' = Released(acc[r])
      BY <2>4 DEF Release, ReleaseOld, BudgetExhausted
    <3> QED
      BY <2>1, <3>1 DEF Released
  <2>5. CASE UNCHANGED vars \/ \E b \in Accounts : SetEnabled(b) \/ Relogin(b)
    BY <2>5 DEF SetEnabled, Relogin, vars, accountVars
  <2>6. ASSUME NEW r \in Requests,
               Admit(r) \/ Shed(r) \/ RequestStep(r) \/ ClientGone(r)
        PROVE  inflight'[a] <= Limit
    <3>1. \/ QuietStep(r)
          \/ (Acquire(r) /\ ~Full(cand[r]))
          \/ Release(r) \/ ReleaseOld(r) \/ BudgetExhausted(r)
      BY <2>6, Zenon DEF QuietStep, RequestStep
    <3> QED
      BY <2>2, <2>3, <2>4, <3>1
  <2> QED
    BY <2>5, <2>6 DEF Next
<1>3. SlotsMatchHolders /\ Within => HoldersWithinLimit
  BY DEF SlotsMatchHolders, HoldersWithinLimit
<1> QED
  BY <1>1, <1>2, <1>3, IInvHolds, SlotsExact, PTL DEF Spec

-----------------------------------------------------------------------------
(* What the steps that move slots do to the holders.                         *)
LEMMA LoudSteps ==
  ASSUME IInv, NEW r \in Requests, NEW a, NEW q \in HeldBy(a)' \ HeldBy(a),
         \/ Acquire(r) /\ ~Full(cand[r])
         \/ Release(r) \/ ReleaseOld(r) \/ BudgetExhausted(r)
  PROVE  a \notin tried[q]
<1> USE DEF IInv, TypeOK, HeldBy, Holding, Goto
<1>1. CASE Acquire(r) /\ ~Full(cand[r])
  <2>1. cand[r] \notin tried[r]
    BY <1>1 DEF Acquire, Bookkeeping
  <2>2. CASE pc[r] = "acquire"
    <3>1. /\ pc' = [pc EXCEPT ![r] = "stream"]
          /\ acc' = [acc EXCEPT ![r] = cand[r]]
          /\ cand' = [cand EXCEPT ![r] = NoAccount]
      BY <1>1, <2>2 DEF Acquire
    <3> QED
      BY <2>1, <2>2, <3>1
  <2>3. CASE pc[r] = "swapAcquire"
    <3>1. pc' = [pc EXCEPT ![r] = "swapped"] /\ UNCHANGED <<acc, cand>>
      BY <1>1, <2>3 DEF Acquire
    <3> QED
      BY <2>1, <2>3, <3>1
  <2> QED
    BY <1>1, <2>2, <2>3 DEF Acquire
<1>2. CASE Release(r) \/ BudgetExhausted(r)
  <2>1. /\ pc' = [pc EXCEPT ![r] = "retry"] \/ pc' = [pc EXCEPT ![r] = "done"]
        /\ UNCHANGED <<acc, cand>>
    BY <1>2 DEF Release, BudgetExhausted
  <2> QED
    BY <2>1
<1>3. CASE ReleaseOld(r)
  <2>1. /\ pc[r] = "swapped"
        /\ pc' = [pc EXCEPT ![r] = "stream"]
        /\ acc' = [acc EXCEPT ![r] = cand[r]]
        /\ cand' = [cand EXCEPT ![r] = NoAccount]
    BY <1>3 DEF ReleaseOld
  <2> QED
    BY <2>1
<1> QED
  BY <1>1, <1>2, <1>3

(* A request never takes a slot of an account it has already tried, with or  *)
(* without a retry budget.                                                   *)
THEOREM NoAccountTwice == Spec => NeverSameAccountTwice
<1> DEFINE New == \A a \in Accounts : \A r \in HeldBy(a)' \ HeldBy(a) : a \notin tried[r]
<1>1. IInv /\ [Next]_vars => [New]_vars
  <2> SUFFICES ASSUME IInv, Next PROVE New
    BY DEF vars
  <2>1. CASE Quiet
    BY <2>1, QuietKeepsHolders
  <2>2. ASSUME NEW r \in Requests,
               Admit(r) \/ Shed(r) \/ RequestStep(r) \/ ClientGone(r)
        PROVE  New
    <3>1. \/ QuietStep(r)
          \/ (Acquire(r) /\ ~Full(cand[r]))
          \/ Release(r) \/ ReleaseOld(r) \/ BudgetExhausted(r)
      BY <2>2, Zenon DEF QuietStep, RequestStep
    <3> QED
      BY <2>1, <3>1, QuietSteps, LoudSteps
  <2>3. CASE \E a \in Accounts : SetEnabled(a) \/ Relogin(a)
    BY <2>1, <2>3 DEF SetEnabled, Relogin, requestVars, Quiet
  <2> QED
    BY <2>2, <2>3 DEF Next
<1> QED
  BY <1>1, IInvHolds, PTL DEF Spec, NeverSameAccountTwice

-----------------------------------------------------------------------------
(* Only a streaming request shows content, and then its round either goes on *)
(* with sent set or ends the request.                                        *)
ShownInv ==
  \A r \in Requests : shown[r] =>
    /\ Streaming(r)
    /\ pc[r] \in {"stream", "releaseDone", "done"}
    /\ pc[r] = "stream" => sent[r]

LEMMA InitShown == Init => ShownInv
BY DEF Init, ShownInv

LEMMA StepShown == TypeOK /\ ShownInv /\ [Next]_vars => ShownInv'
<1> SUFFICES ASSUME TypeOK, ShownInv, [Next]_vars PROVE ShownInv'
  OBVIOUS
<1>t. /\ pc \in [Requests -> Labels] /\ shown \in [Requests -> BOOLEAN]
      /\ sent \in [Requests -> BOOLEAN]
  BY DEF TypeOK
<1> USE <1>t DEF ShownInv, Goto, Streaming
<1>1. ASSUME NEW r \in Requests,
             Admit(r) \/ Shed(r) \/ Pick(r) \/ PickFails(r) \/ Retry(r) \/ BudgetExhausted(r)
      PROVE  ShownInv'
  BY <1>1 DEF Admit, Shed, Pick, PickFails, Retry, BudgetExhausted
<1>2. ASSUME NEW r \in Requests, Acquire(r) PROVE ShownInv'
  <2>1. ~shown[r] /\ shown' = shown
    BY <1>2 DEF Acquire
  <2>2. \A q \in Requests \ {r} : pc'[q] = pc[q] /\ sent'[q] = sent[q]
    BY <1>2 DEF Acquire
  <2> QED
    BY <2>1, <2>2
<1>3. ASSUME NEW r \in Requests, Emit(r) \/ ExtraRound(r) \/ Refused(r) PROVE ShownInv'
  BY <1>3 DEF Emit, ExtraRound, Refused, Chat
<1>4. ASSUME NEW r \in Requests, StreamEmpty(r) \/ StreamSucceeds(r) PROVE ShownInv'
  BY <1>4 DEF StreamEmpty, StreamSucceeds
<1>5. ASSUME NEW r \in Requests, NEW f \in Faults, StreamFails(r, f) PROVE ShownInv'
  BY <1>5 DEF StreamFails, RetriesAfter
<1>6. ASSUME NEW r \in Requests, Release(r) \/ ReleaseOld(r) PROVE ShownInv'
  BY <1>6 DEF Release, ReleaseOld
<1>7. ASSUME NEW r \in Requests, ClientGone(r) PROVE ShownInv'
  BY <1>7 DEF ClientGone
<1>8. CASE UNCHANGED vars \/ \E a \in Accounts : SetEnabled(a) \/ Relogin(a)
  BY <1>8 DEF SetEnabled, Relogin, vars, requestVars
<1> QED
  BY <1>1, <1>2, <1>3, <1>4, <1>5, <1>6, <1>7, <1>8 DEF Next, RequestStep

(* Once content has reached the client no step adds an account to the        *)
(* request, for any kinds of handlers, faults and limits.                    *)
THEOREM ContentEndsRetries == Spec => NoRetryAfterContent
<1>1. ShownInv /\ TypeOK /\ [Next]_vars =>
        [\A r \in Requests : shown[r] => tried'[r] = tried[r]]_vars
  <2> SUFFICES ASSUME ShownInv, TypeOK, Next, NEW r \in Requests, shown[r]
               PROVE  tried'[r] = tried[r]
    BY DEF vars
  <2>1. ASSUME NEW q \in Requests, Acquire(q) PROVE tried'[r] = tried[r]
    <3>1. q # r
      BY <2>1 DEF Acquire, ShownInv
    <3> QED
      BY <2>1, <3>1 DEF Acquire, TypeOK
  <2>2. ASSUME NEW q \in Requests,
               \/ Admit(q) \/ Shed(q) \/ ClientGone(q)
               \/ RequestStep(q) /\ ~Acquire(q)
        PROVE  tried' = tried
    BY <2>2 DEF Admit, Shed, ClientGone, RequestStep, Pick, PickFails, Emit, ExtraRound,
                StreamEmpty, StreamSucceeds, Refused, StreamFails, Release, ReleaseOld,
                Retry, BudgetExhausted
  <2>3. CASE \E a \in Accounts : SetEnabled(a) \/ Relogin(a)
    BY <2>3 DEF SetEnabled, Relogin, requestVars
  <2> QED
    BY <2>1, <2>2, <2>3 DEF Next
<1>2. Spec => []ShownInv
  BY InitShown, StepShown, TypeCorrect, PTL DEF Spec
<1> QED
  BY <1>1, <1>2, TypeCorrect, PTL DEF Spec, NoRetryAfterContent

-----------------------------------------------------------------------------
(* A request that has picked a further account has not used up its           *)
(* credentials.                                                              *)
TriedInv ==
  \A r \in Requests :
    /\ IsFiniteSet(tried[r])
    /\ CredentialLimit > 0 =>
         /\ Cardinality(tried[r]) <= CredentialLimit
         /\ pc[r] \in {"acquire", "swapAcquire"} => Cardinality(tried[r]) < CredentialLimit

LEMMA StepTried == IInv /\ TriedInv /\ [Next]_vars => TriedInv'
<1> SUFFICES ASSUME IInv, TriedInv, [Next]_vars PROVE TriedInv'
  OBVIOUS
<1>t. /\ pc \in [Requests -> Labels] /\ tried \in [Requests -> SUBSET Accounts]
      /\ CredentialLimit \in Nat
      /\ \A r \in Requests : Cardinality(tried[r]) \in Nat
  BY FS_CardinalityType, DispatchAssumption DEF IInv, TypeOK, TriedInv
<1>1. ASSUME tried' = tried,
             \A r \in Requests : \/ pc'[r] \notin {"acquire", "swapAcquire"}
                                 \/ pc'[r] = pc[r]
      PROVE  TriedInv'
  BY <1>1 DEF TriedInv
<1>2. ASSUME NEW r \in Requests, Pick(r) PROVE TriedInv'
  <2>1. CredentialLimit > 0 => Cardinality(tried[r]) < CredentialLimit
    BY <1>2, <1>t DEF Pick, Candidates
  <2>2. tried' = tried /\ \A q \in Requests \ {r} : pc'[q] = pc[q]
    BY <1>2, <1>t DEF Pick, Goto
  <2> QED
    BY <2>1, <2>2 DEF TriedInv
<1>3. ASSUME NEW r \in Requests, Acquire(r) PROVE TriedInv'
  <2>1. /\ pc'[r] \notin {"acquire", "swapAcquire"}
        /\ \A q \in Requests \ {r} : pc'[q] = pc[q]
    BY <1>3, <1>t DEF Acquire, Goto
  <2>2. CASE Full(cand[r])
    BY <1>1, <1>3, <2>1, <2>2 DEF Acquire
  <2>3. CASE ~Full(cand[r])
    <3>1. tried' = [tried EXCEPT ![r] = @ \cup {cand[r]}]
      BY <1>3, <2>3 DEF Acquire
    <3>2. cand[r] \notin tried[r]
      BY <1>3 DEF Acquire, IInv, Bookkeeping
    <3>3. /\ IsFiniteSet(tried[r] \cup {cand[r]})
          /\ Cardinality(tried[r] \cup {cand[r]}) = Cardinality(tried[r]) + 1
      BY <3>2, FS_AddElement DEF TriedInv
    <3>4. CredentialLimit > 0 => Cardinality(tried[r]) < CredentialLimit
      BY <1>3 DEF Acquire, TriedInv
    <3>5. ASSUME NEW q \in Requests
          PROVE  /\ IsFiniteSet(tried'[q])
                 /\ CredentialLimit > 0 =>
                      /\ Cardinality(tried'[q]) <= CredentialLimit
                      /\ pc'[q] \in {"acquire", "swapAcquire"}
                           => Cardinality(tried'[q]) < CredentialLimit
      <4>1. CASE q = r
        BY <1>t, <2>1, <3>1, <3>3, <3>4, <4>1
      <4>2. CASE q # r
        BY <1>t, <2>1, <3>1, <4>2 DEF TriedInv
      <4> QED
        BY <4>1, <4>2
    <3> QED
      BY <3>5 DEF TriedInv
  <2> QED
    BY <2>2, <2>3
<1>4. ASSUME NEW r \in Requests,
             \/ Admit(r) \/ Shed(r) \/ ClientGone(r)
             \/ RequestStep(r) /\ ~Pick(r) /\ ~Acquire(r)
      PROVE  TriedInv'
  <2>1. tried' = tried
    BY <1>4 DEF Admit, Shed, ClientGone, RequestStep, PickFails, Emit, ExtraRound,
                StreamEmpty, StreamSucceeds, Refused, StreamFails, Release, ReleaseOld,
                Retry, BudgetExhausted
  <2>2. \A q \in Requests : \/ pc'[q] \notin {"acquire", "swapAcquire"} \/ pc'[q] = pc[q]
    BY <1>4, <1>t DEF Admit, Shed, ClientGone, RequestStep, PickFails, Emit, ExtraRound,
                StreamEmpty, StreamSucceeds, Refused, StreamFails, Release, ReleaseOld,
                Retry, BudgetExhausted, Goto
  <2> QED
    BY <1>1, <2>1, <2>2
<1>5. CASE UNCHANGED vars \/ \E a \in Accounts : SetEnabled(a) \/ Relogin(a)
  BY <1>1, <1>5 DEF SetEnabled, Relogin, vars, requestVars
<1> QED
  BY <1>2, <1>3, <1>4, <1>5 DEF Next

(* max-retry-credentials bounds the accounts of every request, retries and   *)
(* swaps of refused answers together.                                        *)
THEOREM CredentialsBounded == Spec => []AttemptsBounded
<1>1. Init => TriedInv
  BY FS_EmptySet, DispatchAssumption DEF Init, TriedInv
<1>2. TriedInv => AttemptsBounded
  BY DEF TriedInv, AttemptsBounded
<1> QED
  BY <1>1, <1>2, StepTried, IInvHolds, PTL DEF Spec

-----------------------------------------------------------------------------
(* Without a retry budget a slot is taken only below the limit in force.     *)
THEOREM TakenUnderLimit == ASSUME ~BudgetOn PROVE Spec => AcquireUnderLimit
<1> DEFINE Under == \A a \in Accounts :
             Cardinality(HeldBy(a)') > Cardinality(HeldBy(a)) /\ LimitOf(a) > 0
               => Cardinality(HeldBy(a)) < LimitOf(a)
<1>1. IInv /\ SlotsMatchHolders /\ [Next]_vars => [Under]_vars
  <2> SUFFICES ASSUME IInv, SlotsMatchHolders, Next, NEW a \in Accounts,
                      Cardinality(HeldBy(a)') > Cardinality(HeldBy(a)), LimitOf(a) > 0
               PROVE  Cardinality(HeldBy(a)) < LimitOf(a)
    BY DEF vars
  <2>1. /\ inflight[a] = Cardinality(HeldBy(a))
        /\ inflight'[a] = Cardinality(HeldBy(a)')
    BY StepSlots DEF SlotsMatchHolders
  <2>2. /\ inflight \in [Accounts -> Nat] /\ inflight'[a] > inflight[a]
        /\ LimitOf(a) \in Nat
    BY <2>1, DispatchAssumption DEF IInv, TypeOK, LimitOf
  <2>3. ASSUME NEW r \in Requests, Acquire(r), ~Full(cand[r]) PROVE inflight[a] < LimitOf(a)
    <3>1. inflight' = [inflight EXCEPT ![cand[r]] = @ + 1]
      BY <2>3 DEF Acquire
    <3>2. cand[r] = a
      BY <2>2, <3>1
    <3> QED
      BY <2>2, <2>3, <3>2 DEF Full
  <2>4. ASSUME NEW r \in Requests, QuietStep(r) PROVE FALSE
    BY <2>2, <2>4, QuietSteps
  <2>5. ASSUME NEW r \in Requests, Release(r) \/ ReleaseOld(r) \/ BudgetExhausted(r)
        PROVE  FALSE
    <3>1. inflight' = Released(acc[r])
      BY <2>5 DEF Release, ReleaseOld, BudgetExhausted
    <3> QED
      BY <2>2, <3>1 DEF Released
  <2>6. ASSUME NEW b \in Accounts, SetEnabled(b) \/ Relogin(b) PROVE FALSE
    BY <2>2, <2>6 DEF SetEnabled, Relogin
  <2>7. ASSUME NEW r \in Requests,
               Admit(r) \/ Shed(r) \/ RequestStep(r) \/ ClientGone(r)
        PROVE  inflight[a] < LimitOf(a)
    <3>1. \/ QuietStep(r)
          \/ (Acquire(r) /\ ~Full(cand[r]))
          \/ Release(r) \/ ReleaseOld(r) \/ BudgetExhausted(r)
      BY <2>7, Zenon DEF QuietStep, RequestStep
    <3> QED
      BY <2>3, <2>4, <2>5, <3>1
  <2> QED
    BY <2>1, <2>6, <2>7 DEF Next
<1> QED
  BY <1>1, IInvHolds, SlotsExact, PTL DEF Spec, AcquireUnderLimit

-----------------------------------------------------------------------------
(* Whatever a handler does after its client has gone leaves the account as   *)
(* it was, or clears its last failure.                                       *)
THEOREM GoneClientHarmless == Spec => GoneClientSparesAccount
<1> DEFINE Spares(r) == gone[r] /\ pc'[r] # pc[r] =>
             /\ UNCHANGED <<degraded, enabled, hasToken>>
             /\ \A a \in Accounts : failClass'[a] \in {failClass[a], "none"}
<1>1. TypeOK /\ [Next]_vars => [\A r \in Requests : Spares(r)]_vars
  <2> SUFFICES ASSUME TypeOK, Next, NEW r \in Requests, gone[r], pc'[r] # pc[r]
               PROVE  /\ UNCHANGED <<degraded, enabled, hasToken>>
                      /\ \A a \in Accounts : failClass'[a] \in {failClass[a], "none"}
    BY DEF vars
  <2>1. pc \in [Requests -> Labels]
    BY DEF TypeOK
  <2>2. ~\E a \in Accounts : SetEnabled(a) \/ Relogin(a)
    BY DEF SetEnabled, Relogin, requestVars
  <2>3. ASSUME NEW q \in Requests, q # r PROVE ~RequestStep(q)
    <3>1. ASSUME NEW l, pc' = [pc EXCEPT ![q] = l] PROVE FALSE
      BY <2>1, <2>3, <3>1
    <3> QED
      BY <3>1 DEF RequestStep, Pick, Acquire, PickFails, Emit, ExtraRound, StreamEmpty,
                  StreamSucceeds, Refused, StreamFails, Release, ReleaseOld, Retry,
                  BudgetExhausted, Goto
  <2>4. ASSUME NEW q \in Requests, Admit(q) \/ Shed(q) \/ ClientGone(q)
        PROVE  UNCHANGED <<degraded, enabled, hasToken, failClass>>
    BY <2>4 DEF Admit, Shed, ClientGone, accountVars
  <2>5. ASSUME RequestStep(r)
        PROVE  /\ UNCHANGED <<degraded, enabled, hasToken>>
               /\ \/ failClass' = failClass
                  \/ failClass' = [failClass EXCEPT ![acc[r]] = "none"]
    BY <2>5 DEF RequestStep, Pick, Acquire, PickFails, Emit, ExtraRound, StreamEmpty,
                StreamSucceeds, Refused, StreamFails, Release, ReleaseOld, Retry,
                BudgetExhausted, MarkSuccess, accountVars
  <2>6. failClass' = failClass \/ failClass' = [failClass EXCEPT ![acc[r]] = "none"]
    BY <2>2, <2>3, <2>4, <2>5 DEF Next
  <2>7. \A a \in Accounts : failClass'[a] \in {failClass[a], "none"}
    BY <2>6 DEF TypeOK
  <2> QED
    BY <2>2, <2>3, <2>4, <2>5, <2>7 DEF Next
<1> QED
  BY <1>1, TypeCorrect, PTL DEF Spec, GoneClientSparesAccount

-----------------------------------------------------------------------------
(* A handler that is giving back its slot for good has written its answer;   *)
(* it is silent only towards a client that has left.                         *)
AnsweredInv ==
  \A r \in Requests : pc[r] \in {"releaseDone", "done"} =>
    outcome[r] \in {"ok", "error"} \/ (outcome[r] = "silent" /\ gone[r])

LEMMA AnswerOf ==
  ASSUME TypeOK, NEW r \in Requests, NEW o, Answer(r, o)
  PROVE  /\ outcome'[r] = o
         /\ \A q \in Requests \ {r} : outcome'[q] = outcome[q]
BY DEF TypeOK, Answer

(* A step of r that leaves the others alone, and after which r has its       *)
(* answer if it is about to end.                                             *)
LEMMA OneAnswers ==
  ASSUME TypeOK, AnsweredInv, NEW r \in Requests,
         \A q \in Requests \ {r} :
           pc'[q] = pc[q] /\ outcome'[q] = outcome[q] /\ gone'[q] = gone[q],
         pc'[r] \in {"releaseDone", "done"} =>
           outcome'[r] \in {"ok", "error"} \/ (outcome'[r] = "silent" /\ gone'[r])
  PROVE  AnsweredInv'
BY DEF AnsweredInv

LEMMA StepAnswered ==
  ASSUME "canceled" \notin Faults, \A r \in Requests : Kind[r] # "claudeStream",
         TypeOK, AnsweredInv, [Next]_vars
  PROVE  AnsweredInv'
<1>t. /\ pc \in [Requests -> Labels] /\ gone \in [Requests -> BOOLEAN]
      /\ outcome \in [Requests -> {"none", "ok", "error", "silent", "aborted"}]
  BY DEF TypeOK
<1> USE <1>t DEF Goto
<1>1. ASSUME NEW r \in Requests,
             \/ Admit(r) \/ Pick(r) \/ Acquire(r) \/ Refused(r) \/ ReleaseOld(r) \/ Retry(r)
      PROVE  AnsweredInv'
  <2>1. UNCHANGED <<outcome, gone>>
    BY <1>1 DEF Admit, Pick, Acquire, Refused, ReleaseOld, Retry
  <2>2. /\ \A q \in Requests \ {r} : pc'[q] = pc[q]
        /\ pc'[r] \notin {"releaseDone", "done"}
    BY <1>1 DEF Admit, Pick, Acquire, Refused, ReleaseOld, Retry
  <2> QED
    BY <2>1, <2>2, OneAnswers
<1>2. ASSUME NEW r \in Requests, Emit(r) \/ ExtraRound(r) PROVE AnsweredInv'
  BY <1>2 DEF Emit, ExtraRound, AnsweredInv
<1>3. ASSUME NEW r \in Requests, ClientGone(r) PROVE AnsweredInv'
  BY <1>3 DEF ClientGone, AnsweredInv
<1>4. ASSUME NEW r \in Requests, Release(r) PROVE AnsweredInv'
  BY <1>4 DEF Release, AnsweredInv
<1>5. ASSUME NEW r \in Requests, Shed(r) \/ BudgetExhausted(r) \/ StreamSucceeds(r)
      PROVE  AnsweredInv'
  <2>1. \E o \in {"ok", "error"} : Answer(r, o)
    BY <1>5 DEF Shed, BudgetExhausted, StreamSucceeds
  <2>2. UNCHANGED gone /\ \A q \in Requests \ {r} : pc'[q] = pc[q]
    BY <1>5 DEF Shed, BudgetExhausted, StreamSucceeds
  <2> QED
    BY <2>1, <2>2, AnswerOf, OneAnswers
<1>6. ASSUME NEW r \in Requests, PickFails(r) PROVE AnsweredInv'
  <2>1. \E o \in {"ok", "error"} : Answer(r, o)
    BY <1>6 DEF PickFails
  <2>2. UNCHANGED gone /\ \A q \in Requests \ {r} : pc'[q] = pc[q]
    BY <1>6 DEF PickFails
  <2> QED
    BY <2>1, <2>2, AnswerOf, OneAnswers
<1>7. ASSUME NEW r \in Requests, StreamEmpty(r) PROVE AnsweredInv'
  <2>1. \/ UNCHANGED outcome /\ pc'[r] = "releaseRetry"
        \/ Answer(r, "error")
    BY <1>7 DEF StreamEmpty
  <2>2. UNCHANGED gone /\ \A q \in Requests \ {r} : pc'[q] = pc[q]
    BY <1>7 DEF StreamEmpty
  <2> QED
    BY <2>1, <2>2, AnswerOf, OneAnswers
<1>8. ASSUME NEW r \in Requests, NEW f \in Faults, StreamFails(r, f) PROVE AnsweredInv'
  <2>1. UNCHANGED gone /\ \A q \in Requests \ {r} : pc'[q] = pc[q]
    BY <1>8 DEF StreamFails
  <2>2. Verdict(r, f) = "canceled" => gone[r]
    BY DEF Verdict
  <2>3. \/ UNCHANGED outcome /\ pc'[r] = "releaseRetry"
        \/ \E o \in {"error", "silent"} : Answer(r, o) /\ (o = "silent" => gone[r])
    BY <1>8, <2>2 DEF StreamFails, AnswersAfter
  <2> QED
    BY <2>1, <2>3, AnswerOf, OneAnswers
<1>9. CASE UNCHANGED <<pc, outcome, gone>>
  BY <1>9 DEF AnsweredInv
<1> QED
  BY <1>1, <1>2, <1>3, <1>4, <1>5, <1>6, <1>7, <1>8, <1>9
     DEF Next, RequestStep, SetEnabled, Relogin, vars, requestVars

(* For any number of requests and accounts: a handler of the OpenAI          *)
(* protocols, or of Anthropic's without a stream, that ends while its client *)
(* is connected has answered it.  The streaming Anthropic handler is left    *)
(* out, which may panic in Release (PickFails); and a canceled round is      *)
(* taken for what it is, the client leaving (noteUpstream).                  *)
THEOREM EveryoneAnswered ==
  ASSUME "canceled" \notin Faults, \A r \in Requests : Kind[r] # "claudeStream"
  PROVE  Spec => []AlwaysAnswered
<1>1. Init => AnsweredInv
  BY DEF Init, AnsweredInv
<1>2. TypeOK /\ AnsweredInv /\ [Next]_vars => AnsweredInv'
  BY StepAnswered
<1>3. AnsweredInv => AlwaysAnswered
  BY DEF AnsweredInv, AlwaysAnswered
<1> QED
  BY <1>1, <1>2, <1>3, TypeCorrect, PTL DEF Spec
=============================================================================
