------------------------------ MODULE Dispatch ------------------------------
(* How one API request borrows upstream accounts: accountIter.Next picks a   *)
(* ready account and takes one of its concurrency slots, the chat handler    *)
(* runs an upstream round on it, and on failure the handler gives the slot   *)
(* back and moves on to another account.  Four handlers share the iterator   *)
(* and differ in when they retry: OpenAI stream and JSON, Anthropic stream   *)
(* and JSON.                                                                 *)
(*                                                                           *)
(* Abstracted: which candidate the scheduler prefers (any ready account that *)
(* was not tried, whatever its priority or affinity), the RPM and daily      *)
(* limits (unset, which is the default), the text of answers.                *)
EXTENDS Naturals, FiniteSets

CONSTANTS
  Requests,         \* API requests
  Accounts,         \* accounts of the pool
  Kind,             \* [Requests -> Kinds], the handler that serves a request
  Limit,            \* account_concurrency, 0 = unlimited
  DegradedLimit,    \* account_concurrency_429, the limit after a 429
  CredentialLimit,  \* max-retry-credentials, 0 = unlimited
  EmptyRetryMax,    \* emptyRetryMax
  BudgetOn,         \* WEB2API_RETRY_BUDGET > 0
  Faults,           \* the upstream failures that may happen
  NoAccount

Kinds == {"chatStream", "chatJSON", "claudeStream", "claudeJSON"}

AllFaults == {"canceled", "degraded", "lifecycle", "region", "badRequest",
              "unavailable", "quota", "rate_limit", "unauthorized",
              "forbidden", "server"}

ASSUME DispatchAssumption ==
  /\ IsFiniteSet(Requests)
  /\ NoAccount \notin Accounts
  /\ Kind \in [Requests -> Kinds]
  /\ Limit \in Nat /\ DegradedLimit \in Nat /\ CredentialLimit \in Nat
  /\ EmptyRetryMax \in Nat
  /\ BudgetOn \in BOOLEAN
  /\ Faults \subseteq AllFaults

VARIABLES
  inflight,   \* Account.inflight
  degraded,   \* Account.degraded
  enabled,    \* Account.enabled
  hasToken,   \* TokenLocal() # nil
  failClass,  \* Account.failClass
  pc,         \* where the handler of a request is
  acc,        \* the handler's variable acc
  cand,       \* the account Pick returned and Next has not yet acquired
  tried,      \* accountIter.tried
  sent,       \* sentContent / sentAny of the current round
  extra,      \* reinforced \/ salvaged of the current attempt
  empties,    \* emptyRetries
  gone,       \* the client has closed the connection
  shown,      \* history: answer content has reached a streaming client
  outcome,    \* how the request ended
  status      \* the HTTP status line sent so far

accountVars == <<inflight, degraded, enabled, hasToken, failClass>>
requestVars == <<pc, acc, cand, tried, sent, extra, empties, gone, shown, outcome, status>>
vars == <<accountVars, requestVars>>

Chat(r)      == Kind[r] \in {"chatStream", "chatJSON"}
Streaming(r) == Kind[r] \in {"chatStream", "claudeStream"}

Goto(r, l)   == pc' = [pc EXCEPT ![r] = l]

(* The handler writes its final answer o; a status line already sent stays.  *)
Answer(r, o) ==
  /\ outcome' = [outcome EXCEPT ![r] = o]
  /\ status' = [status EXCEPT ![r] =
         IF @ # "none" \/ o \notin {"ok", "error"} THEN @
         ELSE IF o = "ok" THEN "200" ELSE "error"]

-----------------------------------------------------------------------------
(* Classify, skipUseCount: what a failure means for the account and for the  *)
(* request.                                                                  *)
ClassOf(f) ==
  IF f \in {"unauthorized", "forbidden"} THEN "auth"
  ELSE IF f = "lifecycle" THEN "server"
  ELSE IF f = "degraded" THEN "unavailable"
  ELSE f

Switches(f)  == f \notin {"canceled", "degraded", "region", "badRequest"}
Cools(f)     == Switches(f) /\ f # "lifecycle"
Uncounted(f) == f \in {"canceled", "region", "badRequest"}

(* concurrencyLimitLocked and fullLocked.                                    *)
LimitOf(a) == IF degraded[a] THEN DegradedLimit ELSE Limit
Full(a)    == LimitOf(a) > 0 /\ inflight[a] >= LimitOf(a)

(* ReadyWithLimits with no RPM or daily limit set.                           *)
Ready(a) == enabled[a] /\ ~Full(a) /\ hasToken[a]

(* Account.Release                                                           *)
Released(a) == [inflight EXCEPT ![a] = IF @ > 0 THEN @ - 1 ELSE @]

MarkFailure(a, f) ==
  /\ UNCHANGED inflight
  /\ IF Uncounted(f)
     THEN UNCHANGED <<degraded, enabled, hasToken, failClass>>
     ELSE /\ enabled'  = [enabled EXCEPT ![a] = @ /\ f # "quota"]
          /\ degraded' = [degraded EXCEPT ![a] = @ \/ f = "rate_limit"]
          /\ hasToken' = [hasToken EXCEPT ![a] =
                 /\ @
                 /\ f # "unauthorized"
                 /\ ~(f = "forbidden" /\ failClass[a] = "auth")]
          /\ failClass' = IF Cools(f)
                          THEN [failClass EXCEPT ![a] = ClassOf(f)]
                          ELSE failClass

MarkSuccess(a) ==
  /\ failClass' = [failClass EXCEPT ![a] = "none"]
  /\ UNCHANGED <<inflight, degraded, enabled, hasToken>>
-----------------------------------------------------------------------------
Init ==
  /\ inflight  = [a \in Accounts |-> 0]
  /\ degraded  = [a \in Accounts |-> FALSE]
  /\ enabled   = [a \in Accounts |-> TRUE]
  /\ hasToken  = [a \in Accounts |-> TRUE]
  /\ failClass = [a \in Accounts |-> "none"]
  /\ pc        = [r \in Requests |-> "idle"]
  /\ acc       = [r \in Requests |-> NoAccount]
  /\ cand      = [r \in Requests |-> NoAccount]
  /\ tried     = [r \in Requests |-> {}]
  /\ sent      = [r \in Requests |-> FALSE]
  /\ extra     = [r \in Requests |-> FALSE]
  /\ empties   = [r \in Requests |-> 0]
  /\ gone      = [r \in Requests |-> FALSE]
  /\ shown     = [r \in Requests |-> FALSE]
  /\ outcome   = [r \in Requests |-> "none"]
  /\ status    = [r \in Requests |-> "none"]

(* stormFastFail lets the request through, or answers 503 at once.           *)
Admit(r) ==
  /\ pc[r] = "idle"
  /\ Goto(r, "pick")
  /\ UNCHANGED <<accountVars, acc, cand, tried, sent, extra, empties, gone, shown, outcome, status>>

Shed(r) ==
  /\ pc[r] = "idle"
  /\ Goto(r, "done") /\ Answer(r, "error")
  /\ UNCHANGED <<accountVars, acc, cand, tried, sent, extra, empties, gone, shown>>

(* accountIter.Next, first half: Scheduler.Pick over a snapshot of the pool. *)
(* At "swap" the Anthropic JSON handler looks for a second account while it  *)
(* still holds the first.                                                    *)
CandidatesAgain(r) ==    \* mutant of Candidates
  IF CredentialLimit > 0 /\ Cardinality(tried[r]) >= CredentialLimit
  THEN {}
  ELSE {a \in Accounts : Ready(a)}

Candidates(r) ==
  IF CredentialLimit > 0 /\ Cardinality(tried[r]) >= CredentialLimit
  THEN {}
  ELSE {a \in Accounts \ tried[r] : Ready(a)}

Pick(r) ==
  /\ pc[r] \in {"pick", "swap"}
  /\ \E a \in Candidates(r) : cand' = [cand EXCEPT ![r] = a]
  /\ Goto(r, IF pc[r] = "pick" THEN "acquire" ELSE "swapAcquire")
  /\ UNCHANGED <<accountVars, acc, tried, sent, extra, empties, gone, shown, outcome, status>>

AcquireUnchecked(r) ==    \* mutant of Acquire
  /\ pc[r] = "acquire"
  /\ inflight' = [inflight EXCEPT ![cand[r]] = @ + 1]
  /\ tried' = [tried EXCEPT ![r] = @ \cup {cand[r]}]
  /\ acc' = [acc EXCEPT ![r] = cand[r]]
  /\ cand' = [cand EXCEPT ![r] = NoAccount]
  /\ sent' = [sent EXCEPT ![r] = FALSE]
  /\ extra' = [extra EXCEPT ![r] = FALSE]
  /\ Goto(r, "stream")
  /\ UNCHANGED <<degraded, enabled, hasToken, failClass, empties, gone, shown, outcome, status>>

(* accountIter.Next, second half: the account may have filled up since Pick. *)
(* The streaming handlers send the 200 status line once they hold one.       *)
Acquire(r) ==
  /\ pc[r] \in {"acquire", "swapAcquire"}
  /\ IF Full(cand[r])
     THEN /\ Goto(r, IF pc[r] = "acquire" THEN "pick" ELSE "swap")
          /\ cand' = [cand EXCEPT ![r] = NoAccount]
          /\ UNCHANGED <<inflight, tried, acc, sent, extra, status>>
     ELSE /\ inflight' = [inflight EXCEPT ![cand[r]] = @ + 1]
          /\ tried' = [tried EXCEPT ![r] = @ \cup {cand[r]}]
          /\ IF pc[r] = "acquire"
             THEN /\ acc' = [acc EXCEPT ![r] = cand[r]]
                  /\ cand' = [cand EXCEPT ![r] = NoAccount]
                  /\ sent' = [sent EXCEPT ![r] = FALSE]
                  /\ extra' = [extra EXCEPT ![r] = FALSE]
                  /\ status' = [status EXCEPT ![r] = IF Streaming(r) THEN "200" ELSE @]
                  /\ Goto(r, "stream")
             ELSE /\ Goto(r, "swapped")
                  /\ UNCHANGED <<acc, cand, sent, extra, status>>
  /\ UNCHANGED <<degraded, enabled, hasToken, failClass, empties, gone, shown, outcome>>

(* Next returned an error.  On a retry the Anthropic stream handler calls    *)
(* Release on the nil account Next returned, so the goroutine panics before  *)
(* the error event is written.  At "swap" the handler keeps the answer it    *)
(* has.                                                                      *)
PickFails(r) ==
  /\ Candidates(r) = {}
  /\ \/ /\ pc[r] = "pick"
        /\ Goto(r, "done")
        /\ Answer(r, IF Kind[r] = "claudeStream" /\ acc[r] # NoAccount
                  THEN "aborted" ELSE "error")
        /\ UNCHANGED accountVars
     \/ /\ pc[r] = "swap"
        /\ Goto(r, "releaseDone") /\ Answer(r, "ok")
        /\ MarkSuccess(acc[r])
  /\ UNCHANGED <<acc, cand, tried, sent, extra, empties, gone, shown>>
-----------------------------------------------------------------------------
(* The upstream round, Client.Stream.                                        *)

(* An event with visible output: a thinking or tool frame (the handler sets  *)
(* sentContent), or any event for the JSON handler (sentAny).                *)
Emit(r) ==
  /\ pc[r] = "stream" /\ ~sent[r]
  /\ Kind[r] # "claudeJSON"
  /\ sent'  = [sent EXCEPT ![r] = TRUE]
  /\ shown' = [shown EXCEPT ![r] = @ \/ Streaming(r)]
  /\ UNCHANGED <<accountVars, pc, acc, cand, tried, extra, empties, gone, outcome, status>>

(* Contract-reinforce or delivery-salvage: one more round on the same        *)
(* account, at most once per attempt, the two being exclusive.               *)
ExtraRound(r) ==
  /\ pc[r] = "stream" /\ Chat(r) /\ ~extra[r]
  /\ Kind[r] = "chatStream" => ~sent[r]
  /\ extra' = [extra EXCEPT ![r] = TRUE]
  /\ sent'  = [sent EXCEPT ![r] = FALSE]
  /\ UNCHANGED <<accountVars, pc, acc, cand, tried, empties, gone, shown, outcome, status>>

(* A completion without any output.  It is not a failure of the account.     *)
StreamEmpty(r) ==
  /\ pc[r] = "stream" /\ Chat(r) /\ ~(sent[r] /\ Streaming(r))
  /\ IF empties[r] < EmptyRetryMax
     THEN /\ empties' = [empties EXCEPT ![r] = @ + 1]
          /\ Goto(r, "releaseRetry")
          /\ UNCHANGED <<outcome, status>>
     ELSE /\ Goto(r, "releaseDone") /\ Answer(r, "error")
          /\ UNCHANGED empties
  /\ UNCHANGED <<accountVars, acc, cand, tried, sent, extra, gone, shown>>

StreamSucceeds(r) ==
  /\ pc[r] = "stream"
  /\ MarkSuccess(acc[r])
  /\ shown' = [shown EXCEPT ![r] = @ \/ Streaming(r)]
  /\ Goto(r, "releaseDone") /\ Answer(r, "ok")
  /\ UNCHANGED <<acc, cand, tried, sent, extra, empties, gone>>

(* CheckRefusal: the Anthropic JSON handler tries to swap accounts.          *)
Refused(r) ==
  /\ pc[r] = "stream" /\ Kind[r] = "claudeJSON"
  /\ Goto(r, "swap")
  /\ UNCHANGED <<accountVars, acc, cand, tried, sent, extra, empties, gone, shown, outcome, status>>

(* noteUpstream: when the client is gone every failure counts as canceled    *)
(* and leaves the account alone.                                             *)
Verdict(r, f) == IF gone[r] THEN "canceled" ELSE f

RetriesAfterOutput(r, f) == Switches(f)    \* mutant of RetriesAfter

RetriesAfter(r, f) == Switches(f) /\ ~sent[r]

AnswersSwitchableOnly(r, f) == Switches(f)    \* mutant of AnswersAfter

(* Only the OpenAI handlers report a cancellation once output has gone out.  *)
AnswersAfter(r, f) == f # "canceled" \/ (Chat(r) /\ sent[r])

StreamFailsBlamingAlways(r, f) ==    \* mutant of StreamFails
  /\ pc[r] = "stream"
  /\ MarkFailure(acc[r], f)
  /\ LET v == Verdict(r, f) IN
       IF RetriesAfter(r, v)
       THEN Goto(r, "releaseRetry") /\ UNCHANGED <<outcome, status>>
       ELSE /\ Goto(r, "releaseDone")
            /\ Answer(r, IF AnswersAfter(r, v) THEN "error" ELSE "silent")
  /\ UNCHANGED <<acc, cand, tried, sent, extra, empties, gone, shown>>

StreamFails(r, f) ==
  /\ pc[r] = "stream"
  /\ LET v == Verdict(r, f) IN
       /\ IF gone[r] THEN UNCHANGED accountVars ELSE MarkFailure(acc[r], f)
       /\ IF RetriesAfter(r, v)
          THEN Goto(r, "releaseRetry") /\ UNCHANGED <<outcome, status>>
          ELSE /\ Goto(r, "releaseDone")
               /\ Answer(r, IF AnswersAfter(r, v) THEN "error" ELSE "silent")
  /\ UNCHANGED <<acc, cand, tried, sent, extra, empties, gone, shown>>

-----------------------------------------------------------------------------
(* Account.Release at the end of an attempt.                                 *)
Release(r) ==
  /\ \/ pc[r] = "releaseRetry" /\ Goto(r, "retry")
     \/ pc[r] = "releaseDone"  /\ Goto(r, "done")
  /\ inflight' = Released(acc[r])
  /\ UNCHANGED <<degraded, enabled, hasToken, failClass>>
  /\ UNCHANGED <<acc, cand, tried, sent, extra, empties, gone, shown, outcome, status>>

ReleaseOldKeepsSlot(r) ==    \* mutant of ReleaseOld
  /\ pc[r] = "swapped"
  /\ acc'  = [acc EXCEPT ![r] = cand[r]]
  /\ cand' = [cand EXCEPT ![r] = NoAccount]
  /\ Goto(r, "stream")
  /\ UNCHANGED <<accountVars, tried, sent, extra, empties, gone, shown, outcome, status>>

(* The swap of a refused answer: release the old account, keep the new one.  *)
ReleaseOld(r) ==
  /\ pc[r] = "swapped"
  /\ inflight' = Released(acc[r])
  /\ acc'  = [acc EXCEPT ![r] = cand[r]]
  /\ cand' = [cand EXCEPT ![r] = NoAccount]
  /\ Goto(r, "stream")
  /\ UNCHANGED <<degraded, enabled, hasToken, failClass>>
  /\ UNCHANGED <<tried, sent, extra, empties, gone, shown, outcome, status>>

(* attempt > 0.  The OpenAI handlers look at the retry budget first and, when *)
(* it is spent, release acc, whose slot the previous attempt gave back.      *)
Retry(r) ==
  /\ pc[r] = "retry"
  /\ Goto(r, "pick")
  /\ UNCHANGED <<accountVars, acc, cand, tried, sent, extra, empties, gone, shown, outcome, status>>

BudgetExhausted(r) ==
  /\ pc[r] = "retry" /\ Chat(r) /\ BudgetOn
  /\ inflight' = Released(acc[r])
  /\ Goto(r, "done") /\ Answer(r, "error")
  /\ UNCHANGED <<degraded, enabled, hasToken, failClass>>
  /\ UNCHANGED <<acc, cand, tried, sent, extra, empties, gone, shown>>
-----------------------------------------------------------------------------
(* The rest of the process.                                                  *)
ClientGone(r) ==
  /\ pc[r] \notin {"idle", "done"} /\ ~gone[r]
  /\ gone' = [gone EXCEPT ![r] = TRUE]
  /\ UNCHANGED <<accountVars, pc, acc, cand, tried, sent, extra, empties, shown, outcome, status>>

(* An administrator switches the account on or off.                          *)
SetEnabled(a) ==
  /\ enabled' = [enabled EXCEPT ![a] = ~@]
  /\ UNCHANGED <<inflight, degraded, hasToken, failClass, requestVars>>

(* The keep-alive loop logs an account in again; failClass stays.            *)
Relogin(a) ==
  /\ ~hasToken[a]
  /\ hasToken' = [hasToken EXCEPT ![a] = TRUE]
  /\ UNCHANGED <<inflight, degraded, enabled, failClass, requestVars>>

RequestStep(r) ==
  \/ Pick(r) \/ Acquire(r) \/ PickFails(r)
  \/ Emit(r) \/ ExtraRound(r) \/ StreamEmpty(r) \/ StreamSucceeds(r) \/ Refused(r)
  \/ \E f \in Faults : StreamFails(r, f)
  \/ Release(r) \/ ReleaseOld(r) \/ Retry(r) \/ BudgetExhausted(r)

Next ==
  \/ \E r \in Requests : Admit(r) \/ Shed(r) \/ RequestStep(r) \/ ClientGone(r)
  \/ \E a \in Accounts : SetEnabled(a) \/ Relogin(a)

Spec == Init /\ [][Next]_vars

(* A handler goroutine keeps running, and an upstream round ends: the        *)
(* adapter bounds every call and the whole poll (240 s).                     *)
FairSpec == Spec /\ \A r \in Requests : WF_vars(RequestStep(r))
-----------------------------------------------------------------------------
(* Properties.                                                               *)

Labels == {"idle", "pick", "acquire", "stream", "swap", "swapAcquire", "swapped",
           "releaseRetry", "releaseDone", "retry", "done"}

TypeOK ==
  /\ inflight \in [Accounts -> Nat]
  /\ degraded \in [Accounts -> BOOLEAN]
  /\ enabled \in [Accounts -> BOOLEAN]
  /\ hasToken \in [Accounts -> BOOLEAN]
  /\ failClass \in [Accounts -> {"none"} \cup {ClassOf(f) : f \in AllFaults}]
  /\ pc \in [Requests -> Labels]
  /\ acc \in [Requests -> Accounts \cup {NoAccount}]
  /\ cand \in [Requests -> Accounts \cup {NoAccount}]
  /\ tried \in [Requests -> SUBSET Accounts]
  /\ sent \in [Requests -> BOOLEAN]
  /\ extra \in [Requests -> BOOLEAN]
  /\ empties \in [Requests -> 0..EmptyRetryMax]
  /\ gone \in [Requests -> BOOLEAN]
  /\ shown \in [Requests -> BOOLEAN]
  /\ outcome \in [Requests -> {"none", "ok", "error", "silent", "aborted"}]
  /\ status \in [Requests -> {"none", "200", "error"}]

(* The slots a request has acquired and not yet given back.                  *)
Holding == {"stream", "swap", "swapAcquire", "swapped", "releaseRetry", "releaseDone"}

HeldBy(a) == {r \in Requests : \/ pc[r] \in Holding /\ acc[r] = a
                               \/ pc[r] = "swapped" /\ cand[r] = a}

(* Account.inflight is exactly the number of requests that hold a slot: no   *)
(* slot leaks when a request ends, and nobody's slot is released twice.      *)
SlotsMatchHolders == \A a \in Accounts : inflight[a] = Cardinality(HeldBy(a))

(* With a limit configured no account ever serves more requests than that:   *)
(* a 429 may only lower the limit (account_concurrency_429, "0 = no          *)
(* degradation").                                                            *)
HoldersWithinLimit ==
  Limit > 0 => \A a \in Accounts : Cardinality(HeldBy(a)) <= Limit

(* A slot is taken only when the requests really running on the account are  *)
(* fewer than the limit in force, the degraded one after a 429.              *)
AcquireUnderLimit ==
  [][\A a \in Accounts :
        Cardinality(HeldBy(a)') > Cardinality(HeldBy(a)) /\ LimitOf(a) > 0
          => Cardinality(HeldBy(a)) < LimitOf(a)]_vars

(* Once part of an answer is on the client's screen the request never moves  *)
(* to another account, whichever round or extra round produced it.           *)
NoRetryAfterContent ==
  [][\A r \in Requests : shown[r] => tried'[r] = tried[r]]_vars

(* A request never returns to an account it has already tried.               *)
NeverSameAccountTwice ==
  [][\A a \in Accounts : \A r \in HeldBy(a)' \ HeldBy(a) : a \notin tried[r]]_vars

(* max-retry-credentials bounds the accounts one request may burn, swaps of  *)
(* refused answers and retries of empty completions included.                *)
AttemptsBounded ==
  CredentialLimit > 0 =>
    \A r \in Requests : Cardinality(tried[r]) <= CredentialLimit

(* A failure seen after the client left is never held against the account.   *)
GoneClientSparesAccount ==
  [][\A r \in Requests : gone[r] /\ pc'[r] # pc[r] =>
        /\ UNCHANGED <<degraded, enabled, hasToken>>
        /\ \A a \in Accounts : failClass'[a] \in {failClass[a], "none"}]_vars

(* A handler that ends while its client is connected has answered it, with a *)
(* result or with an error (an error frame if the stream had begun).         *)
AlwaysAnswered ==
  \A r \in Requests : pc[r] = "done" /\ ~gone[r] => outcome[r] \in {"ok", "error"}

(* An OpenAI stream that fails before any output is answered with a real     *)
(* HTTP error, so that the layer in front can retry elsewhere.               *)
FailureBeforeOutputIsHTTPError ==
  \A r \in Requests :
    Kind[r] = "chatStream" /\ outcome[r] = "error" /\ ~shown[r] => status[r] = "error"

(* Every admitted request ends, however the others compete for slots.        *)
RequestsFinish == \A r \in Requests : pc[r] = "pick" ~> pc[r] = "done"
=============================================================================
