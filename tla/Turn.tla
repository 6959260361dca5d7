--------------------------------- MODULE Turn ---------------------------------
(* One turn of a conversation at the upstream: Stream of                     *)
(* adapter/prism/stream.go, with the polling of client.go pollTurn, or, when *)
(* the browser relay is on, relayStream of relay.go.  Time is counted in     *)
(* units of 100 ms.                                                          *)
EXTENDS Naturals, Sequences

CONSTANTS
  TurnBudget,    \* turnBudget()
  CallMax,       \* pollCallTimeout
  MaxPollFailures, \* failures > 10 in pollTurn
  RelayMax       \* the client timeout of relayChatTurn

ASSUME TurnAssumption ==
  /\ TurnBudget \in Nat /\ CallMax \in Nat \ {0} /\ RelayMax \in Nat \ {0}
  /\ MaxPollFailures \in Nat

VARIABLES
  way,      \* browserRelayOn: "relay", or "direct"
  tools,    \* the request has tools
  step,     \* where the call is
  poll,     \* pollTurn: attempt and failures, and the time since its start
  answer,   \* what the upstream has answered
  todo,     \* events still to be emitted
  sent,     \* events emitted
  result    \* how Stream has returned

turnVars == <<way, tools, step, poll, answer, todo, sent, result>>

(* The text is empty, prose, tool_call blocks only, or both.                 *)
Answers ==
  [text : {"none", "prose", "blocks", "both"}, reasoning : BOOLEAN, calls : BOOLEAN]
NoAnswer == [text |-> "none", reasoning |-> FALSE, calls |-> FALSE]
StartOfPoll == [attempt |-> 1, failures |-> 0, spent |-> 0]

TurnInit ==
  /\ way \in {"relay", "direct"} /\ tools \in BOOLEAN
  /\ step = "prepare" /\ poll = StartOfPoll
  /\ answer = NoAnswer /\ todo = <<>> /\ sent = <<>> /\ result = "no"

(* pollInterval: 0.1 s three times, then 0.4 s more each time up to 2 s.     *)
PollInterval(n) ==
  IF n <= 3 THEN 1 ELSE IF (n - 3) * 4 > 20 THEN 20 ELSE (n - 3) * 4

LongestPoll == TurnBudget + (MaxPollFailures + 1) * (CallMax + 20)
TimeCap == LongestPoll + CallMax + 21   \* bound: the clock stops here
AttemptCap == 9                         \* bound: from here on the interval is the same

Later(d) == IF poll.spent + d > TimeCap THEN TimeCap ELSE poll.spent + d
Counted == IF poll.attempt < AttemptCap THEN poll.attempt + 1 ELSE AttemptCap
-----------------------------------------------------------------------------
Fail ==
  /\ step' = "over" /\ result' = "error"
  /\ UNCHANGED <<way, tools, answer, todo, sent>>

(* Credential, session, project and start: each may fail (Sandbox).          *)
Prepare ==
  /\ step = "prepare"
  /\ \/ step' = (IF way = "relay" THEN "relay" ELSE "call")
        /\ UNCHANGED <<way, tools, answer, todo, sent, result>>
     \/ way = "direct" /\ Fail
  /\ UNCHANGED poll

turnRest == <<way, tools, step, answer, todo, sent, result>>

(* The interval is waited after the call, unless the request is cancelled,   *)
(* which cuts it short and fails the next call.                              *)
NextPoll(d, failures) ==
  /\ poll' = [attempt |-> Counted, failures |-> failures,
              spent |-> Later(d + PollInterval(poll.attempt))]
  /\ UNCHANGED turnRest

(* A call that times out, cannot connect, or is answered with a 5xx, is      *)
(* repeated; the deadline is not looked at.                                  *)
PollFails(d) ==
  /\ step = "call"
  /\ IF poll.failures < MaxPollFailures
     THEN NextPoll(d, poll.failures + 1)
     ELSE Fail /\ poll' = [poll EXCEPT !.spent = Later(d)]

(* A 3xx or 4xx answer, a failed turn, or a request that is cancelled.       *)
PollRefused(d) ==
  /\ step = "call"
  /\ Fail /\ poll' = [poll EXCEPT !.spent = Later(d)]

(* Not completed yet, or a status it does not know.                          *)
PollPending(d) ==
  /\ step = "call"
  /\ IF Later(d) > TurnBudget
     THEN Fail /\ poll' = [poll EXCEPT !.spent = Later(d)]
     ELSE NextPoll(d, 0)

(* extractToolCallsFromText: blocks are taken out of the text, if the        *)
(* request has tools; what is left is the prose.                             *)
Emulated(a) == tools /\ a.text \in {"blocks", "both"}
Rest(a) == IF ~Emulated(a) THEN a.text ELSE IF a.text = "both" THEN "prose" ELSE "none"

When(cond, kind) == IF cond THEN <<kind>> ELSE <<>>

DirectEvents(a) ==
  When(a.reasoning, "thinking") \o When(Rest(a) # "none", "text")
    \o When(a.calls \/ Emulated(a), "call") \o <<"ended">>

(* The relay has no native calls.  Emulated ones come before the text, and   *)
(* the reasoning only if there is text.                                      *)
RelayEvents(a) ==
  IF Emulated(a)
  THEN When(a.reasoning /\ Rest(a) # "none", "thinking") \o <<"call">>
         \o When(Rest(a) # "none", "text") \o <<"ended">>
  ELSE When(a.reasoning, "thinking") \o When(a.text # "none", "text") \o <<"ended">>

Answered(a, events) ==
  /\ answer' = a /\ todo' = events
  /\ step' = "emit"
  /\ UNCHANGED <<way, tools, sent, result>>

PollCompleted(d) ==
  /\ step = "call"
  /\ \E a \in Answers : Answered(a, DirectEvents(a))
  /\ poll' = [poll EXCEPT !.spent = Later(d)]

(* relayChatTurn: one call of the sidecar, which may fail or say nothing.    *)
RelayReturns(d) ==
  /\ step = "relay"
  /\ \/ \E a \in {b \in Answers : ~b.calls} : Answered(a, RelayEvents(a))
     \/ Fail
  /\ poll' = [poll EXCEPT !.spent = Later(d)]

(* mutant of Emit: an error of the answer is seen after its first event *)
ErrorAfterEmit ==
  /\ step = "emit" /\ todo # <<>>
  /\ \/ sent' = Append(sent, Head(todo)) /\ todo' = Tail(todo)
        /\ UNCHANGED <<step, result>>
     \/ step' = "over" /\ result' = "error" /\ UNCHANGED <<sent, todo>>
  /\ UNCHANGED <<way, tools, poll, answer>>

(* emit: taken, or refused, which ends the call without an error.            *)
Emit ==
  /\ step = "emit" /\ todo # <<>>
  /\ \/ sent' = Append(sent, Head(todo)) /\ todo' = Tail(todo)
        /\ UNCHANGED <<step, result>>
     \/ step' = "over" /\ result' = "stopped" /\ UNCHANGED <<sent, todo>>
  /\ UNCHANGED <<way, tools, poll, answer>>

Return ==
  /\ step = "emit" /\ todo = <<>>
  /\ step' = "over" /\ result' = "ok"
  /\ UNCHANGED <<way, tools, poll, answer, todo, sent>>

(* A call takes no time or all it may.                                       *)
PollStep == \E d \in {0, CallMax} :
  PollFails(d) \/ PollRefused(d) \/ PollPending(d) \/ PollCompleted(d)
RelayStep == \E d \in {0, RelayMax} : RelayReturns(d)

TurnNext == Prepare \/ PollStep \/ RelayStep \/ Emit \/ Return
TurnSpec == TurnInit /\ [][TurnNext]_turnVars
-----------------------------------------------------------------------------
Contract == INSTANCE TurnContract WITH
  Kinds <- {"thinking", "text", "call", "ended"}, out <- sent, over <- result

(* The direct channel and the relay both keep the contract of Stream: what   *)
(* fails has emitted nothing, so that the retry of another account cannot    *)
(* repeat half an answer, and success means Ended was emitted last.          *)
KeepsContract == Contract!ContractSpec

(* A turn is polled no longer than its budget, the failures a poll may have  *)
(* in a row, and one more call: it does not hang on an upstream that stays   *)
(* pending or keeps failing.                                                 *)
PollBounded == way = "direct" => poll.spent <= LongestPoll

(* client.go:1292: the budget bounds the whole poll.  Fails: it is compared  *)
(* only after a poll that was answered.                                      *)
PollWithinBudget == way = "direct" => poll.spent <= TurnBudget + CallMax + 20

(* relay.go:124: the events of the relay are those of the direct channel.    *)
(* Fails: tool calls come before the text, and reasoning is dropped.         *)
SameEvents == result = "ok" => sent = DirectEvents(answer)
=============================================================================
