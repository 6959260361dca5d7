------------------------------ MODULE ChatStream ------------------------------
(* One request of /v1/chat/completions: streamChat and nonStreamChat of      *)
(* api/server.go, from the events of the upstream to what the client is      *)
(* sent, with the extra rounds the gateway asks for, and the two protocols   *)
(* that translate its stream, /v1/responses and Gemini.                      *)
(*                                                                           *)
(* A round is one call of Adapter.Stream; its events are those of Turn, and  *)
(* by the contract of Stream (TurnContract) a round that fails has had none. *)
(* Which account serves, and why a failure switches, is Dispatch.  Empty     *)
(* deltas (heartbeats, events that carry nothing) and the frames into which  *)
(* the text is cut are left out, and so is the wording of any text.          *)
EXTENDS Naturals, FiniteSets, Sequences, SequencesExt

CONSTANTS
  Picks,           \* bound: accounts the iterator gives to the request
  EmptyRetries     \* emptyRetryMax

ASSUME ChatStreamAssumption == Picks \in Nat \ {0} /\ EmptyRetries \in Nat

VARIABLES
  ask,      \* the request
  turn,     \* "pick", "round", "events", "judge", "finish", "over"
  tries,    \* accounts picked, rounds asked for, and empty rounds repeated
  answer,   \* what the upstream says in this round
  coming,   \* events of the round still to come
  got,      \* what the handler has kept of the round, and whether it sent any
  extra,    \* corrections asked for: of this attempt, and all of the request
  out,      \* what the client has been sent
  outcome   \* "open"; "ok"; "error" frame; "body": an error instead of a
            \* stream; "gone"

chatVars == <<ask, turn, tries, answer, coming, got, extra, out, outcome>>

(* stream: not nonStreamChat; tools: the client declares some; gate: the     *)
(* identity guard holds the text back; image: an image is attached.          *)
Asks == [stream : BOOLEAN, tools : BOOLEAN, gate : BOOLEAN, image : BOOLEAN]

(* What the guards see in a text: it claims to have acted in the sandbox, to *)
(* have delivered a file whose contents it does not show, or it refuses      *)
(* because of what it found in its own environment.                          *)
Texts == {"none", "plain", "acted", "delivered", "refusal"}

(* Calls of tools the client has, and of others, which are withheld.  The    *)
(* relay puts the calls before the text.                                     *)
Answers ==
  {a \in [thought : BOOLEAN, text : Texts,
          calls : {<<>>, <<"known">>, <<"known", "known">>, <<"foreign">>,
                   <<"known", "foreign">>},
          callsFirst : BOOLEAN] :
     a.callsFirst => a.text # "none" /\ a.calls # <<>>}
NoAnswer == [thought |-> FALSE, text |-> "none", calls |-> <<>>, callsFirst |-> FALSE]

When(cond, s) == IF cond THEN s ELSE <<>>

(* How often v occurs in s; the calls of tools the client has.               *)
Times(s, v) == Cardinality({i \in DOMAIN s : s[i] = v})
Known(a) == Times(a.calls, "known")

Events(a) ==
  LET text == When(a.text # "none", <<"text">>) IN
  When(a.thought, <<"thought">>) \o
    (IF a.callsFirst THEN a.calls \o text ELSE text \o a.calls)

(* text: in pendingText, or gateText; said: something counts as output.      *)
NothingKept == [text |-> "none", called |-> FALSE, blocked |-> FALSE, said |-> FALSE,
          sent |-> FALSE]

ChatInit ==
  /\ ask \in Asks /\ (~ask.stream => ~ask.gate)
  /\ turn = "pick" /\ tries = [picks |-> 0, rounds |-> 0, empty |-> 0]
  /\ answer = NoAnswer /\ coming = <<>> /\ got = NothingKept
  /\ extra = [now |-> "none", recovered |-> FALSE, ever |-> {}, times |-> 0]
  /\ out = <<>> /\ outcome = "open"

Item(kind) == [kind |-> kind, round |-> tries.rounds]
Frame(kind) == [kind |-> kind, round |-> 0]
Contents == {"thought", "text", "guarded", "call", "note"}
IsContent(x) == x.kind \in Contents

(* ensureFirstFrame: the role is sent before the first text, or at the end.  *)
Role == When(~\E i \in DOMAIN out : out[i].kind = "role", <<Frame("role")>>)

Over(result, frames) ==
  /\ turn' = "over" /\ outcome' = result /\ out' = out \o frames
  /\ UNCHANGED <<ask, tries, answer, coming, got, extra>>

(* After the 200 an error can only be told in a frame of the stream.         *)
Broken == <<Frame("error"), Frame("stop"), Frame("done")>>
FailWith == IF ask.stream THEN Over("error", Broken) ELSE Over("body", <<>>)
-----------------------------------------------------------------------------
(* The status line goes out with the first account (Dispatch), so the first  *)
(* failure is still an answer of its own.                                    *)
Pick ==
  /\ turn = "pick" /\ tries.picks < Picks
  /\ turn' = "round"
  /\ tries' = [tries EXCEPT !.picks = @ + 1]
  /\ extra' = [extra EXCEPT !.now = "none", !.recovered = FALSE]
  /\ UNCHANGED <<ask, answer, coming, got, out, outcome>>

(* No account, the storm breaker, or, from the second on, the retry budget.  *)
PickFails ==
  /\ turn = "pick"
  /\ IF tries.picks = 0 THEN Over("body", <<>>) ELSE FailWith

(* runRound: what was kept of the round before is reset.                     *)
RoundAnswers ==
  /\ turn = "round"
  /\ \E a \in Answers : answer' = a /\ coming' = Events(a)
  /\ turn' = "events" /\ got' = NothingKept
  /\ tries' = [tries EXCEPT !.rounds = @ + 1]
  /\ UNCHANGED <<ask, extra, out, outcome>>

(* noteAccount: the class of the failure lets another account try, or not.   *)
RoundFails ==
  /\ turn = "round"
  /\ \/ turn' = "pick" /\ UNCHANGED <<ask, tries, answer, coming, got, extra, out, outcome>>
     \/ FailWith
     \/ Over("gone", <<>>)

(* mutant of Told: what the handler has counted is lost *)
Untold(said, keep) == [keep EXCEPT !.said = got.said]

Told(said, keep) == [keep EXCEPT !.said = got.said \/ said]

Taken(keep, frames) ==
  /\ turn = "events" /\ coming' = Tail(coming)
  /\ got' = keep
  /\ out' = IF ask.stream THEN out \o frames ELSE out
  /\ UNCHANGED <<ask, turn, tries, answer, extra, outcome>>

Thought ==
  /\ coming # <<>> /\ Head(coming) = "thought"
  /\ Taken(Told(TRUE, [got EXCEPT !.sent = ask.stream]), <<Item("thought")>>)

(* Held back until it is known whether the round calls a tool.               *)
Text ==
  /\ coming # <<>> /\ Head(coming) = "text"
  /\ Taken(Told(TRUE, [got EXCEPT !.text = answer.text]), <<>>)

(* flushPendingText(false): a round that calls tools keeps its text as it    *)
(* is, unless the identity guard has it.                                     *)
KnownCall ==
  /\ coming # <<>> /\ Head(coming) = "known"
  /\ LET flush == ask.stream /\ ~ask.gate /\ got.text # "none" IN
     Taken(Told(TRUE, [got EXCEPT !.called = TRUE, !.sent = ask.stream,
                                  !.text = IF flush THEN "none" ELSE @]),
           When(flush, Role \o <<Item("text")>>) \o <<Item("call")>>)

(* gateUpstreamToolCall: swallowed, and told in a note at the end.           *)
ForeignCall ==
  /\ coming # <<>> /\ Head(coming) = "foreign"
  /\ Taken([got EXCEPT !.blocked = TRUE], <<>>)

RoundEnds ==
  /\ turn = "events" /\ coming = <<>>
  /\ turn' = "judge"
  /\ extra' = [extra EXCEPT !.recovered =
                 extra.now = "salvage" /\ got.text \notin {"none", "delivered"}]
  /\ UNCHANGED <<ask, tries, answer, coming, got, out, outcome>>
-----------------------------------------------------------------------------
(* shouldRetryToolContract; planDeliverySalvage, which the callers pass      *)
(* clientTools.empty() for a parameter that means the opposite.              *)
BadContract(text) == text \in {"acted", "refusal"}
Salvageable(text, toolsDeclared) ==
  text = "delivered" \/ (text = "refusal" /\ ~toolsDeclared)

(* mutant of Unseen: what was sent as reasoning does not count *)
UnseenText == ~got.called

(* Another round is invisible as long as nothing of this one was sent.       *)
Unseen == ~got.called /\ ~got.sent

Reinforces ==
  /\ ask.tools /\ Unseen /\ ~ask.gate
  /\ extra.now = "none" /\ BadContract(got.text)
Salvages ==
  /\ Unseen /\ ~ask.gate /\ ~ask.image
  /\ extra.now = "none" /\ Salvageable(got.text, ~ask.tools)

Again(correction) ==
  /\ turn' = "round"
  /\ extra' = [extra EXCEPT !.now = correction, !.ever = @ \cup {correction},
                            !.times = @ + 1]
  /\ UNCHANGED <<ask, tries, answer, coming, got, out, outcome>>

Reinforce == turn = "judge" /\ Reinforces /\ Again("reinforce")
Salvage == turn = "judge" /\ ~Reinforces /\ Salvages /\ Again("salvage")

(* A round that said nothing is repeated with another account.               *)
Empty == ~got.said /\ ~got.blocked

RetryEmpty ==
  /\ turn = "judge" /\ Empty /\ tries.empty < EmptyRetries
  /\ turn' = "pick" /\ tries' = [tries EXCEPT !.empty = @ + 1]
  /\ UNCHANGED <<ask, answer, coming, got, extra, out, outcome>>

GiveUpEmpty ==
  /\ turn = "judge" /\ Empty /\ tries.empty = EmptyRetries
  /\ FailWith

(* The sandbox guards, for a round that called no tool of the client.        *)
Spared == got.called \/ ask.image \/ extra.recovered
Hit(text) == ~Spared /\ text = (IF ask.tools THEN "acted" ELSE "delivered")
Kept(hit) == When(got.text # "none", <<Item(IF hit THEN "guarded" ELSE "text")>>)
Reason == <<Frame(IF got.called THEN "tool_calls" ELSE "stop")>>

StreamTail ==
  LET text == Kept(~ask.gate /\ Hit(got.text))
      note == When(got.blocked, <<Item("note")>>)
  IN (IF text = <<>> THEN note \o Role ELSE Role \o text \o note)
       \o Reason \o <<Frame("usage"), Frame("done")>>

(* The note is part of the text here before the guard sees it, and its       *)
(* wording ("do not assume that they were executed") is what the guard of    *)
(* requests with tools looks for: it is removed again.                       *)
JSONReply ==
  LET caught == ~Spared /\ ask.tools /\ got.blocked IN
  When(answer.thought, <<Item("thought")>>)
    \o (IF caught THEN <<Item("guarded")>>
        ELSE Kept(Hit(got.text)) \o When(got.blocked, <<Item("note")>>))
    \o [i \in 1..Known(answer) |-> Item("call")] \o Reason

Finish ==
  /\ turn = "judge" /\ ~Empty /\ ~Reinforces /\ ~Salvages
  /\ Over("ok", IF ask.stream THEN StreamTail ELSE JSONReply)

ChatNext ==
  \/ Pick \/ PickFails \/ RoundAnswers \/ RoundFails
  \/ Thought \/ Text \/ KnownCall \/ ForeignCall \/ RoundEnds
  \/ Reinforce \/ Salvage \/ RetryEmpty \/ GiveUpEmpty \/ Finish

ChatSpec == ChatInit /\ [][ChatNext]_chatVars
-----------------------------------------------------------------------------
(* streamResponses: the frames of the stream as items of a response; the     *)
(* message has index 0, calls come after it if there is one, fcOutputIndex.  *)
FcOutputIndex(message, n) == IF message THEN n + 1 ELSE n

(* mutant of ReadFrame: an error is a text like any other *)
ReadError(x) ==
  CASE x.kind \in {"text", "guarded", "note", "error"} -> "message"
    [] x.kind = "call" -> "call"
    [] OTHER -> "nothing"

(* What the loop takes a frame for.                                          *)
ReadFrame(x) ==
  CASE x.kind \in {"text", "guarded", "note"} -> "message"
    [] x.kind = "call" -> "call"
    [] x.kind = "error" -> "failure"
    [] OTHER -> "nothing"

(* What it knows when it has read n frames: itemAdded, and the calls.        *)
Read(n, what) == {i \in 1..n : ReadFrame(out[i]) = what}
HasMessage(n) == Read(n, "message") # {}
CallsRead(n) == Cardinality(Read(n, "call"))

(* The indexes of the items it adds, by what it knows at that frame.         *)
Opened ==
  {0 : i \in Read(Len(out), "message")}
    \cup {FcOutputIndex(HasMessage(i - 1), CallsRead(i - 1)) : i \in Read(Len(out), "call")}

(* output_item.done at the end, with the indexes of then.                    *)
Closed ==
  LET message == HasMessage(Len(out)) IN
  When(message, <<0>>)
    \o [i \in 1..CallsRead(Len(out)) |-> FcOutputIndex(message, i - 1)]

(* What is not a stream has no line the translation reads.                   *)
ResponsesEnd ==
  IF Read(Len(out), "failure") # {} THEN "response.failed" ELSE "response.completed"

(* streamGemini: the parts as they come, error texts among them, and all of  *)
(* them once more in the last chunk, which says STOP.                        *)
GeminiPart(x) == x.kind \in Contents \cup {"error"}
GeminiParts == LET parts == SelectSeq(out, GeminiPart) IN parts \o parts
-----------------------------------------------------------------------------
Shown == [i \in {j \in DOMAIN out : IsContent(out[j])} |-> out[i].round]
Chat == INSTANCE Reply WITH
  shown <- Shown,
  status <- CASE outcome = "open" -> "open" [] outcome = "ok" -> "complete"
              [] outcome = "gone" -> "gone" [] OTHER -> "failed"

(* Retries with other accounts, corrected rounds and repeated empty rounds   *)
(* are invisible: the client sees items of one round only, and a complete    *)
(* reply has some (server.go:780: the text is still buffered, not visible).  *)
ChatReplies == Chat!ReplySpec

Count(kinds) == Cardinality({i \in DOMAIN out : out[i].kind \in kinds})

(* A reply that is complete has all the last round said, each thing once:    *)
(* reasoning, the text as it was or cleaned by a guard, and every call of a  *)
(* tool the client has; and finish_reason says whether there were calls.     *)
ChatDelivers ==
  outcome = "ok" =>
    /\ Count({"thought"}) = (IF answer.thought THEN 1 ELSE 0)
    /\ Count({"call"}) = Known(answer)
    /\ answer.text # "none" => Count({"text", "guarded"}) = 1
    /\ Count({"tool_calls"}) = (IF Known(answer) > 0 THEN 1 ELSE 0)

(* What /v1/responses makes of the stream: a failure told in the stream ends *)
(* the response as failed, and one that succeeds lists the message and every *)
(* call of the last round.                                                   *)
ResponsesAgree ==
  ask.stream =>
    /\ outcome = "error" => ResponsesEnd = "response.failed"
    /\ outcome = "ok" =>
         /\ ResponsesEnd = "response.completed"
         /\ Len(Closed) = Known(answer)
              + (IF Count({"text", "guarded", "note"}) > 0 THEN 1 ELSE 0)

(* What the model said is delivered, to chat clients and by /v1/responses.   *)
ChatMessage == ChatDelivers /\ ResponsesAgree

(* responses.go:779: the client must see a failure.  Fails: an error before  *)
(* the stream is a JSON body, which the translation skips.                   *)
FailureVisible ==
  ask.stream /\ outcome = "body" => ResponsesEnd = "response.failed"

(* responses.go:817: the message has index 0, calls follow.  Fails when a    *)
(* call is sent before the first text: both have index 0, and the call is    *)
(* closed under another index than it was opened with.                       *)
IndexesAgree == ask.stream /\ outcome = "ok" => Opened = ToSet(Closed)

(* sandbox_guard.go:134: without tools, a refusal is salvaged.  Fails.       *)
RefusalSalvaged ==
  turn = "judge" /\ got.text = "refusal" /\ Unseen /\ ~ask.tools /\ ~ask.gate
    /\ ~ask.image /\ extra.now = "none" => Salvages

(* server.go:793: at most one corrected round per request.  Fails: the       *)
(* marks are those of an attempt.                                            *)
OneCorrection == extra.times <= 1

(* toolmap.go:208: what was withheld is told.  Fails in nonStreamChat.       *)
BlockedTold == outcome = "ok" /\ got.blocked => Count({"note"}) = 1

(* server.go:663: the role goes before the first output.  Fails: reasoning   *)
(* and calls do not wait for it.                                             *)
RoleFirst ==
  ask.stream => \A i \in DOMAIN out :
    IsContent(out[i]) => \E j \in 1..i : out[j].kind = "role"

(* What Gemini clients add up.  Fails: everything comes twice.               *)
GeminiOnce == ask.stream /\ outcome = "ok" => Len(GeminiParts) = Cardinality(DOMAIN Shown)
=============================================================================
