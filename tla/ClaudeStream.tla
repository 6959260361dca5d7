----------------------------- MODULE ClaudeStream -----------------------------
(* One request of /v1/messages: streamAnthropicChat and                      *)
(* nonStreamAnthropicChat of api/anthropic_handler.go, from the events of    *)
(* the upstream to the content blocks the client is sent, and the heartbeat  *)
(* that writes pings between them from a goroutine of its own.               *)
(*                                                                           *)
(* Rounds, their events and what is left out are as in ChatStream; so are    *)
(* token counts and signatures.                                              *)
EXTENDS Naturals, FiniteSets, Sequences

CONSTANTS
  MaxPicks,    \* bound: accounts the iterator gives to the request
  MaxPings     \* bound: heartbeats that come due

ASSUME ClaudeStreamAssumption == MaxPicks \in Nat \ {0} /\ MaxPings \in Nat

VARIABLES
  query,     \* the request
  stage,     \* "pick", "asks", "events", "over"
  serving,   \* accounts picked and rounds asked for
  said,      \* what the upstream says in this round
  rest,      \* events of the round still to come
  heard,     \* what the handler has noted of the round
  block,     \* content blocks started, and the type of the open one
  wire,      \* events sent: of blocks, or of the message
  fate,      \* "open"; "ok"; "error"; "body": an error instead of a message;
             \* "panic"; "gone"
  pulse      \* the heartbeat: "off", "waits", "writes"

claudeVars == <<query, stage, serving, said, rest, heard, block, wire, fate, pulse>>

(* mode: the client asked for structured output, or its text is a knowledge  *)
(* probe; thinking: not requested, to be shown, or to be left empty.         *)
Queries == [stream : BOOLEAN, mode : {"plain", "json", "numbered"},
            thinking : {"off", "shown", "omitted"}]
NeedThinking == query.thinking # "off" /\ query.mode = "plain"

Sayings ==
  {a \in [thought : BOOLEAN, text : {"none", "plain", "refusal"},
          calls : {<<>>, <<"known">>, <<"known", "known">>, <<"foreign">>,
                   <<"known", "foreign">>},
          callsFirst : BOOLEAN] :
     a.callsFirst => a.text # "none" /\ a.calls # <<>>}
NothingSaid == [thought |-> FALSE, text |-> "none", calls |-> <<>>, callsFirst |-> FALSE]

Provided(cond, s) == IF cond THEN s ELSE <<>>

(* The calls of tools the client has.                                        *)
KnownCalls == Cardinality({i \in DOMAIN said.calls : said.calls[i] = "known"})

EventsOf(a) ==
  LET text == Provided(a.text # "none", <<"text">>) IN
  Provided(a.thought, <<"thought">>) \o
    (IF a.callsFirst THEN a.calls \o text ELSE text \o a.calls)

NotHeard == [thought |-> FALSE, text |-> FALSE, called |-> FALSE, blocked |-> FALSE]
NoBlock == [started |-> 0, type |-> "none"]

ClaudeInit ==
  /\ query \in Queries
  /\ stage = "pick" /\ serving = [picks |-> 0, rounds |-> 0]
  /\ said = NothingSaid /\ rest = <<>> /\ heard = NotHeard /\ block = NoBlock
  /\ wire = <<>> /\ fate = "open" /\ pulse = "off"

Event(kind, index, type) ==
  [kind |-> kind, index |-> index, type |-> type, round |-> serving.rounds]
Signal(kind) == [kind |-> kind, index |-> 0, type |-> "none", round |-> 0]
-----------------------------------------------------------------------------
(* What a handler emits: the events, and the blocks after them.              *)
Now == [events |-> <<>>, block |-> block]

(* closeCurrentBlock *)
ShutBlock(e) ==
  IF e.block.type = "none" THEN e
  ELSE [events |-> Append(e.events, Event("stop", e.block.started - 1, e.block.type)),
        block |-> [e.block EXCEPT !.type = "none"]]

(* mutant of OpenBlock: a block of another type is left open *)
OpenBlockOver(e, t) ==
  IF e.block.type = t THEN e
  ELSE [events |-> Append(e.events, Event("start", e.block.started, t)),
        block |-> [started |-> e.block.started + 1, type |-> t]]

(* ensureBlock *)
OpenBlock(e, t) ==
  IF e.block.type = t THEN e
  ELSE LET c == ShutBlock(e) IN
       [events |-> Append(c.events, Event("start", c.block.started, t)),
        block |-> [started |-> c.block.started + 1, type |-> t]]

Delta(e, t) ==
  LET o == OpenBlock(e, t) IN
  [o EXCEPT !.events = Append(@, Event("delta", o.block.started - 1, t))]

Whole(e, t) == ShutBlock(Delta(ShutBlock(e), t))

(* emitSyntheticThinking: a client that asked for thinking gets a block; one *)
(* that wants it left empty gets it without a delta, closed by what follows. *)
Synthetic(e) ==
  IF ~NeedThinking \/ heard.thought THEN e
  ELSE IF query.thinking = "omitted" THEN OpenBlock(e, "thinking")
  ELSE ShutBlock(Delta(e, "thinking"))

Ends(result, frames) ==
  /\ stage' = "over" /\ fate' = result /\ wire' = wire \o frames
  /\ UNCHANGED <<query, serving, said, rest, heard, block, pulse>>
-----------------------------------------------------------------------------
(* message_start goes out with the first account, and the heartbeat begins.  *)
PickForClaude ==
  /\ stage = "pick" /\ serving.picks < MaxPicks
  /\ stage' = "asks"
  /\ serving' = [serving EXCEPT !.picks = @ + 1]
  /\ LET begins == query.stream /\ serving.picks = 0 IN
     /\ wire' = wire \o Provided(begins, <<Signal("message_start"), Signal("ping")>>)
     /\ pulse' = IF begins THEN "waits" ELSE pulse
  /\ UNCHANGED <<query, said, rest, heard, block, fate>>

(* On a retry the stream handler releases the account it did not get.        *)
PickFailsForClaude ==
  /\ stage = "pick"
  /\ Ends(IF query.stream /\ serving.picks > 0 THEN "panic" ELSE "body", <<>>)

ClaudeRound ==
  /\ stage = "asks"
  /\ \E a \in Sayings : said' = a /\ rest' = EventsOf(a)
  /\ stage' = "events" /\ heard' = NotHeard /\ block' = NoBlock
  /\ serving' = [serving EXCEPT !.rounds = @ + 1]
  /\ UNCHANGED <<query, wire, fate, pulse>>

(* A round that fails has had no events, so no content block is out: another *)
(* account is tried if the class of the failure allows it.                   *)
ClaudeRoundFails ==
  /\ stage = "asks"
  /\ \/ stage' = "pick"
        /\ UNCHANGED <<query, serving, said, rest, heard, block, wire, fate, pulse>>
     \/ IF query.stream THEN Ends("error", <<Signal("error")>>) ELSE Ends("body", <<>>)
     \/ Ends("gone", <<>>)

(* e: what a stream sends for the event; note: what the handler notes.       *)
Handles(event, e, note) ==
  /\ stage = "events" /\ rest # <<>> /\ Head(rest) = event
  /\ rest' = Tail(rest) /\ heard' = note
  /\ IF query.stream THEN wire' = wire \o e.events /\ block' = e.block
                     ELSE UNCHANGED <<wire, block>>
  /\ UNCHANGED <<query, stage, serving, said, fate, pulse>>

Think ==
  LET plain == query.mode = "plain" IN
  Handles("thought", IF plain THEN ShutBlock(Delta(Now, "thinking")) ELSE Now,
          [heard EXCEPT !.thought = plain])

(* Structured output and the answers to a probe wait for the whole text.     *)
Say ==
  LET e == Synthetic(Now) IN
  Handles("text", IF query.mode = "plain" THEN Delta(e, "text") ELSE e,
          [heard EXCEPT !.text = TRUE, !.thought = @ \/ NeedThinking])

(* mutant of CallTool: a call continues the open block of a call *)
CallToolAgain ==
  Handles("known", Delta(Synthetic(Now), "tool_use"),
          [heard EXCEPT !.called = TRUE, !.thought = @ \/ NeedThinking])

(* Every call of a round has an id of its own, and so a block of its own.    *)
CallTool ==
  Handles("known", Delta(ShutBlock(Synthetic(Now)), "tool_use"),
          [heard EXCEPT !.called = TRUE, !.thought = @ \/ NeedThinking])

Withhold == Handles("foreign", Now, [heard EXCEPT !.blocked = TRUE])
-----------------------------------------------------------------------------
(* nonStreamAnthropicChat: a refusal is offered to one account after another *)
(* and cleaned if there is none left.                                        *)
AskAnother ==
  /\ stage = "events" /\ rest = <<>> /\ ~query.stream
  /\ said.text = "refusal" /\ serving.picks < MaxPicks
  /\ stage' = "asks" /\ serving' = [serving EXCEPT !.picks = @ + 1]
  /\ UNCHANGED <<query, said, rest, heard, block, wire, fate, pulse>>

(* mutant of Conclusion: no fallback for a round that said nothing *)
ConclusionBare ==
  LET e  == ShutBlock(Synthetic(Now))
      e2 == IF query.mode = "json" \/ (query.mode = "numbered" /\ heard.text)
            THEN Whole(e, "text") ELSE e
  IN IF heard.blocked THEN Whole(e2, "text") ELSE e2

(* The text that was kept; "I don't know." if there is no block at all; and  *)
(* a block of its own for the calls that were withheld.                      *)
Conclusion ==
  LET e  == ShutBlock(Synthetic(Now))
      e2 == IF \/ query.mode = "json"
               \/ query.mode = "numbered" /\ heard.text
               \/ e.block.started = 0
            THEN Whole(e, "text") ELSE e
  IN IF heard.blocked THEN Whole(e2, "text") ELSE e2

StopReason == IF heard.called THEN "tool_use" ELSE "end_turn"

Message ==
  LET thinking == query.mode = "plain" /\ (said.thought \/ NeedThinking)
      text     == said.text # "none" \/ heard.blocked \/ query.mode = "json"
      types    == Provided(thinking, <<"thinking">>) \o Provided(text, <<"text">>)
                    \o [i \in 1..KnownCalls |-> "tool_use"]
      blocks   == IF types = <<>> THEN <<"text">> ELSE types
  IN [i \in DOMAIN blocks |-> Event("block", i - 1, blocks[i])]
       \o <<Signal(StopReason)>>

Conclude ==
  /\ stage = "events" /\ rest = <<>>
  /\ Ends("ok", IF query.stream
                THEN Conclusion.events \o <<Signal(StopReason), Signal("message_stop")>>
                ELSE Message)
-----------------------------------------------------------------------------
(* The heartbeat: a select between the ticker and the end of the handler;    *)
(* when both are due it may take either.                                     *)
Pings == Cardinality({i \in DOMAIN wire : wire[i].kind = "ping"})

PulseDue ==
  /\ pulse = "waits" /\ Pings <= MaxPings /\ pulse' = "writes"
  /\ UNCHANGED <<query, stage, serving, said, rest, heard, block, wire, fate>>

PulseWrites ==
  /\ pulse = "writes"
  /\ pulse' = "waits" /\ wire' = Append(wire, Signal("ping"))
  /\ UNCHANGED <<query, stage, serving, said, rest, heard, block, fate>>

PulseStops ==
  /\ pulse = "waits" /\ stage = "over"
  /\ pulse' = "off"
  /\ UNCHANGED <<query, stage, serving, said, rest, heard, block, wire, fate>>

ClaudeNext ==
  \/ PickForClaude \/ PickFailsForClaude \/ ClaudeRound \/ ClaudeRoundFails
  \/ Think \/ Say \/ CallTool \/ Withhold \/ AskAnother \/ Conclude
  \/ PulseDue \/ PulseWrites \/ PulseStops

ClaudeSpec == ClaudeInit /\ [][ClaudeNext]_claudeVars
-----------------------------------------------------------------------------
(* A client that puts the message together looks at each event of s by what  *)
(* it has seen before; the blocks it knows are those begun.                  *)
Earlier(s, i, kinds) == {j \in 1..(i - 1) : s[j].kind \in kinds}
Begun(s, i) == Cardinality(Earlier(s, i, {"start"}))
Ended(s, i) == Cardinality(Earlier(s, i, {"stop"}))
Running(s, i) == /\ Earlier(s, i, {"message_start"}) # {}
                 /\ Earlier(s, i, {"message_stop", "error"}) = {}
Between(s, i) == Running(s, i) /\ Begun(s, i) = Ended(s, i)
Reasoned(s, i) == Earlier(s, i, {"end_turn", "tool_use"}) # {}

(* ... and takes a delta, or a stop, for one of the block begun last.        *)
OfTheOpen(s, i) ==
  /\ Running(s, i) /\ Begun(s, i) = Ended(s, i) + 1
  /\ s[i].index = Begun(s, i) - 1
  /\ \E j \in Earlier(s, i, {"start"}) : s[j].index = s[i].index /\ s[j].type = s[i].type

Fits(s, i) ==
  CASE s[i].kind = "message_start" -> Earlier(s, i, {"message_start"}) = {}
    [] s[i].kind = "start" ->
         Between(s, i) /\ ~Reasoned(s, i) /\ s[i].index = Begun(s, i)
    [] s[i].kind \in {"delta", "stop"} -> OfTheOpen(s, i)
    [] s[i].kind \in {"end_turn", "tool_use"} -> Between(s, i) /\ ~Reasoned(s, i)
    [] s[i].kind = "message_stop" -> Running(s, i) /\ Reasoned(s, i)
    [] s[i].kind = "error" -> Between(s, i)
    [] OTHER -> s[i].kind = "ping"

(* The blocks of a stream fit together for a client that follows them: each  *)
(* has the next index, one is open at a time, deltas belong to it, and the   *)
(* message ends after its last block and its stop reason (or in an error     *)
(* with no block open), whatever the heartbeat writes in between.            *)
BlocksFit == query.stream => \A i \in DOMAIN wire : Fits(wire, i)

Blocks == {i \in DOMAIN wire : wire[i].kind \in {"start", "block"}}
Having(type) == Cardinality({i \in Blocks : wire[i].type = type})
Noted(kind) == \E i \in DOMAIN wire : wire[i].kind = kind

(* A complete message, streamed or not, has a thinking block first and only  *)
(* if there was thinking or the client asked for it, every call of a tool    *)
(* the client has in a block of its own, a text if there was one, none if    *)
(* there were only calls (unless the client wants structured output), and    *)
(* the stop reason that says whether the client has calls to answer.         *)
ClaudeDelivers ==
  fate = "ok" =>
    /\ Having("thinking") =
         (IF query.mode = "plain" /\ (said.thought \/ NeedThinking) THEN 1 ELSE 0)
    /\ \A i, j \in Blocks : wire[i].type = "thinking" => i <= j
    /\ Having("tool_use") = KnownCalls
    /\ said.text # "none" => Having("text") > 0
    /\ said.text = "none" /\ KnownCalls = Len(said.calls) /\ KnownCalls > 0
         /\ query.mode # "json" => Having("text") = 0
    /\ Noted("tool_use") <=> KnownCalls > 0

(* The message is well formed, and has what the model said.                  *)
ClaudeMessage == BlocksFit /\ ClaudeDelivers

ShownByClaude ==
  [i \in {j \in DOMAIN wire : wire[j].kind \in {"start", "delta", "block"}} |-> wire[i].round]
Claude == INSTANCE Reply WITH
  shown <- ShownByClaude,
  status <- CASE fate = "open" -> "open" [] fate = "ok" -> "complete"
              [] fate = "gone" -> "gone" [] OTHER -> "failed"

(* The accounts tried and the refusals offered again stay invisible: the     *)
(* message is made of one round, and a complete one is never empty.          *)
ClaudeReplies == Claude!ReplySpec

(* What a reader of the message can use.  Fails for a client that asked for  *)
(* thinking: the placeholder is a block, so an empty round gets no text.     *)
SomethingToRead == fate = "ok" => Having("text") + Having("tool_use") > 0

(* The heartbeat ends with the message.  Fails: it is stopped by the return  *)
(* of the handler, and a ping that is due then is still written.             *)
QuietAfterEnd ==
  \A i \in DOMAIN wire : wire[i].kind = "message_stop" => i = Len(wire)

(* A stream that begins is ended by an event.  Fails: Release on nil.        *)
EndIsTold ==
  fate \in {"error", "panic"} /\ query.stream => Noted("error")
=============================================================================
