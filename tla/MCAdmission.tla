----------------------------- MODULE MCAdmission -----------------------------
(* The HTTP layer by itself: the entry gate, the storm breaker, the replies  *)
(* of the two chat handlers and the emulated prompt cache.  They share no    *)
(* state, so one run explores them side by side: `part` names the one a      *)
(* behaviour exercises, the others stay in an initial state in which no      *)
(* fairness obliges them to move.                                            *)
EXTENDS EntryGate, StormBreaker, ChatStream, ClaudeStream, PromptCache

CONSTANTS x1, x2, n1, n2

VARIABLE part

vars == <<part, gateVars, stormVars, chatVars, claudeVars, cacheVars>>

(* Two turns of a conversation, the first without a breakpoint of the        *)
(* client, the second with two; and one too long to be considered whole.     *)
Block(n, t, e) == [name |-> n, tokens |-> t, end |-> e]
MCPrompts ==
  {[blocks |-> <<Block("system", 3, FALSE), Block("ask", 2, TRUE)>>,
    marks |-> <<0, 0>>, total |-> 7],
   [blocks |-> <<Block("system", 3, FALSE), Block("ask", 2, TRUE), Block("more", 30, TRUE)>>,
    marks |-> <<2, 0, 1>>, total |-> 17],
   [blocks |-> <<Block("system", 3, FALSE), Block("ask", 2, TRUE), Block("more", 30, TRUE)>>,
    marks |-> <<0, 0, 0>>, total |-> 40]}

(* Two requests of one key at a time, or one at a time of two keys.          *)
Users == CASE part = "askers" -> {<<x1, n1>>, <<x2, n1>>}
           [] part = "namespaces" -> {<<x1, n1>>, <<x1, n2>>}
           [] OTHER -> {}

(* Everything as it is; ratios that round; forced hits.                      *)
Policy(create, read, force, fallback) ==
  [create |-> create, read |-> read, force |-> force, fallback |-> fallback]
MCPolicies ==
  {Policy(100, 100, FALSE, TRUE), Policy(33, 75, FALSE, FALSE), Policy(0, 75, TRUE, TRUE)}

Gate(A) == part = "gate" /\ A /\ UNCHANGED <<part, stormVars, chatVars, claudeVars, cacheVars>>
Breaker(A) == part = "breaker" /\ A /\ UNCHANGED <<part, gateVars, chatVars, claudeVars, cacheVars>>
Chatting(A) == part = "chat" /\ A /\ UNCHANGED <<part, gateVars, stormVars, claudeVars, cacheVars>>
Messages(A) == part = "claude" /\ A /\ UNCHANGED <<part, gateVars, stormVars, chatVars, cacheVars>>
Cache(A) ==
  part \in {"askers", "namespaces"} /\ A /\ UNCHANGED <<part, gateVars, stormVars, chatVars, claudeVars>>

Init ==
  /\ part \in {"gate", "breaker", "chat", "claude", "askers", "namespaces"}
  /\ GateInit /\ StormInit /\ ChatInit /\ ClaudeInit /\ CacheInit
  /\ part = "gate" \/ want = Max(Capacities)
  /\ part = "chat" \/ ask = [stream |-> TRUE, tools |-> FALSE, gate |-> FALSE, image |-> FALSE]
  /\ part = "claude" \/ query = [stream |-> TRUE, mode |-> "plain", thinking |-> "off"]

Next ==
  \/ Gate(Reconfigure) \/ Gate(Recheck)
  \/ \E h \in Handlers :
       \/ Gate(ArriveAtGate(h)) \/ Gate(Enter(h)) \/ Gate(Drain(h)) \/ Gate(Take(h))
       \/ Gate(GiveUp(h)) \/ Gate(RequestServed(h)) \/ Gate(Release(h))
  \/ Breaker(Tick) \/ Breaker(UpstreamTurns)
  \/ \E r \in Requests :
       \/ Breaker(Arrive(r)) \/ Breaker(Probe(r)) \/ Breaker(End(r))
       \/ \E s \in Samples : Breaker(Record(r, s))
  \/ Chatting(Pick) \/ Chatting(PickFails) \/ Chatting(RoundAnswers) \/ Chatting(RoundFails)
  \/ Chatting(Thought) \/ Chatting(Text) \/ Chatting(KnownCall) \/ Chatting(ForeignCall)
  \/ Chatting(RoundEnds) \/ Chatting(Reinforce) \/ Chatting(Salvage)
  \/ Chatting(RetryEmpty) \/ Chatting(GiveUpEmpty) \/ Chatting(Finish)
  \/ Messages(PickForClaude) \/ Messages(PickFailsForClaude)
  \/ Messages(ClaudeRound) \/ Messages(ClaudeRoundFails)
  \/ Messages(Think) \/ Messages(Say) \/ Messages(CallTool) \/ Messages(Withhold)
  \/ Messages(AskAnother) \/ Messages(Conclude)
  \/ Messages(PulseDue) \/ Messages(PulseWrites) \/ Messages(PulseStops)
  \/ Cache(Passes)
  \/ \E q \in Askers :
       \/ Cache(Succeeds(q)) \/ Cache(Fails(q))
       \/ \E n \in Namespaces, p \in Prompts, policy \in Policies :
            <<q, n>> \in Users /\ Cache(Estimate(q, n, p, policy))

(* GateFairSpec and StormFairSpec, each for its own part.                    *)
Spec ==
  /\ Init /\ [][Next]_vars
  /\ \A h \in Handlers : WF_gateVars(HandlerStep(h)) /\ SF_gateVars(Enter(h))
  /\ WF_stormVars(part = "breaker" /\ Tick)
=============================================================================
