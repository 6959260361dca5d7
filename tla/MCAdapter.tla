------------------------------ MODULE MCAdapter ------------------------------
(* Runs for the machines of the adapter that share no state here: the        *)
(* sandboxes of an account, the sweeps that keep them warm, a turn at the    *)
(* upstream, the chat material, the one-time tokens, and the files that a    *)
(* request brings along.  `part` names the one a behaviour exercises; the    *)
(* others stay as they are when nothing can happen to them, so that no       *)
(* fairness obliges them to move.                                            *)
EXTENDS Sandbox, Prewarm, Turn, Material, Tickets, Attachments, TLC

CONSTANTS
  r1, r2, c1, pw, w1, w2,
  Parts   \* bound: the machines a run explores

VARIABLE part

vars ==
  <<part, sandboxVars, prewarmVars, turnVars, materialVars, ticketVars, attachmentVars>>

(* Two turns with a logged-in account; a turn with a recast after its        *)
(* failures; a turn beside the pre-warmer of an account without a session;   *)
(* for other parts, nobody.                                                  *)
MCCasts ==
  {[who |-> {r1, r2}, session |-> TRUE], [who |-> {}, session |-> FALSE]} \cup
  {[who |-> {r, c1}, session |-> TRUE] : r \in Requests} \cup
  {[who |-> {r, pw}, session |-> FALSE] : r \in Requests}

TurnSymmetry == Permutations(Requests)

(* Two turns without a session.                                              *)
MCPair == {[who |-> {r1, r2}, session |-> FALSE], [who |-> {}, session |-> FALSE]}

(* One account that is disabled and enabled and whose chains break, or two   *)
(* that compete for one worker.                                              *)
MCFleets == {[all |-> {w1}, steady |-> {}], [all |-> {w1, w2}, steady |-> {w1, w2}]}

(* Messages of up to four parts, the last of them with one file to download. *)
MCLetters ==
  {<<ps>> : ps \in UNION {[1..n -> Payload] : n \in 0..4}} \cup
  {<<ps, <<"remote">>>> : ps \in UNION {[1..n -> {"data", "remote"}] : n \in 1..3}}

Box(A) ==
  /\ part = "sandbox" /\ A
  /\ UNCHANGED <<part, prewarmVars, turnVars, materialVars, ticketVars, attachmentVars>>
Warm(A) ==
  /\ part = "prewarm" /\ A
  /\ UNCHANGED <<part, sandboxVars, turnVars, materialVars, ticketVars, attachmentVars>>
Call(A) ==
  /\ part = "turn" /\ A
  /\ UNCHANGED <<part, sandboxVars, prewarmVars, materialVars, ticketVars, attachmentVars>>
Browse(A) ==
  /\ part = "material" /\ A
  /\ UNCHANGED <<part, sandboxVars, prewarmVars, turnVars, ticketVars, attachmentVars>>
Carrying(A) ==
  /\ part = "tickets" /\ A
  /\ UNCHANGED <<part, sandboxVars, prewarmVars, turnVars, materialVars, attachmentVars>>
Attaching(A) ==
  /\ part = "files" /\ A
  /\ UNCHANGED <<part, sandboxVars, prewarmVars, turnVars, materialVars, ticketVars>>

AllFresh ==
  /\ slot = [s \in Ring |-> [filled |-> TRUE, fresh |-> TRUE, failing |-> FALSE]]
  /\ fetching = {} /\ ring = 0 /\ warmer = [s \in Ring |-> "idle"]
  /\ chat = [t \in Turns |-> NoTurn]

Init ==
  /\ part \in Parts
  /\ SandboxInit /\ (cast # {} <=> part = "sandbox")
  /\ PrewarmInit
  /\ part = "prewarm" \/ (fleet.steady = {} /\ \A a \in Warmable : jitter[a] = 0)
  /\ TurnInit /\ (part = "turn" \/ (way = "direct" /\ tools))
  /\ TicketsInit /\ AttachmentsInit /\ (part = "files" \/ letter = <<<<>>>>)
  /\ IF part = "material" THEN MaterialInit ELSE AllFresh

Next ==
  \/ Box(Ages) \/ Box(Prewarm) \/ Box(SessionMinted)
  \/ \E a \in Preparers : Box(Enter(a)) \/ Box(Join(a)) \/ Box(Leave(a))
  \/ \E k \in Keys :
       \/ Box(Make(k)) \/ Box(Publish(k)) \/ Box(Land(k)) \/ Box(ChainFails(k))
  \/ \E r \in Requests :
       \/ Box(Bootstrap(r)) \/ Box(Attempt(r)) \/ Box(Prepared(r)) \/ Box(Started(r))
       \/ Box(Refused(r)) \/ Box(NoTicket(r)) \/ Box(TransportFails(r))
       \/ Box(ServerFails(r)) \/ Box(Reconnecting(r)) \/ Box(ClientLeaves(r))
  \/ Warm(SweepStarts) \/ Warm(SweepSkipped) \/ Warm(SweepEnds) \/ Warm(Storm) \/ Warm(Tick)
  \/ \E a \in Warmable :
       \/ Warm(JobStarts(a)) \/ Warm(ChainLands(a)) \/ Warm(ChainBreaks(a))
       \/ Warm(Enable(a)) \/ Warm(Disable(a))
       \/ \E s \in Sources :
            Warm(JobEnters(s, a)) \/ Warm(JobSucceeds(s, a)) \/ Warm(JobFails(s, a))
  \/ Call(Prepare) \/ Call(Emit) \/ Call(Return)
  \/ \E d \in {0, CallMax} :
       Call(PollFails(d)) \/ Call(PollRefused(d)) \/ Call(PollPending(d)) \/ Call(PollCompleted(d))
  \/ \E d \in {0, RelayMax} : Call(RelayReturns(d))
  \/ Browse(Sweep)
  \/ \E t \in Turns :
       \/ Browse(Pick(t)) \/ Browse(Ensure(t)) \/ Browse(JoinFlight(t)) \/ Browse(Landed(t))
       \/ Browse(StartIsTaken(t)) \/ Browse(StartIsRefused(t))
  \/ \E s \in Ring :
       \/ Browse(Refreshed(s)) \/ Browse(RefreshFails(s)) \/ Browse(Expires(s))
       \/ Browse(BackoffOver(s)) \/ Browse(WarmStep(s))
  \/ Carrying(RefillLooks) \/ Carrying(RefillMints) \/ Carrying(RefillFails)
  \/ Carrying(RefillWakes) \/ Carrying(TicketAges) \/ Carrying(QuietEnds)
  \/ \E c \in Callers :
       \/ Carrying(Asks(c)) \/ Carrying(Drains(c)) \/ Carrying(Forgoes(c))
       \/ Carrying(FindsNone(c)) \/ Carrying(WaitTakes(c)) \/ Carrying(WaitOver(c))
       \/ Carrying(Mints(c)) \/ Carrying(MintFails(c)) \/ Carrying(Replied(c))
       \/ Carrying(TriesAgain(c)) \/ Carrying(CallerLeaves(c))
  \/ Attaching(Collect) \/ Attaching(AllFetched) \/ Attaching(Merge) \/ Attaching(NextMessage)
  \/ \E i \in 1..4 :
       Attaching(FetchOpens(i)) \/ Attaching(FetchSucceeds(i)) \/ Attaching(FetchIsLost(i))

Spec == Init /\ [][Next]_vars

FairSpec == Spec /\ SandboxFairness /\ MaterialFairness
-----------------------------------------------------------------------------
(* What goes along with a turn is what it should be: every call carries a    *)
(* token of its own, and a request the files that its parts give.            *)
GoesAlong == TicketsOnce /\ FilesAsSerial
=============================================================================
