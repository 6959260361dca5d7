------------------------------- MODULE Tickets -------------------------------
(* The one-time sentinel tokens of adapter/prism/sentinel.go, which every    *)
(* call to the upstream must carry: a channel that a background loop keeps   *)
(* filled, and the calls that take from it, wait for it, or have a token     *)
(* minted by the login sidecar themselves.  A token is accepted once, and    *)
(* only while it is young.                                                   *)
(*                                                                           *)
(* Abstracted: the age of a token in the channel is whether it is older than *)
(* sentinelTokenFreshTTL; what the upstream answers to a call is a choice.   *)
EXTENDS Naturals, Sequences, FiniteSets

CONSTANTS
  Callers,      \* calls at a time
  Starters,     \* those that start a turn; the others prepare one
  PoolSize,     \* sentinelPoolSize()
  CallAttempts, \* attempts of requestRetry, and of startTurn
  MaxTickets    \* bound: tokens minted

ASSUME TicketsAssumption ==
  /\ Starters \subseteq Callers /\ PoolSize \in Nat \ {0}
  /\ CallAttempts \in Nat \ {0} /\ MaxTickets \in Nat

VARIABLES
  tickets,   \* sentinelPool: the tokens and whether they are young
  refill,    \* what sentinelRefillLoop is at; "off" before the first call
  quiet,     \* time.Since(mintFailAt) < mintBackoff
  minted,    \* tokens minted so far
  caller,    \* takeSentinelToken and the loop around the call
  carried    \* history: how many calls have carried a token

ticketVars == <<tickets, refill, quiet, minted, caller, carried>>

Bare == 0
NoCall == [pc |-> "idle", ticket |-> Bare, young |-> TRUE, left |-> CallAttempts, gone |-> FALSE]

TicketsInit ==
  /\ tickets = <<>> /\ refill = "off" /\ quiet = FALSE /\ minted = 0
  /\ caller = [c \in Callers |-> NoCall]
  /\ carried = [t \in 1..MaxTickets |-> 0]

At(c, l) == caller[c].pc = l
Moves(c, l) == caller' = [caller EXCEPT ![c].pc = l]
Gets(c, t, young) ==
  caller' = [caller EXCEPT ![c].pc = "send", ![c].ticket = t, ![c].young = young]

(* mutant of NextAttempt: the token is taken once for all attempts           *)
NextAttemptAsBefore(c) ==
  IF caller[c].left > 1
  THEN [caller EXCEPT ![c].pc = IF caller[c].ticket = Bare THEN "idle" ELSE "send",
                      ![c].left = @ - 1]
  ELSE [caller EXCEPT ![c].pc = "done"]

(* The next attempt, if there is one.                                        *)
NextAttempt(c) ==
  IF caller[c].left > 1
  THEN [caller EXCEPT ![c].pc = "idle", ![c].ticket = Bare, ![c].left = @ - 1]
  ELSE [caller EXCEPT ![c].pc = "done"]

(* Without a token a start is not sent; other calls go without one.          *)
NoTicketFor(c) ==
  caller' = IF c \in Starters THEN NextAttempt(c)
            ELSE [caller EXCEPT ![c].pc = "send", ![c].ticket = Bare]
-----------------------------------------------------------------------------
(* takeSentinelToken: the first one starts the loop.                         *)
Asks(c) ==
  /\ At(c, "idle") /\ Moves(c, "drain")
  /\ refill' = IF refill = "off" THEN "look" ELSE refill
  /\ UNCHANGED <<tickets, quiet, minted, carried>>

(* Old tokens are thrown away until a young one comes.                       *)
Drains(c) ==
  /\ At(c, "drain") /\ tickets # <<>>
  /\ tickets' = Tail(tickets)
  /\ IF Head(tickets).young THEN Gets(c, Head(tickets).id, TRUE) ELSE UNCHANGED caller
  /\ UNCHANGED <<refill, quiet, minted, carried>>

Forgoes(c) ==
  /\ At(c, "drain") /\ caller[c].gone
  /\ NoTicketFor(c)
  /\ UNCHANGED <<tickets, refill, quiet, minted, carried>>

(* After a failed mint nobody waits for the loop.                            *)
FindsNone(c) ==
  /\ At(c, "drain") /\ tickets = <<>> /\ ~caller[c].gone
  /\ Moves(c, IF quiet THEN "mint" ELSE "wait")
  /\ UNCHANGED <<tickets, refill, quiet, minted, carried>>

(* mutant of WaitTakes: what comes while waiting is taken to be young        *)
WaitTakesAny(c) ==
  /\ At(c, "wait") /\ tickets # <<>>
  /\ tickets' = Tail(tickets)
  /\ Gets(c, Head(tickets).id, Head(tickets).young)
  /\ UNCHANGED <<refill, quiet, minted, carried>>

(* Two seconds for the loop to deliver.                                      *)
WaitTakes(c) ==
  /\ At(c, "wait") /\ tickets # <<>>
  /\ tickets' = Tail(tickets)
  /\ IF Head(tickets).young THEN Gets(c, Head(tickets).id, TRUE) ELSE Moves(c, "mint")
  /\ UNCHANGED <<refill, quiet, minted, carried>>

WaitOver(c) ==
  /\ At(c, "wait") /\ Moves(c, "mint")
  /\ UNCHANGED <<tickets, refill, quiet, minted, carried>>

Mints(c) ==
  /\ At(c, "mint") /\ ~caller[c].gone /\ minted < MaxTickets
  /\ minted' = minted + 1
  /\ Gets(c, minted + 1, TRUE)
  /\ UNCHANGED <<tickets, refill, quiet, carried>>

(* The sidecar fails, or the call's context has ended: both are noted.       *)
MintFails(c) ==
  /\ At(c, "mint")
  /\ quiet' = TRUE
  /\ NoTicketFor(c)
  /\ UNCHANGED <<tickets, refill, minted, carried>>
-----------------------------------------------------------------------------
Carry(c) ==
  IF caller[c].ticket = Bare THEN carried
  ELSE [carried EXCEPT ![caller[c].ticket] = @ + 1]

(* The upstream answers for good.                                            *)
Replied(c) ==
  /\ At(c, "send") /\ carried' = Carry(c)
  /\ Moves(c, "done")
  /\ UNCHANGED <<tickets, refill, quiet, minted>>

(* requestRetry, startTurn: a failure of the network or of the upstream is   *)
(* tried again, with another token.                                          *)
TriesAgain(c) ==
  /\ At(c, "send") /\ ~caller[c].gone
  /\ carried' = Carry(c)
  /\ caller' = NextAttempt(c)
  /\ UNCHANGED <<tickets, refill, quiet, minted>>

(* The call's context ends.                                                  *)
CallerLeaves(c) ==
  /\ ~At(c, "done") /\ ~caller[c].gone
  /\ caller' = [caller EXCEPT ![c].gone = TRUE]
  /\ UNCHANGED <<tickets, refill, quiet, minted, carried>>
-----------------------------------------------------------------------------
(* sentinelRefillLoop                                                        *)
RefillLooks ==
  /\ refill = "look"
  /\ refill' = IF Len(tickets) >= PoolSize THEN "asleep" ELSE "minting"
  /\ UNCHANGED <<tickets, quiet, minted, caller, carried>>

RefillMints ==
  /\ refill = "minting" /\ minted < MaxTickets
  /\ minted' = minted + 1 /\ refill' = "asleep"
  /\ tickets' = IF Len(tickets) < PoolSize
                THEN Append(tickets, [id |-> minted + 1, young |-> TRUE]) ELSE tickets
  /\ UNCHANGED <<quiet, caller, carried>>

RefillFails ==
  /\ refill = "minting" /\ refill' = "asleep"
  /\ UNCHANGED <<tickets, quiet, minted, caller, carried>>

RefillWakes ==
  /\ refill = "asleep" /\ refill' = "look"
  /\ UNCHANGED <<tickets, quiet, minted, caller, carried>>

(* Time passes: the oldest young token grows old; the back-off ends.         *)
TicketAges ==
  /\ \E i \in 1..Len(tickets) :
       /\ tickets[i].young /\ \A j \in 1..(i - 1) : ~tickets[j].young
       /\ tickets' = [tickets EXCEPT ![i].young = FALSE]
  /\ UNCHANGED <<refill, quiet, minted, caller, carried>>

QuietEnds ==
  /\ quiet /\ quiet' = FALSE
  /\ UNCHANGED <<tickets, refill, minted, caller, carried>>

TicketsNext ==
  \/ RefillLooks \/ RefillMints \/ RefillFails \/ RefillWakes \/ TicketAges \/ QuietEnds
  \/ \E c \in Callers :
       \/ Asks(c) \/ Drains(c) \/ Forgoes(c) \/ FindsNone(c) \/ WaitTakes(c) \/ WaitOver(c)
       \/ Mints(c) \/ MintFails(c) \/ Replied(c) \/ TriesAgain(c) \/ CallerLeaves(c)

TicketsSpec == TicketsInit /\ [][TicketsNext]_ticketVars
-----------------------------------------------------------------------------
(* Whatever calls, retries, waits and the loop do beside each other, no two  *)
(* calls carry one token, none carries an old one, and none that is sent is  *)
(* still in the channel (sentinel.go:30, :50-54: used twice, or old, it is   *)
(* refused).                                                                 *)
TicketsOnce ==
  /\ \A t \in 1..MaxTickets : carried[t] <= 1
  /\ \A c \in Callers : At(c, "send") /\ caller[c].ticket # Bare =>
       /\ caller[c].young /\ carried[caller[c].ticket] = 0
       /\ \A d \in Callers \ {c} : ~(At(d, "send") /\ caller[d].ticket = caller[c].ticket)
       /\ \A i \in 1..Len(tickets) : tickets[i].id # caller[c].ticket

(* Not true of the code: after a failed mint takers fail at once and leave   *)
(* the sidecar alone (sentinel.go:48, :108).  They skip the wait and mint.   *)
SidecarSpared == [][\A c \in Callers : At(c, "drain") /\ quiet => caller'[c].pc # "mint"]_ticketVars

(* Not true of the code: a full channel is not looked at again, however old  *)
(* its tokens are, until a call has drained it (sentinel.go:140).            *)
LoopReplacesOld ==
  refill = "look" /\ (\A i \in 1..Len(tickets) : ~tickets[i].young) =>
    Len(tickets) < PoolSize
=============================================================================
