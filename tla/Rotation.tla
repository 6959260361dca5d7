------------------------------ MODULE Rotation ------------------------------
(* Which of the ready accounts the scheduler takes when no session is bound  *)
(* (scheduler/select.go and the end of Pick in scheduler/pick.go): the       *)
(* highest priority, warm sandboxes first, then by strategy.  The cursor of  *)
(* round robin and the weights of smooth weighted round robin are kept per   *)
(* model, whatever the candidates are.  One model and one strategy here.     *)
EXTENDS Integers, FiniteSets, FiniteSetsExt, SequencesExt

CONSTANTS
  Accts,        \* ids, which order a tier: naturals
  Strategies,   \* of "rr", "weighted", "fill"
  Weights, Priorities,  \* values an account may have
  MaxPicksMade, MaxShifts  \* bounds: picks; changes of who is ready or warm

ASSUME RotationAssumption ==
  /\ Accts \subseteq Nat /\ Weights \subseteq Nat \ {0} /\ Priorities \subseteq Nat
  /\ Strategies \subseteq {"rr", "weighted", "fill"}
  /\ MaxPicksMade \in Nat /\ MaxShifts \in Nat

VARIABLES
  strategy,
  account,   \* weight, priority, ready and warm of each
  cursor,    \* roundRobinState
  smooth,    \* smoothWeightedState: current, and the weights it is for
  attempted,  \* accountIter.tried of the request at work
  since      \* history: first picks of requests since the candidates changed,
             \* whether one was followed by a retry; changes and picks so far

rotationVars == <<strategy, account, cursor, smooth, attempted, since>>

NoPicks == [a \in Accts |-> 0]

RotationInit ==
  /\ strategy \in Strategies
  /\ account \in [Accts -> [weight : Weights, priority : Priorities, ready : {TRUE}, warm : BOOLEAN]]
  /\ strategy = "weighted" \/ \A a, b \in Accts : account[a].weight = account[b].weight
  /\ cursor = 0 /\ smooth = [current |-> NoPicks, weights |-> NoPicks]
  /\ attempted = {} /\ since = [firsts |-> NoPicks, retried |-> FALSE, made |-> 0, shifts |-> 0]
-----------------------------------------------------------------------------
(* highestPriority and WarmPreference                                        *)
Highest(S) == {a \in S : \A b \in S : account[b].priority <= account[a].priority}
WarmFirst(S) ==
  LET warm == {a \in S : account[a].warm} IN IF warm # {} THEN warm ELSE S
Tier(S) == WarmFirst(Highest(S))

Ready == {a \in Accts : account[a].ready}
ById(S) == SetToSortSeq(S, LAMBDA a, b : a < b)

(* pickSmoothWeighted: everybody gains his weight, the first with the most   *)
(* is picked and pays for all.  Other candidates, or other weights, start    *)
(* from nothing.                                                             *)
Gained(S) ==
  LET weights == [a \in Accts |-> IF a \in S THEN account[a].weight ELSE 0]
      current == IF smooth.weights = weights THEN smooth.current ELSE NoPicks
  IN [current |-> [a \in Accts |-> current[a] + weights[a]], weights |-> weights]

Heaviest(S, current) ==
  CHOOSE a \in S : \A b \in S : current[b] < current[a] \/ (current[b] = current[a] /\ a <= b)

Total(S) == MapThenSumSet(LAMBDA a : account[a].weight, S)

(* mutant of Paid: it pays what it weighs *)
PaidItsWeight(g, S, a) == [g EXCEPT !.current[a] = @ - account[a].weight]

Paid(g, S, a) == [g EXCEPT !.current[a] = @ - Total(S)]

Chosen(a) ==
  /\ since.made < MaxPicksMade
  /\ attempted' = attempted \cup {a}
  /\ since' = [since EXCEPT !.firsts[a] = IF attempted = {} THEN @ + 1 ELSE @,
                            !.retried = @ \/ attempted # {}, !.made = @ + 1]
  /\ UNCHANGED <<strategy, account>>

RoundRobin(S) ==
  /\ strategy = "rr"
  /\ Chosen(ById(S)[(cursor % Cardinality(S)) + 1])
  /\ cursor' = cursor + 1 /\ UNCHANGED smooth

Weighted(S) ==
  /\ strategy = "weighted"
  /\ LET g == Gained(S)
         a == Heaviest(S, g.current)
     IN Chosen(a) /\ smooth' = Paid(g, S, a)
  /\ UNCHANGED cursor

FillFirst(S) ==
  /\ strategy = "fill"
  /\ Chosen(ById(S)[1]) /\ UNCHANGED <<cursor, smooth>>

PickFrom(S) == S # {} /\ (RoundRobin(S) \/ Weighted(S) \/ FillFirst(S))

(* A request's first pick, and those after a failure.                        *)
PickNext == PickFrom(Tier(Ready \ attempted))

RequestEnds ==
  /\ attempted # {} /\ attempted' = {}
  /\ UNCHANGED <<strategy, account, cursor, smooth, since>>

(* Accounts fall out and come back, sandboxes cool and warm up.              *)
Shift ==
  /\ since.shifts < MaxShifts /\ attempted = {}
  /\ \E a \in Accts :
       \/ account' = [account EXCEPT ![a].ready = ~@]
       \/ account' = [account EXCEPT ![a].warm = ~@]
  /\ since' = [since EXCEPT !.firsts = NoPicks, !.retried = FALSE, !.shifts = @ + 1]
  /\ UNCHANGED <<strategy, cursor, smooth, attempted>>

RotationNext == PickNext \/ RequestEnds \/ Shift
RotationSpec == RotationInit /\ [][RotationNext]_rotationVars
-----------------------------------------------------------------------------
Firsts == MapThenSumSet(LAMBDA a : since.firsts[a], Accts)
Owed(a) ==
  CASE strategy = "rr" -> 1
    [] strategy = "weighted" -> account[a].weight
    [] OTHER -> IF a = ById(Tier(Ready))[1] THEN 1 ELSE 0

(* While the candidates stay and no request is retried, every account of the *)
(* tier has had its share of the requests, short of one round, whatever the  *)
(* cursor and the weights were left at by what came before; the others none. *)
SharesKept ==
  Firsts > 0 /\ ~since.retried =>
    LET tier == Tier(Ready)
        round == MapThenSumSet(LAMBDA b : Owed(b), tier)
        off(a) == since.firsts[a] * round - Owed(a) * Firsts
    IN \A a \in Accts :
         IF a \in tier THEN -round < off(a) /\ off(a) < round ELSE since.firsts[a] = 0

(* README.md:350: round robin within a tier.  Fails: a retry advances the    *)
(* same cursor, and of two accounts the one that fails is first every time.  *)
RetriesRotate ==
  strategy = "rr" =>
    \A a, b \in Tier(Ready) : since.firsts[a] - since.firsts[b] <= 1
=============================================================================
