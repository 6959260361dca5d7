------------------------------- MODULE Sandbox -------------------------------
(* The session and the sandbox of one account, adapter/prism: the cached     *)
(* values, the single flights that fetch them ("session"; "sandbox" for      *)
(* requests and recasts, "prewarm" for the pre-warmer), the requests that    *)
(* start turns with a sandbox, the recast after an invalidation, and the     *)
(* warm-up budget.                                                           *)
(*                                                                           *)
(* Sandboxes are numbered as the site makes them, 0 is none.  Publications   *)
(* are counted, and the count is the instant of the last one (sandboxAt), 0  *)
(* being the zero time.                                                      *)
EXTENDS Naturals

CONSTANTS
  Requests,        \* turns that want a sandbox of this account
  Recasters,       \* bound: recast goroutines at a time
  Prewarmer,       \* Client.Prewarm, run by the sweep or by the enable hook
  Attempts,        \* startTurn: attempts
  PrepareRetries,  \* startTurn: prepareRetries
  MaxReconnects,   \* maxSandboxReconnects
  MaxSandboxes,    \* bound: sandboxes the site makes
  Casts            \* bound: who takes part, and whether the account is logged in

ASSUME SandboxAssumption ==
  /\ Attempts \in Nat \ {0} /\ PrepareRetries \in Nat /\ MaxReconnects \in Nat
  /\ MaxSandboxes \in Nat /\ Requests \cap Recasters = {}
  /\ Prewarmer \notin Requests \cup Recasters
  /\ \A c \in Casts :
       c.who \subseteq Requests \cup Recasters \cup {Prewarmer} /\ c.session \in BOOLEAN

VARIABLES
  session,    \* sessionValid
  cache,      \* sandbox, sandboxAt and its age against the two limits
  made,       \* sandboxes the site has made
  published,  \* publications so far
  flight,     \* the single flight of each key
  prep,       \* each preparer's way through a flight
  turn,       \* startTurn's local variables, per request
  client,     \* the request's client is still there
  cast        \* who takes part in this behaviour

site == <<made, published>>
sandboxVars == <<session, cache, site, flight, prep, turn, client, cast>>

Keys == {"session", "sandbox", "prewarm"}
Preparers == Requests \cup Recasters \cup {Prewarmer}
Numbers == 0..MaxSandboxes
Errors == {"upstream", "canceled", "deadline", "degraded"}

NoCache == [tok |-> 0, at |-> 0, age |-> "expired"]
NoFlight == [phase |-> "none", leader |-> Prewarmer, entryAt |-> 0, tok |-> 0,
             dead |-> "no"]
Idle == [pc |-> "idle", key |-> "session", entryAt |-> 0, tok |-> 0, err |-> "none"]
Fresh == [at |-> "session", attempt |-> 1, tries |-> 0, fails |-> 0,
          reconnects |-> 0, tok |-> 0, gaveUp |-> {}, out |-> "none"]

SandboxInit ==
  /\ \E c \in Casts : cast = c.who /\ session = c.session
  /\ cache = NoCache /\ made = 0 /\ published = 0
  /\ flight = [k \in Keys |-> NoFlight]
  /\ prep = [a \in Preparers |-> Idle]
  /\ turn = [r \in Requests |-> Fresh]
  /\ client = [r \in Requests |-> TRUE]
-----------------------------------------------------------------------------
(* sandboxToken: the cached sandbox if it is within its TTL.                 *)
Cached == IF cache.age = "expired" THEN 0 ELSE cache.tok

(* Half of the TTL, or all of it, has passed since the publication.          *)
Ages ==
  /\ cache.tok # 0 /\ cache.age # "expired"
  /\ cache' = [cache EXCEPT !.age = IF @ = "young" THEN "old" ELSE "expired"]
  /\ UNCHANGED <<session, site, flight, prep, turn, client, cast>>

Here(a) == a \in Requests => client[a]

(* Preparer a sets out for the value of key k.                               *)
Sent(a, k) == [prep EXCEPT ![a] = [Idle EXCEPT !.pc = "enter", !.key = k]]

Done(a, tok, err) ==
  [prep EXCEPT ![a] = [Idle EXCEPT !.pc = "done", !.key = prep[a].key,
                                   !.tok = tok, !.err = err]]

(* What makes a flight unnecessary: refreshSandbox looks at the age, not at  *)
(* the presence.                                                             *)
Hit(k) ==
  \/ k = "session" /\ session
  \/ k = "sandbox" /\ Cached # 0
  \/ k = "prewarm" /\ cache.tok # 0 /\ cache.age = "young"

(* Up to the flight: the cached value, or the instant of the last            *)
(* publication is noted.                                                     *)
Enter(a) ==
  /\ prep[a].pc = "enter"
  /\ prep' = IF Hit(prep[a].key) THEN Done(a, cache.tok, "none")
             ELSE [prep EXCEPT ![a].pc = "join", ![a].entryAt = cache.at]
  /\ UNCHANGED <<session, cache, site, flight, turn, client, cast>>

(* DoChan: join the flight of the key, or lead a new one, whose function     *)
(* runs under the leader's context.  It looks at the cache once more, except *)
(* the pre-warmer's.                                                         *)
Led(a) ==
  LET k == prep[a].key
      f == [NoFlight EXCEPT !.leader = a, !.entryAt = prep[a].entryAt]
  IN IF k # "prewarm" /\ Hit(k)
     THEN [f EXCEPT !.phase = "landed", !.tok = cache.tok]
     ELSE [f EXCEPT !.phase = "chain"]

Join(a) ==
  /\ prep[a].pc = "join"
  /\ prep' = [prep EXCEPT ![a].pc = "wait", ![a].entryAt = 0]
  /\ flight' = IF flight[prep[a].key].phase # "none" THEN flight
               ELSE [flight EXCEPT ![prep[a].key] = Led(a)]
  /\ UNCHANGED <<session, cache, site, turn, client, cast>>

(* POST auth/session has succeeded.                                          *)
SessionMinted ==
  /\ flight["session"].phase = "chain"
  /\ session' = TRUE
  /\ flight' = [flight EXCEPT !["session"].phase = "landed"]
  /\ UNCHANGED <<cache, site, prep, turn, client, cast>>

(* backend/1/new: the site makes a sandbox, which the rest of the chain      *)
(* readies.                                                                  *)
Make(k) ==
  /\ k # "session" /\ flight[k].phase = "chain" /\ made < MaxSandboxes
  /\ made' = made + 1
  /\ flight' = [flight EXCEPT ![k].phase = "ready", ![k].tok = made']
  /\ UNCHANGED <<session, cache, published, prep, turn, client, cast>>

(* mutant of Newer: whoever is ready publishes *)
NewerNever(k) == FALSE

(* Another sandbox was published since this flight was entered.              *)
Newer(k) == cache.at > flight[k].entryAt

(* publishSandboxAt: the sandbox is dropped for a newer one.                 *)
Publish(k) ==
  /\ flight[k].phase = "ready"
  /\ IF Newer(k)
     THEN /\ flight' = [flight EXCEPT ![k].phase = "landed",
                                      ![k].tok = cache.tok]
          /\ UNCHANGED <<cache, published>>
     ELSE /\ published' = published + 1
          /\ cache' = [tok |-> flight[k].tok, at |-> published',
                       age |-> "young"]
          /\ flight' = [flight EXCEPT ![k].phase = "landed"]
  /\ UNCHANGED <<session, made, prep, turn, client, cast>>

Delivered(k, tok, err) ==
  [a \in Preparers |->
     IF prep[a].pc = "wait" /\ prep[a].key = k
     THEN [Idle EXCEPT !.pc = "done", !.key = k, !.tok = tok, !.err = err]
     ELSE prep[a]]

(* The flight leaves the map and every waiter has its result.                *)
Land(k) ==
  /\ flight[k].phase = "landed"
  /\ prep' = Delivered(k, flight[k].tok, "none")
  /\ flight' = [flight EXCEPT ![k] = NoFlight]
  /\ UNCHANGED <<session, cache, site, turn, client, cast>>

(* A call of the chain fails, at the latest because the leader's context is  *)
(* done: every waiter gets that error.                                       *)
ChainFails(k) ==
  /\ flight[k].phase \in {"chain", "ready"}
  /\ \E err \in {"upstream", flight[k].dead} \ {"no"} :
       prep' = Delivered(k, 0, err)
  /\ flight' = [flight EXCEPT ![k] = NoFlight]
  /\ UNCHANGED <<session, cache, site, turn, client, cast>>

(* mutant of Budgeted: only the sweep's two minutes bound a preparation *)
BudgetedSweep(a) == a = Prewarmer

(* A deadline of its own: withWarmupBudget, or the pre-warmer's two minutes. *)
Budgeted(a) == a = Prewarmer \/ prep[a].key = "sandbox"

(* A waiter's context ends: its client has gone, or its time is up, which    *)
(* withWarmupBudget reports as a degraded upstream.  If it leads the flight, *)
(* the chain's context ends with it.                                         *)
Leave(a) ==
  /\ prep[a].pc = "wait" /\ (Budgeted(a) \/ ~Here(a))
  /\ LET why == IF Here(a) THEN "deadline" ELSE "canceled"
         k   == prep[a].key
     IN /\ prep' = Done(a, 0, IF why = "deadline" /\ k = "sandbox"
                              THEN "degraded" ELSE why)
        /\ flight' = IF flight[k].phase # "none" /\ flight[k].leader = a
                     THEN [flight EXCEPT ![k].dead = why] ELSE flight
  /\ UNCHANGED <<session, cache, site, turn, client, cast>>
-----------------------------------------------------------------------------
(* mutant of Cleared: the instant of the publication stays *)
ClearedTokenOnly == [cache EXCEPT !.tok = 0, !.age = "expired"]

(* invalidateSandbox clears whatever is cached and, unless a storm is on,    *)
(* starts a goroutine that prepares anew.                                    *)
Cleared == NoCache

Invalidate ==
  /\ cache' = Cleared
  /\ \/ UNCHANGED prep                                        \* StormOpen
     \/ \E c \in Recasters \cap cast :
          /\ prep[c].pc \in {"idle", "done"}
          /\ prep' = Sent(c, "sandbox")

Over(out) == [Fresh EXCEPT !.at = "end", !.out = out]

Ends(r, out) == turn' = [turn EXCEPT ![r] = Over(out)]

(* The next attempt, if there is one and the client waits for it.            *)
Again(r, t) ==
  turn' = [turn EXCEPT ![r] =
    IF t.attempt = Attempts THEN Over("error")
    ELSE IF ~client[r] THEN Over("canceled")
    ELSE [t EXCEPT !.at = "attempt", !.attempt = @ + 1, !.tries = 0, !.tok = 0]]

(* Client.Stream: the session first; a failure ends the turn.                *)
Bootstrap(r) ==
  /\ r \in cast /\ turn[r].at = "session"
  /\ \/ /\ prep[r].pc = "idle"
        /\ prep' = Sent(r, "session")
        /\ UNCHANGED turn
     \/ /\ prep[r].pc = "done"
        /\ prep' = [prep EXCEPT ![r] = Idle]
        /\ IF prep[r].err = "none"
           THEN turn' = [turn EXCEPT ![r].at = "attempt"]
           ELSE Ends(r, prep[r].err)
  /\ UNCHANGED <<session, cache, site, flight, client, cast>>

(* An attempt takes the cached sandbox, or prepares one.                     *)
Attempt(r) ==
  /\ turn[r].at = "attempt"
  /\ IF Cached # 0
     THEN /\ turn' = [turn EXCEPT ![r].at = "start", ![r].tok = cache.tok]
          /\ UNCHANGED prep
     ELSE /\ turn' = [turn EXCEPT ![r].at = "prepare"]
          /\ prep' = Sent(r, "sandbox")
  /\ UNCHANGED <<session, cache, site, flight, client, cast>>

(* The preparation of an attempt has ended; a failed one is tried again.     *)
Prepared(r) ==
  /\ turn[r].at = "prepare" /\ prep[r].pc = "done"
  /\ LET p == prep[r] IN
     \/ /\ p.err = "none"
        /\ turn' = [turn EXCEPT ![r].at = "start", ![r].tok = p.tok]
        /\ prep' = [prep EXCEPT ![r] = Idle]
     \/ /\ p.err # "none"
        /\ turn[r].tries = PrepareRetries \/ ~client[r]
        /\ Ends(r, IF client[r] THEN p.err ELSE "canceled")
        /\ prep' = [prep EXCEPT ![r] = Idle]
     \/ /\ p.err # "none" /\ turn[r].tries < PrepareRetries /\ client[r]
        /\ turn' = [turn EXCEPT ![r].tries = @ + 1]
        /\ prep' = Sent(r, "sandbox")
  /\ UNCHANGED <<session, cache, site, flight, client, cast>>

(* An answer takes a round trip, longer than a landed flight stays in the    *)
(* map: the flight that published this sandbox is gone.                      *)
RoundTrip(r) ==
  turn[r].at = "start" /\ \A k \in Keys : flight[k].phase = "landed" =>
                                          flight[k].tok # turn[r].tok

Started(r) ==
  /\ RoundTrip(r) /\ Ends(r, "ok")
  /\ UNCHANGED <<session, cache, site, flight, prep, client, cast>>

(* 4xx, or an error in the body that is the request's fault.                 *)
Refused(r) ==
  /\ RoundTrip(r) /\ Ends(r, "error")
  /\ UNCHANGED <<session, cache, site, flight, prep, client, cast>>

(* No sentinel token: the attempt is skipped.                                *)
NoTicket(r) ==
  /\ turn[r].at = "start"
  /\ Again(r, turn[r])
  /\ UNCHANGED <<session, cache, site, flight, prep, client, cast>>

GivesUp(t) == [t EXCEPT !.gaveUp = @ \cup {t.tok}]

(* No response.  The first time in a row the sandbox is kept.                *)
TransportFails(r) ==
  /\ RoundTrip(r)
  /\ LET t == [turn[r] EXCEPT !.fails = @ + 1] IN
     IF ~client[r] THEN Ends(r, "canceled") /\ UNCHANGED <<cache, prep>>
     ELSE IF t.fails < 2 THEN Again(r, t) /\ UNCHANGED <<cache, prep>>
     ELSE Again(r, GivesUp(t)) /\ Invalidate
  /\ UNCHANGED <<session, site, flight, client, cast>>

(* 5xx, or an error in the body that a new sandbox may cure.                 *)
ServerFails(r) ==
  /\ RoundTrip(r)
  /\ Again(r, GivesUp([turn[r] EXCEPT !.fails = 0])) /\ Invalidate
  /\ UNCHANGED <<session, site, flight, client, cast>>

(* The sandbox is not ready: the same one is tried again.                    *)
Reconnecting(r) ==
  /\ RoundTrip(r) /\ turn[r].reconnects < MaxReconnects
  /\ Again(r, [turn[r] EXCEPT !.fails = 0, !.reconnects = @ + 1])
  /\ UNCHANGED <<session, cache, site, flight, prep, client, cast>>

ClientLeaves(r) ==
  /\ r \in cast /\ client[r] /\ turn[r].at # "end"
  /\ client' = [client EXCEPT ![r] = FALSE]
  /\ UNCHANGED <<session, cache, site, flight, prep, turn, cast>>

(* Client.Prewarm, by a sweep or by the hook on an enabled account: the      *)
(* session, then the sandbox by its age.                                     *)
Prewarm ==
  /\ Prewarmer \in cast /\ made < MaxSandboxes
  /\ LET p == prep[Prewarmer] IN
     \/ /\ p.pc = "idle" \/ (p.pc = "done" /\ p.key = "prewarm")
        /\ prep' = Sent(Prewarmer, "session")
     \/ /\ p.pc = "done" /\ p.key = "session"
        /\ prep' = IF p.err = "none" THEN Sent(Prewarmer, "prewarm")
                   ELSE [prep EXCEPT ![Prewarmer] = Idle]
  /\ UNCHANGED <<session, cache, site, flight, turn, client, cast>>

RequestStep(r) ==
  \/ Bootstrap(r) \/ Attempt(r) \/ Prepared(r) \/ Started(r) \/ Refused(r) \/ NoTicket(r)
  \/ TransportFails(r) \/ ServerFails(r) \/ Reconnecting(r)

SandboxNext ==
  \/ Ages \/ Prewarm \/ SessionMinted
  \/ \E a \in Preparers : Enter(a) \/ Join(a) \/ Leave(a)
  \/ \E k \in Keys : Make(k) \/ Publish(k) \/ Land(k) \/ ChainFails(k)
  \/ \E r \in Requests : RequestStep(r) \/ ClientLeaves(r)

SandboxSpec == SandboxInit /\ [][SandboxNext]_sandboxVars

(* Deadlines pass, calls end by the client's timeout (a chain that hangs is  *)
(* ended by its leader's context only, for the session by the time-out of    *)
(* its calls), and the goroutines of a turn go on.                           *)
SandboxFairness ==
  /\ \A a \in Requests \cup Recasters :
       WF_sandboxVars(Enter(a) \/ Join(a) \/ Leave(a))
  /\ \A k \in Keys : WF_sandboxVars(Land(k))
  /\ WF_sandboxVars(ChainFails("session"))
  /\ \A r \in Requests : WF_sandboxVars(RequestStep(r))

SandboxFairSpec == SandboxSpec /\ SandboxFairness
-----------------------------------------------------------------------------
SandboxTypeOK ==
  /\ session \in BOOLEAN
  /\ cache \in [tok : Numbers, at : Numbers,
                age : {"young", "old", "expired"}]
  /\ made \in Numbers /\ published \in 0..made
  /\ flight \in [Keys -> [phase : {"none", "chain", "ready", "landed"},
                         leader : Preparers, entryAt : Numbers, tok : Numbers,
                         dead : {"no", "canceled", "deadline"}]]
  /\ prep \in [Preparers -> [pc : {"idle", "enter", "join", "wait", "done"},
                             key : Keys, entryAt : Numbers, tok : Numbers,
                             err : Errors \cup {"none"}]]
  /\ turn \in [Requests ->
                [at : {"session", "attempt", "prepare", "start", "end"},
                 attempt : 1..Attempts, tries : 0..PrepareRetries,
                 fails : 0..Attempts, reconnects : 0..MaxReconnects,
                 tok : Numbers, gaveUp : SUBSET Numbers,
                 out : Errors \cup {"none", "ok", "error"}]]
  /\ client \in [Requests -> BOOLEAN] /\ cast \subseteq Preparers

(* The flights of requests and of the pre-warmer run side by side, and the   *)
(* slower one never puts an older sandbox in the place of a newer one        *)
(* (publishSandboxAt's generation guard, across invalidations).              *)
NeverOlder ==
  [][cache.tok # 0 /\ cache'.tok # 0 => cache'.tok >= cache.tok]_sandboxVars

(* A start is never sent without a sandbox, nor with one that the turn has   *)
(* given up (5xx, or no response twice in a row): whoever joins a flight,    *)
(* and whatever is cleared meanwhile, storm or no storm, has a sandbox that  *)
(* is not one of those when the flight lands.                                *)
StartHasSandbox ==
  \A r \in Requests :
    turn[r].at = "start" => turn[r].tok # 0 /\ turn[r].tok \notin turn[r].gaveUp

(* Every turn comes to its end, although a chain may hang in the upstream    *)
(* and its leader may be another request or a recast.                        *)
TurnsEnd == \A r \in Requests : r \in cast ~> turn[r].at = "end"

(* A turn is reported cancelled only if its own client has left.  Fails: the *)
(* followers of a flight get the cancellation of the leader's client.        *)
CanceledByOwnClient ==
  \A r \in Requests : turn[r].out = "canceled" => ~client[r]

(* What a warm-up budget ends is reported as a degraded upstream, to every   *)
(* turn that waited.  Fails: only the leader's own budget is translated.     *)
DeadlineMeansDegraded == \A r \in Requests : turn[r].out # "deadline"

(* A sandbox is cleared for its own failures only.  Fails: a failure that    *)
(* comes late clears the sandbox prepared meanwhile.                         *)
ClearedForItself ==
  [][\A r \in Requests :
       turn'[r].gaveUp # turn[r].gaveUp /\ cache.tok # 0
         => cache.tok = turn[r].tok]_sandboxVars
=============================================================================
