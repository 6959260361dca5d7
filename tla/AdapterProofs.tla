--------------------------- MODULE AdapterProofs ----------------------------
(* Proofs about the machines of the adapter: the session and the sandbox of  *)
(* an account, for any number of requests, recasts, attempts and sandboxes;  *)
(* a turn keeps the contract of Stream; tokens, files and sandboxes go along *)
(* with a turn as they should; and how old a sandbox may get that the sweeps *)
(* are to keep warm.                                                         *)
EXTENDS MCAdapter, TLAPS, SequenceTheorems, FiniteSetTheorems

-----------------------------------------------------------------------------
(* The session and the sandbox (Sandbox): the inductive invariant.           *)

CacheType == [tok : Numbers, at : Numbers, age : {"young", "old", "expired"}]
FlightType ==
  [phase : {"none", "chain", "ready", "landed"}, leader : Preparers, entryAt : Numbers,
   tok : Numbers, dead : {"no", "canceled", "deadline"}]
PrepType ==
  [pc : {"idle", "enter", "join", "wait", "done"}, key : Keys, entryAt : Numbers,
   tok : Numbers, err : Errors \cup {"none"}]
TurnType ==
  [at : {"session", "attempt", "prepare", "start", "end"}, attempt : 1..Attempts,
   tries : 0..PrepareRetries, fails : 0..Attempts, reconnects : 0..MaxReconnects,
   tok : Numbers, gaveUp : SUBSET Numbers, out : Errors \cup {"none", "ok", "error"}]

SandboxTyped ==
  /\ session \in BOOLEAN /\ cache \in CacheType
  /\ made \in Numbers /\ published \in Nat
  /\ flight \in [Keys -> FlightType]
  /\ prep \in [Preparers -> PrepType]
  /\ turn \in [Requests -> TurnType]
  /\ client \in [Requests -> BOOLEAN] /\ cast \subseteq Preparers

IsReady(k) == flight[k].phase = "ready"
IsOne(k) == IF IsReady(k) THEN 1 ELSE 0

(* What is published was made, one publication for a sandbox.                *)
PublishedAreMade ==
  /\ published + IsOne("sandbox") + IsOne("prewarm") <= made
  /\ ~IsReady("session")
  /\ \A r \in Requests : turn[r].fails < turn[r].attempt

(* What the cache, the flights and the preparers hold was made, and the      *)
(* publication they have seen has happened.                                  *)
KnownWasMade ==
  /\ cache.tok <= made /\ cache.at <= published /\ (cache.tok = 0 <=> cache.at = 0)
  /\ \A k \in Keys : flight[k].tok <= made /\ flight[k].entryAt <= published
  /\ \A a \in Preparers : prep[a].tok <= made /\ prep[a].entryAt <= published
  /\ \A r \in Requests :
       turn[r].tok <= made /\ \A t \in turn[r].gaveUp : t # 0 /\ t <= made

(* A sandbox that waits to be published is nobody's yet, and was made after  *)
(* any that its flight has seen in the cache.                                *)
ReadyIsNew ==
  \A k \in Keys : IsReady(k) =>
    /\ flight[k].tok # 0 /\ flight[k].tok # cache.tok
    /\ \A l \in Keys : l # k => flight[l].tok # flight[k].tok
    /\ \A a \in Preparers : prep[a].tok # flight[k].tok
    /\ \A r \in Requests : turn[r].tok # flight[k].tok /\ flight[k].tok \notin turn[r].gaveUp
    /\ cache.tok # 0 /\ cache.at <= flight[k].entryAt => cache.tok < flight[k].tok

(* Whoever waits has a flight, and what lands or is handed over is there.    *)
FlightsDeliver ==
  /\ \A k \in Keys :
       /\ k # "session" /\ flight[k].phase = "landed" => flight[k].tok # 0
       /\ flight[k].phase \in {"none", "chain"} => flight[k].tok = 0
  /\ \A a \in Preparers :
       /\ prep[a].pc = "wait" => flight[prep[a].key].phase # "none"
       /\ prep[a].pc = "done" /\ prep[a].key # "session" /\ prep[a].err = "none"
            => prep[a].tok # 0

(* A turn's own preparation, and what it holds.                              *)
OwnPreparation ==
  \A r \in Requests :
    /\ turn[r].at \in {"attempt", "start", "end"} => prep[r].pc = "idle" /\ prep[r].tok = 0
    /\ turn[r].at = "session" => prep[r].key = "session"
    /\ turn[r].at = "prepare" => prep[r].key = "sandbox"

(* What a turn has given up is nowhere that it could come from again.        *)
GaveUpIsGone ==
  \A r \in Requests : \A t \in turn[r].gaveUp :
    /\ cache.tok # t /\ prep[r].tok # t
    /\ \A k \in Keys : flight[k].phase = "landed" => flight[k].tok # t

SandboxInv ==
  /\ SandboxTyped /\ PublishedAreMade /\ KnownWasMade /\ ReadyIsNew
  /\ FlightsDeliver /\ OwnPreparation /\ GaveUpIsGone /\ StartHasSandbox

-----------------------------------------------------------------------------
(* Fields of what is typed.                                                  *)

LEMMA CacheFields ==
  SandboxTyped => /\ cache.tok \in Nat /\ cache.at \in Nat /\ cache.tok <= MaxSandboxes
                  /\ cache.tok \in Numbers /\ cache.at \in Numbers
                  /\ cache.age \in {"young", "old", "expired"}
                  /\ made \in Nat /\ made <= MaxSandboxes /\ published \in Nat
BY SandboxAssumption DEF SandboxTyped, CacheType, Numbers

LEMMA FlightFields ==
  ASSUME SandboxTyped, NEW k \in Keys
  PROVE  /\ flight[k].tok \in Numbers /\ flight[k].entryAt \in Numbers
         /\ flight[k].tok \in Nat /\ flight[k].entryAt \in Nat
         /\ flight[k].phase \in {"none", "chain", "ready", "landed"}
         /\ flight[k].leader \in Preparers /\ flight[k].dead \in {"no", "canceled", "deadline"}
<1>1. flight[k] \in FlightType
  BY DEF SandboxTyped
<1> QED
  BY <1>1, SandboxAssumption DEF FlightType, Numbers

LEMMA PrepFields ==
  ASSUME SandboxTyped, NEW a \in Preparers
  PROVE  /\ prep[a].tok \in Numbers /\ prep[a].entryAt \in Numbers
         /\ prep[a].tok \in Nat /\ prep[a].entryAt \in Nat
         /\ prep[a].pc \in {"idle", "enter", "join", "wait", "done"} /\ prep[a].key \in Keys
         /\ prep[a].err \in Errors \cup {"none"}
<1>1. prep[a] \in PrepType
  BY DEF SandboxTyped
<1> QED
  BY <1>1, SandboxAssumption DEF PrepType, Numbers

LEMMA TurnFields ==
  ASSUME SandboxTyped, NEW r \in Requests
  PROVE  /\ turn[r].at \in {"session", "attempt", "prepare", "start", "end"}
         /\ turn[r].attempt \in 1..Attempts /\ turn[r].tries \in 0..PrepareRetries
         /\ turn[r].fails \in 0..Attempts /\ turn[r].reconnects \in 0..MaxReconnects
         /\ turn[r].tok \in Numbers /\ turn[r].tok \in Nat
         /\ turn[r].gaveUp \in SUBSET Numbers
         /\ turn[r].out \in Errors \cup {"none", "ok", "error"}
<1>1. turn[r] \in TurnType
  BY DEF SandboxTyped
<1> QED
  BY <1>1, SandboxAssumption DEF TurnType, Numbers

Result(k, tok, err) == [Idle EXCEPT !.pc = "done", !.key = k, !.tok = tok, !.err = err]
SetOut(k) == [Idle EXCEPT !.pc = "enter", !.key = k]

LEMMA ResultFields ==
  ASSUME NEW k \in Keys, NEW t \in Numbers, NEW e \in Errors \cup {"none"}
  PROVE  /\ Result(k, t, e) \in PrepType /\ Result(k, t, e).pc = "done" /\ Result(k, t, e).key = k
         /\ Result(k, t, e).tok = t /\ Result(k, t, e).err = e /\ Result(k, t, e).entryAt = 0
<1>1. 0 \in Numbers
  BY SandboxAssumption DEF Numbers
<1> QED
  BY <1>1 DEF Idle, PrepType, Keys, Result

LEMMA SetOutFields ==
  /\ \A k \in Keys : /\ SetOut(k) \in PrepType /\ SetOut(k).pc = "enter" /\ SetOut(k).key = k
                     /\ SetOut(k).tok = 0 /\ SetOut(k).entryAt = 0
  /\ Idle \in PrepType /\ Idle.pc = "idle" /\ Idle.tok = 0 /\ Idle.entryAt = 0
<1>1. 0 \in Numbers
  BY SandboxAssumption DEF Numbers
<1> QED
  BY <1>1 DEF Idle, PrepType, Keys, SetOut

LEMMA SandboxInvInit == SandboxInit => SandboxInv
<1> SUFFICES ASSUME SandboxInit
             PROVE  SandboxInv
  OBVIOUS
<1>0. 0 \in Numbers /\ MaxSandboxes \in Nat
  BY SandboxAssumption DEF Numbers
<1>1. /\ NoCache \in CacheType /\ NoFlight \in FlightType /\ Idle \in PrepType
      /\ Fresh \in TurnType
  <2>1. NoCache \in CacheType
    BY <1>0 DEF NoCache, CacheType
  <2>2. NoFlight \in FlightType
    BY <1>0 DEF NoFlight, FlightType, Preparers
  <2>3. Idle \in PrepType
    BY <1>0 DEF Idle, PrepType, Keys
  <2>4. 1 \in 1..Attempts /\ 0 \in 0..PrepareRetries /\ 0 \in 0..Attempts /\ 0 \in 0..MaxReconnects
    BY SandboxAssumption
  <2>5. Fresh \in TurnType
    BY <1>0, <2>4 DEF Fresh, TurnType
  <2> QED
    BY <2>1, <2>2, <2>3, <2>5
<1>2. SandboxTyped
  <2>1. cast \subseteq Preparers /\ session \in BOOLEAN
    BY SandboxAssumption DEF SandboxInit, Preparers
  <2> QED
    BY <1>0, <1>1, <2>1 DEF SandboxInit, SandboxTyped
<1>3. PublishedAreMade /\ KnownWasMade
  BY DEF SandboxInit, PublishedAreMade, KnownWasMade, IsReady, IsOne, NoCache, NoFlight, Idle,
         Fresh, Keys
<1>4. ReadyIsNew /\ FlightsDeliver /\ OwnPreparation /\ GaveUpIsGone /\ StartHasSandbox
  BY DEF SandboxInit, ReadyIsNew, FlightsDeliver, OwnPreparation, GaveUpIsGone, StartHasSandbox,
         IsReady, NoFlight, Idle, Fresh, Preparers
<1> QED
  BY <1>2, <1>3, <1>4 DEF SandboxInv
-----------------------------------------------------------------------------
(* Steps that keep the invariant, by what they change.                       *)

Nobody(a) == prep[a].tok = 0 /\ prep[a].entryAt = 0 /\ prep[a].pc \in {"idle", "enter"}

(* The step of a turn: it may give up its sandbox, which clears the cache,   *)
(* and preparations are dropped or set out.                                  *)
LEMMA TurnMoves ==
  ASSUME SandboxInv, SandboxTyped', NEW r \in Requests, UNCHANGED <<site, flight>>,
         cache' = cache \/ cache' = NoCache,
         \A q \in Requests : q # r => turn'[q] = turn[q],
         \A a \in Preparers :
           prep'[a] = prep[a] \/ (Nobody(a)' /\ (a = r \/ a \notin Requests)),
         turn'[r].fails < turn'[r].attempt,
         turn'[r].tok \in {0, turn[r].tok, cache.tok, prep[r].tok},
         \/ turn'[r].gaveUp \subseteq turn[r].gaveUp
         \/ /\ turn'[r].gaveUp \subseteq turn[r].gaveUp \cup {turn[r].tok}
            /\ turn[r].at = "start" /\ cache' = NoCache /\ prep'[r] = prep[r]
            /\ \A k \in Keys : flight[k].phase = "landed" => flight[k].tok # turn[r].tok,
         turn'[r].at \in {"attempt", "start", "end"} => prep'[r].pc = "idle" /\ prep'[r].tok = 0,
         turn'[r].at = "session" => prep'[r].key = "session",
         turn'[r].at = "prepare" => prep'[r].key = "sandbox",
         turn'[r].at = "start" => turn'[r].tok # 0 /\ turn'[r].tok \notin turn'[r].gaveUp
  PROVE  SandboxInv'
<1> USE DEF SandboxInv
<1>1. made' = made /\ published' = published /\ flight' = flight
  BY DEF site
<1>2. cache'.tok \in {0, cache.tok} /\ cache'.at \in {0, cache.at}
  BY DEF NoCache
<1>3. \A t \in turn'[r].gaveUp : t \in turn[r].gaveUp \/ (t = turn[r].tok /\ t # 0 /\ turn[r].at = "start")
  BY DEF StartHasSandbox
<1>4. \A a \in Preparers : prep'[a].tok \in {0, prep[a].tok}
  BY DEF Nobody
<1>5. r \in Preparers
  BY DEF Preparers
<1>6. PublishedAreMade'
  BY <1>1 DEF PublishedAreMade, IsReady, IsOne
<1>7. KnownWasMade'
  <2>1. cache'.tok <= made /\ cache'.at <= published /\ (cache'.tok = 0 <=> cache'.at = 0)
    BY CacheFields DEF KnownWasMade, NoCache
  <2>2. \A a \in Preparers : prep'[a].tok <= made /\ prep'[a].entryAt <= published
    BY CacheFields DEF KnownWasMade, Nobody
  <2>3. turn'[r].tok <= made /\ \A t \in turn'[r].gaveUp : t # 0 /\ t <= made
    BY <1>3, <1>5, CacheFields DEF KnownWasMade
  <2> QED
    BY <1>1, <2>1, <2>2, <2>3 DEF KnownWasMade
<1>8. ReadyIsNew'
  BY <1>1, <1>2, <1>3, <1>4, <1>5 DEF ReadyIsNew, IsReady, NoCache
<1>9. FlightsDeliver'
  BY <1>1 DEF FlightsDeliver, Nobody
<1>10. \A q \in Requests : q # r => turn'[q] = turn[q] /\ prep'[q] = prep[q]
  BY DEF Preparers
<1>11. OwnPreparation'
  BY <1>10 DEF OwnPreparation
<1>12. GaveUpIsGone'
  <2>1. \A q \in Requests : \A t \in turn[q].gaveUp : t # 0
    BY DEF KnownWasMade
  <2>2. CASE turn'[r].gaveUp \subseteq turn[r].gaveUp
    BY <1>1, <1>2, <1>4, <1>5, <1>10, <2>1, <2>2 DEF GaveUpIsGone
  <2>3. CASE ~(turn'[r].gaveUp \subseteq turn[r].gaveUp)
    <3>1. prep'[r].tok = 0 /\ turn[r].tok # 0
      BY <2>3 DEF OwnPreparation, StartHasSandbox
    <3> QED
      BY <1>1, <1>2, <1>3, <1>10, <2>1, <2>3, <3>1 DEF GaveUpIsGone, NoCache
  <2> QED
    BY <2>2, <2>3
<1>13. StartHasSandbox'
  BY DEF StartHasSandbox
<1> QED
  BY <1>6, <1>7, <1>8, <1>9, <1>11, <1>12, <1>13

(* A preparer finds the cached value, or is told that there is none.         *)
LEMMA PreparerMoves ==
  ASSUME SandboxInv, SandboxTyped', UNCHANGED <<cache, site, turn>>,
         \A k \in Keys : /\ flight'[k].phase = flight[k].phase /\ flight'[k].tok = flight[k].tok
                         /\ flight'[k].entryAt = flight[k].entryAt,
         \A a \in Preparers : prep'[a] = prep[a] \/
           /\ prep'[a].tok \in {0, cache.tok, prep[a].tok} /\ prep'[a].entryAt \in {0, cache.at}
           /\ prep'[a].pc # "wait"
           /\ prep'[a].pc = "done" /\ prep'[a].key # "session" /\ prep'[a].err = "none"
                => prep'[a].tok # 0
           /\ a \in Requests => prep'[a].key = prep[a].key /\ prep[a].pc # "idle"
  PROVE  SandboxInv'
<1> USE DEF SandboxInv
<1>1. made' = made /\ published' = published
  BY DEF site
<1>2. \A k \in Keys : IsReady(k)' <=> IsReady(k)
  BY DEF IsReady
<1>3. Requests \subseteq Preparers /\ Keys = {"session", "sandbox", "prewarm"}
  BY DEF Preparers, Keys
<1>4. PublishedAreMade'
  BY <1>1, <1>2, <1>3 DEF PublishedAreMade, IsOne
<1>5. KnownWasMade'
  BY <1>1, CacheFields DEF KnownWasMade
<1>6. ReadyIsNew'
  BY <1>1, <1>2 DEF ReadyIsNew
<1>7. FlightsDeliver'
  BY PrepFields DEF FlightsDeliver
<1>8. OwnPreparation'
  BY <1>3 DEF OwnPreparation
<1>9. GaveUpIsGone'
  <2>1. \A r \in Requests : \A t \in turn[r].gaveUp : t # 0
    BY DEF KnownWasMade
  <2> QED
    BY <1>3, <2>1 DEF GaveUpIsGone
<1>10. StartHasSandbox'
  BY DEF StartHasSandbox
<1> QED
  BY <1>4, <1>5, <1>6, <1>7, <1>8, <1>9, <1>10

LEMMA EnterKeeps ==
  ASSUME SandboxInv, NEW a \in Preparers, Enter(a)
  PROVE  SandboxInv'
<1> USE DEF SandboxInv
<1>1. CASE Hit(prep[a].key)
  <2> DEFINE p == Result(prep[a].key, cache.tok, "none")
  <2>1. prep' = [prep EXCEPT ![a] = p] /\ UNCHANGED <<session, cache, site, flight, turn, client, cast>>
    BY <1>1 DEF Enter, Done, Result
  <2>2. /\ p \in PrepType /\ p.tok = cache.tok /\ p.entryAt = 0 /\ p.pc = "done"
        /\ p.key = prep[a].key
    BY CacheFields, PrepFields, ResultFields
  <2>3. SandboxTyped'
    BY <2>1, <2>2 DEF SandboxTyped, site
  <2>4. prep[a].pc # "idle" /\ (prep[a].key # "session" => cache.tok # 0)
    BY <1>1 DEF Enter, Hit, Cached
  <2> QED
    BY <2>1, <2>2, <2>3, <2>4, PreparerMoves DEF SandboxTyped
<1>2. CASE ~Hit(prep[a].key)
  <2> DEFINE p == [prep[a] EXCEPT !.pc = "join", !.entryAt = cache.at]
  <2>1. prep' = [prep EXCEPT ![a] = p] /\ UNCHANGED <<session, cache, site, flight, turn, client, cast>>
    BY <1>2 DEF Enter, SandboxTyped
  <2>2. /\ p \in PrepType /\ p.tok = prep[a].tok /\ p.entryAt = cache.at /\ p.pc = "join"
        /\ p.key = prep[a].key
    BY CacheFields DEF SandboxTyped, PrepType
  <2>3. SandboxTyped'
    BY <2>1, <2>2 DEF SandboxTyped, site
  <2>4. prep[a].pc # "idle"
    BY DEF Enter
  <2> QED
    BY <2>1, <2>2, <2>3, <2>4, PreparerMoves DEF SandboxTyped
<1> QED
  BY <1>1, <1>2

LEMMA PrewarmKeeps ==
  ASSUME SandboxInv, Prewarm
  PROVE  SandboxInv'
<1> USE DEF SandboxInv
<1>1. PICK p : /\ prep' = [prep EXCEPT ![Prewarmer] = p]
               /\ p = Idle \/ \E k \in {"session", "prewarm"} : p = SetOut(k)
  BY DEF Prewarm, Sent, SetOut
<1>2. UNCHANGED <<session, cache, site, flight, turn, client, cast>>
  BY DEF Prewarm
<1>3. p \in PrepType /\ p.tok = 0 /\ p.entryAt = 0 /\ p.pc \in {"idle", "enter"}
  BY <1>1, SetOutFields DEF Keys
<1>4. SandboxTyped'
  BY <1>1, <1>2, <1>3 DEF SandboxTyped, site
<1>5. Prewarmer \notin Requests
  BY SandboxAssumption
<1> QED
  BY <1>1, <1>2, <1>3, <1>4, <1>5, PreparerMoves DEF SandboxTyped

LEMMA LeaveKeeps ==
  ASSUME SandboxInv, NEW a \in Preparers, Leave(a)
  PROVE  SandboxInv'
<1> USE DEF SandboxInv
<1> DEFINE why == IF Here(a) THEN "deadline" ELSE "canceled"
           err == IF why = "deadline" /\ prep[a].key = "sandbox" THEN "degraded" ELSE why
           p == Result(prep[a].key, 0, err)
<1>1. /\ prep' = [prep EXCEPT ![a] = p] /\ prep[a].pc = "wait"
      /\ UNCHANGED <<session, cache, site, turn, client, cast>>
  BY DEF Leave, Done, Result
<1>2. /\ p \in PrepType /\ p.tok = 0 /\ p.entryAt = 0 /\ p.pc = "done" /\ p.key = prep[a].key
      /\ p.err # "none"
  <2>1. err \in Errors \cup {"none"} /\ err # "none" /\ prep[a].key \in Keys /\ 0 \in Numbers
    BY PrepFields, SandboxAssumption DEF Errors, Numbers
  <2> HIDE DEF err
  <2> QED
    BY <2>1, ResultFields
<1>3. prep[a].key \in Keys
  BY PrepFields
<1>4. PICK k \in Keys : flight' \in {flight, [flight EXCEPT ![k].dead = why]}
  BY <1>3 DEF Leave
<1>5. \A l \in Keys : /\ flight'[l].phase = flight[l].phase /\ flight'[l].tok = flight[l].tok
                      /\ flight'[l].entryAt = flight[l].entryAt
  BY <1>4 DEF SandboxTyped, FlightType
<1>6. flight' \in [Keys -> FlightType]
  <2>1. [flight[k] EXCEPT !.dead = why] \in FlightType
    BY DEF SandboxTyped, FlightType
  <2> QED
    BY <1>4, <2>1 DEF SandboxTyped
<1>7. SandboxTyped'
  BY <1>1, <1>2, <1>6 DEF SandboxTyped, site
<1> QED
  BY <1>1, <1>2, <1>5, <1>7, PreparerMoves DEF SandboxTyped

(* A flight begins or lands with what the cache has, or with nothing.        *)
LEMMA FlightMoves ==
  ASSUME SandboxInv, SandboxTyped', UNCHANGED <<cache, site, turn>>, NEW k \in Keys,
         \A l \in Keys : l # k => flight'[l] = flight[l],
         \/ flight'[k] = flight[k]
         \/ /\ ~IsReady(k) /\ flight'[k].phase \in {"chain", "landed"}
            /\ flight'[k].tok \in {0, cache.tok} /\ flight'[k].entryAt <= published
            /\ k # "session" /\ flight'[k].phase = "landed" => flight'[k].tok # 0
            /\ flight'[k].phase = "chain" => flight'[k].tok = 0,
         \A a \in Preparers : prep'[a] = prep[a] \/
           /\ prep'[a].tok = prep[a].tok /\ prep'[a].entryAt = 0 /\ prep'[a].key = prep[a].key
           /\ prep'[a].pc = "wait" /\ prep[a].pc # "idle" /\ flight'[prep[a].key].phase # "none"
  PROVE  SandboxInv'
<1> USE DEF SandboxInv
<1>1. made' = made /\ published' = published
  BY DEF site
<1>2. \A l \in Keys : (IsReady(l)' <=> IsReady(l)) /\ (IsReady(l) => flight'[l] = flight[l])
  BY DEF IsReady
<1>3. Requests \subseteq Preparers /\ Keys = {"session", "sandbox", "prewarm"}
  BY DEF Preparers, Keys
<1>4. PublishedAreMade'
  BY <1>1, <1>2, <1>3 DEF PublishedAreMade, IsOne
<1>5. KnownWasMade'
  BY <1>1, CacheFields DEF KnownWasMade
<1>6. ReadyIsNew'
  BY <1>1, <1>2 DEF ReadyIsNew
<1>7. FlightsDeliver'
  BY PrepFields DEF FlightsDeliver
<1>8. OwnPreparation'
  BY <1>3 DEF OwnPreparation
<1>9. GaveUpIsGone'
  <2>1. \A r \in Requests : \A t \in turn[r].gaveUp : t # 0
    BY DEF KnownWasMade
  <2> QED
    BY <1>3, <2>1 DEF GaveUpIsGone
<1>10. StartHasSandbox'
  BY DEF StartHasSandbox
<1> QED
  BY <1>4, <1>5, <1>6, <1>7, <1>8, <1>9, <1>10

LEMMA JoinKeeps ==
  ASSUME SandboxInv, NEW a \in Preparers, Join(a)
  PROVE  SandboxInv'
<1> USE DEF SandboxInv
<1> DEFINE k == prep[a].key
           p == [prep[a] EXCEPT !.pc = "wait", !.entryAt = 0]
<1>1. /\ prep' = [prep EXCEPT ![a] = p] /\ prep[a].pc = "join" /\ k \in Keys
      /\ \/ flight' = flight /\ flight[k].phase # "none"
         \/ flight' = [flight EXCEPT ![k] = Led(a)] /\ flight[k].phase = "none"
      /\ UNCHANGED <<session, cache, site, turn, client, cast>>
  BY PrepFields DEF Join, SandboxTyped
<1>2. p \in PrepType /\ p.tok = prep[a].tok /\ p.entryAt = 0 /\ p.pc = "wait" /\ p.key = k
  <2>1. 0 \in Numbers
    BY SandboxAssumption DEF Numbers
  <2> QED
    BY <2>1 DEF SandboxTyped, PrepType
<1>3. /\ Led(a) \in FlightType /\ Led(a).phase \in {"chain", "landed"}
      /\ Led(a).tok \in {0, cache.tok} /\ Led(a).entryAt = prep[a].entryAt
      /\ k # "session" /\ Led(a).phase = "landed" => Led(a).tok # 0
      /\ Led(a).phase = "chain" => Led(a).tok = 0
  <2> DEFINE f == [NoFlight EXCEPT !.leader = a, !.entryAt = prep[a].entryAt]
  <2>1. f \in FlightType /\ f.tok = 0 /\ f.entryAt = prep[a].entryAt
    <3>1. prep[a].entryAt \in Numbers /\ 0 \in Numbers
      BY PrepFields, SandboxAssumption DEF Numbers
    <3> QED
      BY <3>1 DEF NoFlight, FlightType, Preparers
  <2>2. CASE k # "prewarm" /\ Hit(k)
    <3>1. Led(a) = [f EXCEPT !.phase = "landed", !.tok = cache.tok]
      BY <2>2 DEF Led
    <3>2. k # "session" => cache.tok # 0
      BY <2>2 DEF Hit, Cached
    <3> QED
      BY <2>1, <3>1, <3>2, CacheFields DEF FlightType
  <2>3. CASE ~(k # "prewarm" /\ Hit(k))
    <3>1. Led(a) = [f EXCEPT !.phase = "chain"]
      BY <2>3 DEF Led
    <3> QED
      BY <2>1, <3>1 DEF FlightType
  <2> QED
    BY <2>2, <2>3
<1>4. SandboxTyped'
  BY <1>1, <1>2, <1>3 DEF SandboxTyped, site
<1>5. prep[a].entryAt <= published
  BY DEF KnownWasMade
<1>6. flight'[k].phase # "none"
  BY <1>1, <1>3 DEF SandboxTyped
<1>7. \/ flight'[k] = flight[k]
      \/ /\ ~IsReady(k) /\ flight'[k].phase \in {"chain", "landed"}
         /\ flight'[k].tok \in {0, cache.tok} /\ flight'[k].entryAt <= published
         /\ k # "session" /\ flight'[k].phase = "landed" => flight'[k].tok # 0
         /\ flight'[k].phase = "chain" => flight'[k].tok = 0
  BY <1>1, <1>3, <1>5 DEF SandboxTyped, IsReady
<1>8. \A l \in Keys : l # k => flight'[l] = flight[l]
  BY <1>1 DEF SandboxTyped
<1>9. \A b \in Preparers : prep'[b] = prep[b] \/
        /\ prep'[b].tok = prep[b].tok /\ prep'[b].entryAt = 0 /\ prep'[b].key = prep[b].key
        /\ prep'[b].pc = "wait" /\ prep[b].pc # "idle" /\ flight'[prep[b].key].phase # "none"
  BY <1>1, <1>2, <1>6 DEF SandboxTyped
<1> QED
  BY <1>1, <1>4, <1>7, <1>8, <1>9, FlightMoves

LEMMA MintedKeeps ==
  ASSUME SandboxInv, SessionMinted
  PROVE  SandboxInv'
<1> USE DEF SandboxInv
<1> DEFINE f == [flight["session"] EXCEPT !.phase = "landed"]
<1>1. /\ flight' = [flight EXCEPT !["session"] = f] /\ flight["session"].phase = "chain"
      /\ session' = TRUE /\ UNCHANGED <<cache, site, prep, turn, client, cast>>
  BY DEF SessionMinted
<1>2. /\ f \in FlightType /\ f.phase = "landed" /\ f.tok = flight["session"].tok
      /\ f.entryAt = flight["session"].entryAt /\ "session" \in Keys
  BY DEF SandboxTyped, FlightType, Keys
<1>3. SandboxTyped'
  BY <1>1, <1>2 DEF SandboxTyped, site
<1> QED
  BY <1>1, <1>2, <1>3, FlightMoves DEF SandboxTyped, FlightsDeliver, IsReady, KnownWasMade

LEMMA AgesKeeps ==
  ASSUME SandboxInv, Ages
  PROVE  SandboxInv'
<1> USE DEF SandboxInv
<1>1. /\ cache' \in CacheType /\ cache'.tok = cache.tok /\ cache'.at = cache.at
      /\ UNCHANGED <<session, made, published, flight, prep, turn, client, cast>>
  BY DEF Ages, SandboxTyped, CacheType, site
<1>2. SandboxTyped' /\ PublishedAreMade' /\ KnownWasMade'
  BY <1>1 DEF SandboxTyped, PublishedAreMade, KnownWasMade, IsOne, IsReady
<1>3. ReadyIsNew' /\ FlightsDeliver' /\ OwnPreparation' /\ GaveUpIsGone' /\ StartHasSandbox'
  BY <1>1
     DEF ReadyIsNew, FlightsDeliver, OwnPreparation, GaveUpIsGone, StartHasSandbox, IsReady
<1> QED
  BY <1>2, <1>3

LEMMA MakeKeeps ==
  ASSUME SandboxInv, NEW k \in Keys, Make(k)
  PROVE  SandboxInv'
<1> USE DEF SandboxInv
<1> DEFINE f == [flight[k] EXCEPT !.phase = "ready", !.tok = made + 1]
<1>1. /\ made' = made + 1 /\ made' \in Numbers /\ k \in {"sandbox", "prewarm"} /\ ~IsReady(k)
      /\ flight[k].phase = "chain"
      /\ flight' = [flight EXCEPT ![k] = f]
      /\ UNCHANGED <<session, cache, published, prep, turn, client, cast>>
  <2>1. made' = made + 1 /\ made' \in Numbers
    BY CacheFields, SandboxAssumption DEF Make, Numbers
  <2>2. flight' = [flight EXCEPT ![k] = f]
    BY <2>1 DEF Make, SandboxTyped
  <2> QED
    BY <2>1, <2>2 DEF Make, Keys, IsReady
<1>2. /\ f \in FlightType /\ f.phase = "ready" /\ f.tok = made'
      /\ f.entryAt = flight[k].entryAt /\ flight'[k] = f
      /\ \A l \in Keys : l # k => flight'[l] = flight[l]
  BY <1>1 DEF SandboxTyped, FlightType
<1>3. SandboxTyped'
  BY <1>1, <1>2 DEF SandboxTyped
<1>4. PublishedAreMade'
  <2>1. \A l \in Keys : l # k => (IsReady(l)' <=> IsReady(l))
    BY <1>2 DEF IsReady
  <2>2. IsReady(k)'
    BY <1>2 DEF IsReady
  <2> QED
    BY <1>1, <2>1, <2>2, CacheFields DEF PublishedAreMade, IsOne, Keys
<1>5. KnownWasMade'
  BY <1>1, <1>2, CacheFields, FlightFields, PrepFields, TurnFields DEF KnownWasMade, Numbers
<1>6. ReadyIsNew'
  <2>1. /\ cache.tok < made' /\ cache.tok # made'
        /\ \A l \in Keys : flight[l].tok # made'
        /\ \A a \in Preparers : prep[a].tok # made'
        /\ \A r \in Requests : turn[r].tok # made' /\ made' \notin turn[r].gaveUp
    <3>1. \A r \in Requests : \A t \in turn[r].gaveUp : t \in Nat
      BY TurnFields, SandboxAssumption DEF Numbers
    <3> QED
      BY <1>1, <3>1, CacheFields, FlightFields, PrepFields, TurnFields DEF KnownWasMade
  <2>2. made' # 0
    BY <1>1, CacheFields
  <2>3. ASSUME NEW l \in Keys, IsReady(l)'
        PROVE  /\ flight'[l].tok # 0 /\ flight'[l].tok # cache.tok
               /\ \A m \in Keys : m # l => flight'[m].tok # flight'[l].tok
               /\ \A a \in Preparers : prep[a].tok # flight'[l].tok
               /\ \A r \in Requests :
                    turn[r].tok # flight'[l].tok /\ flight'[l].tok \notin turn[r].gaveUp
               /\ cache.tok # 0 /\ cache.at <= flight'[l].entryAt => cache.tok < flight'[l].tok
    <3>1. CASE l = k
      BY <1>2, <2>1, <2>2, <3>1
    <3>2. CASE l # k
      <4>1. IsReady(l) /\ flight'[l] = flight[l]
        BY <1>2, <2>3, <3>2 DEF IsReady
      <4>2. \A m \in Keys : m # l => flight'[m].tok # flight'[l].tok
        <5>1. flight'[k].tok # flight[l].tok
          BY <1>2, <2>1
        <5>2. \A m \in Keys : m # l => flight[m].tok # flight[l].tok
          BY <4>1 DEF ReadyIsNew
        <5> QED
          BY <1>2, <4>1, <5>1, <5>2
      <4> QED
        BY <4>1, <4>2 DEF ReadyIsNew
    <3> QED
      BY <3>1, <3>2
  <2> QED
    BY <1>1, <2>3 DEF ReadyIsNew
<1>7. FlightsDeliver'
  BY <1>1, <1>2, PrepFields, CacheFields DEF FlightsDeliver, SandboxTyped
<1>8. OwnPreparation' /\ StartHasSandbox'
  BY <1>1 DEF OwnPreparation, StartHasSandbox
<1>9. GaveUpIsGone'
  BY <1>1, <1>2 DEF GaveUpIsGone
<1> QED
  BY <1>3, <1>4, <1>5, <1>6, <1>7, <1>8, <1>9

(* A flight that lands with a sandbox delivers what the invariant asks.      *)
LEMMA LandedDelivers ==
  ASSUME SandboxTyped, FlightsDeliver, NEW k \in Keys, prep' = prep,
         flight'[k].phase = "landed", flight'[k].tok # 0,
         \A l \in Keys : l # k => flight'[l] = flight[l]
  PROVE  FlightsDeliver'
<1>1. ASSUME NEW l \in Keys
      PROVE  /\ l # "session" /\ flight'[l].phase = "landed" => flight'[l].tok # 0
             /\ flight'[l].phase \in {"none", "chain"} => flight'[l].tok = 0
             /\ flight[l].phase # "none" => flight'[l].phase # "none"
  <2>1. CASE l = k
    BY <2>1
  <2>2. CASE l # k
    BY <2>2 DEF FlightsDeliver
  <2> QED
    BY <2>1, <2>2
<1>2. ASSUME NEW a \in Preparers, prep[a].pc = "wait"
      PROVE  flight'[prep[a].key].phase # "none"
  <2>1. prep[a].key \in Keys
    BY PrepFields
  <2>2. flight[prep[a].key].phase # "none"
    BY <1>2 DEF FlightsDeliver
  <2> QED
    BY <1>1, <2>1, <2>2
<1>3. \A a \in Preparers :
        prep[a].pc = "done" /\ prep[a].key # "session" /\ prep[a].err = "none"
          => prep[a].tok # 0
  BY DEF FlightsDeliver
<1> QED
  BY <1>1, <1>2, <1>3 DEF FlightsDeliver

LEMMA PublishKeeps ==
  ASSUME SandboxInv, NEW k \in Keys, Publish(k)
  PROVE  SandboxInv'
<1> USE DEF SandboxInv
<1>1. /\ IsReady(k) /\ k \in {"sandbox", "prewarm"} /\ made' = made
      /\ UNCHANGED <<session, prep, turn, client, cast>>
  BY DEF Publish, IsReady, PublishedAreMade, Keys
<1>2. /\ flight[k].tok # 0 /\ cache.tok # flight[k].tok
      /\ \A l \in Keys : l # k => flight[l].tok # flight[k].tok
  BY <1>1 DEF ReadyIsNew
<1>3. published + 1 <= made
  BY <1>1, CacheFields DEF PublishedAreMade, IsOne
<1>4. CASE Newer(k)
  <2> DEFINE f == [flight[k] EXCEPT !.phase = "landed", !.tok = cache.tok]
  <2>1. flight' = [flight EXCEPT ![k] = f] /\ UNCHANGED <<cache, published>>
    BY <1>4 DEF Publish, SandboxTyped
  <2>2. /\ f \in FlightType /\ f.phase = "landed" /\ f.tok = cache.tok
        /\ f.entryAt = flight[k].entryAt
    BY CacheFields DEF SandboxTyped, FlightType
  <2>3. cache.tok # 0
    BY <1>4, CacheFields, FlightFields DEF Newer, KnownWasMade
  <2>4. /\ flight'[k] = f /\ \A l \in Keys : l # k => flight'[l] = flight[l]
    BY <2>1 DEF SandboxTyped
  <2>5. SandboxTyped'
    BY <1>1, <2>1, <2>2 DEF SandboxTyped
  <2>6. \A l \in Keys : IsReady(l)' => l # k /\ IsReady(l) /\ flight'[l] = flight[l]
    BY <2>2, <2>4 DEF IsReady
  <2>7. PublishedAreMade'
    BY <1>1, <2>1, <2>6, CacheFields DEF PublishedAreMade, IsOne, Keys
  <2>8. KnownWasMade'
    BY <1>1, <2>1, <2>2, <2>4 DEF KnownWasMade
  <2>9. ReadyIsNew'
    BY <1>1, <2>1, <2>2, <2>4, <2>6 DEF ReadyIsNew
  <2>10. FlightsDeliver'
    BY <1>1, <2>2, <2>3, <2>4, LandedDelivers
  <2>11. OwnPreparation' /\ StartHasSandbox'
    BY <1>1 DEF OwnPreparation, StartHasSandbox
  <2>12. GaveUpIsGone'
    BY <1>1, <2>1, <2>2, <2>4 DEF GaveUpIsGone
  <2> QED
    BY <2>5, <2>7, <2>8, <2>9, <2>10, <2>11, <2>12
<1>5. CASE ~Newer(k)
  <2> DEFINE f == [flight[k] EXCEPT !.phase = "landed"]
             c == [tok |-> flight[k].tok, at |-> published + 1, age |-> "young"]
  <2>1. /\ flight' = [flight EXCEPT ![k] = f] /\ cache' = c /\ published' = published + 1
    BY <1>5 DEF Publish, SandboxTyped
  <2>2. /\ f \in FlightType /\ f.phase = "landed" /\ f.tok = flight[k].tok
        /\ f.entryAt = flight[k].entryAt
    BY DEF SandboxTyped, FlightType
  <2>3. cache' \in CacheType /\ cache'.tok = flight[k].tok /\ cache'.at = published'
    <3>1. published + 1 \in Numbers
      BY <1>3, CacheFields, SandboxAssumption DEF Numbers
    <3> QED
      BY <2>1, <3>1, FlightFields DEF CacheType
  <2>4. /\ flight'[k] = f /\ \A l \in Keys : l # k => flight'[l] = flight[l]
    BY <2>1 DEF SandboxTyped
  <2>5. SandboxTyped'
    BY <1>1, <2>1, <2>2, <2>3, CacheFields DEF SandboxTyped
  <2>6. \A l \in Keys : IsReady(l)' => l # k /\ IsReady(l) /\ flight'[l] = flight[l]
    BY <2>2, <2>4 DEF IsReady
  <2>7. PublishedAreMade'
    BY <1>1, <2>1, <2>6, CacheFields DEF PublishedAreMade, IsOne, Keys
  <2>8. KnownWasMade'
    <3>1. \A l \in Keys : flight'[l].tok <= made /\ flight'[l].entryAt <= published'
      BY <2>1, <2>2, <2>4, CacheFields, FlightFields DEF KnownWasMade
    <3>2. \A a \in Preparers : prep[a].entryAt <= published'
      BY <2>1, CacheFields, PrepFields DEF KnownWasMade
    <3>3. cache'.tok <= made /\ cache'.tok # 0 /\ cache'.at # 0 /\ cache'.at <= published'
      BY <1>2, <2>1, <2>3, CacheFields DEF KnownWasMade
    <3> QED
      BY <1>1, <3>1, <3>2, <3>3 DEF KnownWasMade
  <2>9. ReadyIsNew'
    <3> SUFFICES ASSUME NEW l \in Keys, IsReady(l)'
                 PROVE  /\ flight'[l].tok # 0 /\ flight'[l].tok # cache'.tok
                        /\ \A m \in Keys : m # l => flight'[m].tok # flight'[l].tok
                        /\ \A a \in Preparers : prep[a].tok # flight'[l].tok
                        /\ \A r \in Requests :
                             turn[r].tok # flight'[l].tok /\ flight'[l].tok \notin turn[r].gaveUp
                        /\ ~(cache'.at <= flight'[l].entryAt)
      BY <1>1 DEF ReadyIsNew
    <3>1. l # k /\ IsReady(l) /\ flight'[l] = flight[l]
      BY <2>6
    <3>2. ~(cache'.at <= flight'[l].entryAt)
      BY <2>1, <2>3, <3>1, CacheFields, FlightFields DEF KnownWasMade
    <3>3. \A m \in Keys : flight'[m].tok = flight[m].tok
      BY <2>2, <2>4
    <3> QED
      BY <2>3, <3>1, <3>2, <3>3 DEF ReadyIsNew
  <2>10. FlightsDeliver'
    BY <1>1, <1>2, <2>2, <2>4, LandedDelivers
  <2>11. OwnPreparation' /\ StartHasSandbox'
    BY <1>1 DEF OwnPreparation, StartHasSandbox
  <2>12. GaveUpIsGone'
    <3>1. \A r \in Requests : flight[k].tok \notin turn[r].gaveUp
      BY <1>1 DEF ReadyIsNew
    <3>2. \A l \in Keys : flight'[l].phase = "landed" =>
            flight'[l].tok = flight[k].tok \/ (flight[l].phase = "landed" /\ flight'[l] = flight[l])
      BY <2>2, <2>4
    <3> QED
      BY <1>1, <2>3, <3>1, <3>2 DEF GaveUpIsGone
  <2> QED
    BY <2>5, <2>7, <2>8, <2>9, <2>10, <2>11, <2>12
<1> QED
  BY <1>4, <1>5

(* The waiters of a flight get what it has.                                  *)
LEMMA DeliveredTo ==
  ASSUME SandboxTyped, NEW k \in Keys, NEW t \in Numbers, NEW e \in Errors \cup {"none"},
         prep' = Delivered(k, t, e)
  PROVE  /\ prep' \in [Preparers -> PrepType]
         /\ \A a \in Preparers :
              IF prep[a].pc = "wait" /\ prep[a].key = k
              THEN prep'[a] = Result(k, t, e) ELSE prep'[a] = prep[a]
BY ResultFields DEF Delivered, Result, SandboxTyped

LEMMA DeliveryKeeps ==
  ASSUME SandboxInv, NEW k \in Keys, NEW t \in Numbers, NEW e \in Errors \cup {"none"},
         prep' = Delivered(k, t, e), flight' = [flight EXCEPT ![k] = NoFlight],
         UNCHANGED <<session, cache, site, turn, client, cast>>,
         t = 0 \/ (t = flight[k].tok /\ flight[k].phase = "landed"),
         e = "none" /\ k # "session" => t # 0
  PROVE  SandboxInv'
<1> USE DEF SandboxInv
<1>1. /\ made' = made /\ published' = published
      /\ flight'[k] = NoFlight /\ \A l \in Keys : l # k => flight'[l] = flight[l]
  BY DEF site, SandboxTyped
<1>2. /\ NoFlight \in FlightType /\ NoFlight.phase = "none" /\ NoFlight.tok = 0
      /\ NoFlight.entryAt = 0
  <2>1. 0 \in Numbers
    BY SandboxAssumption DEF Numbers
  <2> QED
    BY <2>1 DEF NoFlight, FlightType, Preparers
<1>3. \A a \in Preparers :
        \/ prep'[a] = prep[a] /\ ~(prep[a].pc = "wait" /\ prep[a].key = k)
        \/ /\ prep[a].pc = "wait" /\ prep[a].key = k
           /\ prep'[a].pc = "done" /\ prep'[a].key = k /\ prep'[a].tok = t
           /\ prep'[a].entryAt = 0 /\ prep'[a].err = e
  BY DeliveredTo, ResultFields
<1>4. SandboxTyped'
  BY <1>2, DeliveredTo DEF SandboxTyped, site
<1>5. \A l \in Keys : IsReady(l)' => l # k /\ IsReady(l) /\ flight'[l] = flight[l]
  BY <1>1, <1>2 DEF IsReady
<1>6. PublishedAreMade'
  BY <1>1, <1>5, CacheFields DEF PublishedAreMade, IsOne, Keys
<1>7. KnownWasMade'
  <2>1. t <= made
    BY CacheFields DEF KnownWasMade
  <2>2. \A l \in Keys : flight'[l].tok <= made /\ flight'[l].entryAt <= published
    BY <1>1, <1>2, CacheFields DEF KnownWasMade
  <2>3. \A a \in Preparers : prep'[a].tok <= made /\ prep'[a].entryAt <= published
    BY <1>3, <2>1, CacheFields DEF KnownWasMade
  <2> QED
    BY <1>1, <2>2, <2>3 DEF KnownWasMade
<1>8. ReadyIsNew'
  <2> SUFFICES ASSUME NEW l \in Keys, IsReady(l)'
               PROVE  /\ flight[l].tok # 0 /\ flight[l].tok # cache.tok
                      /\ \A m \in Keys : m # l => flight'[m].tok # flight[l].tok
                      /\ \A a \in Preparers : prep'[a].tok # flight[l].tok
                      /\ \A r \in Requests :
                           turn[r].tok # flight[l].tok /\ flight[l].tok \notin turn[r].gaveUp
                      /\ cache.tok # 0 /\ cache.at <= flight[l].entryAt => cache.tok < flight[l].tok
    BY <1>5 DEF ReadyIsNew
  <2>1. l # k /\ IsReady(l)
    BY <1>5
  <2>2. \A m \in Keys : flight'[m].tok \in {0, flight[m].tok}
    BY <1>1, <1>2
  <2>3. flight[l].tok # 0 /\ flight[l].tok # t
    BY <2>1 DEF ReadyIsNew
  <2> QED
    BY <1>3, <2>1, <2>2, <2>3 DEF ReadyIsNew
<1>9. FlightsDeliver'
  <2>1. \A l \in Keys :
          /\ l # "session" /\ flight'[l].phase = "landed" => flight'[l].tok # 0
          /\ flight'[l].phase \in {"none", "chain"} => flight'[l].tok = 0
    BY <1>1, <1>2 DEF FlightsDeliver
  <2>2. ASSUME NEW a \in Preparers
        PROVE  /\ prep'[a].pc = "wait" => flight'[prep'[a].key].phase # "none"
               /\ prep'[a].pc = "done" /\ prep'[a].key # "session" /\ prep'[a].err = "none"
                    => prep'[a].tok # 0
    <3>1. CASE prep[a].pc = "wait" /\ prep[a].key = k
      BY <1>3, <3>1
    <3>2. CASE ~(prep[a].pc = "wait" /\ prep[a].key = k)
      BY <1>1, <1>3, <3>2, PrepFields DEF FlightsDeliver
    <3> QED
      BY <3>1, <3>2
  <2> QED
    BY <2>1, <2>2 DEF FlightsDeliver
<1>10. OwnPreparation'
  BY <1>3 DEF OwnPreparation, Preparers
<1>11. GaveUpIsGone'
  <2>1. \A r \in Requests : r \in Preparers /\ \A u \in turn[r].gaveUp : u # 0 /\ u # t
    BY DEF KnownWasMade, GaveUpIsGone, Preparers
  <2> QED
    BY <1>1, <1>2, <1>3, <2>1 DEF GaveUpIsGone
<1>12. StartHasSandbox'
  BY DEF StartHasSandbox
<1> QED
  BY <1>4, <1>6, <1>7, <1>8, <1>9, <1>10, <1>11, <1>12

LEMMA LandKeeps ==
  ASSUME SandboxInv, NEW k \in Keys, Land(k)
  PROVE  SandboxInv'
<1>1. flight[k].tok \in Numbers /\ (k # "session" => flight[k].tok # 0)
  BY FlightFields DEF SandboxInv, FlightsDeliver, Land
<1> QED
  BY <1>1, DeliveryKeeps DEF Land

LEMMA ChainFailsKeeps ==
  ASSUME SandboxInv, NEW k \in Keys, ChainFails(k)
  PROVE  SandboxInv'
<1>1. PICK e \in {"upstream", flight[k].dead} \ {"no"} : prep' = Delivered(k, 0, e)
  BY DEF ChainFails
<1>2. e \in Errors \cup {"none"} /\ e # "none"
  BY FlightFields DEF SandboxInv, Errors
<1>3. 0 \in Numbers
  BY SandboxAssumption DEF Numbers
<1> QED
  BY <1>1, <1>2, <1>3, DeliveryKeeps DEF ChainFails

-----------------------------------------------------------------------------
(* The steps of a turn.                                                      *)

LEMMA OverFields ==
  ASSUME NEW out \in Errors \cup {"none", "ok", "error"}
  PROVE  /\ Over(out) \in TurnType /\ Over(out).at = "end" /\ Over(out).tok = 0
         /\ Over(out).gaveUp = {} /\ Over(out).fails < Over(out).attempt
<1>1. /\ 0 \in Numbers /\ 1 \in 1..Attempts /\ 0 \in 0..PrepareRetries /\ 0 \in 0..Attempts
      /\ 0 \in 0..MaxReconnects
  BY SandboxAssumption DEF Numbers
<1>2. Fresh \in TurnType
  BY <1>1 DEF Fresh, TurnType
<1>3. Over(out) \in TurnType
  BY <1>2 DEF Over, TurnType, Errors
<1>4. Over(out).at = "end" /\ Over(out).tok = 0 /\ Over(out).gaveUp = {}
  BY DEF Over, Fresh
<1>5. Over(out).fails < Over(out).attempt
  BY DEF Over, Fresh
<1> QED
  BY <1>3, <1>4, <1>5

LEMMA FailsFields ==
  ASSUME NEW t \in TurnType, NEW z \in 0..Attempts
  PROVE  LET u == [t EXCEPT !.fails = z]
         IN  /\ u \in TurnType /\ u.fails = z /\ u.attempt = t.attempt
             /\ u.gaveUp = t.gaveUp /\ u.tok = t.tok
BY DEF TurnType

Reconnected(t, n) == [t EXCEPT !.fails = 0, !.reconnects = n]

LEMMA ReconnectFields ==
  ASSUME NEW t \in TurnType, NEW n \in 0..MaxReconnects
  PROVE  LET u == Reconnected(t, n)
         IN  u \in TurnType /\ u.fails = 0 /\ u.attempt = t.attempt /\ u.gaveUp = t.gaveUp
<1>1. 0 \in 0..Attempts
  BY SandboxAssumption
<1>2. Reconnected(t, n) \in TurnType
  BY <1>1 DEF TurnType, Reconnected
<1> QED
  BY <1>2 DEF TurnType, Reconnected

LEMMA GivesUpFields ==
  ASSUME NEW t \in TurnType
  PROVE  /\ GivesUp(t) \in TurnType /\ GivesUp(t).gaveUp = t.gaveUp \cup {t.tok}
         /\ GivesUp(t).fails = t.fails /\ GivesUp(t).attempt = t.attempt
<1>1. GivesUp(t) \in TurnType
  BY DEF GivesUp, TurnType
<1> QED
  BY <1>1 DEF GivesUp, TurnType

LEMMA AgainMoves ==
  ASSUME SandboxTyped, NEW r \in Requests, NEW t \in TurnType, t.fails <= t.attempt, Again(r, t)
  PROVE  \E u \in TurnType :
           /\ turn' = [turn EXCEPT ![r] = u]
           /\ u.at \in {"attempt", "end"} /\ u.tok = 0 /\ u.gaveUp \subseteq t.gaveUp
           /\ u.fails < u.attempt
<1> DEFINE u == [t EXCEPT !.at = "attempt", !.attempt = t.attempt + 1, !.tries = 0, !.tok = 0]
<1>1. CASE t.attempt = Attempts
  BY <1>1, OverFields DEF Again
<1>2. CASE t.attempt # Attempts /\ ~client[r]
  BY <1>2, OverFields DEF Again, Errors
<1>3. CASE t.attempt # Attempts /\ client[r]
  <2>1. turn' = [turn EXCEPT ![r] = u]
    BY <1>3 DEF Again
  <2>2. /\ t.attempt \in 1..Attempts /\ t.fails \in 0..Attempts
    BY DEF TurnType
  <2>3. /\ t.attempt + 1 \in 1..Attempts /\ t.fails < t.attempt + 1
        /\ 0 \in 0..PrepareRetries /\ 0 \in Numbers
    BY <1>3, <2>2, SandboxAssumption DEF Numbers
  <2>4. /\ u \in TurnType /\ u.at = "attempt" /\ u.tok = 0 /\ u.gaveUp = t.gaveUp
        /\ u.fails = t.fails /\ u.attempt = t.attempt + 1
    BY <2>3 DEF TurnType
  <2> QED
    BY <2>1, <2>3, <2>4
<1> QED
  BY <1>1, <1>2, <1>3

LEMMA InvalidateMoves ==
  ASSUME SandboxTyped, Invalidate
  PROVE  /\ cache' = NoCache /\ NoCache \in CacheType
         /\ prep' \in [Preparers -> PrepType]
         /\ \A a \in Preparers : prep'[a] = prep[a] \/ (Nobody(a)' /\ a \notin Requests)
<1>1. NoCache \in CacheType
  BY SandboxAssumption DEF NoCache, CacheType, Numbers
<1>2. UNCHANGED prep \/ \E c \in Recasters : prep' = [prep EXCEPT ![c] = SetOut("sandbox")]
  BY DEF Invalidate, Sent, SetOut
<1>3. CASE UNCHANGED prep
  BY <1>1, <1>3 DEF Invalidate, Cleared, SandboxTyped
<1>4. ASSUME NEW c \in Recasters, prep' = [prep EXCEPT ![c] = SetOut("sandbox")]
      PROVE  /\ prep' \in [Preparers -> PrepType]
             /\ \A a \in Preparers : prep'[a] = prep[a] \/ (Nobody(a)' /\ a \notin Requests)
  <2>1. c \in Preparers /\ c \notin Requests /\ "sandbox" \in Keys
    BY SandboxAssumption DEF Preparers, Keys
  <2> QED
    BY <1>4, <2>1, SetOutFields DEF SandboxTyped, Nobody
<1> QED
  BY <1>1, <1>2, <1>3, <1>4 DEF Invalidate, Cleared

(* A turn goes on without its sandbox, or ends.                              *)
LEMMA TurnGoesOn ==
  ASSUME SandboxInv, NEW r \in Requests, turn[r].at = "start",
         NEW u \in TurnType, turn' = [turn EXCEPT ![r] = u],
         u.at \in {"attempt", "end"}, u.tok = 0, u.gaveUp \subseteq turn[r].gaveUp,
         u.fails < u.attempt, UNCHANGED <<session, cache, site, flight, prep, client, cast>>
  PROVE  SandboxInv'
<1>1. SandboxTyped'
  BY DEF SandboxInv, SandboxTyped, site
<1>2. turn'[r] = u /\ \A q \in Requests : q # r => turn'[q] = turn[q]
  BY DEF SandboxInv, SandboxTyped
<1>3. prep[r].pc = "idle" /\ prep[r].tok = 0
  BY DEF SandboxInv, OwnPreparation
<1> QED
  BY <1>1, <1>2, <1>3, TurnMoves

(* A turn gives its sandbox up.                                              *)
LEMMA TurnGivesUp ==
  ASSUME SandboxInv, NEW r \in Requests, RoundTrip(r),
         NEW u \in TurnType, turn' = [turn EXCEPT ![r] = u],
         u.at \in {"attempt", "end"}, u.tok = 0,
         u.gaveUp \subseteq turn[r].gaveUp \cup {turn[r].tok}, u.fails < u.attempt,
         Invalidate, UNCHANGED <<session, site, flight, client, cast>>
  PROVE  SandboxInv'
<1>1. /\ cache' = NoCache /\ NoCache \in CacheType
      /\ prep' \in [Preparers -> PrepType]
      /\ \A a \in Preparers : prep'[a] = prep[a] \/ (Nobody(a)' /\ a \notin Requests)
  BY InvalidateMoves DEF SandboxInv
<1>2. SandboxTyped'
  BY <1>1 DEF SandboxInv, SandboxTyped, site
<1>3. turn'[r] = u /\ \A q \in Requests : q # r => turn'[q] = turn[q]
  BY DEF SandboxInv, SandboxTyped
<1>4. prep'[r] = prep[r] /\ prep[r].pc = "idle" /\ prep[r].tok = 0
  BY <1>1 DEF SandboxInv, OwnPreparation, RoundTrip, Preparers
<1>5. /\ turn[r].at = "start"
      /\ \A k \in Keys : flight[k].phase = "landed" => flight[k].tok # turn[r].tok
  BY DEF RoundTrip
<1> QED
  BY <1>1, <1>2, <1>3, <1>4, <1>5, TurnMoves

LEMMA EndsKeeps ==
  ASSUME SandboxInv, NEW r \in Requests, turn[r].at = "start",
         NEW out \in Errors \cup {"none", "ok", "error"}, Ends(r, out),
         UNCHANGED <<session, cache, site, flight, prep, client, cast>>
  PROVE  SandboxInv'
BY OverFields, TurnGoesOn DEF Ends

LEMMA NoTicketKeeps ==
  ASSUME SandboxInv, NEW r \in Requests, NoTicket(r)
  PROVE  SandboxInv'
<1>1. turn[r] \in TurnType /\ turn[r].fails <= turn[r].attempt
  BY TurnFields DEF SandboxInv, SandboxTyped, PublishedAreMade
<1> QED
  BY <1>1, AgainMoves, TurnGoesOn DEF NoTicket, SandboxInv

LEMMA ReconnectingKeeps ==
  ASSUME SandboxInv, NEW r \in Requests, Reconnecting(r)
  PROVE  SandboxInv'
<1> DEFINE t == Reconnected(turn[r], turn[r].reconnects + 1)
<1>1. turn[r] \in TurnType /\ turn[r].attempt \in 1..Attempts
  BY TurnFields DEF SandboxInv, SandboxTyped
<1>2. turn[r].reconnects + 1 \in 0..MaxReconnects
  BY TurnFields, SandboxAssumption DEF Reconnecting, SandboxInv
<1>3. t \in TurnType /\ t.fails <= t.attempt /\ t.gaveUp = turn[r].gaveUp
  BY <1>1, <1>2, ReconnectFields
<1>4. Again(r, t)
  BY DEF Reconnecting, Reconnected
<1> QED
  <2> HIDE DEF t
  <2> QED
    BY <1>3, <1>4, AgainMoves, TurnGoesOn DEF Reconnecting, RoundTrip, SandboxInv

LEMMA TransportFailsKeeps ==
  ASSUME SandboxInv, NEW r \in Requests, TransportFails(r)
  PROVE  SandboxInv'
<1> DEFINE t == [turn[r] EXCEPT !.fails = turn[r].fails + 1]
<1>1. turn[r] \in TurnType /\ turn[r].at = "start"
  BY DEF SandboxInv, SandboxTyped, TransportFails, RoundTrip
<1>2. turn[r].fails + 1 \in 0..Attempts /\ turn[r].fails + 1 <= turn[r].attempt
  BY TurnFields, SandboxAssumption DEF SandboxInv, PublishedAreMade
<1>3. t \in TurnType /\ t.fails <= t.attempt /\ t.gaveUp = turn[r].gaveUp /\ t.tok = turn[r].tok
  BY <1>1, <1>2, FailsFields
<1>4. CASE ~client[r]
  BY <1>1, <1>4, EndsKeeps DEF TransportFails, Errors
<1>5. CASE client[r] /\ t.fails < 2
  <2>1. Again(r, t) /\ UNCHANGED <<session, cache, site, flight, prep, client, cast>>
    BY <1>5 DEF TransportFails
  <2> HIDE DEF t
  <2> QED
    BY <1>1, <1>3, <2>1, AgainMoves, TurnGoesOn DEF SandboxInv
<1>6. CASE client[r] /\ ~(t.fails < 2)
  <2>1. Again(r, GivesUp(t)) /\ Invalidate /\ RoundTrip(r)
        /\ UNCHANGED <<session, site, flight, client, cast>>
    BY <1>6 DEF TransportFails
  <2>2. /\ GivesUp(t) \in TurnType /\ GivesUp(t).fails <= GivesUp(t).attempt
        /\ GivesUp(t).gaveUp = turn[r].gaveUp \cup {turn[r].tok}
    BY <1>3, GivesUpFields
  <2> HIDE DEF t
  <2> QED
    BY <2>1, <2>2, AgainMoves, TurnGivesUp DEF SandboxInv
<1> QED
  BY <1>4, <1>5, <1>6

LEMMA ServerFailsKeeps ==
  ASSUME SandboxInv, NEW r \in Requests, ServerFails(r)
  PROVE  SandboxInv'
<1> DEFINE t == [turn[r] EXCEPT !.fails = 0]
<1>1. turn[r] \in TurnType /\ turn[r].attempt \in 1..Attempts /\ 0 \in 0..Attempts
  BY TurnFields, SandboxAssumption DEF SandboxInv, SandboxTyped
<1>2. /\ GivesUp(t) \in TurnType /\ GivesUp(t).fails <= GivesUp(t).attempt
      /\ GivesUp(t).gaveUp = turn[r].gaveUp \cup {turn[r].tok}
  <2>1. t \in TurnType /\ t.fails = 0 /\ t.attempt = turn[r].attempt
        /\ t.gaveUp = turn[r].gaveUp /\ t.tok = turn[r].tok
    BY <1>1, FailsFields
  <2> HIDE DEF t
  <2> QED
    BY <1>1, <2>1, GivesUpFields
<1>3. /\ Again(r, GivesUp(t)) /\ Invalidate /\ RoundTrip(r)
      /\ UNCHANGED <<session, site, flight, client, cast>>
  BY DEF ServerFails
<1> HIDE DEF t
<1> QED
  BY <1>2, <1>3, AgainMoves, TurnGivesUp DEF SandboxInv

(* Bootstrap, Attempt and Prepared: the turn's own preparation.              *)
LEMMA BootstrapKeeps ==
  ASSUME SandboxInv, NEW r \in Requests, Bootstrap(r)
  PROVE  SandboxInv'
<1> USE DEF SandboxInv
<1>1. /\ turn[r].at = "session" /\ UNCHANGED <<session, cache, site, flight, client, cast>>
      /\ r \in Preparers /\ turn[r] \in TurnType /\ turn[r].tok <= made
      /\ turn[r].fails < turn[r].attempt
  BY DEF Bootstrap, SandboxTyped, Preparers, KnownWasMade, PublishedAreMade
<1>2. CASE prep' = Sent(r, "session") /\ UNCHANGED turn
  <2>1. prep' = [prep EXCEPT ![r] = SetOut("session")]
    BY <1>2 DEF Sent, SetOut
  <2>2. SandboxTyped'
    BY <1>1, <1>2, <2>1, SetOutFields DEF SandboxTyped, site, Keys
  <2>3. \A a \in Preparers : prep'[a] = prep[a] \/ (Nobody(a)' /\ a = r)
    BY <1>1, <2>1, SetOutFields DEF Nobody, Keys, SandboxTyped
  <2>4. prep'[r].key = "session"
    BY <1>1, <2>1, SetOutFields DEF Keys, SandboxTyped
  <2> QED
    BY <1>1, <1>2, <2>2, <2>3, <2>4, TurnMoves
<1>3. ASSUME prep' = [prep EXCEPT ![r] = Idle], NEW u \in TurnType,
             turn' = [turn EXCEPT ![r] = u], u.at \in {"attempt", "end"}, u.fails < u.attempt,
             u.tok \in {0, turn[r].tok}, u.gaveUp \subseteq turn[r].gaveUp
      PROVE  SandboxInv'
  <2>1. SandboxTyped'
    BY <1>1, <1>3, SetOutFields DEF SandboxTyped, site
  <2>2. \A a \in Preparers : prep'[a] = prep[a] \/ (Nobody(a)' /\ a = r)
    BY <1>1, <1>3, SetOutFields DEF Nobody, SandboxTyped
  <2>3. prep'[r].pc = "idle" /\ prep'[r].tok = 0
    BY <1>1, <1>3, SetOutFields DEF SandboxTyped
  <2>4. turn'[r] = u /\ \A q \in Requests : q # r => turn'[q] = turn[q]
    BY <1>3 DEF SandboxTyped
  <2> QED
    BY <1>1, <1>3, <2>1, <2>2, <2>3, <2>4, TurnMoves
<1>4. CASE prep' = [prep EXCEPT ![r] = Idle] /\ turn' = [turn EXCEPT ![r].at = "attempt"]
  <2> DEFINE u == [turn[r] EXCEPT !.at = "attempt"]
  <2>1. /\ u \in TurnType /\ u.at = "attempt" /\ u.fails = turn[r].fails
        /\ u.attempt = turn[r].attempt /\ u.tok = turn[r].tok /\ u.gaveUp = turn[r].gaveUp
    BY <1>1 DEF TurnType
  <2>2. turn' = [turn EXCEPT ![r] = u]
    BY <1>4
  <2> HIDE DEF u
  <2> QED
    BY <1>1, <1>3, <1>4, <2>1, <2>2
<1>5. CASE prep' = [prep EXCEPT ![r] = Idle] /\ Ends(r, prep[r].err)
  BY <1>1, <1>3, <1>5, PrepFields, OverFields DEF Ends
<1> QED
  BY <1>2, <1>4, <1>5 DEF Bootstrap

LEMMA AttemptKeeps ==
  ASSUME SandboxInv, NEW r \in Requests, Attempt(r)
  PROVE  SandboxInv'
<1> USE DEF SandboxInv
<1>1. /\ turn[r].at = "attempt" /\ UNCHANGED <<session, cache, site, flight, client, cast>>
      /\ r \in Preparers /\ turn[r] \in TurnType /\ turn[r].fails < turn[r].attempt
      /\ prep[r].pc = "idle" /\ prep[r].tok = 0 /\ cache.tok \notin turn[r].gaveUp
  BY DEF Attempt, SandboxTyped, Preparers, PublishedAreMade, OwnPreparation, GaveUpIsGone
<1>2. CASE Cached # 0
  <2> DEFINE u == [turn[r] EXCEPT !.at = "start", !.tok = cache.tok]
  <2>1. /\ u \in TurnType /\ u.at = "start" /\ u.fails = turn[r].fails
        /\ u.attempt = turn[r].attempt /\ u.tok = cache.tok /\ u.gaveUp = turn[r].gaveUp
    BY <1>1, CacheFields DEF TurnType
  <2>2. turn' = [turn EXCEPT ![r] = u] /\ UNCHANGED prep
    BY <1>2 DEF Attempt, SandboxTyped
  <2> HIDE DEF u
  <2>3. SandboxTyped'
    BY <1>1, <2>1, <2>2 DEF SandboxTyped, site
  <2>4. turn'[r] = u /\ \A q \in Requests : q # r => turn'[q] = turn[q]
    BY <2>2 DEF SandboxTyped
  <2>5. cache.tok # 0
    BY <1>2 DEF Cached
  <2> QED
    BY <1>1, <2>1, <2>2, <2>3, <2>4, <2>5, TurnMoves
<1>3. CASE ~(Cached # 0)
  <2> DEFINE u == [turn[r] EXCEPT !.at = "prepare"]
  <2>1. /\ u \in TurnType /\ u.at = "prepare" /\ u.fails = turn[r].fails
        /\ u.attempt = turn[r].attempt /\ u.tok = turn[r].tok /\ u.gaveUp = turn[r].gaveUp
    BY <1>1 DEF TurnType
  <2>2. turn' = [turn EXCEPT ![r] = u] /\ prep' = [prep EXCEPT ![r] = SetOut("sandbox")]
    BY <1>3 DEF Attempt, Sent, SetOut, SandboxTyped
  <2> HIDE DEF u
  <2>3. SandboxTyped'
    BY <1>1, <2>1, <2>2, SetOutFields DEF SandboxTyped, site, Keys
  <2>4. turn'[r] = u /\ \A q \in Requests : q # r => turn'[q] = turn[q]
    BY <2>2 DEF SandboxTyped
  <2>5. \A a \in Preparers : prep'[a] = prep[a] \/ (Nobody(a)' /\ a = r)
    BY <1>1, <2>2, SetOutFields DEF Nobody, Keys, SandboxTyped
  <2>6. prep'[r].key = "sandbox"
    BY <1>1, <2>2, SetOutFields DEF Keys, SandboxTyped
  <2> QED
    BY <1>1, <2>1, <2>2, <2>3, <2>4, <2>5, <2>6, TurnMoves
<1> QED
  BY <1>2, <1>3

LEMMA PreparedKeeps ==
  ASSUME SandboxInv, NEW r \in Requests, Prepared(r)
  PROVE  SandboxInv'
<1> USE DEF SandboxInv
<1>1. /\ turn[r].at = "prepare" /\ UNCHANGED <<session, cache, site, flight, client, cast>>
      /\ r \in Preparers /\ turn[r] \in TurnType /\ turn[r].fails < turn[r].attempt
      /\ prep[r].pc = "done" /\ prep[r].key = "sandbox" /\ prep[r].tok \notin turn[r].gaveUp
  BY DEF Prepared, SandboxTyped, Preparers, PublishedAreMade, OwnPreparation, GaveUpIsGone
<1>2. ASSUME prep' = [prep EXCEPT ![r] = Idle], NEW u \in TurnType,
             turn' = [turn EXCEPT ![r] = u], u.at \in {"start", "end"}, u.fails < u.attempt,
             u.tok \in {0, prep[r].tok}, u.gaveUp \subseteq turn[r].gaveUp,
             u.at = "start" => u.tok # 0 /\ u.tok \notin u.gaveUp
      PROVE  SandboxInv'
  <2>1. SandboxTyped'
    BY <1>1, <1>2, SetOutFields DEF SandboxTyped, site
  <2>2. \A a \in Preparers : prep'[a] = prep[a] \/ (Nobody(a)' /\ a = r)
    BY <1>1, <1>2, SetOutFields DEF Nobody, SandboxTyped
  <2>3. prep'[r].pc = "idle" /\ prep'[r].tok = 0
    BY <1>1, <1>2, SetOutFields DEF SandboxTyped
  <2>4. turn'[r] = u /\ \A q \in Requests : q # r => turn'[q] = turn[q]
    BY <1>2 DEF SandboxTyped
  <2> QED
    BY <1>1, <1>2, <2>1, <2>2, <2>3, <2>4, TurnMoves
<1>3. CASE /\ prep[r].err = "none" /\ prep' = [prep EXCEPT ![r] = Idle]
           /\ turn' = [turn EXCEPT ![r].at = "start", ![r].tok = prep[r].tok]
  <2> DEFINE u == [turn[r] EXCEPT !.at = "start", !.tok = prep[r].tok]
  <2>1. /\ u \in TurnType /\ u.at = "start" /\ u.fails = turn[r].fails
        /\ u.attempt = turn[r].attempt /\ u.tok = prep[r].tok /\ u.gaveUp = turn[r].gaveUp
    BY <1>1, PrepFields DEF TurnType
  <2>2. turn' = [turn EXCEPT ![r] = u]
    BY <1>3 DEF SandboxTyped
  <2>3. prep[r].tok # 0
    BY <1>1, <1>3 DEF FlightsDeliver
  <2> HIDE DEF u
  <2> QED
    BY <1>1, <1>2, <1>3, <2>1, <2>2, <2>3
<1>4. ASSUME prep' = [prep EXCEPT ![r] = Idle], NEW out \in Errors \cup {"none", "ok", "error"},
             Ends(r, out)
      PROVE  SandboxInv'
  BY <1>2, <1>4, OverFields DEF Ends
<1>5. CASE /\ turn[r].tries < PrepareRetries
           /\ turn' = [turn EXCEPT ![r].tries = @ + 1] /\ prep' = Sent(r, "sandbox")
  <2> DEFINE n == turn[r].tries + 1
             u == [turn[r] EXCEPT !.tries = n]
  <2>1. n \in 0..PrepareRetries
    BY <1>5, TurnFields, SandboxAssumption
  <2>2. turn' = [turn EXCEPT ![r] = u] /\ prep' = [prep EXCEPT ![r] = SetOut("sandbox")]
    BY <1>5 DEF Sent, SetOut, SandboxTyped
  <2> HIDE DEF n
  <2>3. /\ u \in TurnType /\ u.at = turn[r].at /\ u.fails = turn[r].fails
        /\ u.attempt = turn[r].attempt /\ u.tok = turn[r].tok /\ u.gaveUp = turn[r].gaveUp
    BY <1>1, <2>1 DEF TurnType
  <2> HIDE DEF u
  <2>4. SandboxTyped'
    BY <1>1, <2>2, <2>3, SetOutFields DEF SandboxTyped, site, Keys
  <2>5. turn'[r] = u /\ \A q \in Requests : q # r => turn'[q] = turn[q]
    BY <2>2 DEF SandboxTyped
  <2>6. \A a \in Preparers : prep'[a] = prep[a] \/ (Nobody(a)' /\ a = r)
    BY <1>1, <2>2, SetOutFields DEF Nobody, Keys, SandboxTyped
  <2>7. prep'[r].key = "sandbox"
    BY <1>1, <2>2, SetOutFields DEF Keys, SandboxTyped
  <2> QED
    BY <1>1, <2>3, <2>4, <2>5, <2>6, <2>7, TurnMoves
<1>6. prep[r].err \in Errors \cup {"none"}
  BY <1>1, PrepFields
<1> QED
  BY <1>3, <1>4, <1>5, <1>6 DEF Prepared, Errors

LEMMA ClientLeavesKeeps ==
  ASSUME SandboxInv, UNCHANGED <<session, cache, site, flight, prep, turn, cast>>,
         client' \in [Requests -> BOOLEAN]
  PROVE  SandboxInv'
<1>1. SandboxTyped' /\ PublishedAreMade' /\ KnownWasMade' /\ ReadyIsNew'
  BY DEF SandboxInv, SandboxTyped, PublishedAreMade, KnownWasMade, ReadyIsNew, IsReady, IsOne,
         site
<1>2. FlightsDeliver' /\ OwnPreparation' /\ GaveUpIsGone' /\ StartHasSandbox'
  BY DEF SandboxInv, FlightsDeliver, OwnPreparation, GaveUpIsGone, StartHasSandbox
<1> QED
  BY <1>1, <1>2 DEF SandboxInv

LEMMA RequestStepKeeps ==
  ASSUME SandboxInv, NEW r \in Requests, RequestStep(r) \/ ClientLeaves(r)
  PROVE  SandboxInv'
<1>1. CASE Started(r)
  BY <1>1, EndsKeeps DEF Started, RoundTrip
<1>2. CASE Refused(r)
  BY <1>2, EndsKeeps DEF Refused, RoundTrip
<1>3. CASE ClientLeaves(r)
  BY <1>3, ClientLeavesKeeps DEF ClientLeaves, SandboxInv, SandboxTyped
<1> QED
  BY <1>1, <1>2, <1>3, BootstrapKeeps, AttemptKeeps, PreparedKeeps, NoTicketKeeps,
     TransportFailsKeeps, ServerFailsKeeps, ReconnectingKeeps DEF RequestStep

LEMMA SandboxInvStep == SandboxInv /\ [SandboxNext]_sandboxVars => SandboxInv'
<1> SUFFICES ASSUME SandboxInv, [SandboxNext]_sandboxVars
             PROVE  SandboxInv'
  OBVIOUS
<1>1. CASE UNCHANGED sandboxVars
  BY <1>1, ClientLeavesKeeps DEF sandboxVars, SandboxInv, SandboxTyped
<1> QED
  BY <1>1, AgesKeeps, PrewarmKeeps, MintedKeeps, EnterKeeps, JoinKeeps, LeaveKeeps, MakeKeeps,
     PublishKeeps, LandKeeps, ChainFailsKeeps, RequestStepKeeps DEF SandboxNext

LEMMA SandboxInvTyped == SandboxInv => SandboxTypeOK
<1> SUFFICES ASSUME SandboxInv PROVE SandboxTypeOK
  OBVIOUS
<1>1. published \in 0..made
  BY CacheFields DEF SandboxInv, PublishedAreMade, IsOne
<1> QED
  BY <1>1
     DEF SandboxInv, SandboxTyped, SandboxTypeOK, CacheType, FlightType, PrepType, TurnType

(* A publication never puts an older sandbox in the place of a newer one.    *)
LEMMA PublishedIsNewer ==
  SandboxInv /\ [SandboxNext]_sandboxVars =>
    (cache.tok # 0 /\ cache'.tok # 0 => cache'.tok >= cache.tok)
<1> SUFFICES ASSUME SandboxInv, [SandboxNext]_sandboxVars, cache.tok # 0, cache'.tok # 0
             PROVE  cache'.tok >= cache.tok
  OBVIOUS
<1>0. cache.tok \in Nat /\ cache.at \in Nat
  BY CacheFields DEF SandboxInv
<1>1. CASE cache' = cache
  BY <1>0, <1>1
<1>2. CASE Ages
  BY <1>0, <1>2 DEF Ages, SandboxInv, SandboxTyped, CacheType
<1>3. ASSUME NEW k \in Keys, Publish(k), cache' # cache
      PROVE  cache'.tok >= cache.tok
  <2>1. /\ IsReady(k) /\ ~(cache.at > flight[k].entryAt) /\ cache'.tok = flight[k].tok
        /\ flight[k].tok \in Nat /\ flight[k].entryAt \in Nat
    BY <1>3, FlightFields DEF Publish, Newer, IsReady, SandboxInv
  <2> QED
    BY <1>0, <2>1 DEF SandboxInv, ReadyIsNew
<1>4. ASSUME Invalidate PROVE FALSE
  BY <1>4 DEF Invalidate, Cleared, NoCache
<1>5. cache' = cache \/ Ages \/ (\E k \in Keys : Publish(k)) \/ Invalidate
  BY DEF SandboxNext, sandboxVars, Prewarm, SessionMinted, Enter, Join, Leave, Make, Land,
         ChainFails, RequestStep, ClientLeaves, Bootstrap, Attempt, Prepared, Started, Refused,
         NoTicket, TransportFails, ServerFails, Reconnecting
<1> QED
  BY <1>1, <1>2, <1>3, <1>4, <1>5

(* Everything stays typed: in particular a sandbox is published at most once,*)
(* and no counter of a turn leaves its bounds.                               *)
THEOREM SandboxTyping == SandboxSpec => []SandboxTypeOK
BY SandboxInvInit, SandboxInvStep, SandboxInvTyped, PTL DEF SandboxSpec

(* Whoever leads a flight or joins it, whoever clears the cache meanwhile: a *)
(* start has a sandbox, and not one that its turn has given up.              *)
THEOREM StartsHaveSandbox == SandboxSpec => []StartHasSandbox
<1>1. SandboxInv => StartHasSandbox
  BY DEF SandboxInv
<1> QED
  BY <1>1, SandboxInvInit, SandboxInvStep, PTL DEF SandboxSpec

(* The generation guard of publishSandboxAt does what it is there for, with  *)
(* any number of flights after each other and beside each other.             *)
THEOREM PublishesNewer == SandboxSpec => NeverOlder
BY SandboxInvInit, SandboxInvStep, PublishedIsNewer, PTL DEF SandboxSpec, NeverOlder

-----------------------------------------------------------------------------
(* A turn at the upstream (Turn).                                            *)

EventKinds == {"thinking", "text", "call", "ended"}

(* The last event is Ended, and no other one is.                             *)
EndsOnce(events) == \A i \in 1..Len(events) : events[i] = "ended" <=> i = Len(events)

TurnInv ==
  /\ tools \in BOOLEAN
  /\ step \in {"prepare", "relay", "call", "emit", "over"}
  /\ todo \in Seq(EventKinds) /\ sent \in Seq(EventKinds)
  /\ step # "over" => result = "no"
  /\ step \in {"prepare", "relay", "call"} => sent = <<>>
  /\ step = "emit" =>
       /\ EndsOnce(todo)
       /\ IF sent = <<>> THEN todo # <<>> ELSE sent[Len(sent)] = "ended" <=> todo = <<>>

LEMMA EndedIsLast ==
  ASSUME NEW events \in Seq(EventKinds \ {"ended"})
  PROVE  /\ events \o <<"ended">> \in Seq(EventKinds)
         /\ events \o <<"ended">> # <<>>
         /\ EndsOnce(events \o <<"ended">>)
<1> DEFINE S == EventKinds \ {"ended"}
           last == <<"ended">>
<1>1. events \in Seq(EventKinds) /\ last \in Seq(EventKinds)
  BY SeqMonotonic DEF EventKinds
<1>2. /\ events \o last \in Seq(EventKinds)
      /\ Len(events \o last) = Len(events) + 1
      /\ \A i \in 1..(Len(events) + 1) :
           (events \o last)[i] = IF i <= Len(events) THEN events[i] ELSE last[i - Len(events)]
  BY <1>1, ConcatProperties
<1>3. Len(events) \in Nat /\ \A i \in 1..Len(events) : events[i] # "ended"
  BY LenProperties, ElementOfSeq
<1>4. ASSUME NEW i \in 1..Len(events \o last)
      PROVE  (events \o last)[i] = "ended" <=> i = Len(events \o last)
  <2>1. CASE i <= Len(events)
    BY <1>2, <1>3, <2>1
  <2>2. CASE i = Len(events) + 1
    BY <1>2, <1>3, <2>2
  <2> QED
    BY <1>2, <1>3, <2>1, <2>2
<1>5. events \o last # <<>>
  BY <1>2, <1>3, EmptySeq
<1> QED
  BY <1>2, <1>4, <1>5 DEF EndsOnce

LEMMA WhenTyped ==
  ASSUME NEW S, NEW kind \in S, NEW cond
  PROVE  When(cond, kind) \in Seq(S)
BY EmptySeq DEF When

LEMMA DirectEndsOnce ==
  ASSUME NEW a \in Answers
  PROVE  /\ DirectEvents(a) \in Seq(EventKinds) /\ DirectEvents(a) # <<>>
         /\ EndsOnce(DirectEvents(a))
<1> DEFINE S == EventKinds \ {"ended"}
           t == When(a.reasoning, "thinking")
           x == When(Rest(a) # "none", "text")
           c == When(a.calls \/ Emulated(a), "call")
<1>1. t \in Seq(S) /\ x \in Seq(S) /\ c \in Seq(S)
  BY WhenTyped DEF EventKinds
<1>2. t \o x \in Seq(S)
  BY <1>1, ConcatProperties
<1>3. (t \o x) \o c \in Seq(S)
  BY <1>1, <1>2, ConcatProperties
<1> QED
  BY <1>3, EndedIsLast DEF DirectEvents

LEMMA RelayEndsOnce ==
  ASSUME NEW a \in Answers
  PROVE  /\ RelayEvents(a) \in Seq(EventKinds) /\ RelayEvents(a) # <<>>
         /\ EndsOnce(RelayEvents(a))
<1> DEFINE S == EventKinds \ {"ended"}
           t1 == When(a.reasoning /\ Rest(a) # "none", "thinking")
           t2 == When(a.reasoning, "thinking")
           x1 == When(Rest(a) # "none", "text")
           x2 == When(a.text # "none", "text")
<1>0. <<"call">> \in Seq(S)
  BY DEF EventKinds
<1>1. t1 \in Seq(S) /\ t2 \in Seq(S) /\ x1 \in Seq(S) /\ x2 \in Seq(S)
  BY WhenTyped DEF EventKinds
<1>2. t1 \o <<"call">> \in Seq(S) /\ t2 \o x2 \in Seq(S)
  BY <1>0, <1>1, ConcatProperties
<1>3. (t1 \o <<"call">>) \o x1 \in Seq(S)
  BY <1>1, <1>2, ConcatProperties
<1>4. CASE Emulated(a)
  BY <1>3, <1>4, EndedIsLast DEF RelayEvents
<1>5. CASE ~Emulated(a)
  BY <1>2, <1>5, EndedIsLast DEF RelayEvents
<1> QED
  BY <1>4, <1>5

LEMMA TurnInvInit == TurnInit => TurnInv
BY EmptySeq DEF TurnInit, TurnInv, EndsOnce

LEMMA TurnInvStep == TurnInv /\ [TurnNext]_turnVars => TurnInv'
<1> SUFFICES ASSUME TurnInv, [TurnNext]_turnVars
             PROVE  TurnInv'
  OBVIOUS
<1>1. CASE Prepare
  BY <1>1 DEF Prepare, Fail, TurnInv
<1>2. ASSUME NEW d, NEW a \in Answers, NEW events \in Seq(EventKinds), events # <<>>,
             EndsOnce(events), step \in {"call", "relay"}, Answered(a, events)
      PROVE  TurnInv'
  BY <1>2 DEF Answered, TurnInv
<1>3. ASSUME NEW d \in {0, CallMax},
             PollFails(d) \/ PollRefused(d) \/ PollPending(d) \/ PollCompleted(d)
      PROVE  TurnInv'
  <2>1. CASE PollFails(d)
    BY <2>1 DEF PollFails, NextPoll, Fail, turnRest, TurnInv
  <2>2. CASE PollRefused(d)
    BY <2>2 DEF PollRefused, Fail, TurnInv
  <2>3. CASE PollPending(d)
    BY <2>3 DEF PollPending, NextPoll, Fail, turnRest, TurnInv
  <2>4. CASE PollCompleted(d)
    BY <1>2, <2>4, DirectEndsOnce DEF PollCompleted
  <2> QED
    BY <1>3, <2>1, <2>2, <2>3, <2>4
<1>4. ASSUME NEW d \in {0, RelayMax}, RelayReturns(d)
      PROVE  TurnInv'
  <2>1. CASE Fail
    BY <1>4, <2>1 DEF RelayReturns, Fail, TurnInv
  <2> QED
    BY <1>2, <1>4, <2>1, RelayEndsOnce DEF RelayReturns
<1>5. CASE Emit
  <2>1. CASE step' = "over"
    BY <1>5, <2>1 DEF Emit, TurnInv
  <2>2. CASE step' # "over"
    <3>1. /\ step = "emit" /\ step' = "emit" /\ result' = "no" /\ todo # <<>> /\ tools' = tools
          /\ todo \in Seq(EventKinds) /\ sent \in Seq(EventKinds)
          /\ sent' = Append(sent, Head(todo)) /\ todo' = Tail(todo)
      BY <1>5, <2>2 DEF Emit, TurnInv
    <3>2. /\ Head(todo) \in EventKinds /\ Head(todo) = todo[1]
          /\ todo' \in Seq(EventKinds)
          /\ Len(todo') = Len(todo) - 1 /\ Len(todo) \in Nat \ {0}
          /\ \A i \in 1..Len(todo') : todo'[i] = todo[i + 1]
      BY <3>1, HeadTailProperties, EmptySeq
    <3>3. /\ sent' \in Seq(EventKinds) /\ sent' # <<>>
          /\ sent'[Len(sent')] = todo[1]
      BY <3>1, <3>2, AppendProperties
    <3>4. EndsOnce(todo) /\ EndsOnce(todo')
      <4>1. EndsOnce(todo)
        BY <3>1 DEF TurnInv
      <4>2. ASSUME NEW i \in 1..Len(todo')
            PROVE  todo'[i] = "ended" <=> i = Len(todo')
        <5>1. i + 1 \in 1..Len(todo) /\ todo'[i] = todo[i + 1]
          BY <3>2
        <5> QED
          BY <3>2, <4>1, <5>1 DEF EndsOnce
      <4> QED
        BY <4>1, <4>2 DEF EndsOnce
    <3>5. todo' = <<>> <=> Len(todo) = 1
      BY <3>1, <3>2, EmptySeq
    <3>6. todo[1] = "ended" <=> todo' = <<>>
      BY <3>2, <3>4, <3>5 DEF EndsOnce
    <3> QED
      BY <3>1, <3>2, <3>3, <3>4, <3>6 DEF TurnInv
  <2> QED
    BY <2>1, <2>2
<1>6. CASE Return
  BY <1>6 DEF Return, TurnInv
<1>7. CASE UNCHANGED turnVars
  BY <1>7 DEF turnVars, TurnInv
<1> QED
  BY <1>1, <1>3, <1>4, <1>5, <1>6, <1>7 DEF TurnNext, PollStep, RelayStep

(* One step of a turn is one of the contract, or changes nothing of it.      *)
LEMMA TurnStepKept ==
  TurnInv /\ [TurnNext]_turnVars => [Contract!ContractNext]_(Contract!contractVars)
<1> USE DEF Contract!contractVars, Contract!ContractNext
<1> SUFFICES ASSUME TurnInv, [TurnNext]_turnVars
             PROVE  Contract!ContractNext \/ UNCHANGED Contract!contractVars
  OBVIOUS
<1>1. ASSUME Fail, step \in {"prepare", "relay", "call"}
      PROVE  Contract!Fails
  BY <1>1 DEF Fail, TurnInv, Contract!Fails
<1>2. CASE Prepare
  BY <1>1, <1>2 DEF Prepare
<1>3. CASE PollStep
  BY <1>1, <1>3
     DEF PollStep, PollFails, PollRefused, PollPending, PollCompleted, NextPoll, turnRest,
         Answered
<1>4. CASE RelayStep
  BY <1>1, <1>4 DEF RelayStep, RelayReturns, Answered
<1>5. CASE Emit
  <2>1. CASE step' = "over"
    BY <1>5, <2>1 DEF Emit, TurnInv, Contract!Stopped
  <2>2. CASE step' # "over"
    <3>1. /\ step = "emit" /\ result' = "no" /\ result = "no" /\ todo # <<>>
          /\ sent' = Append(sent, Head(todo))
      BY <1>5, <2>2 DEF Emit, TurnInv
    <3>2. Head(todo) \in EventKinds
      BY <3>1, HeadTailProperties DEF TurnInv
    <3>3. ~Contract!LastIs("ended")
      BY <3>1 DEF TurnInv, Contract!LastIs
    <3> QED
      BY <3>1, <3>2, <3>3 DEF Contract!Emits, EventKinds
  <2> QED
    BY <2>1, <2>2
<1>6. CASE Return
  BY <1>6 DEF Return, TurnInv, Contract!Succeeds, Contract!LastIs
<1>7. CASE UNCHANGED turnVars
  BY <1>7 DEF turnVars
<1> QED
  BY <1>2, <1>3, <1>4, <1>5, <1>6, <1>7 DEF TurnNext

(* A turn, direct or through the relay, implements the contract of Stream:   *)
(* what fails has emitted nothing, and success means Ended was the last      *)
(* event, for any budget, timeouts and limit of failures.                    *)
THEOREM TurnKeepsContract == TurnSpec => KeepsContract
<1>1. TurnInit => Contract!ContractInit
  BY DEF TurnInit, Contract!ContractInit
<1> QED
  BY <1>1, TurnInvInit, TurnInvStep, TurnStepKept, PTL
     DEF TurnSpec, KeepsContract, Contract!ContractSpec

-----------------------------------------------------------------------------
(* The one-time tokens (Tickets).                                            *)

Ticket == [id : 1..MaxTickets, young : BOOLEAN]

CallState ==
  [pc : {"idle", "drain", "wait", "mint", "send", "done"},
   ticket : 0..MaxTickets, young : BOOLEAN, left : Nat, gone : BOOLEAN]

TicketsTyped ==
  /\ tickets \in Seq(Ticket)
  /\ minted \in 0..MaxTickets
  /\ caller \in [Callers -> CallState]
  /\ carried \in [1..MaxTickets -> Nat]

Sending(c) == At(c, "send") /\ caller[c].ticket # Bare

(* A token is in the channel, with one caller, or carried, and only then has *)
(* it been minted.                                                           *)
PoolOwn ==
  \A i \in 1..Len(tickets) :
    /\ tickets[i].id <= minted /\ carried[tickets[i].id] = 0
    /\ \A j \in 1..Len(tickets) : tickets[j].id = tickets[i].id => j = i

CallersOwn ==
  \A c \in Callers : Sending(c) =>
    /\ caller[c].young /\ caller[c].ticket <= minted /\ carried[caller[c].ticket] = 0
    /\ \A d \in Callers : Sending(d) /\ caller[d].ticket = caller[c].ticket => d = c
    /\ \A i \in 1..Len(tickets) : tickets[i].id # caller[c].ticket

CarriedOnce ==
  \A t \in 1..MaxTickets : carried[t] <= 1 /\ (t > minted => carried[t] = 0)

TicketsInv == TicketsTyped /\ PoolOwn /\ CallersOwn /\ CarriedOnce

LEMMA TicketFields ==
  /\ \A t \in Ticket : t.id \in 1..MaxTickets /\ t.young \in BOOLEAN
  /\ \A m \in 1..MaxTickets, y \in BOOLEAN : [id |-> m, young |-> y] \in Ticket
  /\ \A t \in Ticket : LET old == [t EXCEPT !.young = FALSE] IN old \in Ticket /\ old.id = t.id
BY DEF Ticket

LEMMA CallFields ==
  ASSUME NEW f \in [Callers -> CallState], NEW c \in Callers
  PROVE  /\ f[c].ticket \in 0..MaxTickets /\ f[c].young \in BOOLEAN
         /\ f[c].pc \in {"idle", "drain", "wait", "mint", "send", "done"}
         /\ f[c].left \in Nat /\ f[c].gone \in BOOLEAN
BY DEF CallState

(* What is in the channel is a token.                                        *)
LEMMA InChannel ==
  ASSUME TicketsTyped
  PROVE  /\ Len(tickets) \in Nat /\ minted \in Nat /\ minted <= MaxTickets /\ MaxTickets \in Nat
         /\ \A i \in 1..Len(tickets) :
              tickets[i] \in Ticket /\ tickets[i].id \in 1..MaxTickets
         /\ \A t \in 1..MaxTickets : carried[t] \in Nat
         /\ \A c \in Callers : Sending(c) => caller[c].ticket \in 1..MaxTickets
<1>1. tickets \in Seq(Ticket) /\ Len(tickets) \in Nat
  BY LenProperties DEF TicketsTyped
<1>2. \A i \in 1..Len(tickets) : tickets[i] \in Ticket
  BY <1>1, ElementOfSeq
<1>3. \A c \in Callers : Sending(c) => caller[c].ticket \in 1..MaxTickets
  BY CallFields, TicketsAssumption DEF TicketsTyped, Sending, Bare
<1> QED
  BY <1>1, <1>2, <1>3, TicketFields, TicketsAssumption DEF TicketsTyped

LEMMA TicketsInvInit == TicketsInit => TicketsInv
BY TicketsAssumption, EmptySeq
   DEF TicketsInit, NoCall, Bare, CallState, TicketsInv, TicketsTyped, PoolOwn, CallersOwn, CarriedOnce,
       Sending, At

LEMMA GetsTyped ==
  ASSUME caller \in [Callers -> CallState], NEW c \in Callers, NEW t \in 0..MaxTickets,
         NEW y \in BOOLEAN, Gets(c, t, y)
  PROVE  /\ caller' \in [Callers -> CallState]
         /\ \A d \in Callers : d # c => caller'[d] = caller[d]
         /\ caller'[c].ticket = t /\ caller'[c].young = y
<1> DEFINE g == [caller[c] EXCEPT !.pc = "send", !.ticket = t, !.young = y]
<1>1. g \in CallState /\ g.ticket = t /\ g.young = y
  BY DEF CallState
<1>2. caller' = [caller EXCEPT ![c] = g]
  BY DEF Gets
<1> QED
  BY <1>1, <1>2

LEMMA MovesTyped ==
  ASSUME caller \in [Callers -> CallState], NEW c \in Callers,
         NEW l \in {"idle", "drain", "wait", "mint", "done"}, Moves(c, l)
  PROVE  /\ caller' \in [Callers -> CallState]
         /\ \A d \in Callers : d # c => caller'[d] = caller[d]
         /\ ~Sending(c)'
<1> DEFINE g == [caller[c] EXCEPT !.pc = l]
<1>1. g \in CallState /\ g.pc = l
  BY DEF CallState
<1>2. caller' = [caller EXCEPT ![c] = g]
  BY DEF Moves
<1> QED
  BY <1>1, <1>2 DEF Sending, At

LEMMA NextAttemptTyped ==
  ASSUME caller \in [Callers -> CallState], NEW c \in Callers, caller' = NextAttempt(c)
  PROVE  /\ caller' \in [Callers -> CallState]
         /\ \A d \in Callers : d # c => caller'[d] = caller[d]
         /\ ~Sending(c)'
<1> DEFINE g == IF caller[c].left > 1
                THEN [caller[c] EXCEPT !.pc = "idle", !.ticket = Bare, !.left = @ - 1]
                ELSE [caller[c] EXCEPT !.pc = "done"]
<1>1. g \in CallState /\ g.pc # "send"
  <2>1. 0 \in 0..MaxTickets /\ (caller[c].left > 1 => caller[c].left - 1 \in Nat)
    BY CallFields, TicketsAssumption
  <2>2. [caller[c] EXCEPT !.pc = "done"] \in CallState
    BY DEF CallState
  <2>3. ASSUME NEW n \in Nat
        PROVE  [caller[c] EXCEPT !.pc = "idle", !.ticket = Bare, !.left = n] \in CallState
    BY <2>1 DEF CallState, Bare
  <2>4. CASE caller[c].left > 1
    <3>1. g = [caller[c] EXCEPT !.pc = "idle", !.ticket = Bare, !.left = caller[c].left - 1]
      BY <2>4
    <3>2. g \in CallState
      BY <2>1, <2>3, <2>4, <3>1
    <3> QED
      BY <2>4, <3>2 DEF CallState
  <2>5. CASE ~(caller[c].left > 1)
    <3>1. g = [caller[c] EXCEPT !.pc = "done"]
      BY <2>5
    <3> QED
      BY <2>2, <3>1 DEF CallState
  <2> QED
    BY <2>4, <2>5
<1>2. caller' = [caller EXCEPT ![c] = g]
  BY DEF NextAttempt
<1> QED
  BY <1>1, <1>2 DEF Sending, At

LEMMA NoTicketTyped ==
  ASSUME caller \in [Callers -> CallState], NEW c \in Callers, NoTicketFor(c)
  PROVE  /\ caller' \in [Callers -> CallState]
         /\ \A d \in Callers : d # c => caller'[d] = caller[d]
         /\ ~Sending(c)'
<1>1. CASE c \in Starters
  BY <1>1, NextAttemptTyped DEF NoTicketFor
<1>2. CASE c \notin Starters
  <2> DEFINE g == [caller[c] EXCEPT !.pc = "send", !.ticket = Bare]
  <2>1. g \in CallState /\ g.ticket = Bare
    <3>1. 0 \in 0..MaxTickets
      BY TicketsAssumption
    <3> QED
      BY <3>1 DEF CallState, Bare
  <2>2. caller' = [caller EXCEPT ![c] = g]
    BY <1>2 DEF NoTicketFor
  <2> QED
    BY <2>1, <2>2 DEF Sending
<1> QED
  BY <1>1, <1>2

(* A caller that moves on without taking or carrying a token.                *)
LEMMA MovesKeepTickets ==
  ASSUME TicketsInv, NEW c \in Callers,
         caller' \in [Callers -> CallState],
         \A d \in Callers : d # c => caller'[d] = caller[d],
         Sending(c)' => /\ Sending(c) /\ caller'[c].ticket = caller[c].ticket
                        /\ caller'[c].young = caller[c].young,
         UNCHANGED <<tickets, minted, carried>>
  PROVE  TicketsInv'
<1>1. TicketsTyped' /\ PoolOwn' /\ CarriedOnce'
  BY DEF TicketsInv, TicketsTyped, PoolOwn, CarriedOnce
<1>2. \A d \in Callers : Sending(d)' =>
        /\ Sending(d) /\ caller'[d].ticket = caller[d].ticket
        /\ caller'[d].young = caller[d].young
  BY DEF Sending, At
<1>3. CallersOwn'
  BY <1>2 DEF TicketsInv, CallersOwn
<1> QED
  BY <1>1, <1>3 DEF TicketsInv

(* The first token leaves the channel, for the caller if it is young.        *)
LEMMA TakingKeepsTickets ==
  ASSUME TicketsInv, NEW c \in Callers, tickets # <<>>, tickets' = Tail(tickets),
         ~Sending(c),
         caller' \in [Callers -> CallState],
         \A d \in Callers : d # c => caller'[d] = caller[d],
         Sending(c)' => caller'[c].ticket = Head(tickets).id /\ caller'[c].young,
         UNCHANGED <<minted, carried>>
  PROVE  TicketsInv'
<1>1. /\ tickets \in Seq(Ticket) /\ tickets' \in Seq(Ticket)
      /\ Len(tickets') = Len(tickets) - 1 /\ Len(tickets) \in Nat \ {0}
      /\ \A i \in 1..Len(tickets') : tickets'[i] = tickets[i + 1]
      /\ Head(tickets) = tickets[1] /\ Head(tickets) \in Ticket
  BY HeadTailProperties, EmptySeq DEF TicketsInv, TicketsTyped
<1>2. \A i \in 1..Len(tickets') : i + 1 \in 1..Len(tickets) /\ i + 1 # 1
  BY <1>1
<1>3. 1 \in 1..Len(tickets) /\ Head(tickets).id \in 1..MaxTickets
  BY <1>1, TicketFields
<1>4. TicketsTyped' /\ CarriedOnce'
  BY <1>1 DEF TicketsInv, TicketsTyped, CarriedOnce
<1>5. PoolOwn'
  <2> SUFFICES ASSUME NEW i \in 1..Len(tickets')
               PROVE  /\ tickets'[i].id <= minted /\ carried[tickets'[i].id] = 0
                      /\ \A j \in 1..Len(tickets') : tickets'[j].id = tickets'[i].id => j = i
    BY DEF PoolOwn
  <2> QED
    BY <1>1, <1>2 DEF TicketsInv, PoolOwn
<1>6. CallersOwn'
  <2> SUFFICES ASSUME NEW d \in Callers, Sending(d)'
               PROVE  /\ caller'[d].young /\ caller'[d].ticket <= minted
                      /\ carried[caller'[d].ticket] = 0
                      /\ \A e \in Callers :
                           Sending(e)' /\ caller'[e].ticket = caller'[d].ticket => e = d
                      /\ \A i \in 1..Len(tickets') : tickets'[i].id # caller'[d].ticket
    BY DEF CallersOwn
  <2>1. \A e \in Callers : e # c /\ Sending(e)' =>
          Sending(e) /\ caller'[e].ticket = caller[e].ticket /\ caller'[e].young = caller[e].young
    BY DEF Sending, At
  <2>2. \A e \in Callers : e # c /\ Sending(e)' => caller'[e].ticket # Head(tickets).id
    BY <1>1, <1>3, <2>1 DEF TicketsInv, CallersOwn
  <2>3. CASE d = c
    <3>1. caller'[d].ticket = tickets[1].id /\ caller'[d].young
      BY <1>1, <2>3
    <3>2. \A i \in 1..Len(tickets') : tickets'[i].id # tickets[1].id
      BY <1>1, <1>2, <1>3 DEF TicketsInv, PoolOwn
    <3> QED
      BY <1>1, <1>3, <2>2, <2>3, <3>1, <3>2 DEF TicketsInv, PoolOwn
  <2>4. CASE d # c
    <3>1. Sending(d) /\ caller'[d].ticket = caller[d].ticket /\ caller'[d].young = caller[d].young
      BY <2>1, <2>4
    <3>2. \A i \in 1..Len(tickets') : tickets'[i].id # caller'[d].ticket
      BY <1>1, <1>2, <3>1 DEF TicketsInv, CallersOwn
    <3>3. \A e \in Callers : Sending(e)' /\ caller'[e].ticket = caller'[d].ticket => e = d
      BY <2>1, <2>2, <2>4, <3>1 DEF TicketsInv, CallersOwn
    <3> QED
      BY <3>1, <3>2, <3>3 DEF TicketsInv, CallersOwn
  <2> QED
    BY <2>3, <2>4
<1> QED
  BY <1>4, <1>5, <1>6 DEF TicketsInv

LEMMA CarryKeepsTickets ==
  ASSUME TicketsInv, NEW c \in Callers, At(c, "send"), carried' = Carry(c),
         caller' \in [Callers -> CallState],
         \A d \in Callers : d # c => caller'[d] = caller[d],
         ~Sending(c)',
         UNCHANGED <<tickets, minted>>
  PROVE  TicketsInv'
<1>1. \A d \in Callers : Sending(d)' =>
        d # c /\ Sending(d) /\ caller'[d].ticket = caller[d].ticket /\ caller'[d].young = caller[d].young
  BY DEF Sending, At
<1>2. CASE caller[c].ticket = Bare
  <2>1. carried' = carried
    BY <1>2 DEF Carry
  <2> QED
    BY <1>1, <2>1 DEF TicketsInv, TicketsTyped, PoolOwn, CallersOwn, CarriedOnce
<1>3. CASE caller[c].ticket # Bare
  <2> DEFINE t == caller[c].ticket
  <2>1. /\ t \in 1..MaxTickets /\ t <= minted /\ carried[t] = 0
        /\ \A i \in 1..Len(tickets) : tickets[i].id # t
        /\ \A d \in Callers : Sending(d) /\ caller[d].ticket = t => d = c
    BY <1>3, InChannel DEF TicketsInv, CallersOwn, Sending
  <2>2. carried' \in [1..MaxTickets -> Nat] /\ carried' = [carried EXCEPT ![t] = 1]
    BY <1>3, <2>1 DEF Carry, TicketsInv, TicketsTyped
  <2>3. TicketsTyped' /\ CarriedOnce'
    BY <2>1, <2>2 DEF TicketsInv, TicketsTyped, CarriedOnce
  <2>4. PoolOwn'
    <3>1. \A i \in 1..Len(tickets) : tickets[i].id \in 1..MaxTickets
      BY InChannel DEF TicketsInv
    <3> QED
      BY <2>1, <2>2, <3>1 DEF TicketsInv, TicketsTyped, PoolOwn
  <2>5. CallersOwn'
    <3>1. \A d \in Callers : Sending(d) => caller[d].ticket \in 1..MaxTickets
      BY InChannel DEF TicketsInv
    <3> QED
      BY <1>1, <2>1, <2>2, <3>1 DEF TicketsInv, TicketsTyped, CallersOwn
  <2> QED
    BY <2>3, <2>4, <2>5 DEF TicketsInv
<1> QED
  BY <1>2, <1>3

LEMMA MintKeepsTickets ==
  ASSUME TicketsInv, NEW c \in Callers, Mints(c)
  PROVE  TicketsInv'
<1>1. /\ minted' = minted + 1 /\ minted' \in 1..MaxTickets /\ UNCHANGED <<tickets, carried>>
      /\ carried[minted'] = 0
  BY TicketsAssumption DEF Mints, TicketsInv, TicketsTyped, CarriedOnce
<1>2. /\ \A d \in Callers : d # c => caller'[d] = caller[d]
      /\ caller'[c].ticket = minted' /\ caller'[c].young
      /\ caller' \in [Callers -> CallState]
  <2>1. caller \in [Callers -> CallState]
    BY DEF TicketsInv, TicketsTyped
  <2>2. Gets(c, minted', TRUE) /\ minted' \in 0..MaxTickets
    <3>1. minted' \in 0..MaxTickets
      BY <1>1, TicketsAssumption
    <3> QED
      BY <1>1, <3>1 DEF Mints
  <2> QED
    BY <2>1, <2>2, GetsTyped
<1>3. TicketsTyped' /\ PoolOwn' /\ CarriedOnce'
  <2>1. TicketsTyped' /\ minted \in Nat
    BY <1>1, <1>2, InChannel DEF TicketsInv, TicketsTyped
  <2>2. PoolOwn'
    BY <1>1, <2>1, InChannel DEF TicketsInv, PoolOwn
  <2>3. CarriedOnce'
    BY <1>1, <2>1 DEF TicketsInv, CarriedOnce
  <2> QED
    BY <2>1, <2>2, <2>3
<1>4. CallersOwn'
  <2>1. \A d \in Callers : d # c /\ Sending(d)' =>
          Sending(d) /\ caller'[d].ticket = caller[d].ticket /\ caller'[d].young = caller[d].young
    BY <1>2 DEF Sending, At
  <2>2. \A d \in Callers : d # c /\ Sending(d)' => caller'[d].ticket <= minted
    BY <2>1 DEF TicketsInv, CallersOwn
  <2>3. \A i \in 1..Len(tickets) : tickets[i].id <= minted
    BY DEF TicketsInv, PoolOwn
  <2>4. \A d \in Callers : caller'[d].ticket \in 0..MaxTickets /\ minted \in Nat
    BY <1>2, InChannel, CallFields DEF TicketsInv
  <2> SUFFICES ASSUME NEW d \in Callers, Sending(d)'
               PROVE  /\ caller'[d].young /\ caller'[d].ticket <= minted'
                      /\ carried[caller'[d].ticket] = 0
                      /\ \A e \in Callers :
                           Sending(e)' /\ caller'[e].ticket = caller'[d].ticket => e = d
                      /\ \A i \in 1..Len(tickets) : tickets[i].id # caller'[d].ticket
    BY <1>1 DEF CallersOwn
  <2>5. CASE d = c
    <3>1. \A i \in 1..Len(tickets) : tickets[i].id # minted'
      BY <1>1, <2>3, <2>4, ElementOfSeq DEF TicketsInv, TicketsTyped
    <3> QED
      BY <1>1, <1>2, <2>2, <2>4, <2>5, <3>1
  <2>6. CASE d # c
    BY <1>1, <1>2, <2>1, <2>2, <2>4, <2>6 DEF TicketsInv, CallersOwn
  <2> QED
    BY <2>5, <2>6
<1> QED
  BY <1>3, <1>4 DEF TicketsInv

LEMMA RefillKeepsTickets == TicketsInv /\ RefillMints => TicketsInv'
<1> SUFFICES ASSUME TicketsInv, RefillMints
             PROVE  TicketsInv'
  OBVIOUS
<1> DEFINE new == [id |-> minted + 1, young |-> TRUE]
<1>1. /\ minted' = minted + 1 /\ minted' \in 1..MaxTickets /\ UNCHANGED <<caller, carried>>
      /\ carried[minted'] = 0 /\ new \in Ticket /\ tickets \in Seq(Ticket) /\ minted \in Nat
  <2>1. /\ minted' = minted + 1 /\ minted' \in 1..MaxTickets /\ UNCHANGED <<caller, carried>>
        /\ tickets \in Seq(Ticket) /\ minted \in Nat
    BY TicketsAssumption DEF RefillMints, TicketsInv, TicketsTyped
  <2>2. carried[minted'] = 0
    BY <2>1 DEF TicketsInv, CarriedOnce
  <2>3. new \in Ticket
    BY <2>1, TicketFields
  <2> QED
    BY <2>1, <2>2, <2>3
<1>2. \A i \in 1..Len(tickets) : tickets[i].id \in 1..MaxTickets /\ tickets[i].id <= minted
  BY InChannel DEF TicketsInv, PoolOwn
<1>3. /\ tickets' \in Seq(Ticket) /\ Len(tickets) \in Nat
      /\ \/ tickets' = tickets
         \/ /\ Len(tickets') = Len(tickets) + 1
            /\ \A i \in 1..Len(tickets) : tickets'[i] = tickets[i]
            /\ tickets'[Len(tickets) + 1].id = minted'
  BY <1>1, AppendProperties, LenProperties DEF RefillMints
<1>4. \A i \in 1..Len(tickets') : IF i \in 1..Len(tickets) THEN tickets'[i] = tickets[i]
                                   ELSE i = Len(tickets) + 1 /\ tickets'[i].id = minted'
  BY <1>3
<1>5. TicketsTyped' /\ CarriedOnce'
  BY <1>1, <1>3 DEF TicketsInv, TicketsTyped, CarriedOnce
<1>6. PoolOwn'
  <2>1. \A i \in 1..Len(tickets') :
          /\ tickets'[i].id <= minted' /\ carried[tickets'[i].id] = 0
          /\ tickets'[i].id = minted' => i = Len(tickets) + 1
          /\ tickets'[i].id # minted' => i \in 1..Len(tickets) /\ tickets'[i] = tickets[i]
    BY <1>1, <1>2, <1>4 DEF TicketsInv, PoolOwn
  <2>2. ASSUME NEW i \in 1..Len(tickets'), NEW j \in 1..Len(tickets'),
               tickets'[j].id = tickets'[i].id
        PROVE  j = i
    BY <2>1, <2>2 DEF TicketsInv, PoolOwn
  <2> QED
    BY <1>1, <2>1, <2>2 DEF PoolOwn
<1>7. \A c \in Callers : Sending(c)' <=> Sending(c)
  BY <1>1 DEF Sending, At
<1>8. \A c \in Callers : Sending(c) => caller[c].ticket <= minted /\ caller[c].ticket \in Nat
  BY InChannel DEF TicketsInv, CallersOwn
<1>9. CallersOwn'
  BY <1>1, <1>2, <1>4, <1>7, <1>8 DEF TicketsInv, CallersOwn
<1> QED
  BY <1>5, <1>6, <1>9 DEF TicketsInv

LEMMA AgeKeepsTickets == TicketsInv /\ TicketAges => TicketsInv'
<1> SUFFICES ASSUME TicketsInv, TicketAges
             PROVE  TicketsInv'
  OBVIOUS
<1>1. tickets \in Seq(Ticket) /\ UNCHANGED <<minted, caller, carried>>
  BY DEF TicketsInv, TicketsTyped, TicketAges
<1>2. PICK i \in 1..Len(tickets) : tickets' = [tickets EXCEPT ![i].young = FALSE]
  BY DEF TicketAges
<1>3. [tickets[i] EXCEPT !.young = FALSE] \in Ticket
  BY <1>1, ElementOfSeq, TicketFields
<1>4. /\ tickets' \in Seq(Ticket) /\ Len(tickets') = Len(tickets)
      /\ \A j \in 1..Len(tickets) :
           tickets'[j] = IF j = i THEN [tickets[i] EXCEPT !.young = FALSE] ELSE tickets[j]
  BY <1>1, <1>2, <1>3, ExceptSeq
<1>5. \A j \in 1..Len(tickets) : tickets'[j].id = tickets[j].id
  BY <1>1, <1>4, ElementOfSeq, TicketFields
<1>6. TicketsTyped' /\ CarriedOnce'
  BY <1>1, <1>4 DEF TicketsInv, TicketsTyped, CarriedOnce
<1>7. PoolOwn'
  BY <1>1, <1>4, <1>5 DEF TicketsInv, PoolOwn
<1>8. CallersOwn'
  BY <1>1, <1>4, <1>5 DEF TicketsInv, CallersOwn, Sending, At
<1> QED
  BY <1>6, <1>7, <1>8 DEF TicketsInv

(* What a caller does.                                                       *)
LEMMA CallerKeepsTickets ==
  ASSUME TicketsInv, NEW c \in Callers,
         \/ Asks(c) \/ Drains(c) \/ Forgoes(c) \/ FindsNone(c) \/ WaitTakes(c) \/ WaitOver(c)
         \/ Mints(c) \/ MintFails(c) \/ Replied(c) \/ TriesAgain(c) \/ CallerLeaves(c)
  PROVE  TicketsInv'
<1>0. caller \in [Callers -> CallState]
  BY DEF TicketsInv, TicketsTyped
<1>1. ASSUME NEW l \in {"idle", "drain", "wait", "mint", "done"}, Moves(c, l),
             UNCHANGED <<tickets, minted, carried>>
      PROVE  TicketsInv'
  BY <1>0, <1>1, MovesTyped, MovesKeepTickets
<1>2. ASSUME NoTicketFor(c), UNCHANGED <<tickets, minted, carried>>
      PROVE  TicketsInv'
  BY <1>0, <1>2, NoTicketTyped, MovesKeepTickets
<1>3. ASSUME ~At(c, "send"), tickets # <<>>, tickets' = Tail(tickets),
             UNCHANGED <<minted, carried>>,
             \/ Head(tickets).young /\ Gets(c, Head(tickets).id, TRUE)
             \/ Moves(c, "mint") \/ UNCHANGED caller
      PROVE  TicketsInv'
  <2>1. ~Sending(c)
    BY <1>3 DEF Sending
  <2>2. CASE Gets(c, Head(tickets).id, TRUE)
    <3>1. Head(tickets) \in Ticket
      BY <1>3, HeadTailProperties DEF TicketsInv, TicketsTyped
    <3>2. Head(tickets).id \in 0..MaxTickets
      BY <3>1, TicketFields, TicketsAssumption
    <3> QED
      BY <1>0, <1>3, <2>1, <2>2, <3>2, GetsTyped, TakingKeepsTickets
  <2>3. CASE Moves(c, "mint")
    BY <1>0, <1>3, <2>1, <2>3, MovesTyped, TakingKeepsTickets
  <2>4. CASE UNCHANGED caller
    <3>1. ~Sending(c)'
      BY <2>1, <2>4 DEF Sending, At
    <3> QED
      BY <1>0, <1>3, <2>1, <2>4, <3>1, TakingKeepsTickets
  <2> QED
    BY <1>3, <2>2, <2>3, <2>4
<1>4. CASE Asks(c)
  BY <1>1, <1>4 DEF Asks
<1>5. CASE Drains(c)
  BY <1>3, <1>5 DEF Drains, At
<1>6. CASE Forgoes(c)
  BY <1>2, <1>6 DEF Forgoes
<1>7. CASE FindsNone(c)
  BY <1>1, <1>7 DEF FindsNone
<1>8. CASE WaitTakes(c)
  BY <1>3, <1>8 DEF WaitTakes, At
<1>9. CASE WaitOver(c)
  BY <1>1, <1>9 DEF WaitOver
<1>10. CASE Mints(c)
  BY <1>10, MintKeepsTickets
<1>11. CASE MintFails(c)
  BY <1>2, <1>11 DEF MintFails
<1>12. CASE Replied(c)
  BY <1>0, <1>12, MovesTyped, CarryKeepsTickets DEF Replied
<1>13. CASE TriesAgain(c)
  BY <1>0, <1>13, NextAttemptTyped, CarryKeepsTickets DEF TriesAgain
<1>14. CASE CallerLeaves(c)
  <2> DEFINE g == [caller[c] EXCEPT !.gone = TRUE]
  <2>1. /\ g \in CallState /\ g.ticket = caller[c].ticket /\ g.young = caller[c].young
        /\ g.pc = caller[c].pc
    BY <1>0 DEF CallState
  <2>2. caller' = [caller EXCEPT ![c] = g]
    BY <1>14 DEF CallerLeaves
  <2>3. caller' \in [Callers -> CallState] /\ \A d \in Callers : d # c => caller'[d] = caller[d]
    BY <1>0, <2>1, <2>2
  <2>4. Sending(c)' => /\ Sending(c) /\ caller'[c].ticket = caller[c].ticket
                       /\ caller'[c].young = caller[c].young
    BY <1>0, <2>1, <2>2 DEF Sending, At
  <2>5. UNCHANGED <<tickets, minted, carried>>
    BY <1>14 DEF CallerLeaves
  <2> QED
    BY <2>3, <2>4, <2>5, MovesKeepTickets
<1> QED
  BY <1>4, <1>5, <1>6, <1>7, <1>8, <1>9, <1>10, <1>11, <1>12, <1>13, <1>14

LEMMA TicketsInvStep == TicketsInv /\ [TicketsNext]_ticketVars => TicketsInv'
<1> SUFFICES ASSUME TicketsInv, [TicketsNext]_ticketVars
             PROVE  TicketsInv'
  OBVIOUS
<1>1. ASSUME UNCHANGED <<tickets, minted, caller, carried>>
      PROVE  TicketsInv'
  BY <1>1
     DEF TicketsInv, TicketsTyped, PoolOwn, CallersOwn, CarriedOnce, Sending, At
<1>2. CASE RefillLooks \/ RefillFails \/ RefillWakes \/ QuietEnds \/ UNCHANGED ticketVars
  BY <1>1, <1>2 DEF RefillLooks, RefillFails, RefillWakes, QuietEnds, ticketVars
<1> QED
  BY <1>2, RefillKeepsTickets, AgeKeepsTickets, CallerKeepsTickets DEF TicketsNext

LEMMA TicketsInvOnce == TicketsInv => TicketsOnce
BY DEF TicketsInv, PoolOwn, CallersOwn, CarriedOnce, TicketsOnce, Sending

(* Whatever the calls, their retries and the refill loop do side by side, no *)
(* two calls carry one token and none carries an old one, for any number of  *)
(* callers and attempts and any size of the pool.                            *)
THEOREM TicketsAreOnce == TicketsSpec => []TicketsOnce
BY TicketsInvInit, TicketsInvStep, TicketsInvOnce, PTL DEF TicketsSpec
(* The files of a request (Attachments).                                     *)

SlotKinds == {"none", "queued", "open", "got", "failed"}
Unsettled == {"queued", "open"}

(* The parts of message m up to n that resolve, and those the serial loop    *)
(* takes.                                                                    *)
Resolved(m, n) == {j \in 1..n : Resolves(m, j)}
TakenUpTo(m, n) ==
  {i \in 1..n : Resolves(m, i) /\ Cardinality(Resolved(m, i - 1)) < MaxAttachments}

(* Message m has the files of its parts up to n.                             *)
HasFiles(m, n) ==
  /\ {files[m][k] : k \in 1..Len(files[m])} = TakenUpTo(m, n)
  /\ \A k \in 1..(Len(files[m]) - 1) : files[m][k] < files[m][k + 1]
  /\ Len(files[m]) = IF Cardinality(Resolved(m, n)) < MaxAttachments
                     THEN Cardinality(Resolved(m, n)) ELSE MaxAttachments

AttachmentsTyped ==
  /\ letter \in Seq(Seq(Payload)) /\ reading \in Nat \ {0} /\ merging \in Nat
  /\ download \in Seq(SlotKinds) /\ files \in [1..Len(letter) -> Seq(Nat)]

(* A slot is what its payload and the answer have made of it.                *)
SlotIsRight(i) ==
  /\ download[i] = "got" => Resolves(reading, i)
  /\ download[i] \in {"none", "failed"} => ~Resolves(reading, i)
  /\ download[i] \in Unsettled =>
       letter[reading][i] = "remote" /\ <<reading, i>> \notin answers

(* The message that is read: not yet looked at, downloading, or merged up to *)
(* a slot.                                                                   *)
ReadingRight ==
  IF merging = 0 /\ download = <<>>
  THEN /\ \A i \in Nat : <<reading, i>> \notin answers
       /\ Reading => files[reading] = <<>>
  ELSE /\ Reading /\ Len(download) = Len(letter[reading])
       /\ \A i \in 1..Len(download) : SlotIsRight(i)
       /\ merging = 0 => files[reading] = <<>>
       /\ merging > 0 =>
            /\ merging <= Len(download) + 1
            /\ \A i \in 1..Len(download) : download[i] \notin Unsettled
            /\ HasFiles(reading, merging - 1)

(* The messages before it are done, those after it are untouched.            *)
OthersRight ==
  /\ \A m \in 1..(reading - 1) : m <= Len(letter) /\ HasFiles(m, Len(letter[m]))
  /\ \A m \in 1..Len(letter) : m > reading => files[m] = <<>>
  /\ \A m \in Nat, i \in Nat : <<m, i>> \in answers => m <= reading

AttachmentsInv == AttachmentsTyped /\ ReadingRight /\ OthersRight

LEMMA AttachmentsInvInit == AttachmentsInit => AttachmentsInv
<1> SUFFICES ASSUME AttachmentsInit PROVE AttachmentsInv
  OBVIOUS
<1>1. letter \in Seq(Seq(Payload))
  BY AttachmentsAssumption DEF AttachmentsInit
<1>2. AttachmentsTyped
  BY <1>1, EmptySeq DEF AttachmentsInit, AttachmentsTyped
<1>3. Len(letter) \in Nat
  BY <1>1, LenProperties
<1>4. ReadingRight
  BY <1>3 DEF AttachmentsInit, ReadingRight, Reading
<1>5. OthersRight
  BY <1>3 DEF AttachmentsInit, OthersRight
<1> QED
  BY <1>2, <1>4, <1>5 DEF AttachmentsInv

LEMMA ResolvedGrows ==
  ASSUME NEW m, NEW n \in Nat
  PROVE  /\ IsFiniteSet(Resolved(m, n)) /\ Cardinality(Resolved(m, n)) \in Nat
         /\ Cardinality(Resolved(m, n + 1)) =
              IF Resolves(m, n + 1) THEN Cardinality(Resolved(m, n)) + 1
              ELSE Cardinality(Resolved(m, n))
         /\ TakenUpTo(m, n + 1) =
              IF Resolves(m, n + 1) /\ Cardinality(Resolved(m, n)) < MaxAttachments
              THEN TakenUpTo(m, n) \cup {n + 1} ELSE TakenUpTo(m, n)
<1>1. IsFiniteSet(1..n) /\ Resolved(m, n) \in SUBSET (1..n)
  BY FS_Interval DEF Resolved
<1>2. IsFiniteSet(Resolved(m, n)) /\ Cardinality(Resolved(m, n)) \in Nat
  BY <1>1, FS_Subset, FS_CardinalityType
<1>3. Resolved(m, n + 1) = IF Resolves(m, n + 1) THEN Resolved(m, n) \cup {n + 1} ELSE Resolved(m, n)
  BY DEF Resolved
<1>4. n + 1 \notin Resolved(m, n)
  BY DEF Resolved
<1>5. Cardinality(Resolved(m, n) \cup {n + 1}) = Cardinality(Resolved(m, n)) + 1
  BY <1>2, <1>4, FS_AddElement
<1>6. (n + 1) - 1 = n
  OBVIOUS
<1>7. 1..(n + 1) = (1..n) \cup {n + 1}
  OBVIOUS
<1>8. TakenUpTo(m, n + 1) =
        IF Resolves(m, n + 1) /\ Cardinality(Resolved(m, n)) < MaxAttachments
        THEN TakenUpTo(m, n) \cup {n + 1} ELSE TakenUpTo(m, n)
  BY <1>6, <1>7 DEF TakenUpTo
<1> QED
  BY <1>2, <1>3, <1>5, <1>8

LEMMA HasFilesSame ==
  ASSUME UNCHANGED <<letter, files, answers>>
  PROVE  \A m, n : HasFiles(m, n)' <=> HasFiles(m, n)
<1>1. \A m, n : Resolved(m, n)' = Resolved(m, n)
  BY DEF Resolved, Resolves
<1>2. \A m, n : TakenUpTo(m, n)' = TakenUpTo(m, n)
  BY <1>1 DEF TakenUpTo, Resolves
<1> QED
  BY <1>1, <1>2 DEF HasFiles

LEMMA HasFilesKept ==
  ASSUME NEW m, NEW n \in Nat, HasFiles(m, n), letter' = letter, files'[m] = files[m],
         \A i \in 1..n : <<m, i>> \in answers' <=> <<m, i>> \in answers
  PROVE  HasFiles(m, n)'
<1>1. \A j \in 1..n : Resolves(m, j)' <=> Resolves(m, j)
  BY DEF Resolves
<1>2. \A k \in 0..n : Resolved(m, k)' = Resolved(m, k)
  BY <1>1 DEF Resolved
<1>3. TakenUpTo(m, n)' = TakenUpTo(m, n)
  <2>1. \A i \in 1..n : i - 1 \in 0..n
    OBVIOUS
  <2>2. \A i \in 1..n : Resolved(m, i - 1)' = Resolved(m, i - 1)
    BY <1>2, <2>1
  <2> QED
    BY <1>1, <2>2 DEF TakenUpTo
<1>4. Resolved(m, n)' = Resolved(m, n)
  BY <1>2
<1> QED
  BY <1>3, <1>4 DEF HasFiles

(* The merge takes a slot, or leaves it.                                     *)
LEMMA MergeHasFiles ==
  ASSUME NEW m, NEW n \in Nat, HasFiles(m, n), files[m] \in Seq(Nat),
         letter' = letter, answers' = answers,
         files'[m] = IF Len(files[m]) >= MaxAttachments \/ ~Resolves(m, n + 1) THEN files[m]
                     ELSE Append(files[m], n + 1)
  PROVE  HasFiles(m, n + 1)' /\ files'[m] \in Seq(Nat)
<1>1. \A k : Resolved(m, k)' = Resolved(m, k) /\ TakenUpTo(m, k)' = TakenUpTo(m, k)
  BY DEF Resolved, TakenUpTo, Resolves
<1> DEFINE c == Cardinality(Resolved(m, n))
           d == Cardinality(Resolved(m, n + 1))
           s == files[m]
           l == Len(s)
           R == Resolves(m, n + 1)
<1>2. c \in Nat /\ l \in Nat /\ MaxAttachments \in Nat
  BY ResolvedGrows, LenProperties, AttachmentsAssumption
<1>3. l = (IF c < MaxAttachments THEN c ELSE MaxAttachments)
  BY DEF HasFiles
<1>4. d = (IF R THEN c + 1 ELSE c)
  BY ResolvedGrows
<1>5. TakenUpTo(m, n + 1) =
        IF R /\ c < MaxAttachments THEN TakenUpTo(m, n) \cup {n + 1} ELSE TakenUpTo(m, n)
  BY ResolvedGrows
<1>6. files'[m] = IF l >= MaxAttachments \/ ~R THEN s ELSE Append(s, n + 1)
  OBVIOUS
<1>7. ASSUME NEW t, files'[m] = t,
             {t[k] : k \in 1..Len(t)} = TakenUpTo(m, n + 1),
             \A k \in 1..(Len(t) - 1) : t[k] < t[k + 1],
             Len(t) = IF d < MaxAttachments THEN d ELSE MaxAttachments
      PROVE  HasFiles(m, n + 1)'
  BY <1>1, <1>7 DEF HasFiles
<1>8. {s[k] : k \in 1..l} = TakenUpTo(m, n) /\ \A k \in 1..(l - 1) : s[k] < s[k + 1]
  BY DEF HasFiles
<1> HIDE DEF c, d, R
<1>9. CASE l >= MaxAttachments \/ ~R
  <2> HIDE DEF l
  <2>1. files'[m] = s
    BY <1>6, <1>9
  <2>2. ~(R /\ c < MaxAttachments)
    BY <1>2, <1>3, <1>9
  <2>3. l = IF d < MaxAttachments THEN d ELSE MaxAttachments
    BY <1>2, <1>3, <1>4, <1>9
  <2> QED
    BY <1>5, <1>7, <1>8, <2>1, <2>2, <2>3 DEF l
<1>10. CASE l < MaxAttachments /\ R
  <2> DEFINE t == Append(s, n + 1)
  <2>1. /\ t \in Seq(Nat) /\ Len(t) = l + 1 /\ t[l + 1] = n + 1
        /\ \A k \in 1..l : t[k] = s[k]
    BY <1>2, AppendProperties
  <2> HIDE DEF l
  <2>2. files'[m] = t
    <3>1. ~(l >= MaxAttachments \/ ~R)
      BY <1>2, <1>10
    <3> HIDE DEF t
    <3>2. files'[m] = IF l >= MaxAttachments \/ ~R THEN s ELSE t
      BY <1>6 DEF t
    <3> QED
      BY <3>1, <3>2
  <2> HIDE DEF t, s
  <2>3. {t[k] : k \in 1..(l + 1)} = {s[k] : k \in 1..l} \cup {n + 1}
    <3>1. 1..(l + 1) = (1..l) \cup {l + 1}
      BY <1>2
    <3> QED
      BY <2>1, <3>1
  <2>4. c < MaxAttachments
    BY <1>2, <1>3, <1>10
  <2>5. {t[k] : k \in 1..Len(t)} = TakenUpTo(m, n + 1)
    BY <1>5, <1>8, <1>10, <2>1, <2>3, <2>4
  <2>6. Len(t) = IF d < MaxAttachments THEN d ELSE MaxAttachments
    BY <1>2, <1>3, <1>4, <1>10, <2>1
  <2>7. ASSUME NEW k \in 1..(Len(t) - 1)
        PROVE  t[k] < t[k + 1]
    <3>1. \A j \in 1..l : s[j] \in 1..n
      BY <1>8 DEF TakenUpTo
    <3>2. k \in 1..l
      BY <1>2, <2>1
    <3>3. CASE k = l
      <4>1. t[k] \in 1..n /\ t[k + 1] = n + 1
        BY <2>1, <3>1, <3>2, <3>3
      <4> QED
        BY <4>1
    <3>4. CASE k # l
      <4>1. k \in 1..(l - 1) /\ k + 1 \in 1..l
        BY <1>2, <3>2, <3>4
      <4> QED
        BY <1>8, <2>1, <3>2, <4>1
    <3> QED
      BY <3>3, <3>4
  <2> QED
    BY <1>7, <2>1, <2>2, <2>5, <2>6, <2>7
<1> QED
  BY <1>2, <1>6, <1>9, <1>10

LEMMA AttachmentsFacts ==
  ASSUME AttachmentsInv
  PROVE  /\ Len(letter) \in Nat /\ Len(download) \in Nat /\ DOMAIN download = 1..Len(download)
         /\ Reading => /\ reading \in 1..Len(letter) /\ letter[reading] \in Seq(Payload)
                       /\ Len(letter[reading]) \in Nat /\ files[reading] \in Seq(Nat)
         /\ \A m \in 1..Len(letter) : letter[m] \in Seq(Payload) /\ Len(letter[m]) \in Nat
<1>1. /\ letter \in Seq(Seq(Payload)) /\ download \in Seq(SlotKinds) /\ reading \in Nat \ {0}
      /\ files \in [1..Len(letter) -> Seq(Nat)]
  BY DEF AttachmentsInv, AttachmentsTyped
<1>2. Len(letter) \in Nat /\ Len(download) \in Nat /\ DOMAIN download = 1..Len(download)
  BY <1>1, LenProperties
<1>3. \A m \in 1..Len(letter) : letter[m] \in Seq(Payload) /\ Len(letter[m]) \in Nat
  BY <1>1, ElementOfSeq, LenProperties
<1>4. Reading => reading \in 1..Len(letter)
  BY <1>1, <1>2 DEF Reading
<1> QED
  BY <1>1, <1>2, <1>3, <1>4

LEMMA NoFilesYet ==
  ASSUME NEW m, files'[m] = <<>>
  PROVE  HasFiles(m, 0)'
<1>1. Len(files'[m]) = 0
  OBVIOUS
<1>2. Resolved(m, 0)' = {} /\ TakenUpTo(m, 0)' = {}
  BY DEF Resolved, TakenUpTo
<1>3. Cardinality(Resolved(m, 0)') = 0
  BY <1>2, FS_EmptySet
<1>4. {files'[m][k] : k \in 1..Len(files'[m])} = {}
  BY <1>1
<1> QED
  BY <1>1, <1>2, <1>3, <1>4, AttachmentsAssumption DEF HasFiles

(* A step that leaves the answers, and the files of all other messages.      *)
LEMMA OthersKept ==
  ASSUME AttachmentsInv, UNCHANGED <<letter, reading, answers>>,
         \A m \in 1..Len(letter) : m # reading => files'[m] = files[m]
  PROVE  OthersRight'
<1>1. ASSUME NEW m \in 1..(reading - 1)
      PROVE  m <= Len(letter) /\ HasFiles(m, Len(letter[m]))'
  <2>1. reading \in Nat
    BY DEF AttachmentsInv, AttachmentsTyped
  <2>2. m \in 1..Len(letter) /\ m # reading
    BY <2>1, AttachmentsFacts DEF AttachmentsInv, OthersRight
  <2>3. Len(letter[m]) \in Nat /\ HasFiles(m, Len(letter[m])) /\ files'[m] = files[m]
    BY <2>2, AttachmentsFacts DEF AttachmentsInv, OthersRight
  <2> QED
    BY <2>2, <2>3, HasFilesKept
<1>2. \A m \in 1..Len(letter) : m > reading => files'[m] = <<>>
  <2>1. reading \in Nat /\ \A m \in 1..Len(letter) : m \in Nat /\ (m > reading => m # reading)
    BY AttachmentsFacts DEF AttachmentsInv, AttachmentsTyped
  <2>2. \A m \in 1..Len(letter) : m > reading => files[m] = <<>>
    BY DEF AttachmentsInv, OthersRight
  <2> QED
    BY <2>1, <2>2
<1> QED
  BY <1>1, <1>2 DEF AttachmentsInv, OthersRight

LEMMA CollectKeeps ==
  ASSUME AttachmentsInv, Collect
  PROVE  AttachmentsInv'
<1> DEFINE n == Len(letter[reading])
<1>1. /\ reading \in 1..Len(letter) /\ letter[reading] \in Seq(Payload) /\ n \in Nat
      /\ merging = 0 /\ download = <<>> /\ UNCHANGED <<letter, reading, files, answers>>
  BY AttachmentsFacts DEF Collect
<1>2. \A i \in 1..n : letter[reading][i] \in Payload
  BY <1>1, ElementOfSeq
<1>3. download' = [i \in 1..n |-> SlotOf(letter[reading][i])]
  BY DEF Collect, PartsOf
<1>4. \A i \in 1..n : SlotOf(letter[reading][i]) \in SlotKinds
  BY <1>2 DEF SlotOf, Payload, SlotKinds
<1>5. download' \in [1..n -> SlotKinds]
  BY <1>3, <1>4
<1>6. download' \in Seq(SlotKinds) /\ Len(download') = n
  <2>1. download' \in Seq(SlotKinds)
    BY <1>1, <1>5, SeqDef
  <2>2. Len(download') \in Nat /\ DOMAIN download' = 1..Len(download')
    BY <2>1, LenProperties
  <2>3. DOMAIN download' = 1..n
    BY <1>5
  <2> QED
    BY <1>1, <2>1, <2>2, <2>3
<1>7. merging' = IF n = 0 THEN 1 ELSE 0
  BY <1>1 DEF Collect, PartsOf
<1>8. AttachmentsTyped'
  BY <1>1, <1>6, <1>7 DEF AttachmentsInv, AttachmentsTyped
<1>9. \A i \in Nat : <<reading, i>> \notin answers
  BY <1>1 DEF AttachmentsInv, ReadingRight
<1>10. \A i \in 1..n : SlotIsRight(i)'
  <2> SUFFICES ASSUME NEW i \in 1..n PROVE SlotIsRight(i)'
    OBVIOUS
  <2>1. download'[i] = SlotOf(letter[reading][i]) /\ letter[reading][i] \in Payload
    BY <1>2, <1>3
  <2>2. <<reading, i>> \notin answers
    BY <1>9
  <2> QED
    BY <1>1, <2>1, <2>2 DEF SlotIsRight, Resolves, SlotOf, Payload, Unsettled
<1>11. files[reading] = <<>>
  BY <1>1 DEF AttachmentsInv, ReadingRight, Reading, Collect
<1>12. ReadingRight'
  <2>1. CASE n = 0
    <3>1. HasFiles(reading, 0)'
      BY <1>1, <1>11, NoFilesYet
    <3> QED
      BY <1>1, <1>6, <1>7, <2>1, <3>1, AttachmentsFacts DEF ReadingRight, Reading, Collect
  <2>2. CASE n # 0
    <3>1. download' # <<>>
      BY <1>1, <1>6, <2>2
    <3> QED
      BY <1>1, <1>6, <1>7, <1>10, <1>11, <2>2, <3>1 DEF ReadingRight, Reading, Collect
  <2> QED
    BY <2>1, <2>2
<1>13. OthersRight'
  BY <1>1, OthersKept
<1> QED
  BY <1>8, <1>12, <1>13 DEF AttachmentsInv

(* A step of the downloads.                                                  *)
LEMMA FetchKeeps ==
  ASSUME AttachmentsInv, NEW i \in DOMAIN download,
         FetchOpens(i) \/ FetchSucceeds(i) \/ FetchIsLost(i)
  PROVE  AttachmentsInv'
<1> DEFINE n == Len(download)
<1>1. i \in 1..n /\ n \in Nat /\ download \in Seq(SlotKinds) /\ download[i] \in Unsettled
  BY AttachmentsFacts
     DEF AttachmentsInv, AttachmentsTyped, FetchOpens, FetchSucceeds, FetchIsLost, Open, Unsettled
<1>2. /\ UNCHANGED <<letter, reading, merging, files>>
      /\ \A m \in Nat, j \in Nat : <<m, j>> \in answers' <=>
           <<m, j>> \in answers \/ (FetchSucceeds(i) /\ m = reading /\ j = i)
  <2>1. CASE FetchSucceeds(i)
    BY <1>1, <2>1 DEF FetchSucceeds
  <2>2. CASE ~FetchSucceeds(i)
    BY <2>2 DEF FetchOpens, FetchIsLost
  <2> QED
    BY <2>1, <2>2
<1>3. /\ Reading /\ n = Len(letter[reading]) /\ \A j \in 1..n : SlotIsRight(j)
      /\ merging = 0 /\ files[reading] = <<>> /\ download # <<>>
  <2>1. download # <<>>
    BY <1>1
  <2> QED
    BY <1>1, <2>1 DEF AttachmentsInv, AttachmentsTyped, ReadingRight
<1>4. reading \in 1..Len(letter) /\ reading \in Nat
  BY <1>3, AttachmentsFacts DEF AttachmentsInv, AttachmentsTyped
<1>5. PICK e \in {"open", "got", "failed"} :
        /\ download' = [download EXCEPT ![i] = e]
        /\ e = "got" <=> FetchSucceeds(i)
  BY <1>1, AttachmentsFacts DEF FetchOpens, FetchSucceeds, FetchIsLost, AttachmentsInv, AttachmentsTyped
<1>6. /\ download' \in Seq(SlotKinds) /\ Len(download') = n /\ download' # <<>>
      /\ \A j \in 1..n : download'[j] = IF j = i THEN e ELSE download[j]
  <2>1. e \in SlotKinds
    BY DEF SlotKinds
  <2>2. /\ download' \in Seq(SlotKinds) /\ Len(download') = n
        /\ \A j \in 1..n : download'[j] = IF j = i THEN e ELSE download[j]
    BY <1>1, <1>5, <2>1, ExceptSeq
  <2> QED
    BY <1>1, <2>2
<1>7. AttachmentsTyped'
  BY <1>2, <1>6 DEF AttachmentsInv, AttachmentsTyped
<1>8. ASSUME NEW j \in 1..n
      PROVE  SlotIsRight(j)'
  <2>0. j \in Nat
    BY <1>1
  <2>1. CASE j = i
    <3>1. letter[reading][i] = "remote" /\ <<reading, i>> \notin answers
      BY <1>1, <1>3 DEF SlotIsRight
    <3>2. <<reading, i>> \in answers' <=> e = "got"
      BY <1>2, <1>4, <1>5, <2>0, <2>1, <3>1
    <3> QED
      BY <1>2, <1>6, <2>1, <3>1, <3>2 DEF SlotIsRight, Resolves, Unsettled
  <2>2. CASE j # i
    <3>1. <<reading, j>> \in answers' <=> <<reading, j>> \in answers
      BY <1>2, <1>4, <2>0, <2>2
    <3> QED
      BY <1>2, <1>3, <1>6, <2>2, <3>1 DEF SlotIsRight, Resolves
  <2> QED
    BY <2>1, <2>2
<1>9. ReadingRight'
  BY <1>2, <1>3, <1>6, <1>8 DEF ReadingRight, Reading
<1>10. OthersRight'
  <2>1. ASSUME NEW m \in 1..(reading - 1)
        PROVE  m <= Len(letter) /\ HasFiles(m, Len(letter[m]))'
    <3>1. m \in 1..Len(letter) /\ m # reading /\ m \in Nat
      BY <1>4, AttachmentsFacts
    <3>2. Len(letter[m]) \in Nat /\ HasFiles(m, Len(letter[m]))
      BY <3>1, AttachmentsFacts DEF AttachmentsInv, OthersRight
    <3>3. \A j \in 1..Len(letter[m]) : <<m, j>> \in answers' <=> <<m, j>> \in answers
      BY <1>2, <3>1
    <3> QED
      BY <1>2, <3>1, <3>2, <3>3, HasFilesKept
  <2>2. \A m \in Nat, j \in Nat : <<m, j>> \in answers' => m <= reading
    BY <1>2, <1>4 DEF AttachmentsInv, OthersRight
  <2> QED
    BY <1>2, <2>1, <2>2 DEF AttachmentsInv, OthersRight
<1> QED
  BY <1>7, <1>9, <1>10 DEF AttachmentsInv

LEMMA AllFetchedKeeps ==
  ASSUME AttachmentsInv, AllFetched
  PROVE  AttachmentsInv'
<1>1. /\ merging = 0 /\ download # <<>> /\ merging' = 1
      /\ UNCHANGED <<letter, reading, download, files, answers>>
      /\ \A i \in 1..Len(download) : download[i] \notin Unsettled
  BY AttachmentsFacts DEF AllFetched, Unsettled
<1>2. /\ Reading /\ Len(download) = Len(letter[reading]) /\ files[reading] = <<>>
      /\ \A i \in 1..Len(download) : SlotIsRight(i)
  BY <1>1 DEF AttachmentsInv, ReadingRight
<1>3. HasFiles(reading, 0)'
  BY <1>1, <1>2, NoFilesYet
<1>4. AttachmentsTyped'
  BY <1>1 DEF AttachmentsInv, AttachmentsTyped
<1>5. ReadingRight'
  <2>1. \A i \in 1..Len(download) : SlotIsRight(i)'
    BY <1>1, <1>2 DEF SlotIsRight, Resolves
  <2>2. HasFiles(reading, merging - 1)'
    <3>1. merging' - 1 = 0
      BY <1>1
    <3> QED
      BY <1>3, <3>1
  <2>3. merging' > 0 /\ merging' <= Len(download) + 1 /\ merging' # 0
    BY <1>1, AttachmentsFacts
  <2> QED
    BY <1>1, <1>2, <2>1, <2>2, <2>3 DEF ReadingRight, Reading
<1>6. OthersRight'
  BY <1>1, OthersKept
<1> QED
  BY <1>4, <1>5, <1>6 DEF AttachmentsInv

LEMMA MergeKeeps ==
  ASSUME AttachmentsInv, Merge
  PROVE  AttachmentsInv'
<1>0. merging \in 1..Len(download) /\ merging \in Nat \ {0}
  BY AttachmentsFacts DEF Merge, AttachmentsInv, AttachmentsTyped
<1>1. PICK n \in Nat, m \in Nat : n + 1 = merging /\ n = merging - 1 /\ m = reading
  BY <1>0 DEF AttachmentsInv, AttachmentsTyped
<1>2. /\ n + 1 \in 1..Len(download) /\ merging' = n + 2 /\ download # <<>>
      /\ UNCHANGED <<letter, reading, download, answers>>
  BY <1>0, <1>1, AttachmentsFacts DEF Merge
<1>3. /\ Reading /\ Len(download) = Len(letter[m])
      /\ \A i \in 1..Len(download) : SlotIsRight(i) /\ download[i] \notin Unsettled
      /\ HasFiles(m, n)
  BY <1>0, <1>1, <1>2 DEF AttachmentsInv, ReadingRight
<1>4. m \in 1..Len(letter) /\ files[m] \in Seq(Nat)
  BY <1>1, <1>3, AttachmentsFacts
<1>5. /\ files \in [1..Len(letter) -> Seq(Nat)] /\ download \in Seq(SlotKinds)
  BY DEF AttachmentsInv, AttachmentsTyped
<1>6. download[n + 1] = "got" <=> Resolves(m, n + 1)
  <2>1. download[n + 1] \in SlotKinds
    BY <1>2, <1>5, ElementOfSeq
  <2>2. SlotIsRight(n + 1) /\ download[n + 1] \notin Unsettled
    BY <1>2, <1>3
  <2> QED
    BY <1>1, <2>1, <2>2 DEF SlotIsRight, Unsettled, SlotKinds
<1>7. /\ files'[m] = IF Len(files[m]) >= MaxAttachments \/ ~Resolves(m, n + 1)
                     THEN files[m] ELSE Append(files[m], n + 1)
      /\ \A k \in 1..Len(letter) : k # m => files'[k] = files[k]
      /\ files' = [files EXCEPT ![m] = files'[m]]
  <2>1. files'[m] = IF Len(files[m]) >= MaxAttachments \/ download[n + 1] # "got"
                    THEN files[m] ELSE Append(files[m], n + 1)
    BY <1>1, <1>4, <1>5 DEF Merge
  <2>2. \A k \in 1..Len(letter) : k # m => files'[k] = files[k]
    BY <1>1, <1>4, <1>5 DEF Merge
  <2>3. files' = [files EXCEPT ![m] = files'[m]]
    BY <1>1, <1>4, <1>5 DEF Merge
  <2> QED
    BY <1>6, <2>1, <2>2, <2>3
<1>8. HasFiles(m, n + 1)' /\ files'[m] \in Seq(Nat)
  BY <1>2, <1>3, <1>4, <1>7, MergeHasFiles
<1>9. AttachmentsTyped'
  <2>1. merging' \in Nat
    BY <1>2
  <2>2. files' \in [1..Len(letter) -> Seq(Nat)]
    BY <1>4, <1>5, <1>7, <1>8
  <2> QED
    BY <1>2, <2>1, <2>2 DEF AttachmentsInv, AttachmentsTyped
<1>10. ReadingRight'
  <2>1. HasFiles(reading, merging - 1)'
    <3>1. merging' - 1 = n + 1 /\ reading' = m
      BY <1>1, <1>2
    <3> QED
      BY <1>8, <3>1
  <2>2. \A i \in 1..Len(download) : SlotIsRight(i)'
    BY <1>2, <1>3 DEF SlotIsRight, Resolves
  <2>3. merging' > 0 /\ merging' <= Len(download) + 1 /\ merging' # 0
    BY <1>2, AttachmentsFacts
  <2> QED
    BY <1>1, <1>2, <1>3, <2>1, <2>2, <2>3 DEF ReadingRight, Reading
<1>11. OthersRight'
  BY <1>1, <1>2, <1>7, OthersKept
<1> QED
  BY <1>9, <1>10, <1>11 DEF AttachmentsInv

LEMMA NextMessageKeeps ==
  ASSUME AttachmentsInv, NextMessage
  PROVE  AttachmentsInv'
<1>1. /\ Reading /\ merging > Len(download) /\ reading' = reading + 1 /\ merging' = 0
      /\ download' = <<>> /\ UNCHANGED <<letter, files, answers>>
  BY DEF NextMessage
<1>2. /\ merging \in Nat /\ Len(download) \in Nat /\ reading \in 1..Len(letter)
      /\ Len(letter) \in Nat
  BY <1>1, AttachmentsFacts DEF AttachmentsInv, AttachmentsTyped
<1>3. merging > 0
  BY <1>1, <1>2
<1>4. /\ merging = Len(download) + 1 /\ Len(download) = Len(letter[reading])
      /\ HasFiles(reading, merging - 1)
  BY <1>1, <1>2, <1>3 DEF AttachmentsInv, ReadingRight
<1>5. HasFiles(reading, Len(letter[reading]))
  BY <1>2, <1>4
<1>6. AttachmentsTyped'
  BY <1>1, <1>2, EmptySeq DEF AttachmentsInv, AttachmentsTyped
<1>7. ReadingRight'
  <2>1. \A i \in Nat : <<reading + 1, i>> \notin answers
    BY <1>2 DEF AttachmentsInv, OthersRight
  <2>2. Reading' => files[reading + 1] = <<>>
    BY <1>1, <1>2 DEF AttachmentsInv, OthersRight, Reading
  <2> QED
    BY <1>1, <2>1, <2>2 DEF ReadingRight
<1>8. OthersRight'
  <2>1. ASSUME NEW m \in 1..(reading' - 1)
        PROVE  m <= Len(letter) /\ HasFiles(m, Len(letter[m]))
    BY <1>1, <1>2, <1>5 DEF AttachmentsInv, OthersRight
  <2>2. ASSUME NEW m \in 1..(reading' - 1)
        PROVE  m <= Len(letter') /\ HasFiles(m, Len(letter[m]))'
    BY <1>1, <2>1, <2>2, HasFilesSame
  <2>3. \A m \in Nat, i \in Nat : <<m, i>> \in answers' => m <= reading'
    BY <1>1, <1>2 DEF AttachmentsInv, OthersRight
  <2>4. \A m \in 1..Len(letter') : m > reading' => files'[m] = <<>>
    BY <1>1, <1>2 DEF AttachmentsInv, OthersRight
  <2> QED
    BY <2>2, <2>3, <2>4 DEF OthersRight
<1> QED
  BY <1>6, <1>7, <1>8 DEF AttachmentsInv

LEMMA AttachmentsInvStep == AttachmentsInv /\ [AttachmentsNext]_attachmentVars => AttachmentsInv'
<1> SUFFICES ASSUME AttachmentsInv, [AttachmentsNext]_attachmentVars
             PROVE  AttachmentsInv'
  OBVIOUS
<1>1. CASE UNCHANGED attachmentVars
  <2>1. /\ UNCHANGED <<letter, reading, download, merging, files, answers>>
        /\ \A m, n : HasFiles(m, n)' <=> HasFiles(m, n)
    BY <1>1, HasFilesSame DEF attachmentVars
  <2>2. \A i : SlotIsRight(i)' <=> SlotIsRight(i)
    BY <2>1 DEF SlotIsRight, Resolves
  <2> QED
    BY <2>1, <2>2 DEF AttachmentsInv, AttachmentsTyped, ReadingRight, OthersRight, Reading
<1> QED
  BY <1>1, CollectKeeps, FetchKeeps, AllFetchedKeeps, MergeKeeps, NextMessageKeeps
     DEF AttachmentsNext

LEMMA AttachmentsInvSerial == AttachmentsInv => FilesAsSerial
<1> SUFFICES ASSUME AttachmentsInv, NEW m \in 1..(reading - 1)
             PROVE  /\ {files[m][k] : k \in 1..Len(files[m])} = Taken(m)
                    /\ \A k \in 1..(Len(files[m]) - 1) : files[m][k] < files[m][k + 1]
  BY DEF FilesAsSerial
<1>1. HasFiles(m, Len(letter[m]))
  BY DEF AttachmentsInv, OthersRight
<1>2. TakenUpTo(m, Len(letter[m])) = Taken(m)
  BY DEF TakenUpTo, Taken, Resolved, PartsOf
<1> QED
  BY <1>1, <1>2 DEF HasFiles

(* In whatever order the downloads end and fail, a message has the files     *)
(* that the loop without goroutines gives it, for any letters and limits.    *)
THEOREM FilesAreSerial == AttachmentsSpec => []FilesAsSerial
BY AttachmentsInvInit, AttachmentsInvStep, AttachmentsInvSerial, PTL DEF AttachmentsSpec

-----------------------------------------------------------------------------
(* The sweeps (Prewarm): the inductive invariant.                            *)

JobSteps == {"idle", "stagger", "queued", "enter", "chain", "ok", "failed"}
Phases == {"boot", "booting", "sweep", "wait"}

PrewarmTyped ==
  /\ enabled \in [Warmable -> BOOLEAN] /\ calm \in [Warmable -> BOOLEAN]
  /\ warmAge \in [Warmable -> Nat] /\ sinceOK \in [Warmable -> Nat]
  /\ chain \in [Warmable -> 0..Off] /\ jitter \in [Warmable -> 0..MaxJitter]
  /\ job \in [Sources -> [Warmable -> [pc : JobSteps, ran : Nat]]]
  /\ sweep \in [pc : Phases, time : Nat]
  /\ fleet \in Fleets

JobOf(a) == job["sweep"][a]
Waits(a) == JobOf(a).pc \in {"stagger", "queued"}
Runs(a) == JobOf(a).pc \in {"enter", "chain"}
Begun == IF sweep.pc = "booting" THEN MaxJitter ELSE 0

(* Jobs are of accounts there are.                                           *)
OfFleet == \A a \in Warmable : enabled[a] \/ JobOf(a).pc # "idle" => a \in fleet.all

(* Between sweeps there is no job, and only the boot sweep staggers.         *)
RestOf(a) ==
  /\ sweep.pc \in {"boot", "wait"} => JobOf(a).pc = "idle"
  /\ JobOf(a).pc = "stagger" => sweep.pc = "booting" /\ JobOf(a).ran = sweep.time

(* A job has run no longer than the chain it waits for.                      *)
ChainOf(s, a) ==
  /\ job[s][a].pc = "chain" => job[s][a].ran <= chain[a] /\ chain[a] <= ChainMax
  /\ job[s][a].pc = "enter" => job[s][a].ran = 0

(* A job that waits has not waited too long, and one that runs had not.      *)
InTime(a) ==
  /\ Waits(a) => sweep.time <= Begun + InFront
  /\ Runs(a) => sweep.time <= Begun + InFront + JobOf(a).ran

(* While a job waits the workers are busy: for each time that the longest    *)
(* chain has passed each of them has taken one job more.  Behind(u): the     *)
(* jobs that were not under way u moments ago.                               *)
Waiting == {a \in Warmable : Waits(a)}
Behind(u) == Waiting \cup {a \in Warmable : Runs(a) /\ JobOf(a).ran < u}
Served(m, u) ==
  sweep.time >= Begun + m * ChainMax + u =>
    Cardinality(Behind(u)) + Workers * (m + 1) <= Cardinality(fleet.all)
Busy == Waiting # {} => \A m \in Nat, u \in 1..ChainMax : Served(m, u)

SweepInTime == sweep.pc \in {"booting", "sweep"} => sweep.time <= Begun + LongestSweep

(* Before a sweep a sandbox is no older than AtSweep; an account without a   *)
(* job in it was renewed, or left alone, less than an interval before it.    *)
AtSweep == RefreshAfter + Interval + Apart - 2
AgeOf(a) ==
  /\ enabled[a]
  /\ warmAge[a] < sinceOK[a] + RefreshAfter \/ sinceOK[a] = Never
  /\ sweep.pc = "boot" => warmAge[a] = 0
  /\ sweep.pc = "booting" => warmAge[a] <= sweep.time
  /\ sweep.pc = "wait" => warmAge[a] + sweep.time <= AtSweep
  /\ sweep.pc = "sweep" /\ JobOf(a).pc = "idle" =>
       warmAge[a] <= RefreshAfter + Interval - 2 + sweep.time
  /\ sweep.pc = "sweep" /\ JobOf(a).pc # "idle" => warmAge[a] <= AtSweep + sweep.time
  /\ \A s \in Sources : job[s][a].pc \in {"ok", "failed"} => warmAge[a] = 0

PrewarmInv ==
  /\ PrewarmTyped /\ OfFleet /\ Busy /\ SweepInTime
  /\ \A a \in Warmable : RestOf(a) /\ InTime(a)
  /\ \A s \in Sources, a \in Warmable : ChainOf(s, a)
  /\ sweep.pc = "wait" => sweep.time <= Apart
  /\ \A a \in Warmable : calm[a] => AgeOf(a)

LEMMA PrewarmNumbers ==
  /\ Interval \in Nat /\ SandboxTTL \in Nat /\ RefreshAfter \in Nat /\ MinGap \in Nat
  /\ ChainMax \in Nat /\ MaxJitter \in Nat /\ Workers \in Nat
  /\ MinGap > 0 /\ Workers > 0 /\ Interval > 0 /\ ChainMax > 0 /\ MaxJitter < RefreshAfter
  /\ Never \in Nat /\ Off = ChainMax + 1 /\ Never >= Interval
BY PrewarmAssumption DEF PrewarmAssumption, Never, Off

LEMMA AccountsAreFinite ==
  ASSUME fleet \in Fleets
  PROVE  /\ IsFiniteSet(fleet.all) /\ Cardinality(fleet.all) \in Nat
         /\ \A S : S \subseteq fleet.all =>
              IsFiniteSet(S) /\ Cardinality(S) \in Nat /\ Cardinality(S) <= Cardinality(fleet.all)
<1>1. fleet.all \subseteq Warmable /\ IsFiniteSet(Warmable)
  BY PrewarmAssumption DEF PrewarmAssumption
<1>2. IsFiniteSet(fleet.all)
  BY <1>1, FS_Subset
<1> QED
  BY <1>2, FS_Subset, FS_CardinalityType

(* How often the longest chain passes while a job waits, at most.            *)
Turnings == (Cardinality(fleet.all) - 1) \div Workers

LEMMA TurningsType ==
  ASSUME fleet \in Fleets
  PROVE  /\ Turnings \in Int /\ Turnings >= -1 /\ Workers * (Turnings + 1) > Cardinality(fleet.all) - 1
         /\ Cardinality(fleet.all) > 0 => Turnings \in Nat
<1> DEFINE n == Cardinality(fleet.all)
<1>1. n \in Nat
  BY AccountsAreFinite
<1>2. Workers \in Nat /\ Workers > 0
  BY PrewarmNumbers
<1> HIDE DEF n
<1>3. ASSUME NEW k \in Nat, NEW w \in Nat, w > 0
      PROVE  /\ (k - 1) \div w \in Int /\ (k - 1) \div w >= -1
             /\ w * ((k - 1) \div w + 1) > k - 1
             /\ k > 0 => (k - 1) \div w \in Nat
  BY <1>3, SMT
<1> QED
  BY <1>1, <1>2, <1>3 DEF Turnings, n

LEMMA SweepTimes ==
  ASSUME fleet \in Fleets
  PROVE  /\ InFront \in Int /\ LongestSweep \in Nat /\ LongestSweep = InFront + ChainMax
         /\ Cardinality(fleet.all) > 0 => InFront \in Nat
         /\ InFront = Turnings * ChainMax
         /\ Apart \in Nat /\ Apart >= Interval /\ Apart >= LongestSweep + MinGap
         /\ AtSweep \in Nat /\ AtSweep = RefreshAfter + Interval + Apart - 2
<1>1. Turnings \in Int /\ Turnings >= -1 /\ (Cardinality(fleet.all) > 0 => Turnings \in Nat)
  BY TurningsType
<1>2. ASSUME NEW t \in Int, t >= -1, NEW c \in Nat
      PROVE  t * c \in Int /\ t * c + c \in Nat /\ (t \in Nat => t * c \in Nat)
  <2>1. CASE t = -1
    BY <2>1
  <2>2. CASE t \in Nat
    BY <2>2
  <2> QED
    BY <1>2, <2>1, <2>2
<1>3. InFront = Turnings * ChainMax
  BY DEF InFront, Turnings
<1>4. InFront \in Int /\ InFront + ChainMax \in Nat /\ (Turnings \in Nat => InFront \in Nat)
  BY <1>1, <1>2, <1>3, PrewarmNumbers
<1>5. LongestSweep = InFront + ChainMax /\ LongestSweep \in Nat
  BY <1>4 DEF LongestSweep
<1>6. Apart \in Nat /\ Apart >= Interval /\ Apart >= LongestSweep + MinGap
  BY <1>5, PrewarmNumbers DEF Apart
<1> QED
  BY <1>1, <1>3, <1>4, <1>5, <1>6, PrewarmNumbers DEF AtSweep

(* The invariant bounds the age.                                             *)
LEMMA PrewarmInvBounds == PrewarmInv => ColdBounded
<1> SUFFICES ASSUME PrewarmInv, NEW a \in Warmable, calm[a]
             PROVE  warmAge[a] <= Coldest
  BY DEF ColdBounded
<1>1. PrewarmTyped /\ AgeOf(a) /\ RestOf(a) /\ InTime(a) /\ SweepInTime /\ ChainOf("sweep", a)
  BY DEF PrewarmInv, Sources
<1>2. enabled[a] /\ a \in fleet.all
  BY <1>1 DEF AgeOf, PrewarmInv, OfFleet
<1>3. fleet \in Fleets /\ warmAge[a] \in Nat /\ sweep.time \in Nat /\ sweep.pc \in Phases
      /\ JobOf(a).pc \in JobSteps /\ JobOf(a).ran \in Nat
  BY <1>1 DEF PrewarmTyped, JobOf, Sources
<1>4. Cardinality(fleet.all) > 0
  BY <1>2, <1>3, AccountsAreFinite, FS_EmptySet
<1>5. /\ InFront \in Nat /\ LongestSweep \in Nat /\ LongestSweep = InFront + ChainMax
      /\ Apart \in Nat /\ Apart >= Interval /\ Apart >= LongestSweep + MinGap
      /\ AtSweep \in Nat /\ AtSweep = RefreshAfter + Interval + Apart - 2
  BY <1>3, <1>4, SweepTimes
<1>6. Coldest = AtSweep + LongestSweep
  BY <1>5, PrewarmNumbers DEF Coldest
<1>7. CASE sweep.pc \in {"boot", "wait"}
  BY <1>1, <1>3, <1>5, <1>6, <1>7, PrewarmNumbers DEF AgeOf
<1>8. CASE sweep.pc = "booting"
  <2>1. warmAge[a] <= sweep.time /\ sweep.time <= MaxJitter + LongestSweep
    BY <1>1, <1>8 DEF AgeOf, SweepInTime, Begun
  <2> QED
    BY <2>1, <1>3, <1>5, <1>6, PrewarmNumbers
<1>9. CASE sweep.pc = "sweep" /\ JobOf(a).pc = "idle"
  <2>1. sweep.time <= LongestSweep
    BY <1>1, <1>3, <1>5, <1>9 DEF SweepInTime, Begun
  <2>2. warmAge[a] <= RefreshAfter + Interval - 2 + sweep.time
    BY <1>1, <1>9 DEF AgeOf
  <2> QED
    BY <2>1, <2>2, <1>3, <1>5, <1>6, PrewarmNumbers
<1>10. CASE sweep.pc = "sweep" /\ JobOf(a).pc # "idle"
  <2>1. warmAge[a] <= AtSweep + sweep.time
    BY <1>1, <1>10 DEF AgeOf
  <2>2. CASE Waits(a)
    <3>1. sweep.time <= InFront
      BY <1>1, <1>3, <1>5, <1>10, <2>2 DEF InTime, Begun
    <3> QED
      BY <2>1, <3>1, <1>3, <1>5, <1>6, PrewarmNumbers
  <2>3. CASE Runs(a)
    <3>1. sweep.time <= InFront + JobOf(a).ran
      BY <1>1, <1>3, <1>5, <1>10, <2>3 DEF InTime, Begun
    <3>2. JobOf(a).ran <= ChainMax
      <4>1. chain[a] \in Nat
        BY <1>1, PrewarmNumbers DEF PrewarmTyped
      <4> QED
        BY <1>1, <1>3, <2>3, <4>1, PrewarmNumbers DEF ChainOf, Runs, JobOf
    <3> QED
      BY <2>1, <3>1, <3>2, <1>3, <1>5, <1>6, PrewarmNumbers
  <2>4. CASE JobOf(a).pc \in {"ok", "failed"}
    BY <1>1, <1>3, <1>5, <1>6, <2>4, PrewarmNumbers DEF AgeOf, JobOf, Sources
  <2> QED
    BY <1>3, <1>10, <2>2, <2>3, <2>4 DEF JobSteps, Waits, Runs
<1> QED
  BY <1>3, <1>7, <1>8, <1>9, <1>10 DEF Phases

(* How the job of an account goes on while no time passes.                   *)
Onward(a) ==
  \/ JobOf(a)' = JobOf(a)
  \/ JobOf(a).pc # "idle" /\ JobOf(a).pc' \in {"idle", "ok", "failed"}
  \/ Waits(a) /\ JobOf(a)' = [pc |-> "enter", ran |-> 0]
  \/ JobOf(a).pc = "enter" /\ JobOf(a).pc' = "chain" /\ JobOf(a).ran' = JobOf(a).ran

LEMMA OnwardOf ==
  ASSUME PrewarmInv, PrewarmTyped', UNCHANGED <<sweep, fleet>>, NEW a \in Warmable, Onward(a)
  PROVE  /\ RestOf(a)' /\ InTime(a)'
         /\ JobOf(a).pc' # "idle" => JobOf(a).pc # "idle"
         /\ Waits(a)' => Waits(a)
         /\ \A u \in 1..ChainMax : (Runs(a) /\ JobOf(a).ran < u)' =>
              Waits(a) \/ (Runs(a) /\ JobOf(a).ran < u)
<1>1. RestOf(a) /\ InTime(a) /\ PrewarmTyped /\ fleet \in Fleets /\ sweep.time \in Nat
  BY DEF PrewarmInv, PrewarmTyped
<1>2. /\ JobOf(a).pc \in JobSteps /\ JobOf(a).ran \in Nat
      /\ JobOf(a).pc' \in JobSteps /\ JobOf(a).ran' \in Nat
  BY <1>1 DEF PrewarmTyped, JobOf, Sources
<1>3. sweep' = sweep /\ Begun' = Begun /\ InFront' = InFront
  BY DEF Begun, InFront
<1>4. InFront \in Int /\ Begun \in Nat
  BY <1>1, SweepTimes, PrewarmNumbers DEF Begun
<1>5. CASE JobOf(a)' = JobOf(a)
  <2>1. (Waits(a)' <=> Waits(a)) /\ (Runs(a)' <=> Runs(a))
    BY <1>5 DEF Waits, Runs
  <2> QED
    BY <1>1, <1>3, <1>5, <2>1 DEF RestOf, InTime
<1>6. CASE JobOf(a).pc # "idle" /\ JobOf(a).pc' \in {"idle", "ok", "failed"}
  BY <1>1, <1>3, <1>6 DEF RestOf, InTime, Waits, Runs
<1>7. CASE Waits(a) /\ JobOf(a)' = [pc |-> "enter", ran |-> 0]
  <2>1. JobOf(a)'.pc = "enter" /\ JobOf(a)'.ran = 0
    BY <1>7
  <2>2. ~Waits(a)' /\ Runs(a)'
    BY <2>1 DEF Waits, Runs
  <2>3. sweep.pc \notin {"boot", "wait"} /\ sweep.time <= Begun + InFront
    BY <1>1, <1>7 DEF RestOf, InTime, Waits
  <2>4. RestOf(a)'
    BY <1>3, <2>1, <2>3 DEF RestOf
  <2>6. JobOf(a).pc # "idle"
    BY <1>7 DEF Waits
  <2>5. InTime(a)'
    BY <1>1, <1>3, <1>4, <2>1, <2>2, <2>3 DEF InTime
  <2> QED
    BY <1>7, <2>3, <2>4, <2>5, <2>6
<1>8. CASE JobOf(a).pc = "enter" /\ JobOf(a).pc' = "chain" /\ JobOf(a).ran' = JobOf(a).ran
  BY <1>1, <1>3, <1>8 DEF RestOf, InTime, Waits, Runs
<1> QED
  BY <1>5, <1>6, <1>7, <1>8 DEF Onward

LEMMA OnwardKeeps ==
  ASSUME PrewarmInv, PrewarmTyped', UNCHANGED <<sweep, fleet>>, \A a \in Warmable : Onward(a)
  PROVE  /\ \A a \in Warmable : RestOf(a)' /\ InTime(a)'
         /\ \A a \in Warmable : JobOf(a).pc' # "idle" => JobOf(a).pc # "idle"
         /\ Busy' /\ SweepInTime' /\ (sweep.pc = "wait" => sweep.time <= Apart)'
<1>1. \A a \in Warmable :
        /\ RestOf(a)' /\ InTime(a)'
        /\ JobOf(a).pc' # "idle" => JobOf(a).pc # "idle"
        /\ Waits(a)' => Waits(a)
        /\ \A u \in 1..ChainMax : (Runs(a) /\ JobOf(a).ran < u)' =>
              Waits(a) \/ (Runs(a) /\ JobOf(a).ran < u)
  BY OnwardOf
<1>2. sweep' = sweep /\ fleet' = fleet /\ fleet \in Fleets
      /\ Begun' = Begun /\ LongestSweep' = LongestSweep /\ Apart' = Apart
  BY DEF Begun, LongestSweep, InFront, Apart, PrewarmInv, PrewarmTyped
<1>3. SweepInTime' /\ (sweep.pc = "wait" => sweep.time <= Apart)'
  BY <1>2 DEF SweepInTime, PrewarmInv
<1>4. ASSUME NEW m \in Nat, NEW u \in 1..ChainMax, Waiting' # {} PROVE Served(m, u)'
  <2>1. Waiting' \subseteq Waiting /\ Behind(u)' \subseteq Behind(u)
    BY <1>1 DEF Waiting, Behind
  <2>2. Served(m, u)
    BY <1>4, <2>1 DEF PrewarmInv, Busy
  <2>3. Behind(u) \subseteq fleet.all
    BY DEF Behind, Waiting, Waits, Runs, PrewarmInv, OfFleet
  <2>4. /\ Cardinality(Behind(u)) \in Nat /\ Cardinality(Behind(u)') \in Nat
        /\ Cardinality(Behind(u)') <= Cardinality(Behind(u))
        /\ Cardinality(fleet.all) \in Nat
    <3>1. IsFiniteSet(Behind(u)) /\ Cardinality(fleet.all) \in Nat
      BY <1>2, <2>3, AccountsAreFinite
    <3> QED
      BY <2>1, <3>1, FS_Subset, FS_CardinalityType
  <2>5. Workers * (m + 1) \in Nat
    BY PrewarmNumbers
  <2> DEFINE k == Workers * (m + 1)
             t == sweep.time >= Begun + m * ChainMax + u
  <2>6. t => Cardinality(Behind(u)) + k <= Cardinality(fleet.all)
    BY <2>2 DEF Served
  <2>7. k \in Nat
    BY <2>5
  <2> HIDE DEF k, t
  <2>8. t => Cardinality(Behind(u)') + k <= Cardinality(fleet.all)
    BY <2>4, <2>6, <2>7
  <2> QED
    BY <1>2, <2>8 DEF Served, k, t
<1> QED
  BY <1>1, <1>3, <1>4 DEF Busy

LEMMA MomentKeeps ==
  ASSUME PrewarmInv, PrewarmTyped', UNCHANGED <<sweep, fleet>>, \A a \in Warmable : Onward(a),
         \A a \in Warmable : enabled'[a] => a \in fleet.all,
         \A s \in Sources, a \in Warmable : ChainOf(s, a)',
         \A a \in Warmable : calm'[a] => AgeOf(a)'
  PROVE  PrewarmInv'
<1>1. /\ \A a \in Warmable : RestOf(a)' /\ InTime(a)'
      /\ \A a \in Warmable : JobOf(a).pc' # "idle" => JobOf(a).pc # "idle"
      /\ Busy' /\ SweepInTime' /\ (sweep.pc = "wait" => sweep.time <= Apart)'
  BY OnwardKeeps
<1>2. OfFleet'
  BY <1>1 DEF OfFleet, PrewarmInv
<1> QED
  BY <1>1, <1>2 DEF PrewarmInv

(* An account whose sandbox this step leaves alone.                          *)
LEMMA AgeKept ==
  ASSUME PrewarmInv, PrewarmTyped', UNCHANGED <<sweep, fleet>>, NEW a \in Warmable, calm[a],
         enabled'[a], warmAge'[a] = warmAge[a], sinceOK'[a] = sinceOK[a],
         JobOf(a).pc' = "idle" => JobOf(a).pc = "idle" \/ warmAge[a] < RefreshAfter,
         JobOf(a).pc' # "idle" => JobOf(a).pc # "idle",
         \A s \in Sources :
           job'[s][a].pc \in {"ok", "failed"} => job[s][a].pc \in {"ok", "failed"}
  PROVE  AgeOf(a)'
<1>1. AgeOf(a) /\ PrewarmTyped /\ fleet \in Fleets /\ sweep.time \in Nat /\ warmAge[a] \in Nat
  BY DEF PrewarmInv, PrewarmTyped
<1>2. Apart' = Apart /\ AtSweep' = AtSweep /\ sweep' = sweep
  BY DEF AtSweep, Apart, LongestSweep, InFront
<1>3. (\A s \in Sources : job[s][a].pc \in {"ok", "failed"} => warmAge[a] = 0)'
  BY <1>1 DEF AgeOf
<1>4. (sweep.pc = "sweep" /\ JobOf(a).pc = "idle" =>
         warmAge[a] <= RefreshAfter + Interval - 2 + sweep.time)'
  BY <1>1, <1>2, PrewarmNumbers DEF AgeOf
<1>5. (sweep.pc = "sweep" /\ JobOf(a).pc # "idle" => warmAge[a] <= AtSweep + sweep.time)'
  BY <1>1, <1>2 DEF AgeOf
<1>6. (/\ warmAge[a] < sinceOK[a] + RefreshAfter \/ sinceOK[a] = Never
       /\ sweep.pc = "boot" => warmAge[a] = 0
       /\ sweep.pc = "booting" => warmAge[a] <= sweep.time
       /\ sweep.pc = "wait" => warmAge[a] + sweep.time <= AtSweep)'
  BY <1>1, <1>2 DEF AgeOf
<1>7. enabled[a]'
  OBVIOUS
<1> QED
  BY <1>3, <1>4, <1>5, <1>6, <1>7 DEF AgeOf

(* One whose sandbox is new.                                                 *)
LEMMA AgeNew ==
  ASSUME PrewarmInv, PrewarmTyped', UNCHANGED <<sweep, fleet>>, NEW a \in Warmable,
         enabled'[a], warmAge'[a] = 0
  PROVE  AgeOf(a)'
<1>1. /\ sweep' = sweep /\ fleet' = fleet /\ sweep.time \in Nat /\ fleet \in Fleets
      /\ sinceOK'[a] \in Nat /\ (sweep.pc = "wait" => sweep.time <= Apart)
  BY DEF PrewarmInv, PrewarmTyped
<1>2. AtSweep' = AtSweep
  BY DEF AtSweep, Apart, LongestSweep, InFront
<1>3. AtSweep \in Nat /\ AtSweep >= Apart /\ Apart \in Nat
  BY <1>1, SweepTimes, PrewarmNumbers
<1> QED
  BY <1>1, <1>2, <1>3, PrewarmNumbers DEF AgeOf

-----------------------------------------------------------------------------
LEMMA PrewarmInvInit == PrewarmInit => PrewarmInv
<1> SUFFICES ASSUME PrewarmInit PROVE PrewarmInv
  OBVIOUS
<1>1. fleet \in Fleets /\ fleet.steady \subseteq fleet.all
  BY PrewarmAssumption DEF PrewarmInit, PrewarmAssumption
<1>2. OldAge \in Nat
  <2>1. Cardinality(Warmable) \in Nat
    BY FS_CardinalityType, PrewarmAssumption DEF PrewarmAssumption
  <2> QED
    BY <2>1, PrewarmNumbers DEF OldAge
<1>3. PrewarmTyped
  BY <1>1, <1>2, PrewarmNumbers
     DEF PrewarmInit, PrewarmTyped, NoJob, JobSteps, Phases, Sources
<1>4. \A s \in Sources, a \in Warmable : job[s][a].pc = "idle"
  BY DEF PrewarmInit, NoJob
<1>5. \A a \in Warmable : JobOf(a).pc = "idle"
  BY <1>4 DEF JobOf, Sources
<1>6. OfFleet
  BY <1>1, <1>5 DEF OfFleet, PrewarmInit
<1>7. Waiting = {} /\ \A a \in Warmable : RestOf(a) /\ InTime(a)
  BY <1>5 DEF Waiting, RestOf, InTime, Waits, Runs
<1> QED
  BY <1>3, <1>4, <1>6, <1>7 DEF PrewarmInv, Busy, SweepInTime, ChainOf, PrewarmInit

LEMMA LeastType ==
  ASSUME NEW x \in Nat, NEW y \in Nat
  PROVE  Least(x, y) \in Nat /\ Least(x, y) <= x /\ Least(x, y) <= y
BY DEF Least

-----------------------------------------------------------------------------
LEMMA JobStartsKeeps ==
  ASSUME PrewarmInv, NEW a \in Warmable, JobStarts(a)
  PROVE  PrewarmInv'
<1> DEFINE new == [pc |-> "enter", ran |-> 0]
<1>1. PrewarmTyped /\ "sweep" \in Sources /\ Waits(a)
  BY DEF PrewarmInv, JobStarts, Sources, Waits, JobOf
<1>2. job' = [job EXCEPT !["sweep"][a] = new]
  BY DEF JobStarts
<1>3. /\ job'["sweep"][a] = new
      /\ \A t \in Sources, b \in Warmable : t # "sweep" \/ b # a => job'[t][b] = job[t][b]
      /\ job' \in [Sources -> [Warmable -> [pc : JobSteps, ran : Nat]]]
  BY <1>1, <1>2 DEF PrewarmTyped, JobSteps
<1>4. /\ UNCHANGED <<sweep, fleet>> /\ enabled' = enabled /\ calm' = calm
      /\ warmAge' = warmAge /\ sinceOK' = sinceOK /\ chain' = chain /\ jitter' = jitter
  BY DEF JobStarts
<1>5. PrewarmTyped'
  BY <1>1, <1>3, <1>4 DEF PrewarmTyped
<1>6. ASSUME NEW b \in Warmable PROVE Onward(b)
  BY <1>1, <1>3 DEF Onward, JobOf
<1>7. ASSUME NEW s \in Sources, NEW b \in Warmable PROVE ChainOf(s, b)'
  <2>1. ChainOf(s, b)
    BY DEF PrewarmInv
  <2>2. CASE s = "sweep" /\ b = a
    <3>1. job'[s][b] = new
      BY <1>3, <2>2
    <3>2. job'[s][b].pc = "enter" /\ job'[s][b].ran = 0
      BY <3>1
    <3> QED
      BY <3>2 DEF ChainOf
  <2>3. CASE s # "sweep" \/ b # a
    <3>1. job'[s][b] = job[s][b] /\ chain'[b] = chain[b]
      BY <1>3, <1>4, <2>3
    <3> QED
      BY <2>1, <3>1 DEF ChainOf
  <2> QED
    BY <2>2, <2>3
<1>8. ASSUME NEW b \in Warmable, calm'[b] PROVE AgeOf(b)'
  <2>1. /\ JobOf(b).pc' = "idle" => JobOf(b).pc = "idle"
        /\ JobOf(b).pc' # "idle" => JobOf(b).pc # "idle"
    BY <1>1, <1>3 DEF JobOf, Waits
  <2>2. \A s \in Sources :
          job'[s][b].pc \in {"ok", "failed"} => job[s][b].pc \in {"ok", "failed"}
    BY <1>3
  <2>3. calm[b] /\ AgeOf(b)
    BY <1>4, <1>8 DEF PrewarmInv
  <2>4. enabled'[b] /\ warmAge'[b] = warmAge[b] /\ sinceOK'[b] = sinceOK[b]
    BY <1>4, <2>3 DEF AgeOf
  <2> QED
    BY <1>4, <1>5, <2>1, <2>2, <2>3, <2>4, AgeKept
<1>9. \A b \in Warmable : enabled'[b] => b \in fleet.all
  BY <1>4 DEF PrewarmInv, OfFleet
<1> QED
  BY <1>4, <1>5, <1>6, <1>7, <1>8, <1>9, MomentKeeps

(* A young token, or a chain that has landed: the account was warmed.        *)
LEMMA SucceededKeeps ==
  ASSUME PrewarmInv, NEW s \in Sources, NEW a \in Warmable, Succeeded(s, a),
         JobOf(a).pc # "idle" \/ s # "sweep",
         calm[a] => warmAge[a] < RefreshAfter,
         UNCHANGED <<enabled, warmAge, chain, sweep, stormy, jitter, calm, fleet>>
  PROVE  PrewarmInv'
<1>1. PrewarmTyped
  BY DEF PrewarmInv
<1>2. job' = [job EXCEPT ![s][a] = NoJob]
  BY DEF Succeeded
<1>3. NoJob \in [pc : JobSteps, ran : Nat] /\ NoJob.pc = "idle"
  BY DEF NoJob, JobSteps
<1>4. /\ job'[s][a] = NoJob
      /\ \A t \in Sources, b \in Warmable : t # s \/ b # a => job'[t][b] = job[t][b]
      /\ job' \in [Sources -> [Warmable -> [pc : JobSteps, ran : Nat]]]
  BY <1>1, <1>2, <1>3 DEF PrewarmTyped
<1>5. Least(job[s][a].ran, Never) \in Nat
  BY <1>1, LeastType, PrewarmNumbers DEF PrewarmTyped
<1>6. /\ sinceOK' \in [Warmable -> Nat] /\ sinceOK'[a] \in Nat
      /\ \A b \in Warmable \ {a} : sinceOK'[b] = sinceOK[b]
  BY <1>1, <1>5 DEF PrewarmTyped, Succeeded
<1>7. PrewarmTyped'
  BY <1>1, <1>4, <1>6 DEF PrewarmTyped
<1>8. ASSUME NEW b \in Warmable PROVE Onward(b)
  BY <1>3, <1>4 DEF Onward, JobOf, Sources
<1>9. ASSUME NEW t \in Sources, NEW b \in Warmable PROVE ChainOf(t, b)'
  BY <1>3, <1>4 DEF ChainOf, PrewarmInv
<1>10. ASSUME NEW b \in Warmable, calm'[b] PROVE AgeOf(b)'
  <2>1. calm[b] /\ AgeOf(b)
    BY <1>10 DEF PrewarmInv
  <2>2. enabled'[b] /\ warmAge'[b] = warmAge[b]
    BY <2>1 DEF AgeOf
  <2>3. /\ JobOf(b).pc' = "idle" => JobOf(b).pc = "idle" \/ warmAge[b] < RefreshAfter
        /\ JobOf(b).pc' # "idle" => JobOf(b).pc # "idle"
    BY <1>3, <1>4, <2>1 DEF JobOf, Sources
  <2>4. \A t \in Sources :
          job'[t][b].pc \in {"ok", "failed"} => job[t][b].pc \in {"ok", "failed"}
    BY <1>3, <1>4
  <2>5. CASE b # a
    <3>1. sinceOK'[b] = sinceOK[b]
      BY <1>6, <2>5
    <3> QED
      BY <1>7, <2>1, <2>2, <2>3, <2>4, <3>1, AgeKept
  <2>6. CASE b = a
    <3>1. /\ sweep' = sweep /\ AtSweep' = AtSweep /\ warmAge[a] \in Nat /\ sinceOK'[a] \in Nat
          /\ sweep.time \in Nat /\ warmAge[a] < RefreshAfter
      BY <1>1, <1>6, <2>1, <2>6
         DEF AtSweep, Apart, LongestSweep, InFront, PrewarmTyped
    <3>2. (sweep.pc = "sweep" /\ JobOf(a).pc = "idle" =>
             warmAge[a] <= RefreshAfter + Interval - 2 + sweep.time)'
      BY <3>1, PrewarmNumbers
    <3>3. (sweep.pc = "sweep" /\ JobOf(a).pc # "idle" => warmAge[a] <= AtSweep + sweep.time)'
      BY <2>1, <2>3, <2>6, <3>1 DEF AgeOf
    <3>4. (\A t \in Sources : job[t][a].pc \in {"ok", "failed"} => warmAge[a] = 0)'
      BY <2>1, <2>4, <2>6 DEF AgeOf
    <3>5. (/\ warmAge[a] < sinceOK[a] + RefreshAfter \/ sinceOK[a] = Never
           /\ sweep.pc = "boot" => warmAge[a] = 0
           /\ sweep.pc = "booting" => warmAge[a] <= sweep.time
           /\ sweep.pc = "wait" => warmAge[a] + sweep.time <= AtSweep)'
      BY <2>1, <2>6, <3>1, PrewarmNumbers DEF AgeOf
    <3> QED
      BY <2>2, <2>6, <3>2, <3>3, <3>4, <3>5 DEF AgeOf
  <2> QED
    BY <2>5, <2>6
<1>11. \A b \in Warmable : enabled'[b] => b \in fleet.all
  BY DEF PrewarmInv, OfFleet
<1> QED
  BY <1>7, <1>8, <1>9, <1>10, <1>11, MomentKeeps

LEMMA JobEntersKeeps ==
  ASSUME PrewarmInv, NEW s \in Sources, NEW a \in Warmable, JobEnters(s, a)
  PROVE  PrewarmInv'
<1>1. PrewarmTyped /\ job[s][a].pc = "enter" /\ ChainOf(s, a)
  BY DEF PrewarmInv, JobEnters
<1>2. UNCHANGED <<enabled, warmAge, sweep, stormy, jitter, calm, fleet>>
  BY DEF JobEnters
<1>3. CASE warmAge[a] < RefreshAfter
  <2>1. Succeeded(s, a) /\ UNCHANGED chain
    BY <1>3 DEF JobEnters
  <2>2. JobOf(a).pc # "idle" \/ s # "sweep"
    BY <1>1 DEF JobOf
  <2> QED
    BY <1>2, <1>3, <2>1, <2>2, SucceededKeeps
<1>4. CASE ~(warmAge[a] < RefreshAfter)
  <2>1. /\ job' = [job EXCEPT ![s][a].pc = "chain"]
        /\ chain' = [chain EXCEPT ![a] = IF @ = Off THEN 0 ELSE @]
        /\ sinceOK' = sinceOK
    BY <1>4 DEF JobEnters
  <2>2. /\ job'[s][a] \in [pc : JobSteps, ran : Nat]
        /\ job'[s][a].pc = "chain" /\ job'[s][a].ran = job[s][a].ran
        /\ \A t \in Sources, b \in Warmable : t # s \/ b # a => job'[t][b] = job[t][b]
        /\ job' \in [Sources -> [Warmable -> [pc : JobSteps, ran : Nat]]]
    <3> DEFINE new == [job[s][a] EXCEPT !.pc = "chain"]
    <3>1. job[s][a] \in [pc : JobSteps, ran : Nat]
      BY <1>1 DEF PrewarmTyped
    <3>2. new \in [pc : JobSteps, ran : Nat] /\ new.pc = "chain" /\ new.ran = job[s][a].ran
      BY <3>1 DEF JobSteps
    <3>3. /\ job'[s][a] = new
          /\ \A t \in Sources, b \in Warmable : t # s \/ b # a => job'[t][b] = job[t][b]
      BY <1>1, <2>1 DEF PrewarmTyped
    <3>4. job' \in [Sources -> [Warmable -> [pc : JobSteps, ran : Nat]]]
      <4>1. job' = [job EXCEPT ![s][a] = new]
        BY <2>1
      <4> HIDE DEF new
      <4> QED
        BY <1>1, <3>2, <4>1 DEF PrewarmTyped
    <3> QED
      BY <3>2, <3>3, <3>4
  <2>3. /\ chain' \in [Warmable -> 0..Off]
        /\ chain'[a] = IF chain[a] = Off THEN 0 ELSE chain[a]
        /\ \A b \in Warmable : b # a => chain'[b] = chain[b]
    BY <1>1, <2>1, PrewarmNumbers DEF PrewarmTyped
  <2>4. PrewarmTyped'
    BY <1>1, <1>2, <2>1, <2>2, <2>3 DEF PrewarmTyped
  <2>5. ASSUME NEW b \in Warmable PROVE Onward(b)
    BY <1>1, <2>2 DEF Onward, JobOf, Sources
  <2>6. ASSUME NEW t \in Sources, NEW b \in Warmable PROVE ChainOf(t, b)'
    <3>1. ChainOf(t, b) /\ chain[b] \in 0..Off
      BY <1>1 DEF PrewarmInv, PrewarmTyped
    <3>2. CASE b # a
      BY <2>2, <2>3, <3>1, <3>2 DEF ChainOf
    <3>3. CASE b = a /\ t = s
      BY <1>1, <2>2, <2>3, <3>1, <3>3, PrewarmNumbers DEF ChainOf
    <3>4. CASE b = a /\ t # s
      BY <2>2, <2>3, <3>1, <3>4, PrewarmNumbers DEF ChainOf
    <3> QED
      BY <3>2, <3>3, <3>4
  <2>7. ASSUME NEW b \in Warmable, calm'[b] PROVE AgeOf(b)'
    <3>1. calm[b] /\ AgeOf(b)
      BY <1>2, <2>7 DEF PrewarmInv
    <3>2. /\ JobOf(b).pc' = "idle" => JobOf(b).pc = "idle" \/ warmAge[b] < RefreshAfter
          /\ JobOf(b).pc' # "idle" => JobOf(b).pc # "idle"
      BY <1>1, <2>2 DEF JobOf, Sources
    <3>3. \A t \in Sources :
            job'[t][b].pc \in {"ok", "failed"} => job[t][b].pc \in {"ok", "failed"}
      BY <2>2
    <3>4. enabled'[b] /\ warmAge'[b] = warmAge[b] /\ sinceOK'[b] = sinceOK[b]
      BY <1>2, <2>1, <3>1 DEF AgeOf
    <3> QED
      BY <1>2, <2>4, <3>1, <3>2, <3>3, <3>4, AgeKept
  <2>8. \A b \in Warmable : enabled'[b] => b \in fleet.all
    BY <1>2 DEF PrewarmInv, OfFleet
  <2> QED
    BY <1>2, <2>4, <2>5, <2>6, <2>7, <2>8, MomentKeeps
<1> QED
  BY <1>3, <1>4

LEMMA JobSucceedsKeeps ==
  ASSUME PrewarmInv, NEW s \in Sources, NEW a \in Warmable, JobSucceeds(s, a)
  PROVE  PrewarmInv'
<1>1. /\ job[s][a].pc = "ok" /\ Succeeded(s, a)
      /\ UNCHANGED <<enabled, warmAge, chain, sweep, stormy, jitter, calm, fleet>>
  BY DEF JobSucceeds
<1>2. calm[a] => warmAge[a] < RefreshAfter
  BY <1>1, PrewarmNumbers DEF PrewarmInv, AgeOf
<1>3. JobOf(a).pc # "idle" \/ s # "sweep"
  BY <1>1 DEF JobOf
<1> QED
  BY <1>1, <1>2, <1>3, SucceededKeeps

LEMMA JobFailsKeeps ==
  ASSUME PrewarmInv, NEW s \in Sources, NEW a \in Warmable, JobFails(s, a)
  PROVE  PrewarmInv'
<1>1. PrewarmTyped /\ job[s][a].pc = "failed" /\ job' = [job EXCEPT ![s][a] = NoJob]
  BY DEF PrewarmInv, JobFails
<1>2. UNCHANGED <<enabled, warmAge, sinceOK, chain, sweep, stormy, jitter, calm, fleet>>
  BY DEF JobFails
<1>3. NoJob \in [pc : JobSteps, ran : Nat] /\ NoJob.pc = "idle"
  BY DEF NoJob, JobSteps
<1>4. /\ job'[s][a] = NoJob
      /\ \A t \in Sources, b \in Warmable : t # s \/ b # a => job'[t][b] = job[t][b]
      /\ job' \in [Sources -> [Warmable -> [pc : JobSteps, ran : Nat]]]
  BY <1>1, <1>3 DEF PrewarmTyped
<1>5. PrewarmTyped'
  BY <1>1, <1>2, <1>4 DEF PrewarmTyped
<1>6. ASSUME NEW b \in Warmable PROVE Onward(b)
  BY <1>1, <1>3, <1>4 DEF Onward, JobOf, Sources
<1>7. ASSUME NEW t \in Sources, NEW b \in Warmable PROVE ChainOf(t, b)'
  BY <1>2, <1>3, <1>4 DEF ChainOf, PrewarmInv
<1>8. ASSUME NEW b \in Warmable, calm'[b] PROVE AgeOf(b)'
  <2>1. calm[b] /\ AgeOf(b)
    BY <1>2, <1>8 DEF PrewarmInv
  <2>2. /\ JobOf(b).pc' = "idle" => JobOf(b).pc = "idle" \/ warmAge[b] < RefreshAfter
        /\ JobOf(b).pc' # "idle" => JobOf(b).pc # "idle"
    <3>1. b = a => warmAge[b] < RefreshAfter
      BY <1>1, <2>1, PrewarmNumbers DEF AgeOf
    <3> QED
      BY <1>3, <1>4, <3>1 DEF JobOf, Sources
  <2>3. \A t \in Sources :
          job'[t][b].pc \in {"ok", "failed"} => job[t][b].pc \in {"ok", "failed"}
    BY <1>3, <1>4
  <2>4. enabled'[b] /\ warmAge'[b] = warmAge[b] /\ sinceOK'[b] = sinceOK[b]
    BY <1>2, <2>1 DEF AgeOf
  <2> QED
    BY <1>2, <1>5, <2>1, <2>2, <2>3, <2>4, AgeKept
<1>9. \A b \in Warmable : enabled'[b] => b \in fleet.all
  BY <1>2 DEF PrewarmInv, OfFleet
<1> QED
  BY <1>2, <1>5, <1>6, <1>7, <1>8, <1>9, MomentKeeps

(* The chain of an account ends, for all who wait for it.                    *)
LEMMA ChainEndsKeeps ==
  ASSUME PrewarmInv, NEW a \in Warmable, NEW end \in {"ok", "failed"},
         job' = [s \in Sources |-> [job[s] EXCEPT ![a].pc = IF @ = "chain" THEN end ELSE @]],
         chain' = [chain EXCEPT ![a] = Off],
         UNCHANGED <<enabled, sinceOK, sweep, jitter, fleet>>,
         calm' \in [Warmable -> BOOLEAN], warmAge' \in [Warmable -> Nat],
         \A b \in Warmable : b # a => calm'[b] = calm[b] /\ warmAge'[b] = warmAge[b],
         calm'[a] => enabled[a] /\ warmAge'[a] = 0
  PROVE  PrewarmInv'
<1>1. PrewarmTyped
  BY DEF PrewarmInv
<1> DEFINE Ended(s) ==
             [job[s][a] EXCEPT !.pc = IF job[s][a].pc = "chain" THEN end ELSE job[s][a].pc]
<1>10. \A s \in Sources, b \in Warmable : job[s][b] \in [pc : JobSteps, ran : Nat]
  BY <1>1 DEF PrewarmTyped
<1>11. \A s \in Sources :
         /\ Ended(s) \in [pc : JobSteps, ran : Nat] /\ Ended(s).ran = job[s][a].ran
         /\ Ended(s).pc = IF job[s][a].pc = "chain" THEN end ELSE job[s][a].pc
         /\ job[s][a].pc # "chain" => Ended(s) = job[s][a]
  BY <1>10 DEF JobSteps
<1>12. \A s \in Sources, b \in Warmable : job'[s][b] = IF b = a THEN Ended(s) ELSE job[s][b]
  BY <1>1 DEF PrewarmTyped
<1>13. \A s \in Sources : job'[s] = [b \in Warmable |-> IF b = a THEN Ended(s) ELSE job[s][b]]
  BY <1>1 DEF PrewarmTyped
<1>14. job' = [s \in Sources |-> job'[s]]
  OBVIOUS
<1> HIDE DEF Ended
<1>2. \A s \in Sources, b \in Warmable :
        /\ job'[s][b] \in [pc : JobSteps, ran : Nat]
        /\ job'[s][b].ran = job[s][b].ran
        /\ b = a /\ job[s][b].pc = "chain" => job'[s][b].pc = end
        /\ b # a \/ job[s][b].pc # "chain" => job'[s][b] = job[s][b]
  BY <1>10, <1>11, <1>12
<1>3. job' \in [Sources -> [Warmable -> [pc : JobSteps, ran : Nat]]]
  <2>1. \A s \in Sources : job'[s] \in [Warmable -> [pc : JobSteps, ran : Nat]]
    <3> SUFFICES ASSUME NEW s \in Sources
                 PROVE  job'[s] \in [Warmable -> [pc : JobSteps, ran : Nat]]
      OBVIOUS
    <3>1. \A b \in Warmable :
            (IF b = a THEN Ended(s) ELSE job[s][b]) \in [pc : JobSteps, ran : Nat]
      BY <1>10, <1>11
    <3>2. job'[s] = [b \in Warmable |-> IF b = a THEN Ended(s) ELSE job[s][b]]
      BY <1>13
    <3> QED
      BY <3>1, <3>2
  <2> QED
    BY <1>14, <2>1
<1>4. /\ chain' \in [Warmable -> 0..Off] /\ chain'[a] = Off
      /\ \A b \in Warmable : b # a => chain'[b] = chain[b]
  BY <1>1, PrewarmNumbers DEF PrewarmTyped
<1>5. PrewarmTyped'
  BY <1>1, <1>3, <1>4 DEF PrewarmTyped
<1>6. ASSUME NEW b \in Warmable PROVE Onward(b)
  BY <1>2 DEF Onward, JobOf, Sources
<1>7. ASSUME NEW t \in Sources, NEW b \in Warmable PROVE ChainOf(t, b)'
  <2>1. ChainOf(t, b)
    BY DEF PrewarmInv
  <2>2. job'[t][b].pc = "chain" => b # a
    <3> SUFFICES ASSUME b = a, job'[t][b].pc = "chain" PROVE FALSE
      OBVIOUS
    <3>1. job'[t][a].pc # end
      OBVIOUS
    <3>2. job[t][a].pc # "chain"
      BY <1>2, <3>1
    <3> QED
      BY <1>2, <3>2
  <2>3. job'[t][b].pc \in {"chain", "enter"} => job'[t][b] = job[t][b]
    BY <1>2
  <2> QED
    BY <1>4, <2>1, <2>2, <2>3 DEF ChainOf
<1>8. ASSUME NEW b \in Warmable, calm'[b] PROVE AgeOf(b)'
  <2>1. CASE b = a
    BY <1>5, <1>8, <2>1, AgeNew
  <2>2. CASE b # a
    <3>1. calm[b] /\ AgeOf(b) /\ \A t \in Sources : job'[t][b] = job[t][b]
      BY <1>2, <1>8, <2>2 DEF PrewarmInv
    <3>2. /\ JobOf(b).pc' = "idle" => JobOf(b).pc = "idle" \/ warmAge[b] < RefreshAfter
          /\ JobOf(b).pc' # "idle" => JobOf(b).pc # "idle"
      BY <3>1 DEF JobOf, Sources
    <3>3. \A t \in Sources :
            job'[t][b].pc \in {"ok", "failed"} => job[t][b].pc \in {"ok", "failed"}
      BY <3>1
    <3>4. enabled'[b] /\ warmAge'[b] = warmAge[b] /\ sinceOK'[b] = sinceOK[b]
      BY <2>2, <3>1 DEF AgeOf
    <3> QED
      BY <1>5, <3>1, <3>2, <3>3, <3>4, AgeKept
  <2> QED
    BY <2>1, <2>2
<1>9. \A b \in Warmable : enabled'[b] => b \in fleet.all
  BY DEF PrewarmInv, OfFleet
<1> QED
  BY <1>5, <1>6, <1>7, <1>8, <1>9, MomentKeeps

LEMMA ChainLandsKeeps ==
  ASSUME PrewarmInv, NEW a \in Warmable, ChainLands(a)
  PROVE  PrewarmInv'
<1>1. PrewarmTyped
  BY DEF PrewarmInv
<1>2. /\ calm' \in [Warmable -> BOOLEAN] /\ warmAge' \in [Warmable -> Nat]
      /\ \A b \in Warmable : b # a => calm'[b] = calm[b] /\ warmAge'[b] = warmAge[b]
      /\ warmAge'[a] = 0 /\ calm'[a] = (enabled[a] /\ ~stormy)
  BY <1>1 DEF ChainLands, PrewarmTyped
<1>3. /\ job' = [s \in Sources |-> [job[s] EXCEPT ![a].pc = IF @ = "chain" THEN "ok" ELSE @]]
      /\ chain' = [chain EXCEPT ![a] = Off]
      /\ UNCHANGED <<enabled, sinceOK, sweep, jitter, fleet>>
  BY DEF ChainLands
<1> QED
  BY <1>2, <1>3, ChainEndsKeeps

LEMMA ChainBreaksKeeps ==
  ASSUME PrewarmInv, NEW a \in Warmable, ChainBreaks(a)
  PROVE  PrewarmInv'
<1>1. PrewarmTyped
  BY DEF PrewarmInv
<1>2. /\ calm' \in [Warmable -> BOOLEAN] /\ warmAge' \in [Warmable -> Nat]
      /\ \A b \in Warmable : b # a => calm'[b] = calm[b] /\ warmAge'[b] = warmAge[b]
      /\ calm'[a] = FALSE
  BY <1>1 DEF ChainBreaks, PrewarmTyped
<1>3. /\ job' = [s \in Sources |->
                  [job[s] EXCEPT ![a].pc = IF @ = "chain" THEN "failed" ELSE @]]
      /\ chain' = [chain EXCEPT ![a] = Off]
      /\ UNCHANGED <<enabled, sinceOK, sweep, jitter, fleet>>
  BY DEF ChainBreaks
<1> QED
  BY <1>2, <1>3, ChainEndsKeeps

(* Steps beside the jobs of the sweeps.                                      *)
LEMMA BesideKeeps ==
  ASSUME PrewarmInv, UNCHANGED <<warmAge, sinceOK, chain, sweep, jitter, fleet>>,
         enabled' \in [Warmable -> BOOLEAN], calm' \in [Warmable -> BOOLEAN],
         job' \in [Sources -> [Warmable -> [pc : JobSteps, ran : Nat]]],
         job'["sweep"] = job["sweep"],
         \A b \in Warmable :
           \/ job'["hook"][b] = job["hook"][b]
           \/ job'["hook"][b] = [pc |-> "enter", ran |-> 0],
         \A b \in Warmable : enabled'[b] => b \in fleet.all,
         \A b \in Warmable : calm'[b] => calm[b] /\ enabled'[b]
  PROVE  PrewarmInv'
<1>1. PrewarmTyped /\ PrewarmTyped'
  BY DEF PrewarmInv, PrewarmTyped
<1>2. \A b \in Warmable : JobOf(b)' = JobOf(b)
  BY DEF JobOf
<1>3. \A b \in Warmable : Onward(b)
  BY <1>2 DEF Onward
<1>4. ASSUME NEW t \in Sources, NEW b \in Warmable PROVE ChainOf(t, b)'
  <2>1. ChainOf(t, b)
    BY DEF PrewarmInv
  <2>2. CASE job'[t][b] = job[t][b]
    BY <2>1, <2>2 DEF ChainOf
  <2>3. CASE job'[t][b] = [pc |-> "enter", ran |-> 0]
    BY <2>3 DEF ChainOf
  <2> QED
    BY <2>2, <2>3 DEF Sources
<1>5. ASSUME NEW b \in Warmable, calm'[b] PROVE AgeOf(b)'
  <2>1. calm[b] /\ AgeOf(b) /\ enabled'[b]
    BY <1>5 DEF PrewarmInv
  <2>2. /\ JobOf(b).pc' = "idle" => JobOf(b).pc = "idle" \/ warmAge[b] < RefreshAfter
        /\ JobOf(b).pc' # "idle" => JobOf(b).pc # "idle"
    BY <1>2
  <2>3. \A t \in Sources :
          job'[t][b].pc \in {"ok", "failed"} => job[t][b].pc \in {"ok", "failed"}
    BY DEF Sources
  <2>4. warmAge'[b] = warmAge[b] /\ sinceOK'[b] = sinceOK[b]
    OBVIOUS
  <2> QED
    BY <1>1, <2>1, <2>2, <2>3, <2>4, AgeKept
<1> QED
  BY <1>1, <1>3, <1>4, <1>5, MomentKeeps

LEMMA EnableKeeps ==
  ASSUME PrewarmInv, NEW a \in Warmable, Enable(a)
  PROVE  PrewarmInv'
<1>1. PrewarmTyped /\ a \in fleet.all /\ enabled' = [enabled EXCEPT ![a] = TRUE]
      /\ UNCHANGED <<warmAge, sinceOK, chain, sweep, jitter, calm, fleet>>
  BY DEF PrewarmInv, Enable
<1>2. /\ enabled' \in [Warmable -> BOOLEAN] /\ calm' \in [Warmable -> BOOLEAN]
      /\ \A b \in Warmable : b # a => enabled'[b] = enabled[b]
      /\ enabled'[a] = TRUE
  BY <1>1 DEF PrewarmTyped
<1>3. /\ \A b \in Warmable : enabled'[b] => b \in fleet.all
      /\ \A b \in Warmable : calm'[b] => calm[b] /\ enabled'[b]
  BY <1>1, <1>2 DEF PrewarmInv, OfFleet, AgeOf
<1> DEFINE new == [pc |-> "enter", ran |-> 0]
<1>4. new \in [pc : JobSteps, ran : Nat]
  BY DEF JobSteps
<1>5. job' = job \/ job' = [job EXCEPT !["hook"][a] = new]
  BY DEF Enable
<1> HIDE DEF new
<1>6. /\ job' \in [Sources -> [Warmable -> [pc : JobSteps, ran : Nat]]]
      /\ job'["sweep"] = job["sweep"]
      /\ \A b \in Warmable : job'["hook"][b] = job["hook"][b] \/ job'["hook"][b] = new
  <2>1. CASE job' = job
    BY <1>1, <2>1 DEF PrewarmTyped
  <2>2. CASE job' = [job EXCEPT !["hook"][a] = new]
    BY <1>1, <1>4, <2>2 DEF PrewarmTyped, Sources
  <2> QED
    BY <1>5, <2>1, <2>2
<1> QED
  BY <1>1, <1>2, <1>3, <1>6, BesideKeeps DEF new

LEMMA DisableKeeps ==
  ASSUME PrewarmInv, NEW a \in Warmable, Disable(a)
  PROVE  PrewarmInv'
<1>1. /\ PrewarmTyped /\ enabled' = [enabled EXCEPT ![a] = FALSE]
      /\ calm' = [calm EXCEPT ![a] = FALSE] /\ job' = job
      /\ UNCHANGED <<warmAge, sinceOK, chain, sweep, jitter, fleet>>
  BY DEF PrewarmInv, Disable
<1>2. /\ enabled' \in [Warmable -> BOOLEAN] /\ calm' \in [Warmable -> BOOLEAN]
      /\ \A b \in Warmable : b # a => enabled'[b] = enabled[b] /\ calm'[b] = calm[b]
      /\ enabled'[a] = FALSE /\ calm'[a] = FALSE
  BY <1>1 DEF PrewarmTyped
<1>3. /\ \A b \in Warmable : enabled'[b] => b \in fleet.all
      /\ \A b \in Warmable : calm'[b] => calm[b] /\ enabled'[b]
  BY <1>2 DEF PrewarmInv, OfFleet, AgeOf
<1>4. job' \in [Sources -> [Warmable -> [pc : JobSteps, ran : Nat]]]
  BY <1>1 DEF PrewarmTyped
<1> QED
  BY <1>1, <1>2, <1>3, <1>4, BesideKeeps

LEMMA StormKeeps ==
  ASSUME PrewarmInv, Storm
  PROVE  PrewarmInv'
<1>1. /\ PrewarmTyped /\ job' = job /\ enabled' = enabled /\ calm' = calm
      /\ UNCHANGED <<warmAge, sinceOK, chain, sweep, jitter, fleet>>
  BY DEF PrewarmInv, Storm
<1>2. /\ \A b \in Warmable : enabled'[b] => b \in fleet.all
      /\ \A b \in Warmable : calm'[b] => calm[b] /\ enabled'[b]
  BY <1>1 DEF PrewarmInv, OfFleet, AgeOf
<1>3. /\ job' \in [Sources -> [Warmable -> [pc : JobSteps, ran : Nat]]]
      /\ enabled' \in [Warmable -> BOOLEAN] /\ calm' \in [Warmable -> BOOLEAN]
  BY <1>1 DEF PrewarmTyped
<1> QED
  BY <1>1, <1>2, <1>3, BesideKeeps

-----------------------------------------------------------------------------
(* The loop.                                                                 *)

LEMMA SweepStartsKeeps ==
  ASSUME PrewarmInv, SweepStarts
  PROVE  PrewarmInv'
<1> DEFINE due == {a \in Warmable : enabled[a] /\ Due(a)}
           boot == sweep.pc = "boot"
           new == [pc |-> IF boot THEN "stagger" ELSE "queued", ran |-> 0]
<1>1. /\ PrewarmTyped /\ sweep.pc \in {"boot", "wait"} /\ (sweep.pc = "wait" => sweep.time = 0)
      /\ sweep' = [pc |-> IF boot THEN "booting" ELSE "sweep", time |-> 0]
      /\ UNCHANGED <<enabled, warmAge, sinceOK, chain, jitter, fleet>>
  BY DEF PrewarmInv, SweepStarts
<1>2. job' = [job EXCEPT !["sweep"] = [a \in Warmable |-> IF a \notin due THEN @[a] ELSE new]]
  BY DEF SweepStarts
<1>3. calm' = [a \in Warmable |-> calm[a] /\ enabled[a] /\ holdOff[a] = 0]
  BY DEF SweepStarts
<1>4. \A a \in Warmable : JobOf(a).pc = "idle" /\ job["sweep"][a] = JobOf(a)
  BY <1>1 DEF PrewarmInv, RestOf, JobOf
<1>5. new \in [pc : JobSteps, ran : Nat] /\ new.ran = 0
      /\ new.pc = IF boot THEN "stagger" ELSE "queued"
  BY DEF JobSteps
<1>6. due \subseteq Warmable /\ \A a \in due : enabled[a] /\ Due(a)
  OBVIOUS
<1>7. \A a \in Warmable : calm'[a] /\ a \notin due => ~Due(a) /\ enabled[a] /\ calm[a] /\ holdOff[a] = 0
  BY <1>3
<1> HIDE DEF due, new
<1>8. /\ job' \in [Sources -> [Warmable -> [pc : JobSteps, ran : Nat]]]
      /\ job'["hook"] = job["hook"]
      /\ \A a \in Warmable : job'["sweep"][a] = IF a \in due THEN new ELSE job["sweep"][a]
  BY <1>1, <1>2, <1>5 DEF PrewarmTyped, Sources
<1>9. \A a \in Warmable :
        /\ a \in due => JobOf(a)' = new
        /\ a \notin due => JobOf(a)' = JobOf(a) /\ JobOf(a)'.pc = "idle"
  BY <1>4, <1>8 DEF JobOf
<1>10. sweep' \in [pc : Phases, time : Nat] /\ calm' \in [Warmable -> BOOLEAN]
       /\ sweep'.time = 0 /\ sweep'.pc = (IF boot THEN "booting" ELSE "sweep")
  <2>1. \A a \in Warmable : (calm[a] /\ enabled[a] /\ holdOff[a] = 0) \in BOOLEAN
    OBVIOUS
  <2> QED
    BY <1>1, <1>3, <2>1 DEF Phases
<1>11. PrewarmTyped'
  BY <1>1, <1>8, <1>10 DEF PrewarmTyped
<1>12. fleet' = fleet /\ fleet \in Fleets /\ InFront' = InFront /\ LongestSweep' = LongestSweep
       /\ Apart' = Apart /\ AtSweep' = AtSweep
  BY <1>1 DEF PrewarmTyped, InFront, LongestSweep, Apart, AtSweep
<1>13. OfFleet'
  BY <1>1, <1>6, <1>9 DEF OfFleet, PrewarmInv
<1>14. PICK b \in Nat : Begun' = b
  BY PrewarmNumbers DEF Begun
<1>15. ASSUME NEW a \in Warmable PROVE RestOf(a)' /\ InTime(a)'
  <2>1. CASE a \notin due
    <3>1. JobOf(a)'.pc = "idle"
      BY <1>9, <2>1
    <3> QED
      BY <3>1 DEF RestOf, InTime, Waits, Runs
  <2>2. CASE a \in due
    <3>1. JobOf(a)'.pc = (IF boot THEN "stagger" ELSE "queued") /\ JobOf(a)'.ran = 0
      BY <1>5, <1>9, <2>2
    <3>2. InFront \in Nat
      <4>1. a \in fleet.all
        BY <1>6, <2>2 DEF PrewarmInv, OfFleet
      <4>2. Cardinality(fleet.all) > 0
        BY <1>12, <4>1, AccountsAreFinite, FS_EmptySet
      <4> QED
        BY <1>12, <4>2, SweepTimes
    <3>3. RestOf(a)'
      BY <1>10, <3>1 DEF RestOf
    <3>4. InTime(a)'
      <4>1. sweep.time' <= Begun' + InFront'
        BY <1>10, <1>12, <1>14, <3>2
      <4>2. ~Runs(a)'
        BY <3>1 DEF Runs
      <4> QED
        BY <4>1, <4>2 DEF InTime
    <3> QED
      BY <3>3, <3>4
  <2> QED
    BY <2>1, <2>2
<1>16. ASSUME NEW m \in Nat, NEW u \in 1..ChainMax PROVE Served(m, u)'
  <2>1. m * ChainMax \in Nat
    BY PrewarmNumbers
  <2> DEFINE k == m * ChainMax
  <2>2. k \in Nat
    BY <2>1
  <2> HIDE DEF k
  <2>3. ~(0 >= b + k + u)
    BY <2>2, PrewarmNumbers
  <2> QED
    BY <1>10, <1>14, <2>3 DEF Served, k
<1>17. Busy' /\ SweepInTime' /\ (sweep.pc = "wait" => sweep.time <= Apart)'
  <2>1. LongestSweep \in Nat
    BY <1>12, SweepTimes
  <2> QED
    <3>1. sweep.time' <= Begun' + LongestSweep'
      BY <1>10, <1>12, <1>14, <2>1
    <3>2. sweep.pc' # "wait"
      BY <1>10
    <3> QED
      BY <1>16, <3>1, <3>2 DEF Busy, SweepInTime
<1>18. ASSUME NEW s \in Sources, NEW a \in Warmable PROVE ChainOf(s, a)'
  <2>1. ChainOf(s, a)
    BY DEF PrewarmInv
  <2>2. CASE s = "hook"
    BY <1>1, <1>8, <2>1, <2>2 DEF ChainOf
  <2>3. CASE s = "sweep"
    BY <1>1, <1>5, <1>8, <2>1, <2>3 DEF ChainOf
  <2> QED
    BY <2>2, <2>3 DEF Sources
<1>19. ASSUME NEW a \in Warmable, calm'[a] PROVE AgeOf(a)'
  <2>1. calm[a] /\ enabled[a] /\ AgeOf(a)
    BY <1>3, <1>19 DEF PrewarmInv
  <2>2. warmAge'[a] = warmAge[a] /\ sinceOK'[a] = sinceOK[a]
        /\ warmAge[a] \in Nat /\ sinceOK[a] \in Nat /\ jitter[a] \in Nat
    BY <1>1, PrewarmNumbers DEF PrewarmTyped
  <2>3. boot => warmAge[a] = 0
    BY <2>1 DEF AgeOf
  <2>4. ~boot => warmAge[a] <= AtSweep
    BY <1>1, <2>1, <2>2, <1>12, SweepTimes DEF AgeOf
  <2>5. a \notin due /\ ~boot => warmAge[a] <= RefreshAfter + Interval - 2
    <3> SUFFICES ASSUME a \notin due PROVE warmAge[a] <= RefreshAfter + Interval - 2
      OBVIOUS
    <3>1. ~Due(a) /\ holdOff[a] = 0
      BY <1>7, <1>19
    <3>2. Interval \div 4 \in Nat
      BY PrewarmNumbers
    <3>3. Least(jitter[a], Interval \div 4) \in Nat
      BY <2>2, <3>2, LeastType
    <3>4. sinceOK[a] # Never /\ ~(sinceOK[a] + Least(jitter[a], Interval \div 4) >= Interval)
      BY <3>1 DEF Due
    <3>5. sinceOK[a] < Interval /\ warmAge[a] < sinceOK[a] + RefreshAfter
      BY <2>1, <2>2, <3>3, <3>4, PrewarmNumbers DEF AgeOf
    <3> QED
      BY <2>2, <3>5, PrewarmNumbers
  <2>6. JobOf(a)'.pc = "idle" => a \notin due
    BY <1>5, <1>9
  <2>7. (\A s \in Sources : job[s][a].pc \in {"ok", "failed"} => warmAge[a] = 0)'
    <3>1. job'["sweep"][a].pc \notin {"ok", "failed"}
      BY <1>4, <1>5, <1>8
    <3>2. \A s \in Sources : job'[s][a].pc \in {"ok", "failed"} => job[s][a].pc \in {"ok", "failed"}
      BY <1>8, <3>1 DEF Sources
    <3> QED
      BY <2>1, <2>2, <3>2 DEF AgeOf
  <2>8. (sweep.pc = "sweep" /\ JobOf(a).pc = "idle" =>
          warmAge[a] <= RefreshAfter + Interval - 2 + sweep.time)'
    BY <1>10, <2>2, <2>5, <2>6, PrewarmNumbers
  <2>9. (sweep.pc = "sweep" /\ JobOf(a).pc # "idle" => warmAge[a] <= AtSweep + sweep.time)'
    <3>1. AtSweep \in Nat
      BY <1>12, SweepTimes
    <3> QED
      BY <1>10, <1>12, <2>2, <2>4, <3>1
  <2>10. (/\ warmAge[a] < sinceOK[a] + RefreshAfter \/ sinceOK[a] = Never
          /\ sweep.pc = "boot" => warmAge[a] = 0
          /\ sweep.pc = "booting" => warmAge[a] <= sweep.time
          /\ sweep.pc = "wait" => warmAge[a] + sweep.time <= AtSweep)'
    BY <1>10, <2>1, <2>2, <2>3 DEF AgeOf
  <2>11. enabled'[a]
    BY <1>1, <2>1
  <2> QED
    BY <2>7, <2>8, <2>9, <2>10, <2>11 DEF AgeOf
<1> QED
  BY <1>11, <1>13, <1>15, <1>17, <1>18, <1>19 DEF PrewarmInv

(* The loop waits, and no job is left.                                       *)
LEMMA WaitKeeps ==
  ASSUME PrewarmInv, UNCHANGED <<enabled, warmAge, sinceOK, chain, job, jitter, fleet>>,
         calm' \in [Warmable -> BOOLEAN], NEW t \in Nat, sweep' = [pc |-> "wait", time |-> t],
         t <= Apart, \A a \in Warmable : JobOf(a).pc = "idle",
         \A a \in Warmable : calm'[a] => calm[a] /\ warmAge[a] + t <= AtSweep
  PROVE  PrewarmInv'
<1>1. sweep'.pc = "wait" /\ sweep'.time = t /\ sweep' \in [pc : Phases, time : Nat]
  BY DEF Phases
<1>2. PrewarmTyped'
  BY <1>1 DEF PrewarmInv, PrewarmTyped
<1>3. Apart' = Apart /\ AtSweep' = AtSweep
  BY DEF AtSweep, Apart, LongestSweep, InFront
<1>4. \A a \in Warmable : JobOf(a)' = JobOf(a) /\ JobOf(a)'.pc = "idle"
  BY DEF JobOf
<1>5. ASSUME NEW a \in Warmable PROVE RestOf(a)' /\ InTime(a)' /\ ~Waits(a)'
  BY <1>4 DEF RestOf, InTime, Waits, Runs
<1>6. OfFleet'
  BY <1>4 DEF PrewarmInv, OfFleet
<1>7. Busy' /\ SweepInTime' /\ (sweep.pc = "wait" => sweep.time <= Apart)'
  BY <1>1, <1>3, <1>5 DEF Busy, SweepInTime, Waiting
<1>8. \A s \in Sources, a \in Warmable : ChainOf(s, a)'
  BY DEF PrewarmInv, ChainOf
<1>9. ASSUME NEW a \in Warmable, calm'[a] PROVE AgeOf(a)'
  <2>1. AgeOf(a) /\ warmAge[a] + t <= AtSweep
    BY <1>9 DEF PrewarmInv
  <2> QED
    BY <1>1, <1>3, <2>1 DEF AgeOf
<1> QED
  BY <1>2, <1>5, <1>6, <1>7, <1>8, <1>9 DEF PrewarmInv

LEMMA SweepSkippedKeeps ==
  ASSUME PrewarmInv, SweepSkipped
  PROVE  PrewarmInv'
<1> DEFINE t == IF Interval > MinGap THEN Interval ELSE MinGap
<1>1. /\ PrewarmTyped /\ sweep.pc = "wait" /\ sweep' = [sweep EXCEPT !.time = t]
      /\ calm' = [a \in Warmable |-> FALSE] /\ fleet \in Fleets
      /\ UNCHANGED <<enabled, warmAge, sinceOK, chain, job, jitter, fleet>>
  BY DEF PrewarmInv, PrewarmTyped, SweepSkipped
<1>2. t \in Nat /\ t <= Apart
  BY <1>1, SweepTimes, PrewarmNumbers
<1> HIDE DEF t
<1>3. sweep' = [pc |-> "wait", time |-> t]
  BY <1>1 DEF PrewarmTyped
<1>4. \A a \in Warmable : JobOf(a).pc = "idle"
  BY <1>1 DEF PrewarmInv, RestOf
<1> QED
  BY <1>1, <1>2, <1>3, <1>4, WaitKeeps

LEMMA SweepEndsKeeps ==
  ASSUME PrewarmInv, SweepEnds
  PROVE  PrewarmInv'
<1> DEFINE t == IF sweep.pc = "booting" THEN 0
                ELSE IF Minus(Interval, sweep.time) < MinGap THEN MinGap
                ELSE Interval - sweep.time
<1>1. /\ PrewarmTyped /\ sweep.pc \in {"booting", "sweep"} /\ sweep' = [pc |-> "wait", time |-> t]
      /\ fleet \in Fleets /\ calm' = calm /\ calm \in [Warmable -> BOOLEAN]
      /\ UNCHANGED <<enabled, warmAge, sinceOK, chain, job, jitter, fleet>>
  BY DEF PrewarmInv, PrewarmTyped, SweepEnds
<1>2. \A a \in Warmable : JobOf(a).pc = "idle"
  BY DEF SweepEnds, JobOf
<1>3. sweep.time \in Nat
  BY <1>1 DEF PrewarmTyped
<1>4. LongestSweep \in Nat /\ Apart \in Nat /\ Apart >= Interval /\ Apart >= LongestSweep + MinGap
      /\ AtSweep = RefreshAfter + Interval + Apart - 2
  BY <1>1, SweepTimes
<1>5. sweep.pc = "sweep" => sweep.time <= LongestSweep
  BY <1>3, <1>4 DEF PrewarmInv, SweepInTime, Begun
<1>6. sweep.pc = "booting" => sweep.time <= MaxJitter + LongestSweep
  BY <1>3, <1>4 DEF PrewarmInv, SweepInTime, Begun
<1>7. /\ t \in Nat /\ t <= Apart
      /\ sweep.pc = "booting" => t = 0
      /\ sweep.pc = "sweep" => t + sweep.time <= Apart
  BY <1>1, <1>3, <1>4, <1>5, PrewarmNumbers DEF Minus
<1> HIDE DEF t
<1>8. ASSUME NEW a \in Warmable, calm[a] PROVE warmAge[a] + t <= AtSweep
  <2>1. AgeOf(a) /\ warmAge[a] \in Nat
    BY <1>1, <1>8 DEF PrewarmInv, PrewarmTyped
  <2>2. CASE sweep.pc = "booting"
    <3>1. warmAge[a] <= sweep.time
      BY <2>1, <2>2 DEF AgeOf
    <3> QED
      BY <1>3, <1>4, <1>6, <1>7, <2>1, <2>2, <3>1, PrewarmNumbers
  <2>3. CASE sweep.pc = "sweep"
    <3>1. warmAge[a] <= RefreshAfter + Interval - 2 + sweep.time
      BY <1>2, <2>1, <2>3 DEF AgeOf
    <3> QED
      BY <1>3, <1>4, <1>7, <2>1, <2>3, <3>1, PrewarmNumbers
  <2> QED
    BY <1>1, <2>2, <2>3
<1> QED
  BY <1>1, <1>2, <1>7, <1>8, WaitKeeps

-----------------------------------------------------------------------------
(* Time passes.                                                              *)

LEMMA TickJobs ==
  ASSUME PrewarmInv, Tick
  PROVE  /\ \A s \in Sources, a \in Warmable :
              /\ job'[s][a] \in [pc : JobSteps, ran : Nat]
              /\ job'[s][a].pc = job[s][a].pc
              /\ job[s][a].pc # "idle" => job'[s][a].ran = job[s][a].ran + 1
              /\ job[s][a].pc \notin {"enter", "ok", "failed"}
         /\ job' \in [Sources -> [Warmable -> [pc : JobSteps, ran : Nat]]]
<1>1. PrewarmTyped
  BY DEF PrewarmInv
<1> DEFINE Aged(s, a) == IF job[s][a].pc = "idle" THEN NoJob
                         ELSE [job[s][a] EXCEPT !.ran = job[s][a].ran + 1]
<1>2. \A s \in Sources, a \in Warmable : job[s][a] \in [pc : JobSteps, ran : Nat]
  BY <1>1 DEF PrewarmTyped
<1>3. ASSUME NEW s \in Sources, NEW a \in Warmable
      PROVE  /\ Aged(s, a) \in [pc : JobSteps, ran : Nat] /\ Aged(s, a).pc = job[s][a].pc
             /\ job[s][a].pc # "idle" => Aged(s, a).ran = job[s][a].ran + 1
  <2>1. CASE job[s][a].pc = "idle"
    BY <2>1 DEF NoJob, JobSteps
  <2>2. CASE job[s][a].pc # "idle"
    BY <1>2, <2>2
  <2> QED
    BY <2>1, <2>2
<1>4. job' = [s \in Sources |-> [a \in Warmable |-> Aged(s, a)]]
  BY DEF Tick
<1>5. \A s \in Sources, a \in Warmable : job[s][a].pc \notin {"enter", "ok", "failed"}
  BY DEF Tick
<1> HIDE DEF Aged
<1> QED
  BY <1>3, <1>4, <1>5

(* The clocks of the accounts and of the sweep.                              *)
LEMMA TickClocks ==
  ASSUME PrewarmInv, Tick
  PROVE  /\ warmAge' \in [Warmable -> Nat] /\ sinceOK' \in [Warmable -> Nat]
         /\ chain' \in [Warmable -> 0..Off]
         /\ \A a \in Warmable :
              /\ warmAge'[a] <= warmAge[a] + 1 /\ warmAge[a] \in Nat /\ sinceOK[a] \in Nat
              /\ sinceOK'[a] = sinceOK[a] + 1 \/ sinceOK'[a] = Never
              /\ sinceOK[a] = Never => sinceOK'[a] = Never
              /\ chain[a] # ChainMax /\ (chain[a] # Off => chain'[a] = chain[a] + 1)
         /\ sweep.pc \in {"booting", "sweep", "wait"} /\ sweep'.pc = sweep.pc
         /\ sweep' \in [pc : Phases, time : Nat] /\ sweep.time \in Nat
         /\ sweep'.time = IF sweep.pc = "wait" THEN sweep.time - 1 ELSE sweep.time + 1
         /\ UNCHANGED <<enabled, jitter, calm, fleet>>
<1>1. PrewarmTyped
  BY DEF PrewarmInv
<1>2. OldAge \in Nat
  <2>1. Cardinality(Warmable) \in Nat
    BY FS_CardinalityType, PrewarmAssumption DEF PrewarmAssumption
  <2> QED
    BY <2>1, PrewarmNumbers DEF OldAge
<1>3. ASSUME NEW a \in Warmable
      PROVE  /\ warmAge[a] \in Nat /\ sinceOK[a] \in Nat /\ chain[a] \in 0..Off
             /\ Least(warmAge[a] + 1, OldAge) \in Nat
             /\ Least(warmAge[a] + 1, OldAge) <= warmAge[a] + 1
             /\ Least(sinceOK[a] + 1, Never) \in Nat
             /\ Least(sinceOK[a] + 1, Never) \in {sinceOK[a] + 1, Never}
             /\ sinceOK[a] = Never => Least(sinceOK[a] + 1, Never) = Never
             /\ chain[a] # ChainMax
             /\ (IF chain[a] = Off THEN Off ELSE chain[a] + 1) \in 0..Off
  <2>1. /\ warmAge[a] \in Nat /\ sinceOK[a] \in Nat /\ chain[a] \in 0..Off
    BY <1>1, PrewarmNumbers DEF PrewarmTyped
  <2>2. chain[a] # ChainMax
    BY DEF Tick
  <2>3. (IF chain[a] = Off THEN Off ELSE chain[a] + 1) \in 0..Off
    BY <2>1, <2>2, PrewarmNumbers
  <2>4. /\ Least(warmAge[a] + 1, OldAge) \in Nat
        /\ Least(warmAge[a] + 1, OldAge) <= warmAge[a] + 1
    BY <1>2, <2>1 DEF Least
  <2>5. /\ Least(sinceOK[a] + 1, Never) \in Nat
        /\ Least(sinceOK[a] + 1, Never) \in {sinceOK[a] + 1, Never}
        /\ sinceOK[a] = Never => Least(sinceOK[a] + 1, Never) = Never
    BY <2>1, PrewarmNumbers DEF Least
  <2> QED
    BY <2>1, <2>2, <2>3, <2>4, <2>5
<1>4. /\ chain' = [a \in Warmable |-> IF chain[a] = Off THEN Off ELSE chain[a] + 1]
      /\ warmAge' = [a \in Warmable |-> Least(warmAge[a] + 1, OldAge)]
      /\ sinceOK' = [a \in Warmable |-> Least(sinceOK[a] + 1, Never)]
  BY DEF Tick
<1>5. /\ warmAge' \in [Warmable -> Nat] /\ sinceOK' \in [Warmable -> Nat]
      /\ chain' \in [Warmable -> 0..Off]
  BY <1>3, <1>4
<1>6. /\ sweep.pc \in {"booting", "sweep", "wait"} /\ sweep.time \in Nat
      /\ sweep.pc = "wait" => sweep.time # 0
  BY <1>1 DEF PrewarmTyped, Tick, Phases
<1>7. sweep' = [sweep EXCEPT !.time = IF sweep.pc = "wait" THEN sweep.time - 1 ELSE sweep.time + 1]
  BY DEF Tick
<1>8. /\ sweep'.pc = sweep.pc /\ sweep' \in [pc : Phases, time : Nat]
      /\ sweep'.time = IF sweep.pc = "wait" THEN sweep.time - 1 ELSE sweep.time + 1
  <2> DEFINE t == IF sweep.pc = "wait" THEN sweep.time - 1 ELSE sweep.time + 1
  <2>1. t \in Nat
    BY <1>6
  <2>2. sweep' = [sweep EXCEPT !.time = t] /\ sweep \in [pc : Phases, time : Nat]
    BY <1>1, <1>7 DEF PrewarmTyped
  <2> HIDE DEF t
  <2>3. sweep'.pc = sweep.pc /\ sweep' \in [pc : Phases, time : Nat] /\ sweep'.time = t
    BY <2>1, <2>2
  <2> QED
    BY <2>3 DEF t
<1> QED
  BY <1>3, <1>4, <1>5, <1>6, <1>8 DEF Tick

(* While a job waits, every worker is taken.                                 *)
LEMMA WorkersTaken ==
  ASSUME PrewarmInv, Tick, NEW a \in Waiting, sweep.time >= Begun
  PROVE  /\ Cardinality(Waiting) + Workers <= Cardinality(Behind(ChainMax))
         /\ Behind(ChainMax) \subseteq fleet.all /\ IsFiniteSet(Behind(ChainMax))
         /\ Cardinality(Waiting) \in Nat
<1>1. PrewarmTyped /\ a \in Warmable /\ Waits(a) /\ RestOf(a) /\ fleet \in Fleets
  BY DEF PrewarmInv, PrewarmTyped, Waiting
<1>2. sweep.time \in Nat /\ JobOf(a).pc \in {"stagger", "queued"} /\ jitter[a] \in 0..MaxJitter
  BY <1>1 DEF PrewarmTyped, Waits
<1>3. JobOf(a).pc = "stagger" => JobOf(a).ran >= jitter[a]
  BY <1>1, <1>2, PrewarmNumbers DEF RestOf, Begun
<1>4. ~(Cardinality(Running) < Workers)
  <2>1. ~(/\ job["sweep"][a].pc \in {"stagger", "queued"}
          /\ job["sweep"][a].pc = "stagger" => job["sweep"][a].ran >= jitter[a]
          /\ Cardinality(Running) < Workers)
    BY <1>1 DEF Tick
  <2> QED
    BY <1>2, <1>3, <2>1 DEF JobOf
<1>5. ASSUME NEW b \in Warmable, Runs(b) PROVE JobOf(b).ran < ChainMax
  <2>1. JobOf(b).pc = "chain" /\ JobOf(b).ran \in Nat /\ chain[b] \in Nat
    BY <1>1, <1>5, TickJobs, PrewarmNumbers DEF Runs, JobOf, Sources, PrewarmTyped
  <2>2. ChainOf("sweep", b)
    BY DEF PrewarmInv, Sources
  <2>3. chain[b] # ChainMax
    BY TickClocks
  <2> QED
    BY <2>1, <2>2, <2>3, PrewarmNumbers DEF ChainOf, JobOf
<1>6. Behind(ChainMax) = Waiting \cup Running
  BY <1>5 DEF Behind, Running, Runs, JobOf
<1>7. Behind(ChainMax) \subseteq fleet.all
  BY DEF Behind, Waiting, Waits, Runs, PrewarmInv, OfFleet
<1>8. Waiting \cap Running = {}
  BY DEF Waiting, Waits, Running, JobOf
<1>9. IsFiniteSet(Waiting) /\ IsFiniteSet(Running) /\ IsFiniteSet(Behind(ChainMax))
  BY <1>1, <1>6, <1>7, AccountsAreFinite
<1>10. Cardinality(Waiting \cup Running)
         = Cardinality(Waiting) + Cardinality(Running) - Cardinality(Waiting \cap Running)
  BY <1>9, FS_Union
<1>11. /\ Cardinality(Waiting) \in Nat /\ Cardinality(Running) \in Nat
       /\ Cardinality(Waiting \cap Running) = 0
  BY <1>8, <1>9, FS_CardinalityType, FS_EmptySet
<1> QED
  BY <1>4, <1>6, <1>7, <1>9, <1>10, <1>11, PrewarmNumbers

LEMMA TickBusy ==
  ASSUME PrewarmInv, Tick, PrewarmTyped'
  PROVE  Busy'
<1>1. PrewarmTyped /\ fleet \in Fleets /\ fleet' = fleet
  BY DEF PrewarmInv, PrewarmTyped, Tick
<1>2. \A a \in Warmable :
        /\ JobOf(a)'.pc = JobOf(a).pc /\ JobOf(a).ran \in Nat
        /\ JobOf(a).pc # "idle" => JobOf(a)'.ran = JobOf(a).ran + 1
  BY <1>1, TickJobs DEF JobOf, Sources, PrewarmTyped
<1>3. \A a \in Warmable : (Waits(a)' <=> Waits(a)) /\ (Runs(a)' <=> Runs(a))
                          /\ (Runs(a) => JobOf(a)'.ran = JobOf(a).ran + 1)
  BY <1>2 DEF Waits, Runs
<1>4. Waiting' = Waiting
  BY <1>3 DEF Waiting
<1> SUFFICES ASSUME NEW m \in Nat, NEW u \in 1..ChainMax, Waiting # {}
             PROVE  Served(m, u)'
  BY <1>4 DEF Busy
<1>5. PICK a \in Warmable : a \in Waiting /\ Waits(a) /\ RestOf(a)
  BY DEF Waiting, PrewarmInv
<1>6. /\ sweep.pc \in {"booting", "sweep"} /\ sweep'.pc = sweep.pc /\ sweep.time \in Nat
      /\ sweep'.time = sweep.time + 1
  <2>1. JobOf(a).pc # "idle"
    BY <1>5 DEF Waits
  <2> QED
    BY <1>5, <2>1, TickClocks DEF RestOf
<1>7. PICK b \in Nat : Begun = b
  BY PrewarmNumbers DEF Begun
<1>8. Begun' = b
  BY <1>6, <1>7 DEF Begun
<1>9. \A k \in Nat, v \in 1..ChainMax : Served(k, v)
  BY <1>5 DEF PrewarmInv, Busy
<1>10. PICK n \in Nat : n = Cardinality(fleet.all)
  BY <1>1, AccountsAreFinite
<1>11. u \in Nat /\ u >= 1 /\ u <= ChainMax /\ ChainMax \in Nat /\ ChainMax > 0
       /\ Workers \in Nat
  BY PrewarmNumbers
<1>12. CASE u > 1
  <2>1. u - 1 \in 1..ChainMax
    BY <1>11, <1>12
  <2>2. Behind(u)' = Behind(u - 1)
    <3>1. \A c \in Warmable :
            (Runs(c) /\ JobOf(c).ran < u)' <=> Runs(c) /\ JobOf(c).ran < u - 1
      <4> SUFFICES ASSUME NEW c \in Warmable
                   PROVE  (Runs(c) /\ JobOf(c).ran < u)' <=> Runs(c) /\ JobOf(c).ran < u - 1
        OBVIOUS
      <4>1. JobOf(c).ran \in Nat /\ (Runs(c)' <=> Runs(c))
            /\ (Runs(c) => JobOf(c)'.ran = JobOf(c).ran + 1)
        BY <1>2, <1>3
      <4> QED
        BY <1>11, <4>1
    <3> QED
      BY <1>4, <3>1 DEF Behind
  <2>3. Served(m, u - 1)
    BY <1>9, <2>1
  <2> DEFINE k == m * ChainMax
             w == Workers * (m + 1)
  <2>4. k \in Nat
    BY <1>11
  <2>5. sweep.time >= b + k + (u - 1) => Cardinality(Behind(u - 1)) + w <= n
    BY <1>7, <1>10, <2>3 DEF Served
  <2> HIDE DEF k, w
  <2>6. sweep.time + 1 >= b + k + u => Cardinality(Behind(u - 1)) + w <= n
    BY <1>6, <1>11, <2>4, <2>5
  <2> QED
    BY <1>1, <1>6, <1>8, <1>10, <2>2, <2>6 DEF Served, k, w
<1>13. CASE u = 1
  <2>1. Behind(u)' = Waiting
    <3>1. \A c \in Warmable : ~(Runs(c) /\ JobOf(c).ran < u)'
      <4> SUFFICES ASSUME NEW c \in Warmable PROVE ~(Runs(c) /\ JobOf(c).ran < u)'
        OBVIOUS
      <4>1. JobOf(c).ran \in Nat /\ (Runs(c)' => JobOf(c)'.ran = JobOf(c).ran + 1)
        BY <1>2, <1>3
      <4> QED
        BY <1>13, <4>1
    <3> QED
      BY <1>4, <3>1 DEF Behind
  <2> SUFFICES ASSUME sweep.time >= b + m * ChainMax
               PROVE  Cardinality(Waiting) + Workers * (m + 1) <= n
    <3>1. m * ChainMax \in Nat
      BY <1>11
    <3> DEFINE k == m * ChainMax
    <3>2. sweep.time + 1 >= b + k + 1 => sweep.time >= b + k
      BY <1>6, <3>1
    <3> QED
      BY <1>1, <1>6, <1>8, <1>10, <1>13, <2>1, <3>2 DEF Served
  <2>2. m * ChainMax \in Nat
    BY <1>11
  <2>3. sweep.time >= Begun
    BY <1>6, <1>7, <2>2
  <2>4. /\ Cardinality(Waiting) + Workers <= Cardinality(Behind(ChainMax))
        /\ Behind(ChainMax) \subseteq fleet.all
        /\ Cardinality(Waiting) \in Nat
    BY <1>5, <2>3, WorkersTaken
  <2>5. Cardinality(Behind(ChainMax)) \in Nat /\ Cardinality(Behind(ChainMax)) <= n
    BY <1>1, <1>10, <2>4, AccountsAreFinite
  <2>6. CASE m = 0
    BY <1>11, <2>4, <2>5, <2>6
  <2>7. CASE m > 0
    <3>1. m - 1 \in Nat /\ ChainMax \in 1..ChainMax
      BY <1>11, <2>7
    <3>2. Served(m - 1, ChainMax)
      BY <1>9, <3>1
    <3>3. m * ChainMax = (m - 1) * ChainMax + ChainMax /\ (m - 1) * ChainMax \in Nat
      BY <1>11, <3>1
    <3>4. Workers * ((m - 1) + 1) + Workers = Workers * (m + 1) /\ Workers * ((m - 1) + 1) \in Nat
      BY <1>11
    <3> DEFINE k == (m - 1) * ChainMax
               w == Workers * ((m - 1) + 1)
    <3>5. sweep.time >= b + k + ChainMax
      BY <1>6, <1>11, <3>3
    <3>6. Cardinality(Behind(ChainMax)) + w <= n
      BY <1>7, <1>10, <3>2, <3>5 DEF Served
    <3>7. w \in Nat /\ Workers * (m + 1) = w + Workers
      BY <3>4
    <3> HIDE DEF w
    <3> QED
      BY <1>11, <2>4, <2>5, <3>6, <3>7
  <2> QED
    BY <2>6, <2>7
<1> QED
  BY <1>11, <1>12, <1>13

LEMMA TickInTime ==
  ASSUME PrewarmInv, Tick, PrewarmTyped', Busy', NEW a \in Warmable
  PROVE  /\ RestOf(a)' /\ InTime(a)' /\ ChainOf("sweep", a)'
         /\ JobOf(a).pc # "idle" => sweep'.time <= Begun + LongestSweep
<1>1. PrewarmTyped /\ fleet \in Fleets /\ fleet' = fleet /\ OfFleet
      /\ RestOf(a) /\ InTime(a) /\ ChainOf("sweep", a)
  BY DEF PrewarmInv, PrewarmTyped, Tick, Sources
<1>2. /\ JobOf(a)'.pc = JobOf(a).pc /\ JobOf(a).ran \in Nat /\ JobOf(a).pc \in JobSteps
      /\ JobOf(a).pc # "idle" => JobOf(a)'.ran = JobOf(a).ran + 1
      /\ JobOf(a).pc \notin {"enter", "ok", "failed"}
  BY <1>1, TickJobs DEF JobOf, Sources, PrewarmTyped
<1>3. /\ sweep.pc \in {"booting", "sweep", "wait"} /\ sweep'.pc = sweep.pc /\ sweep.time \in Nat
      /\ sweep'.time = IF sweep.pc = "wait" THEN sweep.time - 1 ELSE sweep.time + 1
      /\ chain[a] # ChainMax /\ (chain[a] # Off => chain'[a] = chain[a] + 1)
  BY TickClocks
<1>4. chain[a] \in 0..Off
  BY <1>1 DEF PrewarmTyped
<1>5. PICK b \in Nat : Begun = b /\ Begun' = b
  BY <1>3, PrewarmNumbers DEF Begun
<1>6. InFront \in Int /\ InFront' = InFront /\ LongestSweep = InFront + ChainMax
      /\ LongestSweep \in Nat
  BY <1>1, SweepTimes DEF InFront
<1>7. CASE JobOf(a).pc = "idle"
  BY <1>2, <1>7 DEF RestOf, InTime, ChainOf, Waits, Runs, JobOf
<1>8. CASE JobOf(a).pc # "idle"
  <2>1. sweep.pc \in {"booting", "sweep"} /\ sweep'.time = sweep.time + 1
    BY <1>1, <1>3, <1>8 DEF RestOf
  <2>2. RestOf(a)'
    BY <1>1, <1>2, <1>3, <1>8, <2>1 DEF RestOf
  <2>3. CASE Waits(a)
    <3>1. JobOf(a)'.pc \in {"stagger", "queued"} /\ Waits(a)' /\ ~Runs(a)'
      BY <1>2, <2>3 DEF Waits, Runs
    <3>2. a \in Waiting' /\ a \in Behind(1)'
      BY <3>1 DEF Waiting, Behind
    <3>3. a \in fleet.all
      BY <1>1, <1>8 DEF OfFleet
    <3>4. Turnings \in Nat /\ Workers * (Turnings + 1) > Cardinality(fleet.all) - 1
      <4>1. Cardinality(fleet.all) > 0
        BY <1>1, <3>3, AccountsAreFinite, FS_EmptySet
      <4> QED
        BY <1>1, <4>1, TurningsType
    <3>5. Served(Turnings, 1)'
      <4>1. 1 \in 1..ChainMax /\ Waiting' # {}
        BY <3>2, PrewarmNumbers
      <4>2. \A k \in Nat : Served(k, 1)'
        BY <4>1 DEF Busy
      <4>3. \A k \in Nat :
              sweep'.time >= Begun' + k * ChainMax + 1 =>
                Cardinality(Behind(1)') + Workers * (k + 1) <= Cardinality(fleet.all)
        BY <1>1, <4>2 DEF Served
      <4>4. Turnings' = Turnings
        BY <1>1 DEF Turnings
      <4> QED
        BY <1>1, <3>4, <4>3, <4>4 DEF Served
    <3>6. Cardinality(Behind(1)') \in Nat /\ Cardinality(Behind(1)') > 0
      <4>1. Behind(1)' \subseteq fleet.all
        <5>1. \A c \in Warmable : JobOf(c)'.pc = JobOf(c).pc
          BY TickJobs DEF JobOf, Sources
        <5>2. \A c \in Warmable : (Waits(c) \/ Runs(c))' => c \in fleet.all
          BY <1>1, <5>1 DEF Waits, Runs, OfFleet
        <5> QED
          BY <5>2 DEF Behind, Waiting
      <4> QED
        BY <1>1, <3>2, <4>1, AccountsAreFinite, FS_EmptySet
    <3>7. Cardinality(fleet.all) \in Nat
      BY <1>1, AccountsAreFinite
    <3>8. sweep'.time <= b + InFront
      <4> DEFINE w == Workers * (Turnings + 1)
      <4>1. w \in Nat
        BY <3>4, PrewarmNumbers
      <4>2. InFront = Turnings * ChainMax
        BY <1>1, SweepTimes
      <4>3. Turnings' = Turnings
        BY <1>1 DEF Turnings
      <4>4. sweep'.time >= b + InFront + 1 => Cardinality(Behind(1)') + w <= Cardinality(fleet.all)
        BY <1>1, <1>5, <3>5, <4>2, <4>3 DEF Served
      <4>5. w > Cardinality(fleet.all) - 1
        BY <3>4
      <4> HIDE DEF w
      <4> QED
        BY <1>3, <1>6, <2>1, <3>6, <3>7, <4>1, <4>4, <4>5
    <3>9. InTime(a)'
      BY <1>5, <1>6, <3>1, <3>8 DEF InTime
    <3>10. sweep'.time <= Begun + LongestSweep
      BY <1>3, <1>5, <1>6, <2>1, <3>8, PrewarmNumbers
    <3>11. ChainOf("sweep", a)'
      BY <3>1 DEF ChainOf, JobOf
    <3> QED
      BY <2>2, <3>9, <3>10, <3>11
  <2>4. CASE Runs(a)
    <3>1. JobOf(a).pc = "chain" /\ JobOf(a)'.ran = JobOf(a).ran + 1 /\ Runs(a)' /\ ~Waits(a)'
      BY <1>2, <2>4 DEF Runs, Waits
    <3>2. JobOf(a).ran <= chain[a] /\ chain[a] <= ChainMax
      BY <1>1, <3>1 DEF ChainOf, JobOf
    <3>3. chain'[a] = chain[a] + 1 /\ chain[a] + 1 <= ChainMax /\ chain[a] \in Nat
      BY <1>3, <1>4, <3>2, PrewarmNumbers
    <3>4. ChainOf("sweep", a)'
      <4>1. job'["sweep"][a].ran <= chain'[a] /\ chain'[a] <= ChainMax
        BY <1>2, <3>1, <3>2, <3>3 DEF JobOf
      <4>2. job'["sweep"][a].pc # "enter"
        BY <1>2, <3>1 DEF JobOf
      <4> QED
        BY <4>1, <4>2 DEF ChainOf
    <3>5. sweep.time <= b + InFront + JobOf(a).ran
      BY <1>1, <1>5, <2>4 DEF InTime
    <3>6. InTime(a)'
      <4>1. sweep'.time <= b + InFront + JobOf(a)'.ran
        BY <1>2, <1>3, <1>6, <2>1, <3>1, <3>5
      <4> QED
        BY <1>5, <1>6, <3>1, <4>1 DEF InTime
    <3>7. sweep'.time <= Begun + LongestSweep
      BY <1>2, <1>3, <1>5, <1>6, <2>1, <3>2, <3>3, <3>5, PrewarmNumbers
    <3> QED
      BY <2>2, <3>4, <3>6, <3>7
  <2> QED
    BY <1>2, <1>8, <2>3, <2>4 DEF JobSteps, Waits, Runs
<1> QED
  BY <1>7, <1>8

LEMMA TickAge ==
  ASSUME PrewarmInv, Tick, PrewarmTyped', NEW a \in Warmable, calm[a]
  PROVE  AgeOf(a)'
<1>1. PrewarmTyped /\ fleet \in Fleets /\ fleet' = fleet /\ AgeOf(a)
  BY DEF PrewarmInv, PrewarmTyped, Tick
<1>2. /\ warmAge'[a] <= warmAge[a] + 1 /\ warmAge[a] \in Nat /\ sinceOK[a] \in Nat
      /\ sinceOK'[a] = sinceOK[a] + 1 \/ sinceOK'[a] = Never
      /\ sinceOK[a] = Never => sinceOK'[a] = Never
      /\ sweep.pc \in {"booting", "sweep", "wait"} /\ sweep'.pc = sweep.pc /\ sweep.time \in Nat
      /\ sweep'.time = IF sweep.pc = "wait" THEN sweep.time - 1 ELSE sweep.time + 1
      /\ enabled' = enabled
  BY TickClocks
<1>3. warmAge'[a] \in Nat /\ sinceOK'[a] \in Nat
  BY DEF PrewarmTyped
<1>4. AtSweep \in Nat /\ AtSweep' = AtSweep
  BY <1>1, SweepTimes DEF AtSweep, Apart, LongestSweep, InFront
<1>5. JobOf(a)'.pc = JobOf(a).pc
  BY TickJobs DEF JobOf, Sources
<1>6. \A s \in Sources : job'[s][a].pc \notin {"ok", "failed"}
  BY TickJobs
<1>7. warmAge'[a] < sinceOK'[a] + RefreshAfter \/ sinceOK'[a] = Never
  <2>1. warmAge[a] < sinceOK[a] + RefreshAfter \/ sinceOK[a] = Never
    BY <1>1 DEF AgeOf
  <2> QED
    BY <1>2, <1>3, <2>1, PrewarmNumbers
<1>8. sweep'.pc = "booting" => warmAge'[a] <= sweep'.time
  <2>1. sweep.pc = "booting" => warmAge[a] <= sweep.time
    BY <1>1 DEF AgeOf
  <2> QED
    BY <1>2, <1>3, <2>1
<1>9. sweep'.pc = "wait" => warmAge'[a] + sweep'.time <= AtSweep
  <2>1. sweep.pc = "wait" => warmAge[a] + sweep.time <= AtSweep
    BY <1>1 DEF AgeOf
  <2> QED
    BY <1>2, <1>3, <1>4, <2>1
<1>10. sweep'.pc = "sweep" /\ JobOf(a)'.pc = "idle" =>
         warmAge'[a] <= RefreshAfter + Interval - 2 + sweep'.time
  <2>1. sweep.pc = "sweep" /\ JobOf(a).pc = "idle" =>
          warmAge[a] <= RefreshAfter + Interval - 2 + sweep.time
    BY <1>1 DEF AgeOf
  <2> QED
    BY <1>2, <1>3, <1>5, <2>1, PrewarmNumbers
<1>11. sweep'.pc = "sweep" /\ JobOf(a)'.pc # "idle" => warmAge'[a] <= AtSweep + sweep'.time
  <2>1. sweep.pc = "sweep" /\ JobOf(a).pc # "idle" => warmAge[a] <= AtSweep + sweep.time
    BY <1>1 DEF AgeOf
  <2> QED
    BY <1>2, <1>3, <1>4, <1>5, <2>1
<1>12. enabled'[a] /\ sweep'.pc # "boot"
  BY <1>1, <1>2 DEF AgeOf
<1> QED
  BY <1>4, <1>6, <1>7, <1>8, <1>9, <1>10, <1>11, <1>12 DEF AgeOf

LEMMA TickKeeps ==
  ASSUME PrewarmInv, Tick
  PROVE  PrewarmInv'
<1>1. PrewarmTyped /\ fleet \in Fleets /\ UNCHANGED <<enabled, jitter, calm, fleet>>
  BY DEF PrewarmInv, PrewarmTyped, Tick
<1>2. PrewarmTyped'
  BY <1>1, TickJobs, TickClocks DEF PrewarmTyped
<1>3. Busy'
  BY <1>2, TickBusy
<1>4. \A a \in Warmable :
        /\ RestOf(a)' /\ InTime(a)' /\ ChainOf("sweep", a)'
        /\ JobOf(a).pc # "idle" => sweep'.time <= Begun + LongestSweep
  BY <1>2, <1>3, TickInTime
<1>5. \A a \in Warmable : JobOf(a)'.pc = JobOf(a).pc
  BY TickJobs DEF JobOf, Sources
<1>6. OfFleet'
  BY <1>1, <1>5 DEF OfFleet, PrewarmInv
<1>7. sweep'.pc = sweep.pc /\ Begun' = Begun /\ LongestSweep' = LongestSweep /\ Apart' = Apart
      /\ Apart \in Nat /\ sweep.time \in Nat
  BY <1>1, TickClocks, SweepTimes DEF Begun, LongestSweep, InFront, Apart
<1>8. SweepInTime'
  <2>1. sweep.pc \in {"booting", "sweep"} => \E a \in Warmable : JobOf(a).pc # "idle"
    BY DEF Tick, JobOf
  <2> QED
    BY <1>4, <1>7, <2>1 DEF SweepInTime
<1>9. (sweep.pc = "wait" => sweep.time <= Apart)'
  <2>1. sweep.pc = "wait" => sweep'.time = sweep.time - 1 /\ sweep.time <= Apart
    BY TickClocks DEF PrewarmInv
  <2> QED
    BY <1>7, <2>1
<1>10. ASSUME NEW a \in Warmable PROVE ChainOf("hook", a)'
  <2>1. ChainOf("hook", a) /\ chain[a] \in 0..Off /\ job["hook"][a].ran \in Nat
    BY <1>1 DEF PrewarmInv, PrewarmTyped, Sources
  <2>2. /\ job'["hook"][a].pc = job["hook"][a].pc /\ job["hook"][a].pc # "enter"
        /\ job["hook"][a].pc # "idle" => job'["hook"][a].ran = job["hook"][a].ran + 1
        /\ chain[a] # ChainMax /\ (chain[a] # Off => chain'[a] = chain[a] + 1)
    BY TickJobs, TickClocks DEF Sources
  <2> QED
    BY <2>1, <2>2, PrewarmNumbers DEF ChainOf
<1>11. \A s \in Sources, a \in Warmable : ChainOf(s, a)'
  BY <1>4, <1>10 DEF Sources
<1>12. \A a \in Warmable : calm'[a] => AgeOf(a)'
  BY <1>1, <1>2, TickAge
<1> QED
  BY <1>2, <1>3, <1>4, <1>6, <1>8, <1>9, <1>11, <1>12 DEF PrewarmInv

-----------------------------------------------------------------------------
LEMMA PrewarmInvStep == PrewarmInv /\ [PrewarmNext]_prewarmVars => PrewarmInv'
<1> SUFFICES ASSUME PrewarmInv, [PrewarmNext]_prewarmVars
             PROVE  PrewarmInv'
  OBVIOUS
<1>1. CASE UNCHANGED prewarmVars
  BY <1>1 DEF prewarmVars, PrewarmInv, PrewarmTyped, OfFleet, Busy, SweepInTime, RestOf, InTime,
              ChainOf, AgeOf, JobOf, Waits, Runs, Begun, Waiting, Behind, Served, AtSweep,
              InFront, LongestSweep, Apart
<1>2. CASE PrewarmNext
  BY <1>2, SweepStartsKeeps, SweepSkippedKeeps, SweepEndsKeeps, StormKeeps, TickKeeps,
     JobStartsKeeps, ChainLandsKeeps, ChainBreaksKeeps, EnableKeeps, DisableKeeps,
     JobEntersKeeps, JobSucceedsKeeps, JobFailsKeeps DEF PrewarmNext
<1> QED
  BY <1>1, <1>2

(* However many accounts and workers there are, a sandbox that nothing but   *)
(* the sweeps delays is never older than Coldest: the jobs in front of it    *)
(* take no longer than InFront, since while one waits every worker takes one *)
(* job more for each longest chain that passes, and it is passed over at     *)
(* most once.                                                                *)
THEOREM ColdIsBounded == PrewarmSpec => []ColdBounded
BY PrewarmInvInit, PrewarmInvStep, PrewarmInvBounds, PTL DEF PrewarmSpec

-----------------------------------------------------------------------------
(* The run's behaviours (MCAdapter) are behaviours of each machine.          *)

LEMMA RunIsSandbox == Spec => SandboxSpec
<1>1. Init => SandboxInit
  BY DEF Init
<1>2. [Next]_vars => [SandboxNext]_sandboxVars
  BY DEF Next, vars, Box, Warm, Call, Browse, Carrying, Attaching, SandboxNext, RequestStep
<1> QED
  BY <1>1, <1>2, PTL DEF Spec, SandboxSpec

LEMMA RunIsPrewarm == Spec => PrewarmSpec
<1>1. Init => PrewarmInit
  BY DEF Init
<1>2. [Next]_vars => [PrewarmNext]_prewarmVars
  BY DEF Next, vars, Box, Warm, Call, Browse, Carrying, Attaching, PrewarmNext
<1> QED
  BY <1>1, <1>2, PTL DEF Spec, PrewarmSpec

LEMMA RunIsTurn == Spec => TurnSpec
<1>1. Init => TurnInit
  BY DEF Init
<1>2. [Next]_vars => [TurnNext]_turnVars
  BY DEF Next, vars, Box, Warm, Call, Browse, Carrying, Attaching, TurnNext, PollStep, RelayStep
<1> QED
  BY <1>1, <1>2, PTL DEF Spec, TurnSpec

LEMMA RunIsTickets == Spec => TicketsSpec
<1>1. Init => TicketsInit
  BY DEF Init
<1>2. [Next]_vars => [TicketsNext]_ticketVars
  BY DEF Next, vars, Box, Warm, Call, Browse, Carrying, Attaching, TicketsNext
<1> QED
  BY <1>1, <1>2, PTL DEF Spec, TicketsSpec

LEMMA RunIsAttachments == Spec => AttachmentsSpec
<1>1. Init => AttachmentsInit
  BY DEF Init
<1>2. [Next]_vars => [AttachmentsNext]_attachmentVars
  BY DEF Next, vars, Box, Warm, Call, Browse, Carrying, Attaching, AttachmentsNext, FetchOpens,
         FetchSucceeds, FetchIsLost, Open
<1> QED
  BY <1>1, <1>2, PTL DEF Spec, AttachmentsSpec

(* What goes along with a turn is what it should be, in the behaviours that  *)
(* the run explores, whatever the constants: every call carries a token of   *)
(* its own, and a request the files that its parts give.                     *)
THEOREM TurnsCarryTheirOwn == Spec => []GoesAlong
BY RunIsTickets, RunIsAttachments, TicketsAreOnce, FilesAreSerial, PTL DEF GoesAlong

(* A start has a sandbox that its turn has not given up, and a publication   *)
(* never replaces a newer sandbox.                                           *)
THEOREM SandboxesAreKept == Spec => []StartHasSandbox /\ NeverOlder
BY RunIsSandbox, StartsHaveSandbox, PublishesNewer

(* Undisturbed sweeps keep the sandboxes of the run from getting older.      *)
THEOREM SandboxesStayWarm == Spec => []ColdBounded
BY RunIsPrewarm, ColdIsBounded

(* The run's turns implement the contract of Stream.                         *)
THEOREM RunKeepsContract == Spec => KeepsContract
BY RunIsTurn, TurnKeepsContract
=============================================================================
