---------------------------- MODULE StormBreaker ----------------------------
(* The upstream storm breaker (adapter/storm.go): a ring of buckets counts   *)
(* the start attempts of the last minute; when enough of them failed, the    *)
(* entry of every protocol answers 503 at once, except one probe per         *)
(* interval.                                                                 *)
(*                                                                           *)
(* Time is counted from the base of the ring and stops growing when every    *)
(* bucket is out of the window, so that the model is finite although time is *)
(* not bounded.  The wall clock does not go back.                            *)
EXTENDS Naturals, FiniteSetsExt

CONSTANTS
  Requests,
  Buckets,        \* stormBuckets; the window is that many buckets
  Span,           \* time units in stormBucketSpan
  ProbeInterval,  \* stormProbeInterval in time units
  MinAttempts,    \* stormMinAttempts
  Samples,        \* what a start attempt may end with
  MaxPerBucket    \* bound: attempts recorded during one bucket's time

ASSUME StormBreakerAssumption ==
  /\ Buckets \in Nat \ {0} /\ Span \in Nat \ {0}
  /\ ProbeInterval \in Nat /\ MinAttempts \in Nat \ {0} /\ MaxPerBucket \in Nat
  /\ Samples \subseteq {"ok", "upstreamFailure", "badRequest", "clientGone"}

VARIABLES
  phase,      \* time units since the current bucket began
  off,        \* buckets since stormRingBase; Far: so long that nothing counts
  ring,       \* stormRing, "at" counted from the base
  probeAge,   \* time units since stormLastProbe, at most ProbeInterval
  pc,         \* where a request is
  healthy,    \* the upstream's start endpoint works
  hist        \* history: the samples of the last Buckets buckets, by age

stormVars == <<phase, off, ring, probeAge, pc, healthy, hist>>

Far     == 2 * Buckets
Indices == 0..(Buckets - 1)
Nothing == [n |-> 0, f |-> 0, blamed |-> 0]

StormInit ==
  /\ phase = 0
  /\ off = Far
  /\ ring = [i \in Indices |-> [at |-> 0, n |-> 0, f |-> 0]]
  /\ probeAge = ProbeInterval
  /\ pc = [r \in Requests |-> "idle"]
  /\ healthy = TRUE
  /\ hist = [a \in Indices |-> Nothing]

FreshAny(i) == TRUE    \* mutant of Fresh

(* stormStatsLocked: stale buckets do not count.                             *)
Fresh(i) == off - ring[i].at < Buckets

Attempts == MapThenSumSet(LAMBDA i : ring[i].n, {i \in Indices : Fresh(i)})
Failures == MapThenSumSet(LAMBDA i : ring[i].f, {i \in Indices : Fresh(i)})

(* stormOpenLocked, with stormFailRate = 0.7.                                *)
Open == Attempts >= MinAttempts /\ 10 * Failures >= 7 * Attempts

(* stormCurrentLocked: the ring with the bucket of this moment ready, reset  *)
(* as a whole when its base is too far back.                                 *)
BaseStale == off > Buckets

RolledRingKept ==    \* mutant of RolledRing
  IF BaseStale THEN [i \in Indices |-> [at |-> i, n |-> 0, f |-> 0]]
  ELSE [ring EXCEPT ![off % Buckets].at = off]

RolledRing ==
  IF BaseStale THEN [i \in Indices |-> [at |-> i, n |-> 0, f |-> 0]]
  ELSE IF ring[off % Buckets].at = off THEN ring
  ELSE [ring EXCEPT ![off % Buckets] = [at |-> off, n |-> 0, f |-> 0]]

Current == IF BaseStale THEN 0 ELSE off % Buckets

(* StormRecord, as Client.startTurn calls it.                                *)
Record(r, s) ==
  /\ pc[r] = "attempt" /\ hist[0].n < MaxPerBucket
  /\ s = "upstreamFailure" => ~healthy
  /\ LET bad == IF s = "ok" THEN 0 ELSE 1 IN
       /\ ring' = [RolledRing EXCEPT ![Current].n = @ + 1, ![Current].f = @ + bad]
       /\ off' = IF BaseStale THEN 0 ELSE off
       /\ hist' = [hist EXCEPT ![0] =
            [n |-> @.n + 1, f |-> @.f + bad,
             blamed |-> @.blamed + IF s = "upstreamFailure" THEN 1 ELSE 0]]
  /\ UNCHANGED <<phase, probeAge, pc, healthy>>

(* StormAllow: StormOpen, and then the probe under the mutex again.          *)
Arrive(r) ==
  /\ pc[r] = "idle"
  /\ pc' = [pc EXCEPT ![r] = IF Open THEN "probe" ELSE "attempt"]
  /\ UNCHANGED <<phase, off, ring, probeAge, healthy, hist>>

Probe(r) ==
  /\ pc[r] = "probe"
  /\ IF probeAge >= ProbeInterval
     THEN pc' = [pc EXCEPT ![r] = "attempt"] /\ probeAge' = 0
     ELSE pc' = [pc EXCEPT ![r] = "idle"] /\ UNCHANGED probeAge
  /\ UNCHANGED <<phase, off, ring, healthy, hist>>

End(r) ==
  /\ pc[r] = "attempt"
  /\ pc' = [pc EXCEPT ![r] = "idle"]
  /\ UNCHANGED <<phase, off, ring, probeAge, healthy, hist>>

Tick ==
  /\ probeAge' = IF probeAge < ProbeInterval THEN probeAge + 1 ELSE probeAge
  /\ IF phase < Span - 1
     THEN phase' = phase + 1 /\ UNCHANGED <<off, hist>>
     ELSE /\ phase' = 0
          /\ off' = IF off < Far THEN off + 1 ELSE off
          /\ hist' = [a \in Indices |-> IF a = 0 THEN Nothing ELSE hist[a - 1]]
  /\ UNCHANGED <<ring, pc, healthy>>

UpstreamTurns ==
  /\ healthy' = ~healthy
  /\ UNCHANGED <<phase, off, ring, probeAge, pc, hist>>

StormNext ==
  \/ Tick \/ UpstreamTurns
  \/ \E r \in Requests :
       \/ Arrive(r) \/ Probe(r) \/ End(r)
       \/ \E s \in Samples : Record(r, s)

StormSpec == StormInit /\ [][StormNext]_stormVars

(* Time passes; no request is obliged to come.                               *)
StormFairSpec == StormSpec /\ WF_stormVars(Tick)
-----------------------------------------------------------------------------
(* Properties.                                                               *)

StormTypeOK ==
  /\ phase \in 0..(Span - 1)
  /\ off \in 0..Far
  /\ ring \in [Indices -> [at : 0..Buckets, n : Nat, f : Nat]]
  /\ probeAge \in 0..ProbeInterval
  /\ pc \in [Requests -> {"idle", "probe", "attempt"}]
  /\ healthy \in BOOLEAN
  /\ hist \in [Indices -> [n : Nat, f : Nat, blamed : Nat]]

(* The ring counts exactly the attempts of the window that were made since   *)
(* it was last reset: no bucket is read after its time or counted twice, and *)
(* none is wiped while it is in the window.                                  *)
RingExact ==
  LET counted == {a \in Indices : a <= off} IN
    /\ Attempts = MapThenSumSet(LAMBDA a : hist[a].n, counted)
    /\ Failures = MapThenSumSet(LAMBDA a : hist[a].f, counted)

(* Failures of the requests' own: Client.startTurn reports an upstream that  *)
(* refuses the request, and one whose client has left, like an outage.       *)
Counted == {a \in Indices : a <= off}
OwnFailures == MapThenSumSet(LAMBDA a : hist[a].f - hist[a].blamed, Counted)
FewOwn == Attempts < MinAttempts \/ 10 * OwnFailures < 7 * Attempts

(* A breaker that opened closes again once the upstream works, even if no    *)
(* request ever comes to probe it: an outage leaves the window with time.    *)
(* This is as long as the requests do not fail by themselves at the rate     *)
(* that opens it (client.go:1106, :1030), which HealsAlways does not ask.    *)
Heals == <>[](healthy /\ FewOwn) => <>[]~Open

(* Fails: bad requests keep the breaker open while the upstream works.       *)
HealsAlways == <>[]healthy => <>[]~Open

(* The window is the last minute: every attempt of the last minute counts.   *)
(* The ring is reset as a whole only when everything in it is stale ("after  *)
(* a long sleep"), which loses nothing.                                      *)
WindowIsTheLastMinute ==
  Attempts = MapThenSumSet(LAMBDA a : hist[a].n, Indices)

(* "Request errors are not reported, they say nothing of the upstream": the  *)
(* breaker opens only if the upstream failed (storm.go:59).  Fails: they are *)
(* (client.go:1106), and so are those of clients that left (:1030).          *)
OpenBlamesUpstream == Open => \E a \in Indices : hist[a].blamed > 0
=============================================================================
