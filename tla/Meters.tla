------------------------------- MODULE Meters -------------------------------
(* The rate meters of api/meters.go, and logMiddleware of api/server.go, the *)
(* only place that feeds them: a ring of one bucket per second, one series   *)
(* for all requests and one per model (of which there is one here), and the  *)
(* number of requests inside.  Tokens and retries are counted like requests  *)
(* and left out.                                                             *)
EXTENDS Integers, FiniteSets, FiniteSetsExt

CONSTANTS
  Visitors,        \* requests to /v1/
  RingSeconds,         \* meterBuckets, in seconds
  MeterWindow,          \* meterWindow, in seconds
  LastSecond       \* bound

ASSUME MetersAssumption ==
  /\ RingSeconds \in Nat \ {0} /\ MeterWindow \in 1..RingSeconds /\ LastSecond \in Nat
  /\ IsFiniteSet(Visitors)

VARIABLES
  second,     \* time.Now().Unix()
  global, model,   \* the series: the second it has advanced to, its buckets
  gauge,      \* inflight
  visit,      \* per request: "away", "gate", "served", "refused", "logged",
              \* "broken"
  seen        \* history: per request, the seconds it came and was done

meterVars == <<second, global, model, gauge, visit, seen>>

EmptySeries == [head |-> 0, buckets |-> [b \in 0..RingSeconds - 1 |-> 0]]

MetersInit ==
  /\ second = 1 /\ global = EmptySeries /\ model = EmptySeries /\ gauge = 0
  /\ visit = [v \in Visitors |-> "away"]
  /\ seen = [v \in Visitors |-> [came |-> -RingSeconds, done |-> -RingSeconds]]
-----------------------------------------------------------------------------
(* mutant of Advanced: the buckets passed are cleared, from the old head on *)
AdvancedFromHead(s) ==
  LET cleared == {t % RingSeconds : t \in s.head .. second - 1} \cup
                 (IF s.head < second THEN {second % RingSeconds} ELSE {})
  IN [head |-> second,
      buckets |-> [b \in DOMAIN s.buckets |-> IF b \in cleared THEN 0 ELSE s.buckets[b]]]

(* advance: buckets are cleared only for the seconds that are a whole ring   *)
(* behind; those between the head and now keep what they had.                *)
Advanced(s) ==
  LET head == IF s.head = 0 THEN second ELSE s.head
      cleared == {t % RingSeconds : t \in head .. second - RingSeconds}
  IN [head |-> second,
      buckets |-> [b \in DOMAIN s.buckets |-> IF b \in cleared THEN 0 ELSE s.buckets[b]]]

Counted(s) ==
  LET a == Advanced(s) IN [a EXCEPT !.buckets[second % RingSeconds] = @ + 1]

InWindow(s) ==
  LET counts == [i \in {i \in 0..MeterWindow - 1 : second - i >= 0} |->
                   s.buckets[(second - i) % RingSeconds]]
  IN MapThenSumSet(LAMBDA i : counts[i], DOMAIN counts)

Incoming(v) ==
  /\ visit[v] = "away"
  /\ visit' = [visit EXCEPT ![v] = "gate"]
  /\ gauge' = gauge + 1 /\ global' = Counted(global)
  /\ seen' = [seen EXCEPT ![v].came = second]
  /\ UNCHANGED <<second, model>>

(* gateAcquire: the 429 returns before the entry is logged and counted.      *)
PassesGate(v) ==
  /\ visit[v] = "gate"
  /\ \E next \in {"served", "refused"} : visit' = [visit EXCEPT ![v] = next]
  /\ UNCHANGED <<second, global, model, gauge, seen>>

(* A handler that panics unwinds past the log and the meters.                *)
Panics(v) ==
  /\ visit[v] = "served" /\ visit' = [visit EXCEPT ![v] = "broken"]
  /\ UNCHANGED <<second, global, model, gauge, seen>>

Counts(v) ==
  /\ visit[v] = "served" /\ visit' = [visit EXCEPT ![v] = "logged"]
  /\ gauge' = IF gauge > 0 THEN gauge - 1 ELSE gauge
  /\ global' = Advanced(global) /\ model' = Counted(model)
  /\ seen' = [seen EXCEPT ![v].done = second]
  /\ UNCHANGED second

(* Snapshot advances the global series and reads the others as they are.     *)
Snapshot ==
  /\ global' = Advanced(global) /\ global' # global
  /\ UNCHANGED <<second, model, gauge, visit, seen>>

NextSecond ==
  /\ second < LastSecond /\ second' = second + 1
  /\ UNCHANGED <<global, model, gauge, visit, seen>>

MetersNext ==
  \/ Snapshot \/ NextSecond
  \/ \E v \in Visitors : Incoming(v) \/ PassesGate(v) \/ Panics(v) \/ Counts(v)

MetersSpec == MetersInit /\ [][MetersNext]_meterVars
-----------------------------------------------------------------------------
Recent(field) == Cardinality({v \in Visitors : seen[v][field] > second - MeterWindow})
Inside == Cardinality({v \in Visitors : visit[v] \in {"gate", "served"}})

(* Whenever the meters are read, no request of the last minute is missing:   *)
(* clearing never takes a bucket that still counts, whatever the gaps in the *)
(* traffic; and every request inside is in the gauge.                        *)
NothingMissed ==
  /\ InWindow(global) >= Recent("came") /\ InWindow(model) >= Recent("done")
  /\ gauge >= Inside

(* meters.go:28: the buckets passed are cleared.  Fails: under continuous    *)
(* traffic none is ever cleared, and a model that is idle is never advanced. *)
WindowExact ==
  /\ global.head = second => InWindow(global) = Recent("came")
  /\ InWindow(model) = Recent("done")

(* server.go:1516: a 429 of the gate is covered by the access log and the    *)
(* meters.  Fails: the handler returns before both.                          *)
RefusedIsCounted ==
  (\A v \in Visitors : visit[v] \in {"away", "refused", "logged"}) => gauge = 0
=============================================================================
