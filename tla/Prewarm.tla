------------------------------- MODULE Prewarm -------------------------------
(* The warm-set sweeps that keep sandboxes warm: api/prewarm_boot.go and     *)
(* adapter/prism/prewarm.go.  Time is discrete: the instants the code keeps  *)
(* are held as the time since them, or until them, and Tick moves them all.  *)
EXTENDS Naturals, FiniteSets

CONSTANTS
  Warmable,      \* accounts whose client can be pre-warmed
  Interval,      \* prewarm_interval_sec, in units
  SandboxTTL,    \* sandboxIdleTTL
  RefreshAfter,  \* sandboxRefreshAfter
  MinGap,        \* prewarmMinGap
  BackoffBase,   \* prewarmBackoffBase, also prewarmHookCooldown
  BackoffMax,    \* prewarmBackoffMax
  ChainMax,      \* bound: time a cold chain takes at most
  MaxJitter,     \* prewarmJitterWindow
  Workers,       \* prewarmWorkers
  MaxFailures,   \* bound: failures in a row
  Fleets         \* bound: the accounts there are, and those among them that
                 \* are never disabled and whose chains do not break

ASSUME PrewarmAssumption ==
  /\ {Interval, SandboxTTL, RefreshAfter, MinGap, BackoffBase, BackoffMax,
      ChainMax, MaxJitter, Workers, MaxFailures} \subseteq Nat
  /\ RefreshAfter <= SandboxTTL /\ MinGap > 0 /\ Workers > 0
  /\ Interval > 0                \* config.go:589: otherwise a minute
  /\ MaxJitter < RefreshAfter    \* 30 s, and 60 s
  /\ ChainMax > 0
  /\ IsFiniteSet(Warmable)
  /\ \A f \in Fleets : f.all \subseteq Warmable /\ f.steady \subseteq f.all

VARIABLES
  enabled,   \* per account: Enabled, and not cooling down
  warmAge,   \* per account: age of the sandbox, OldAge: none
  sinceOK,   \* controller: time since lastOK
  holdOff,   \* controller: time until nextAllowed
  failures,  \* controller: failures
  chain,     \* per account: the time its chain runs, if one does
  job,       \* prewarmOne per source and account
  sweep,     \* the loop: sweeping, for how long, or waiting for how long
  stormy,    \* adapter.StormOpen
  jitter,    \* prewarmJitter
  fleet,     \* of Fleets, this behaviour's
  calm       \* per account: nothing but the sweeps' own timing since the last publication

prewarmVars == <<enabled, warmAge, sinceOK, holdOff, failures, chain, job,
                 sweep, stormy, jitter, calm, fleet>>

Never == Interval + SandboxTTL      \* also the cap of sinceOK
Off == ChainMax + 1                 \* no chain
OldAge ==                           \* cap of warmAge, never reached while calm
  RefreshAfter + 2 * Interval + MinGap + 2 * Cardinality(Warmable) * ChainMax
Sources == {"sweep", "hook"}
NoJob == [pc |-> "idle", ran |-> 0]

PrewarmInit ==
  /\ fleet \in Fleets
  /\ enabled = [a \in Warmable |-> a \in fleet.steady]
  /\ jitter \in [Warmable -> 0..MaxJitter] /\ \A a \in Warmable \ fleet.all : jitter[a] = 0
  /\ warmAge = [a \in Warmable |-> OldAge]
  /\ sinceOK = [a \in Warmable |-> Never]
  /\ holdOff = [a \in Warmable |-> 0] /\ failures = [a \in Warmable |-> 0]
  /\ chain = [a \in Warmable |-> Off]
  /\ job = [s \in Sources |-> [a \in Warmable |-> NoJob]]
  /\ sweep = [pc |-> "boot", time |-> 0]
  /\ stormy = FALSE /\ calm = [a \in Warmable |-> FALSE]
-----------------------------------------------------------------------------
Least(x, y) == IF x < y THEN x ELSE y
Minus(x, y) == IF x > y THEN x - y ELSE 0

(* prewarmBackoff: 1, 2, 4, then 5 minutes.                                  *)
Backoff(n) == IF n = 0 THEN 0 ELSE Least(BackoffBase * 2 ^ (n - 1), BackoffMax)

(* mutant of Due: the jitter puts the refresh off instead of forward *)
DueLate(a) ==
  /\ holdOff[a] = 0
  /\ sinceOK[a] = Never \/ sinceOK[a] >= Interval + jitter[a]

(* due: not held off, and never warmed or the interval, less the jitter, is  *)
(* over.                                                                     *)
Due(a) ==
  /\ holdOff[a] = 0
  /\ sinceOK[a] = Never
     \/ sinceOK[a] + Least(jitter[a], Interval \div 4) >= Interval

(* A sweep starts: boot staggers the first one.  It ends when all its jobs   *)
(* have.                                                                     *)
SweepStarts ==
  /\ sweep.pc = "boot" \/ (sweep.pc = "wait" /\ sweep.time = 0 /\ ~stormy)
  /\ LET due == {a \in Warmable : enabled[a] /\ Due(a)}
     IN /\ job' = [job EXCEPT !["sweep"] = [a \in Warmable |->
                     IF a \notin due THEN @[a]
                     ELSE [pc |-> IF sweep.pc = "boot" THEN "stagger" ELSE "queued", ran |-> 0]]]
        /\ calm' = [a \in Warmable |-> calm[a] /\ enabled[a] /\ holdOff[a] = 0]
  /\ sweep' = [pc |-> IF sweep.pc = "boot" THEN "booting" ELSE "sweep", time |-> 0]
  /\ UNCHANGED <<enabled, warmAge, sinceOK, holdOff, failures, chain, stormy, jitter, fleet>>

(* The loop skips a sweep in a storm.                                        *)
SweepSkipped ==
  /\ sweep.pc = "wait" /\ sweep.time = 0 /\ stormy
  /\ sweep' = [sweep EXCEPT !.time = IF Interval > MinGap THEN Interval ELSE MinGap]
  /\ calm' = [a \in Warmable |-> FALSE]
  /\ UNCHANGED <<enabled, warmAge, sinceOK, holdOff, failures, chain, job, stormy, jitter, fleet>>

(* The interval less the time the sweep took, at least prewarmMinGap; the    *)
(* boot sweep is followed by the first one at once.                          *)
SweepEnds ==
  /\ sweep.pc \in {"booting", "sweep"}
  /\ \A a \in Warmable : job["sweep"][a].pc = "idle"
  /\ sweep' = [pc |-> "wait", time |->
       IF sweep.pc = "booting" THEN 0
       ELSE IF Minus(Interval, sweep.time) < MinGap THEN MinGap
       ELSE Interval - sweep.time]
  /\ UNCHANGED <<enabled, warmAge, sinceOK, holdOff, failures, chain, job, stormy, jitter, calm, fleet>>

Running == {a \in Warmable : job["sweep"][a].pc \in {"chain", "enter"}}

(* The stagger is over, or a worker is free.                                 *)
JobStarts(a) ==
  /\ \/ job["sweep"][a].pc = "stagger" /\ job["sweep"][a].ran >= jitter[a]
     \/ job["sweep"][a].pc = "queued"
  /\ Cardinality(Running) < Workers
  /\ job' = [job EXCEPT !["sweep"][a] = [pc |-> "enter", ran |-> 0]]
  /\ UNCHANGED <<enabled, warmAge, sinceOK, holdOff, failures, chain, sweep, stormy, jitter, calm, fleet>>

Succeeded(s, a) ==
  /\ failures' = [failures EXCEPT ![a] = 0]
  /\ holdOff' = [holdOff EXCEPT ![a] = 0]
  /\ sinceOK' = [sinceOK EXCEPT ![a] = Least(job[s][a].ran, Never)]
  /\ job' = [job EXCEPT ![s][a] = NoJob]

(* refreshSandbox: a token that is young enough is left alone, and that is a *)
(* success; otherwise the chain of the account runs, once for all who wait.  *)
JobEnters(s, a) ==
  /\ job[s][a].pc = "enter"
  /\ IF warmAge[a] < RefreshAfter
     THEN Succeeded(s, a) /\ UNCHANGED chain
     ELSE /\ job' = [job EXCEPT ![s][a].pc = "chain"]
          /\ chain' = [chain EXCEPT ![a] = IF @ = Off THEN 0 ELSE @]
          /\ UNCHANGED <<failures, holdOff, sinceOK>>
  /\ UNCHANGED <<enabled, warmAge, sweep, stormy, jitter, calm, fleet>>

(* The chain has published a sandbox.                                        *)
ChainLands(a) ==
  /\ chain[a] # Off
  /\ chain' = [chain EXCEPT ![a] = Off]
  /\ warmAge' = [warmAge EXCEPT ![a] = 0]
  /\ calm' = [calm EXCEPT ![a] = enabled[a] /\ ~stormy]
  /\ job' = [s \in Sources |->
       [job[s] EXCEPT ![a].pc = IF @ = "chain" THEN "ok" ELSE @]]
  /\ UNCHANGED <<enabled, sinceOK, holdOff, failures, sweep, stormy, jitter, fleet>>

ChainBreaks(a) ==
  /\ chain[a] # Off /\ a \notin fleet.steady
  /\ chain' = [chain EXCEPT ![a] = Off]
  /\ calm' = [calm EXCEPT ![a] = FALSE]
  /\ job' = [s \in Sources |->
       [job[s] EXCEPT ![a].pc = IF @ = "chain" THEN "failed" ELSE @]]
  /\ UNCHANGED <<enabled, warmAge, sinceOK, holdOff, failures, sweep, stormy, jitter, fleet>>

JobSucceeds(s, a) ==
  /\ job[s][a].pc = "ok" /\ Succeeded(s, a)
  /\ UNCHANGED <<enabled, warmAge, chain, sweep, stormy, jitter, calm, fleet>>

(* A failure is counted and holds the account off, counted from the start of *)
(* the job.                                                                  *)
JobFails(s, a) ==
  /\ job[s][a].pc = "failed" /\ failures[a] < MaxFailures
  /\ failures' = [failures EXCEPT ![a] = @ + 1]
  /\ holdOff' = [holdOff EXCEPT ![a] = Minus(Backoff(failures[a] + 1), job[s][a].ran)]
  /\ job' = [job EXCEPT ![s][a] = NoJob]
  /\ UNCHANGED <<enabled, warmAge, sinceOK, chain, sweep, stormy, jitter, calm, fleet>>

(* pool.OnAccountEnabled: a job of its own, unless the account is held off.  *)
Enable(a) ==
  /\ ~enabled[a] /\ a \in fleet.all
  /\ enabled' = [enabled EXCEPT ![a] = TRUE]
  /\ IF holdOff[a] > 0 THEN UNCHANGED <<job, holdOff>>
     ELSE /\ job["hook"][a].pc = "idle"            \* bound: one hook at a time
          /\ holdOff' = [holdOff EXCEPT ![a] = BackoffBase]
          /\ job' = [job EXCEPT !["hook"][a] = [pc |-> "enter", ran |-> 0]]
  /\ UNCHANGED <<warmAge, sinceOK, failures, chain, sweep, stormy, jitter, calm, fleet>>

(* An administrator disables it, or a failed request cools it down.          *)
Disable(a) ==
  /\ enabled[a] /\ a \notin fleet.steady
  /\ enabled' = [enabled EXCEPT ![a] = FALSE] /\ calm' = [calm EXCEPT ![a] = FALSE]
  /\ UNCHANGED <<warmAge, sinceOK, holdOff, failures, chain, job, sweep, stormy, jitter, fleet>>

Storm ==
  /\ stormy' = ~stormy
  /\ UNCHANGED <<enabled, warmAge, sinceOK, holdOff, failures, chain, job, sweep, jitter, calm, fleet>>

(* Time passes when nobody who need not wait is left.                        *)
Tick ==
  /\ sweep.pc # "boot" /\ ~(sweep.pc = "wait" /\ sweep.time = 0)
  /\ sweep.pc \in {"booting", "sweep"} => \E a \in Warmable : job["sweep"][a].pc # "idle"
  /\ \A a \in Warmable :
       /\ chain[a] # ChainMax
       /\ ~(job["sweep"][a].pc \in {"stagger", "queued"}
            /\ (job["sweep"][a].pc = "stagger" => job["sweep"][a].ran >= jitter[a])
            /\ Cardinality(Running) < Workers)
       /\ \A s \in Sources : job[s][a].pc \notin {"enter", "ok", "failed"}
  /\ chain' = [a \in Warmable |-> IF chain[a] = Off THEN Off ELSE chain[a] + 1]
  /\ warmAge' = [a \in Warmable |-> Least(warmAge[a] + 1, OldAge)]
  /\ sinceOK' = [a \in Warmable |-> Least(sinceOK[a] + 1, Never)]
  /\ holdOff' = [a \in Warmable |-> Minus(holdOff[a], 1)]
  /\ job' = [s \in Sources |-> [a \in Warmable |->
               IF job[s][a].pc = "idle" THEN NoJob
               ELSE [job[s][a] EXCEPT !.ran = @ + 1]]]
  /\ sweep' = [sweep EXCEPT !.time = IF sweep.pc = "wait" THEN @ - 1
                                     ELSE @ + 1]
  /\ UNCHANGED <<enabled, failures, stormy, jitter, calm, fleet>>

PrewarmNext ==
  \/ SweepStarts \/ SweepSkipped \/ SweepEnds \/ Storm \/ Tick
  \/ \E a \in Warmable :
       \/ JobStarts(a) \/ ChainLands(a) \/ ChainBreaks(a) \/ Enable(a) \/ Disable(a)
       \/ \E s \in Sources : JobEnters(s, a) \/ JobSucceeds(s, a) \/ JobFails(s, a)

PrewarmSpec == PrewarmInit /\ [][PrewarmNext]_prewarmVars
-----------------------------------------------------------------------------
(* Most time the jobs of a sweep wait for a worker, a sweep lasts, and from  *)
(* the start of a sweep to that of the next.                                 *)
InFront == ((Cardinality(fleet.all) - 1) \div Workers) * ChainMax
LongestSweep == InFront + ChainMax
Apart == IF Interval > LongestSweep + MinGap THEN Interval ELSE LongestSweep + MinGap

(* How old the sandbox of an account may get although nothing but the sweeps *)
(* themselves delays its renewal: it is a moment too young for one sweep,    *)
(* and left alone as if it were new (refreshSandbox); that moment came late  *)
(* in its sweep, behind the chains of others, so the next sweep is a moment  *)
(* too early (due); and the one after that renews it behind the others.      *)
Coldest == RefreshAfter + Interval + Apart + LongestSweep - 2

ColdBounded == \A a \in Warmable : calm[a] => warmAge[a] <= Coldest

(* prewarm_boot.go:36-38, 275: requests find an expired sandbox only while   *)
(* its renewal waits behind the chains of others.  Fails as above.           *)
ColdOnlyInFront == \A a \in Warmable : calm[a] => warmAge[a] <= SandboxTTL + InFront

(* prewarm.go:10-16: a token is never older than the refresh threshold and   *)
(* one chain.  Fails: a token that is a moment younger than the threshold is *)
(* left alone for a whole interval more.                                     *)
TokenYoung ==
  \A a \in Warmable : calm[a] => warmAge[a] <= RefreshAfter + ChainMax
=============================================================================
