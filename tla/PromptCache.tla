------------------------------ MODULE PromptCache ------------------------------
(* The emulated prompt cache, emulation/cache.go: the upstream has none, so  *)
(* the gateway remembers which prefixes of prompts have been answered and    *)
(* reports usage as if they had been read from a cache.  A request is        *)
(* estimated before it is served (prepare) and remembered only if it         *)
(* succeeds (Commit).                                                        *)
(*                                                                           *)
(* A block is its name and its estimated tokens; a fingerprint is the        *)
(* sequence of the names up to a block, which is what the chained hash       *)
(* stands for.  An entry's token count is written and never read: left out.  *)
EXTENDS Integers, Sequences, SequencesExt, FiniteSets, FiniteSetsExt

CONSTANTS
  Askers, Namespaces,
  Prompts,         \* requests: blocks, the breakpoints of the client, tokens
  Policies,        \* settings of the administrator, ratios already sampled
  Short, Long,     \* five minutes and one hour, in steps of the clock
  Lookback,        \* cachePrefixLookback
  FastTokens,      \* cacheFastPathTokens
  PrefixTokens     \* cacheFastPathPrefixTokens

(* A prompt is [blocks, marks, total]: a block [name, tokens, end] may end a *)
(* message; a mark is the lifetime a breakpoint asks for, or 0.  A prompt    *)
(* without blocks is not estimated; one with blocks has some tokens.         *)
IsPrompt(p) ==
  /\ p.blocks \in Seq({p.blocks[i] : i \in DOMAIN p.blocks}) /\ p.blocks # <<>>
  /\ \A i \in DOMAIN p.blocks : p.blocks[i].tokens \in Nat
  /\ p.marks \in [DOMAIN p.blocks -> {0, Short, Long}]
  /\ p.total \in Nat \ {0}

IsPolicy(policy) ==
  /\ policy.create \in 0..100 /\ policy.read \in 0..100
  /\ policy.force \in BOOLEAN /\ policy.fallback \in BOOLEAN

ASSUME PromptCacheAssumption ==
  /\ Short \in Nat \ {0} /\ Long \in Nat /\ Short < Long
  /\ Lookback \in Nat \ {0} /\ FastTokens \in Nat /\ PrefixTokens \in Nat
  /\ \A p \in Prompts : IsPrompt(p)
  /\ \A policy \in Policies : IsPolicy(policy)

VARIABLES
  entries,   \* per namespace, the time left of every prefix it remembers
  plan,      \* what every asker's request was estimated at, or NoPlan
  answered   \* history: per namespace, the time since every prefix was last
             \* part of a request that succeeded, and how long it was to last

cacheVars == <<entries, plan, answered>>

NoPlan == [ns |-> "none"]
CacheInit ==
  /\ entries = [n \in Namespaces |-> <<>>]
  /\ plan = [q \in Askers |-> NoPlan]
  /\ answered = [n \in Namespaces |-> <<>>]
-----------------------------------------------------------------------------
(* cumulativeTokens                                                          *)
SumTo(blocks, i) == MapThenSumSet(LAMBDA j : blocks[j].tokens, 1..i)

(* truncateCacheBlocks: of a large prompt only the first blocks count.       *)
Considered(p) ==
  LET fits == {i \in DOMAIN p.blocks : i = 1 \/ SumTo(p.blocks, i) <= PrefixTokens}
  IN IF p.total > FastTokens THEN SubSeq(p.blocks, 1, Max(fits)) ELSE p.blocks

(* applyDefaultBreakpoints, for a client that sets none.                     *)
Marks(p, policy) ==
  LET bs == Considered(p) IN
  IF \A i \in DOMAIN bs : p.marks[i] = 0
  THEN [i \in DOMAIN bs |->
          IF policy.fallback /\ (bs[i].end \/ i = Len(bs)) THEN Short ELSE 0]
  ELSE [i \in DOMAIN bs |-> p.marks[i]]

Rounded(a, b) == (2 * a + b) \div (2 * b)
AtMost(a, b) == IF a < b THEN a ELSE b
AtLeast(a, b) == IF a > b THEN a ELSE b

(* tokensFor: estimated tokens, so that the last breakpoint is the whole.    *)
Scaled(p, here, whole) ==
  AtMost(IF whole = 0 THEN here ELSE Rounded(here * p.total, whole), p.total)

(* profileFromBlocks: after a breakpoint every end of a message is one too.  *)
Breakpoints(p, policy) ==
  LET bs == Considered(p)
      ms == Marks(p, policy)
      active(i) == Max({0} \cup {j \in 1..i : ms[j] > 0})
      at == {i \in DOMAIN bs : active(i) > 0 /\ (ms[i] > 0 \/ bs[i].end)}
      point(i) == [prefix |-> [j \in 1..i |-> bs[j].name], ttl |-> ms[active(i)],
                   tokens |-> Scaled(p, SumTo(bs, i), SumTo(bs, Max(at)))]
      nth(n) == CHOOSE i \in at : Cardinality({j \in at : j <= i}) = n
  IN [n \in 1..Cardinality(at) |-> point(nth(n))]

Profile == [x \in Prompts \X Policies |-> Breakpoints(x[1], x[2])]
-----------------------------------------------------------------------------
(* compute: of the last breakpoints, the latest that is remembered.          *)
Matched(ns, points) ==
  Max({0} \cup {i \in DOMAIN points :
                  i > Len(points) - Lookback /\ points[i].prefix \in DOMAIN entries[ns]})

(* scaleTokens, with a ratio in percent.                                     *)
Share(tokens, percent) == Rounded(tokens * percent, 100)

(* mutant of Reserved: what is taken from the creation stays in its bucket *)
ReservedTotalOnly(u, total) ==
  LET tail == IF total < 16 THEN AtLeast(total \div 4, 1) ELSE 2
      need == AtLeast(tail - u.input, 0)
      made == AtMost(need, u.creation)
      read == AtMost(need - made, u.read)
  IN [input |-> u.input + made + read, read |-> u.read - read,
      creation |-> u.creation - made, short |-> u.short, long |-> u.long]

(* reserveUncachedTail: some tokens are never cached.                        *)
Reserved(u, total) ==
  LET tail == IF total < 16 THEN AtLeast(total \div 4, 1) ELSE 2
      need == AtLeast(tail - u.input, 0)
      made == AtMost(need, u.creation)
      read == AtMost(need - made, u.read)
      five == AtMost(made, u.short)
  IN [input |-> u.input + made + read, read |-> u.read - read,
      creation |-> u.creation - made,
      short |-> u.short - five, long |-> u.long - AtMost(made - five, u.long)]

(* applyCacheRatios: read and created tokens by their ratios; the lifetime   *)
(* of the last breakpoint decides the bucket.                                *)
UsageOf(p, policy, matched, points) ==
  LET whole   == Last(points).tokens
      read    == IF policy.force THEN whole
                 ELSE IF matched = 0 THEN 0 ELSE points[matched].tokens
      missing == IF policy.force THEN 0 ELSE AtLeast(whole - read, 0)
      made    == Share(missing, policy.create)
      long    == Last(points).ttl >= Long
      u == [read |-> Share(read, policy.read), creation |-> made,
            short |-> IF long THEN 0 ELSE made, long |-> IF long THEN made ELSE 0]
      input == AtLeast(p.total - u.read - u.creation, 0)
  IN Reserved([input |-> input, read |-> u.read, creation |-> u.creation,
               short |-> u.short, long |-> u.long], p.total)

(* A hit starts the lifetime of the entry again, whatever comes of the       *)
(* request.                                                                  *)
Refreshed(ns, prefix) == [entries EXCEPT ![ns][prefix].left = entries[ns][prefix].ttl]

(* prepare: without a breakpoint, or with nothing to report, there is no     *)
(* plan; the plan keeps the breakpoints, not the prompt.                     *)
Estimate(q, ns, p, policy) ==
  \E points \in {Profile[<<p, policy>>]} :
    LET matched == Matched(ns, points)
        usage   == UsageOf(p, policy, matched, points)
        sent(i) == points[i].prefix \in DOMAIN answered[ns]
        lasts(i) == LET a == answered[ns][points[i].prefix] IN a.age < a.ttl
    IN /\ plan[q] = NoPlan /\ points # <<>>
       /\ entries' = IF matched = 0 THEN entries ELSE Refreshed(ns, points[matched].prefix)
       /\ plan' = IF usage.read + usage.creation = 0 THEN plan ELSE [plan EXCEPT ![q] =
            [ns |-> ns, total |-> p.total, usage |-> usage, points |-> points,
             forced |-> policy.force,
             known |-> \E i \in DOMAIN points : sent(i),
             fresh |-> policy.read = 100 /\ \E i \in DOMAIN points :
                         /\ i > Len(points) - Lookback /\ points[i].tokens > 0
                         /\ sent(i) /\ lasts(i)]]
       /\ UNCHANGED answered

(* mutant of Remembered: an entry that exists keeps its time *)
RememberedNewOnly(known, left) == known.left

(* update: the longer lifetime, the later end.                               *)
Remembered(known, left) == AtLeast(known.left, left)

Renewed(table, prefix, ttl) ==
  IF prefix \in DOMAIN table
  THEN [ttl |-> AtLeast(table[prefix].ttl, ttl), left |-> Remembered(table[prefix], ttl)]
  ELSE [ttl |-> ttl, left |-> ttl]

(* ... for each breakpoint; no two have one prefix, as they differ in length. *)
PrefixesOf(points) == {points[i].prefix : i \in DOMAIN points}
TtlOf(points, x) == points[CHOOSE i \in DOMAIN points : points[i].prefix = x].ttl

Put(table, points) ==
  [x \in DOMAIN table \cup PrefixesOf(points) |->
     IF x \in PrefixesOf(points) THEN Renewed(table, x, TtlOf(points, x)) ELSE table[x]]

Note(table, points) ==
  [x \in DOMAIN table \cup PrefixesOf(points) |->
     IF x \in PrefixesOf(points) THEN [age |-> 0, ttl |-> TtlOf(points, x)] ELSE table[x]]

(* Commit *)
Succeeds(q) ==
  /\ plan[q] # NoPlan
  /\ LET ns == plan[q].ns IN
     /\ entries' = [entries EXCEPT ![ns] = Put(@, plan[q].points)]
     /\ answered' = [answered EXCEPT ![ns] = Note(@, plan[q].points)]
  /\ plan' = [plan EXCEPT ![q] = NoPlan]

(* mutant of Fails: a request that fails is remembered as well *)
FailsCommitting(q) ==
  /\ plan[q] # NoPlan
  /\ entries' = [entries EXCEPT ![plan[q].ns] = Put(@, plan[q].points)]
  /\ plan' = [plan EXCEPT ![q] = NoPlan]
  /\ UNCHANGED answered

Fails(q) ==
  /\ plan[q] # NoPlan
  /\ plan' = [plan EXCEPT ![q] = NoPlan]
  /\ UNCHANGED <<entries, answered>>

(* An entry that is over is not found, and pruned on the next call.          *)
Passes ==
  /\ entries' = [n \in Namespaces |->
       [x \in {y \in DOMAIN entries[n] : entries[n][y].left > 1} |->
          [entries[n][x] EXCEPT !.left = @ - 1]]]
  /\ answered' = [n \in Namespaces |->
       [x \in DOMAIN answered[n] |->
          [answered[n][x] EXCEPT !.age = AtMost(@ + 1, Long)]]]
  /\ UNCHANGED plan

CacheNext ==
  \/ Passes
  \/ \E q \in Askers :
       \/ Succeeds(q) \/ Fails(q)
       \/ \E ns \in Namespaces, p \in Prompts, policy \in Policies :
            Estimate(q, ns, p, policy)

CacheSpec == CacheInit /\ [][CacheNext]_cacheVars
-----------------------------------------------------------------------------
Planned == {q \in Askers : plan[q] # NoPlan}

(* cache.go:31: whatever the ratios and their rounding, the parts of a usage *)
(* add up to the tokens of the request, the two lifetimes to what was        *)
(* created, and some input is never cached.                                  *)
UsageAddsUp ==
  \A q \in Planned :
    LET u == plan[q].usage IN
    /\ u.input + u.read + u.creation = plan[q].total
    /\ u.short + u.long = u.creation
    /\ u.input > 0 /\ u.read >= 0 /\ u.creation >= 0

(* Unless hits are forced, a request reads only what an earlier request of   *)
(* the same namespace, which succeeded, has sent.                            *)
ReadsWereAnswered ==
  \A q \in Planned : plan[q].usage.read > 0 => plan[q].forced \/ plan[q].known

(* A conversation that goes on within the lifetime its last answer gave it   *)
(* is read (at the full ratio), whatever was estimated, failed or expired in *)
(* between.                                                                  *)
FreshIsRead ==
  \A q \in Planned :
    plan[q].fresh => plan[q].usage.read > 0

(* What a request is billed as: the whole request, for what was sent before. *)
UsageSound == UsageAddsUp /\ ReadsWereAnswered /\ FreshIsRead

(* cache.go:75: a request that fails leaves nothing behind.  Fails: a hit    *)
(* prolongs the entry before the request is served.                          *)
FailureLeavesNoTrace ==
  [][\A q \in Askers, n \in Namespaces : plan[q] = NoPlan /\ plan'[q] # NoPlan =>
       \A x \in DOMAIN entries[n] : entries'[n][x].left = entries[n][x].left]_cacheVars
=============================================================================
