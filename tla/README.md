# A TLA+ model of prism-2api

prism-2api is a Go gateway. It offers the OpenAI, Anthropic and Gemini HTTP
protocols and serves every request from a pool of site accounts, which it logs
in, keeps logged in, schedules and persists. This directory holds TLA+ modules
that model its core logic, TLC configurations that check them on small
instances, and proofs that TLAPS checks for every instance.

Paths below are relative to `src/internal/` unless they begin with `src/`.
`PROJECT.json` lists the components, the hazards at their lines, and for every
definition of the modules the lines it models.

## 1. Inventory

| Component | Where | State it keeps | Operations | What is hard, what must hold |
|---|---|---|---|---|
| Request dispatch | `api/server.go`, `api/anthropic_handler.go`, `api/pick.go`, `api/upstream_error.go` | per request: the account held, the accounts tried, whether output has gone out, the empty completions so far | pick, acquire, upstream round, reinforce / salvage round, retry on another account, swap after a refusal, release | four hand-written retry loops over one iterator; slots taken and given back on every path; no retry after output; the client may leave at any time |
| Replies | the same files, `api/responses.go`, `api/gemini.go`, `api/sandbox_guard.go` | text held back, blocks open, items closed, a heartbeat | translate events, correct, guard, end | what an abandoned round said must not show; every end must be told in the protocol's form |
| Concurrency slots, limits of an account | `pool/account.go` | `inflight`, `degraded`, `enabled`, `failClass`, the uses of the last minute and of the day, the quota's verdict | `Acquire`, `Release`, `MarkFailure`, `RememberUsage`, manual switch | `inflight` is the number of holders; uses are counted when a request ends, while others enter; the day changes, the process restarts |
| Account pool | `pool/pool.go`, `persist` | `accounts`, the `dirty` map, one document per account | add, set token, remove, flush each second, load | objects are replaced under one name while requests point to the old one; a flush takes under one lock and writes under another; crashes |
| Scheduler | `scheduler/` | round-robin cursors, weights, the session cache with alias groups and TTL | `Pick`, `Invalidate`, binding of sessions | affinity against failures; several locks one after another; cursors shared by changing sets of candidates |
| Entry gate | `api/gate.go`, `logMiddleware` in `api/server.go` | the channel, its capacity, the last recheck | enter, wait with a limit, release, resize | the resize moves tokens of requests in service |
| Storm breaker | `adapter/storm.go` | a ring of buckets, the last probe | record, open?, allow with a probe | window arithmetic; closing again without traffic |
| Credentials, keep-alive | `auth/`, `api/keepalive_boot.go`, `adapter/prism/session.go`, login task in `api/admin_tasks.go` | token, API key, refresh token or re-login bundle; failures and backoff per name; one exchange in flight | refresh, drop after 401 / 403, login, removal of the dead, restart | which secret is used after which history; an account must not be lost in silence |
| Failure classification | `failclass/` | none | `Classify` | the verdict decides retry, blame and removal |
| Session and sandbox | `adapter/prism/client.go`, `prewarm.go` | cached session and sandbox, flights, the warm-up budget | ensure, invalidate, recast, prepare, start | one chain serves all who wait; invalidation against a preparation under way; the leader of a flight may leave |
| A turn at the upstream | `adapter/prism/stream.go`, `client.go`, `relay.go` | polls made, time used, events emitted | poll, emit, relay, return | the budget of the poll; what fails must have emitted nothing |
| One-time tokens, chat material | `adapter/prism/sentinel.go` | a channel of tokens with ages; a ring of material slots | take, wait, mint, refill; pick, refresh, warm | a token must be used once and young; turns and the warmer race for flights |
| Pre-warming | `api/prewarm_boot.go` | the warm set, the sweep, back-offs | sweep, job, hook on an enabled account | sweep, jitter and the sandbox's age must fit together |
| Client keys | `clientkeys/`, `api/clientkey_facade.go`, `adminapi/keys.go` | two indexes, the stored list, uses not written yet | create, rotate, delete, count, flush, reload | two maps must keep indexing each other; crashes lose uses |
| Background tasks | `tasks/`, `api/admin_tasks.go` | records, slots, waiters | enqueue, run, cancel, change the concurrency, restart | hand-over of slots while the limit changes |
| Message batches | `api/batches.go`, `pg/batches.go` | a batch in memory and its row | create, process, cancel, restore | saves outside the lock; restart in the middle |
| Prompt-cache emulation | `emulation/cache.go` | prefixes with lifetimes | estimate, commit, match | estimated before, remembered after a request, with others in between |
| Web search emulation | `emulation/store.go`, `tavily_pool.go`, `api/anthropic_websearch.go` | the keys of a search service, failures, a cursor | search, save a page of keys | pages show masks and send them back, older than what they change |
| Groups | `groups/`, `adminapi/groups.go` | the registry, and names held by accounts and keys | create, rename, delete; accounts and keys are patched with any names | three stores changed one after the other, each under its own lock, while other administrators rename, patch and delete |
| Egress | `proxypool/`, `egress/`, `api/egress_resolve.go`, `api/admin_proxies.go` | exits with a default, pins, the way of each account | add, change, delete, pin, refresh all | ways are computed and applied in steps |
| Runtime configuration | `admin/config.go` | one document | load, update, tell the parts | zeros, missing fields, failing saves; who is told of what |
| Protocol conversion | `api/toolmap.go`, `anthropic_conv.go`, `chat_map.go`, `chat_files.go`, `adapter/prism/attachments.go` | none, but for downloads under way | tools, conversations, files | maps without order, results without ids, downloads that end in any order |
| Logs and meters | `admin/logs.go`, `api/meters.go` | a ring of entries, a ring of seconds | add, resize, clear, follow; count, advance | wrapping, gaps |
| Persistence, secrets | `pg/`, `secret/` | tables | one statement per call | pure I/O |
| Web UI, sidecar, scripts | `src/web`, `src/sidecar`, `src/cmd`, `src/scripts` | | | outside the gateway's logic |

How they interact. A request passes the **entry gate**, then the **storm
breaker**; its body is turned into one **conversation** with its **files** and
**tools**; its handler takes an account from the **scheduler** and a **slot**
of it, and runs a round of the **adapter**. The adapter asks the account's
**credentials** for a token, makes sure of a **sandbox**, picks **material**
and takes a **one-time token**, starts a **turn** and reports the start to the
storm breaker. What the turn emits becomes a **reply**, with usage from the
**prompt-cache emulation**. The result is noted on the account, which marks
its document **dirty**; the **pool**'s flusher writes it. A 401 or 403 drops
the access token; the account is then not ready for the scheduler, and the
**keep-alive** loop logs it in again or removes it from the pool.

## 2. Modules

| Module | Models | State and actions |
|---|---|---|
| `Dispatch` | the four chat handlers over `accountIter` and `Account` | `pc` follows a handler: `pick` → `acquire` → `stream` → `releaseRetry` / `releaseDone` → `retry` / `done`. `swap`, `swapAcquire`, `swapped` are the Anthropic JSON handler's search for a second account after a refusal. `Pick` and `Acquire` are the two halves of `Next`, since the account may fill up in between. `shown`, `outcome`, `status` record what the client has seen |
| `ChatStream`, `ClaudeStream` | what the client of one request receives: `/v1/chat/completions` with its translations to `/v1/responses` and Gemini, and `/v1/messages` | the events of a round (`Thought`, `Text`, `KnownCall`, `ForeignCall`, …) go through the buffers, guards and retries of the handlers to what has been written. `ClaudeStream` has the heartbeat goroutine (`PulseDue`, `PulseWrites`, `PulseStops`) beside the handler |
| `Reply` | what any client may rely on | abstract: all shown comes from one round, nothing is taken back, complete means not empty, nothing follows the end |
| `SessionAffinity` | `Scheduler.Pick`, `sessionCache`, and the requests that share them | `bound`, `group`, `live` are the fields of each key's entry; `Store` is `replaceLocked`, which every cache operation comes down to; `Collect` → `LookupPrimary` → `InvalidateStale` → `LookupFallback` → `Choose` → `Bind` are the steps of one pick between the cache's locks, on the snapshot `cands` |
| `Rotation` | the choice among candidates without a session | `PickNext` with the cursor of round robin and the weights of smooth round robin; `Shift` changes who is ready; `Owed` is the history the fairness property needs |
| `AccountLimits` | RPM, day, group limits, quota policy | `Enter` checks, `Succeeds` counts, `RememberUsage` is the answer of the site, `SwitchByHand`, `Flush`, `Restart`, `Elapse` |
| `AccountStore` | `pool.Pool`, dirty marks, documents, crash | `live` maps a name to the address of its object; `refs` are the pointers that requests and refreshes hold; `FlushTake` and `FlushWrite` are the two critical sections of `Flush`; `Crash` is a restart with `loadAll` |
| `EntryGate` | `gateAcquire` and the deferred release | a channel is a counter `tokens[g]` with a `size[g]`; each turn of the drain loop is a step, as other goroutines receive from and send to the same channel meanwhile |
| `StormBreaker` | `adapter/storm.go` | `ring` with relative time; `hist` is the history it should summarise |
| `Credentials` | `TokenManager`, keep-alive, exchange, login task, restart | one account; access tokens are numbered as issued, and the site decides which are valid and which near expiry; `flight` is the one exchange in flight; `doc` is the stored token |
| `Sandbox` | the session and sandbox flights of one account | `Enter`, `Join`, `Leave` of a flight, `Make`, `Publish`, `Land` of its chain, and a turn's attempts (`Attempt` … `Refused`, `ServerFails`, `Reconnecting`); `Prewarm` and recasts are other members of the same flights |
| `Prewarm` | the sweeps of `api/prewarm_boot.go` | instants are kept as the time since or until them; `Tick` moves them all; `JobEnters` … `ChainLands` are a worker's steps, the hook on an enabled account is a second source of jobs |
| `Turn` | `Stream`, `pollTurn`, the relay | `PollPending`, `PollFails`, `PollCompleted`, `Emit`, `Return` with the clock in units of 100 ms |
| `TurnContract` | what `Adapter.Stream` promises | abstract: failure has emitted nothing, success has emitted all, `Ended` last |
| `Material` | the ring of material slots | `Pick`, `Ensure`, `JoinFlight` of a turn, the warmer's steps per slot, expiry, back-off |
| `Tickets` | the one-time tokens | `Asks` → `Drains` / `FindsNone` → `WaitTakes` / `WaitOver` → `Mints` is `takeSentinelToken`; `Replied` and `TriesAgain` are the loops around the call; `RefillLooks` … `RefillWakes` the background loop; `TicketAges` is time |
| `Attachments` | `extractFiles` | `Collect`, a goroutine per remote file (`FetchOpens`, `FetchSucceeds`, `FetchIsLost`), `AllFetched` is the `wg.Wait`, `Merge` one slot at a time |
| `Tasks` | `tasks.Store`, `tasks.Runner`, `runAccountBatch` | `AcquireSlot`, `HandOn` in `ReleaseSlot`, item goroutines, `CancelBegins` → `CancelChecks` → `CancelMarks` of a canceller between locks |
| `Semaphore` | what the runner promises | abstract: holders, a queue in order of arrival, a limit |
| `Batches` | one batch with its row | `Results`, `Finish`, `CancelBatch` change memory; `WorkerWrites`, `KillerMarshals`, `KillerWrites` are the saves outside the lock; `BatchRestart` |
| `Keys` | `clientkeys.Store` | both maps, the stored list, the system key (`SetMaster`, `Adopt`), `FlushKeys` |
| `Groups` | registry, accounts and keys | a call of an administrator is a sequence of steps over three stores: `RenameRegistered`, `RenameMember` per account, `RenameKeys`; `DeleteBegins`, `DeleteLists`, `DeleteUnbinds` per key, `DeleteReads` and `DeleteWrites` per account, `DeleteRecord`. Calls of several administrators, patches (`SetMembership`), the flusher and a restart come in between any two steps. A rename's record carries a history of what others did to its names (`Noted`) |
| `PromptCache` | `emulation/cache.go` | `Estimate` makes a plan, `Succeeds` commits it, `Fails` drops it, `Passes` is time |
| `ToolMap` | one call of the upstream for one set of declared tools | the tables of aliases, gating, argument rules; `Canonical` is a set, as the code goes through a map |
| `Conversation` | four protocols into one prompt | the client sends everything again with each request; `FromAnthropic`, `Claimed`, `Extracted`, `Inlined` are the conversions |
| `Settings` | `RuntimeConfig` | a field for each kind of rule; `SetField` saves or fails, then `ReadSetting` / `ApplySetting` tell the parts one at a time |
| `WebSearch` | searches and the pages of their keys | `AsksUpstream`, `TakesKeys`, `TriesKey`; `View` and `SaveKeys` of pages that send masks back |
| `Egress` | exits, pins, ways | a handler changes the exits, then `TakeMembers` and, per account, `ReadWay`, `SetEgress`, `SetHTTPClient` |
| `LogRing` | `admin/logs.go` | `AddLog`, `Insert` (the sink), `Publish` / `Deliver` per subscriber, `SetMax`, `ClearLogs` |
| `Meters` | `api/meters.go`, `logMiddleware` | `Incoming`, `PassesGate`, `Panics`, `Counts`; `Advanced` clears the gap |
| `DispatchProofs`, `SessionAffinityProofs`, `CredentialsProofs` | | theorems about those modules |
| `AdapterProofs` | | theorems about `Sandbox`, `Turn`, `Tickets`, `Attachments` and `MCAdapter` |
| `ServicesProofs` | | theorems about `AccountStore`, `Tasks`, `Keys`, `Groups` and `MCServices` |
| `AdmissionProofs` | | theorems about `EntryGate`, `StormBreaker`, `ChatStream`, `ClaudeStream`, `PromptCache` and `MCAdmission` |
| `OperationsProofs` | | theorems about `Egress`, `AccountLimits`, `Settings`, `LogRing`, `Meters`, `ToolMap` and `MCOperations` |
| `SumProofs` | | lemmas about the sums and maxima of the community modules, used by `AdmissionProofs` and `OperationsProofs` |
| `MCDispatch`, `MCSessionAffinity` | | instances of one module: kinds of handlers, symmetry |
| `MCAdmission`, `MCAdapter`, `MCServices`, `MCOperations` | | instances of several modules that share no state |

The last four explore several machines in one run. A variable `part`, chosen
initially, names the machine that a behaviour exercises; the actions of the
others are disabled, and their variables stay as they began (in one initial
state, where the machine has many). This is the sum of the state spaces, not
their product, which is sound because the modules have no variable in common:
a behaviour of several of them side by side projects to behaviours of each.
Fairness is stated as in the single module; a part at rest has no fair action
enabled, or its fairness is stated for its own part only.

Operators marked "mutant of" are plausible mistakes in the definition below
them. They are not part of a specification: replacing the definition by one of
them makes a property fail, which shows that the property depends on that code.

### Refinements

* `Turn` implements `TurnContract` (`KeepsContract`), with what has been sent
  as the output. `ChatStream` and `ClaudeStream` rely on that contract: a round
  that fails there has had no events.
* `ChatStream` and `ClaudeStream` implement `Reply` (`ChatReplies`,
  `ClaudeReplies`): the abstract state is what the client has been shown, each
  item with the round it came from.
* `Tasks` implements `Semaphore` (`RunnerIsSemaphore`): the holders are the
  tasks between their slot and its release, the queue is the list of channels.

### What is abstracted

Every module says at its head what it leaves out. Where it matters to a reader
of the results:

* `Dispatch`: the scheduler may prefer any ready account that was not tried.
  Cooldowns are switched off in the code (`applyClassCooldownLocked` only
  counts, `applyPersisted` restores none), so `Next` never waits for one.
  Whether the storm breaker lets a request through is a choice. A request that
  follows a flight whose leader is cancelled gets `Canceled` itself and is left
  without an answer (`api/server.go:855`); that comes from `Sandbox`
  (`CanceledByOwnClient` below), and `Dispatch` takes a cancellation to be the
  request's own.
* `AccountStore`: the content of an account is the generation of its
  credentials and a use count.
* `StormBreaker`: three buckets stand for six, a minimum of three attempts for
  twelve, two time units for the span of a bucket and for the probe interval;
  the rate 0.7 is exact. The wall clock does not go back. A start attempt ends
  well, with a failure of the upstream, with a request it refuses, or with a
  client that has left; the code records the last two as failures too.
* `Credentials`: expiry is one phase although the loop looks 15 minutes and
  requests 5 minutes ahead. The flush is one step. The failure class after a
  restart is any, as its document may be old.
* `SessionAffinity`: accounts become ready or not at any time; a binding that
  is not refreshed expires at any time, as the TTL is configurable.
* `Sandbox`, `Material`, `Tickets`: what the site and the sidecar answer is a
  choice at every call. Ages are two phases, since the code compares each with
  one threshold.
* `Prewarm`, `Turn`: time is discrete and kept relative. A chain takes at most
  `ChainMax`; a call of a turn takes none or its whole timeout.
* `ChatStream`, `ClaudeStream`: a text is whether it is there and what the
  guards see in it; frames and wording are left out.
* `Meters`, `LogRing`, `PromptCache`, `AccountLimits`: windows of two or three
  units for sixty, rings of one to three for two thousand.

## 3. Runs

Ten runs pass and two show a finding. A property that is a conjunction names
its parts, which are defined above it in the module given.

| Run | Instance | Checks | Shows |
|---|---|---|---|
| `slots` | `MCDispatch`: 3 Anthropic JSON requests, 2 accounts, limit 2, degraded 1 | `SlotsMatchHolders`, `HoldersWithinLimit` | slots are exact with swaps, 429s and region failures in every order |
| `retries` | `MCDispatch`: an OpenAI and an Anthropic stream, 3 accounts, 2 credentials each | `NoRetryAfterContent`, `GoneClientSparesAccount` | what a retry may do, and what is not held against an account |
| `finish` | `MCDispatch`: OpenAI stream and JSON, 2 accounts with one slot, retry budget on | `AlwaysAnswered`, `RequestsFinish` | every request ends, with an answer if the client is there |
| `affinity` | `MCSessionAffinity`: 2 requests, 2 accounts, 2 prompt-cache keys and their conversation | `GroupsClosed`, `NeverSplit`, `LostOnlyWithAccount` | alias groups stay whole between each other's locks |
| `keepalive` | `Credentials`: 2 tokens issued, 2 failures, 1 restart | `SecretAtHand`, `BackOrRemoved` | a secret stays, and nobody is lost in silence |
| `admission` | `MCAdmission`: gate (3 handlers, capacities 0 to 2, 3 channels), breaker (3 buckets of 2, attempts that end in every way), both reply machines (2 accounts, 1 empty retry), prompt cache (2 requests, 2 namespaces, 3 prompts, 3 policies) | `GateSound`, `EntryDecided`; `RingExact`, `Heals`; `ChatMessage`, `ChatReplies`; `ClaudeMessage`, `ClaudeReplies`; `UsageSound` | capacity before a resize, no token from nothing, everybody let in or refused; the ring is its history, an outage that is over lets the breaker close; a reply is one round, complete, well formed; usage adds up to the request and reads are of what was answered |
| `adapter` | `MCAdapter`: 2 turns (interchangeable, `TurnSymmetry`; nothing temporal beyond steps is checked here), or a turn with a recast or the pre-warmer; 1 or 2 accounts to warm; a turn of both channels; a start and another call over 4 tokens and a channel of 2; messages of up to 4 parts, or up to 3 followed by one with a file | `GoesAlong`, `StartHasSandbox`, `NeverOlder`, `ColdBounded`, `KeepsContract` | no token twice, old, or left in the channel; files as the serial loop takes them; no start without a sandbox or with one given up, and no older sandbox published over a newer one; a sandbox whose renewal nothing but the sweeps delays gets no older than `Coldest`; failures have emitted nothing |
| `progress` | `MCAdapter`: 2 turns whose chains may hang; 2 material slots, their warmer and a turn | `TurnsEnd`, `KeptWarm` | every turn ends, every slot becomes fresh again and again |
| `services` | `MCServices`: documents (2 names, 2 objects, failing saves and flushes, crashes), 3 tasks with 1 or 2 slots, a batch of 3 with 2 restarts, 2 keys and the system key, 3 names of groups (2 registered, with both accounts in them, and any binding of the key) and 2 calls of 2 administrators | `CleanMeansStored`; `RunnerIsSemaphore`, `TakenOnEnds`; `KeysKept`; `RenameKeepsReach` | what is not marked is on disk; the runner is a semaphore, waiting tasks and uncancelled batches end, over restarts; indexes agree and losses are bounded; a rename passes nobody by, whatever others rename, patch and delete meanwhile |
| `operations` | `MCOperations`: log ring of 1 or 2, meter ring of 3 s, 2 exits with 2 accounts, 2 users over midnights, 3 accounts and 3 strategies, 13 calls against up to 2 of 6 tools, 4 protocols, 2 settings changes by 2 administrators, 2 pages of keys | `Observed`, `WaysFollow`, `LimitsKept`, `TakenInTurn`, `CallsUsable`, `ConversationKept`, `Followed`, `StartKeeps` | the newest entries and every request of the window; accounts go the way that is set; limits, days and quotas; shares of a rotation, and every usable key, with its own secret, tried before a search fails; calls a client can make; nothing of a conversation lost or misnamed; what was saved is what runs, and what comes back after a start |
| `stuck` | `EntryGate`: 2 handlers, 1 resize | `ServedRequestReturns` fails | finding 1 |
| `bundle` | `Credentials`: 2 tokens issued | `BundleKept` fails | finding 2 |

### Bounds

Two requests show every race between a picker and a holder of an account; the
`slots` run has three, so that a swap can meet both a full account and a third
request that is degrading it. Three accounts with a credential limit of two
leave one account that must not be tried. A limit of two with a degraded limit
of one is the smallest pair in which slots are held above the limit in force.
Two objects under two names cover replacement, removal and reuse of an address.
Three channels give two resizes, of which the second moves what the first left.
The ring of the breaker needs three buckets to tell the current, an older and a
stale one. Two refresh failures in a row remove an account; two issued tokens
give a login after a login. Three keys, of which one is the fallback of the
other two, are the fewest that merge two groups into one.

A turn and one other user of the flights show a join, a leader that leaves and
an invalidation in between; two sandboxes are one to give up and one to get.
Two accounts and one worker make one wait for the other's chain, which is what
`ColdBounded` counts. A chain takes up to two units, so that one may end just
before a sandbox is old enough; the run attains the bound of `ColdBounded`. Four tokens are one for the start, one to retry with, and
two that fill the channel and grow old. The limit of two files needs four
parts to have one beyond it, one that fails before it, and one that is nothing.
Three tasks are a holder, a waiter and one that is let past if a hand-over is
wrong; three requests of a batch with two restarts let a restarted worker be
interrupted again. Two uses between flushes are one that a crash loses. A
message of two tools has each pair of aliases once. Three turns of a
conversation give a result after a call that was dropped. The log ring wraps
with three entries in a room of two. Of groups, two calls are two renames that
overlap, or one with a patch or a deletion; three names make a rename to a name
that was free, and one from a name that the other rename has just given.

Constants commented "bound" in the modules (`MaxCred`, `MaxUses`, `MaxAsked`, `MaxGates`,
`MaxPerBucket`, `MaxIssued`, `MaxRestarts`, `MaxSandboxes`, `MaxTickets`,
`MaxKeyId`, `MaxTurns`, `MaxChanges`, …) are limits of the model only, and so
are the sets `Letters`, `Casts`, `Fleets`.

Deadlock is checked where a run cannot stop (`slots`, `retries`, `finish`,
`affinity`, `stuck`). In the others requests, turns, batches and tasks come to an end
for good, or a removed account takes no further step.

### Fairness

* `Dispatch`: weak fairness of each handler's next step. A handler is a
  goroutine that never waits for another one, and an upstream round ends: the
  adapter bounds every call, and gives up a poll after its budget or a number
  of failures in a row. Nothing is asked of the client, the administrator or
  the keep-alive loop.
* `EntryGate`: weak fairness of each handler; the queue time ends. Strong
  fairness of the step that takes `gateMu`, which Go's mutex gives by handing
  itself to a waiter that has starved.
* `StormBreaker`: time passes. No request has to come.
* `Credentials`: the loop ticks each minute, an exchange ends (30 s, 150 s for
  a login), a backoff ends. Logins, requests and the flusher owe nothing.
* `Sandbox`: whoever waits in a flight joins it or leaves at its deadline, a
  flight whose chain is over lands, a turn goes on. A call for a session ends by
  its timeout; a sandbox chain may hang for ever, and is ended by the context
  of its leader only.
  `Material`: the warmer's sweeps and steps; strong fairness of a successful
  refresh, that is, a sidecar that is asked again and again answers at times.
* `Tasks`: a task that holds a slot runs on, its items end, and a slot is
  released. `Batches`: the worker and the goroutine that ends cancelled
  batches go on. Nobody has to cancel, and no restart has to come.

## 4. Proofs

TLAPS proves the following for all values of the constants.

* `DispatchProofs`. `TypeCorrect`: `Spec => []TypeOK`. `SlotsExact`: without a
  retry budget, `Spec => []SlotsMatchHolders`. `LimitKept`: without a retry
  budget and with `DegradedLimit \in 1..Limit`, `Spec => []HoldersWithinLimit`.
  `SlotsMatchHolders` is not inductive: it says nothing of a request at
  `acquire` or of the second slot of a swap. The invariant `IInv` adds which
  variables are set at which label, that the two accounts of a swap differ and
  that held accounts are among those tried. Each action then changes the
  holder set of one account (of two in `ReleaseOld`) by one element, and the
  cardinality lemmas carry it to `inflight`. Both assumptions are needed: with
  a budget a slot is released twice, and with a degraded limit of 0 there is
  none (section 5). The `slots` run checks the same properties for one kind of
  handler; the theorem covers every mixture.
  From `IInv` alone follow `NoAccountTwice` (`NeverSameAccountTwice`) and
  `GoneClientHarmless` (`GoneClientSparesAccount`). `ContentEndsRetries`
  (`NoRetryAfterContent`) needs that content is shown only by a streaming
  request whose round has `sent` set; `CredentialsBounded` (`AttemptsBounded`)
  that a picked account is still within the limit; `TakenUnderLimit`
  (`AcquireUnderLimit`) compares `inflight` before and after a step by means of
  `SlotsExact`, hence also without a retry budget. `TypeOK`,
  `NeverSameAccountTwice`, `AttemptsBounded` and `AcquireUnderLimit` are proved
  and no longer part of a run.
  `EveryoneAnswered` (`AlwaysAnswered`): whoever is about to end, or has ended,
  has been answered or has left. It assumes no streaming Anthropic handler,
  which may panic in `Release` before it has said anything, and no canceled
  round but that of a client who has left (both in section 5, the second under
  `Sandbox`): with either the property is false.
* `SessionAffinityProofs`. `AffinityTyped`, `GroupsStayClosed`: `Spec =>
  []GroupsClosed`, `LiveGroupsNeverSplit`: `Spec => NeverSplit`,
  `BindingsGoWithTheirAccount`: `Spec => LostOnlyWithAccount`. All operations
  are a `Store`; `StoreCloses` says that it keeps the groups closed when the
  keys it touches are whole groups. `GroupsClosed` is inductive given the
  types and what each label has set (`Prepared`), and makes `removeGroupLocked`
  remove exactly the group.
* `CredentialsProofs`. `CredentialsTyped`: `Spec => []TypeOK`, in which the
  key and access parts of a stored token are tied to what the site has issued.
  `SecretKept`: `Spec => []SecretAtHand`. The invariant has to speak of the
  stored token as well, since a restart takes the key from it, and of the
  exchange in flight, since it decides later what the token becomes.
* `AdapterProofs`, first for each module with its own specification, then for
  the run's sum of them.
  `StartsHaveSandbox` (`StartHasSandbox`): the invariant `SandboxInv` says of
  every sandbox that is cached, in a flight or with a turn that it was made,
  that a flight ready to publish has one nobody else has, that a landed flight
  delivers one to all who joined, and that what a turn has given up is neither
  cached nor on its way to that turn. `PublishesNewer` (`NeverOlder`) is the
  generation guard of `publishSandboxAt`. `SandboxTyping` bounds the counters.
  `TurnKeepsContract`: `TurnSpec` implements `TurnContract` under the mapping
  of section 2; `TurnInv` says that nothing has been sent before the turn
  emits, and that `ended` is the last of what remains or of what was sent.
  `TicketsAreOnce`: `TicketsInv` says where each token is, in the channel, with
  one caller or carried by one call, and that all are different.
  `FilesAreSerial`: `AttachmentsInv` says how far the merge is, that the
  message has exactly the files the serial loop takes from the parts before
  that, and that earlier messages are done and later ones untouched.
  `ColdIsBounded` (`ColdBounded`), for any number of accounts and workers: a
  sandbox is passed over at most once, by a sweep that finds it a moment too
  young; the next sweep may be a moment too early, and the one after that
  renews it. `PrewarmInv` says how old a sandbox may be at each of these and
  how long each job and sweep has lasted. A job waits only while all workers
  are busy, and each `ChainMax` that it has waited has taken `Workers` other
  jobs of the sweep, which is where `InFront` comes from (`Busy`, `InTime`).
  That a sandbox is passed over only once needs the jitter to be shorter than
  the refresh threshold (30 s, and 60 s).
  `TurnsCarryTheirOwn`, `SandboxesAreKept`, `SandboxesStayWarm` and
  `RunKeepsContract` state `GoesAlong`, `StartHasSandbox` with `NeverOlder`,
  `ColdBounded`, and `KeepsContract` for `MCAdapter`.
* `ServicesProofs`. `RenamesKeepReach` (`RenameKeepsReach`), for any number of
  administrators: `GroupsInv` says of each rename what it owes to everybody
  (`Kept`): whoever is still to be gone over has the old name or has got the
  new one early. Its own steps turn that into the new name; the steps of others
  move only names they speak of, which the history of the rename notes per
  account and key (`OthersNoted`). `SettledIsStored`
  (`CleanMeansStored`): inductive with the types and `NamesHeld`, that an
  object the pool lists or has marked under a name bears that name; `CrashCostsNothing`
  (`CrashKeepsSettled`) follows. `RunnerImplementsSemaphore`
  (`RunnerIsSemaphore`): the initial states and each step of `TasksSpec` are
  mapped to those of `Semaphore`, or to a stutter; `SlotsInv` says that
  `active` is the number of holders, who waits, and that nobody waits twice.
  `KeysAreKept` (`KeysKept`): `IndexInv` has the two maps index each other,
  and no two keys of the stored list share a plaintext, since a reload builds
  the maps from it;
  `CountInv` ties what is not written to its counter. `ServicesKeep` states
  these for `MCServices`.
* `AdmissionProofs`. `GateIsSound` (`GateSound`): `GateInv` adds that one
  handler at a time replaces a channel, that until the first channel is
  replaced its tokens are those of its holders (`FirstChannel`), and that the
  tokens of all channels together are no more than the requests that owe one,
  a sum over any number of channels.
  `RingIsExact` (`RingExact`): the ring agrees with the history bucket by
  bucket, or nothing has been attempted yet.
  `ChatSaysAll` (`ChatMessage`): what a complete reply holds is decided while
  events still come, so `ChatInv` ties the three places a thing may be in, what
  is still to come of the answer, what is buffered and what is written: for
  each kind their numbers add up to the number in the answer (`NothingLost`).
  It adds that nothing of the model's is written between rounds, which is what
  makes a corrected or repeated round invisible, and that all that is written
  is of the present round; `ChatIsReply` (`ChatReplies`) maps each action to a
  step or a stutter of `Reply` with these.
  `ClaudeSaysAll` (`ClaudeMessage`): `ClaudeInv` says which block is open in
  terms of the handler's variables and of what is on the wire (`Goes`), so that
  each event fits those before it wherever a ping falls, and ties what has been
  sent and noted to what is still to come (`NotedRight`, `SentRight`).
  `ClaudeIsReply` (`ClaudeReplies`) follows in the same way.
  What the handlers write is a concatenation of pieces. The lemmas before
  these proofs count the members of a kind in a concatenation (`AmountJoined`,
  `AmountAppended`) and keep what has been said of its earlier places
  (`FitsKept`).
  `UsageIsSound` (`UsageSound`), for any prompts, policies and namespaces:
  `UsageInv` compares what is remembered of a namespace with its history.
  Nothing is remembered that was not answered, and what was last answered less
  than its lifetime ago is remembered for at least the rest of it
  (`TablesFit`), which a commit, a hit and the passing of time keep. Of a plan
  it says that its breakpoints' tokens are parts of the request that do not
  fall from one to the next (`PointsAre`), since cumulative counts do not
  (`CumulativeTokens`) and rounding is monotonic. So the latest remembered
  breakpoint has at least the tokens of the fresh one, and scaling and the
  uncached tail leave something of it, except for a request of one token, which
  has no plan. A breakpoint that counts no tokens (an empty block) can be fresh
  and still give nothing to read; `fresh` therefore speaks only of breakpoints
  that count some.
  `AdmissionIsSound` states all seven for `MCAdmission`.
* `OperationsProofs`. `ExitsDecide` (`WaysFollow`): at most one exit is the
  default; while handlers came one after the other and every document was
  saved, an account has its way, or a handler at work has it still to do and
  holds the way that resolves now. `LimitsHold` (`LimitsKept`): what is pruned
  is a prefix of the uses, so that a use adds at most one to the window; the
  counts in memory and in the document are those of the day they are of, which
  midnights and restarts may have left behind. `SettingsAreFollowed` (`Followed`): a
  handler at work tells the parts what is read now, unless two overlap.
  `StartBringsBack` (`StartKeeps`): reading what is stored changes nothing of
  it, which makes opening a document idempotent for every kind of field.
  `LogKeepsNewest` (`KeepsNewest`): each place of the ring holds the log that
  its distance from `next` says. `MetersMissNothing` (`NothingMissed`): the
  head of each series is at least as late as the last request, so that
  advancing clears no bucket that counts; the sum over the window then covers
  the visitors (`SumCovers`). `PagesShowIt` (`Observed`) and `SetIsWhatRuns`
  (`WaysFollow`, `LimitsKept`, `Followed`, `StartKeeps`) state them for
  `MCOperations`.
  `CallsAreUsable` (`CallsUsable`), for any names, arguments, tools and schemas:
  whatever `mapCursorToolCall` makes is for a declared tool or withheld
  (`MappedSendable`). `SharedSpellings` compares the lists of the table of
  aliases with each other: only Grep and Search, and Task and subagent, share
  names, so that two keys can be found for one call. `DeclaredStays` then makes
  both resolve to the same tool, and `MappedAlike` follows the rest of the way.
  `ClientsCanCall` states it for `MCOperations`.
* `SumProofs` has no theorem of its own: it shows that `MapThenSumSet` over a
  finite set is a table of sums, that changing one summand changes the sum by
  as much, that a sum may be split, renamed and bounded, and that each member of
  a set of numbers has a place from first to last. Its inductions
  are by least counterexample: if some subset had no table, one with the
  fewest elements would have none, although it is built from a smaller one.

For the runs of several machines, a lemma for each machine (`RunIsTasks`,
`RunIsEgress` and the like) shows that a behaviour of the sum is one of that
machine, since the actions of the others leave its variables alone; the
theorem of the machine then holds in the run. Where a machine at rest begins
in a state of its own (`Settings`), its invariant is shown there instead.

The proofs assume what the modules assume of their constants: bounds are
natural numbers, sets of handlers, users and visitors are finite, names for
"nothing" are not members, accounts are not keys, a meter's window fits its ring, sweeps have an
interval and the jitter is below the refresh threshold, a prompt has blocks and
tokens, and ratios are percentages. Everything else
about the constants is open: how many requests, accounts, channels, buckets,
tokens, files, keys or administrators there are, and what a document contains.

Model-checked only:

* every property under fairness (`RequestsFinish`, `EntryDecided`, `Heals`,
  `BackOrRemoved`, `TurnsEnd`, `KeptWarm`, `TakenOnEnds`,
  `ServedRequestReturns`): liveness and `ENABLED` are out of the prover's reach;
* `ConversationKept`: what folds over a conversation compute for every input
  needs induction over data;
* `TakenInTurn` (`SharesKept`, `PoolSound`), whose definitions sort a set of candidates
  (`SetToSortSeq`) and filter a list of keys (`SelectSeq`), of which the prover
  knows nothing.

## 5. Findings

1. **A served request never returns** (`stuck`). A resize drains the tokens of
   requests in service from the channel they captured, and their deferred
   receive waits for ever (`api/gate.go:56`, `api/server.go:1546`).
2. **The re-login bundle is lost** (`bundle`). After a login the API key is
   set and preferred by the next refresh, whose result has no bundle
   (`auth/login.go:291`, `adapter/prism/session.go:35`).

The modules also define properties that a reader of the code might expect and
that do not hold; their comments say why. Each ends in a counterexample when it
is put into the configuration of its module's run (with the change of a
constant where one is given).

| Module | Property | What happens instead |
|---|---|---|
| `Dispatch` | `SlotsMatchHolders`, with `BudgetOn = TRUE` | when the retry budget is spent, `api/server.go:585` and `:980` release an account that the previous attempt has released; the comment at `:593` forbids it |
| | `HoldersWithinLimit`, with `DegradedLimit = 0` | `account_concurrency_429` = 0 makes a 429 remove the limit; README: "0 = no degradation" |
| | `AlwaysAnswered`, for Anthropic streams | `api/anthropic_handler.go:558` calls `Release` on nil: no error event is sent |
| | `FailureBeforeOutputIsHTTPError` | the 200 line goes out before the first attempt (`api/server.go:553` against `:615`) |
| `ChatStream` | `FailureVisible`, `IndexesAgree` | `/v1/responses` does not translate an error before the stream (`api/responses.go:779`), and numbers items by what has been opened so far (`:818`) |
| | `RefusalSalvaged`, `OneCorrection` | the salvage is asked with the opposite of what it takes (`api/server.go:795`, `:1059` against `api/sandbox_guard.go:134` and `sandbox_guard_test.go:146`); the marks of a corrected round are those of an attempt, so another attempt corrects again (`:793`) |
| | `BlockedTold`, `RoleFirst`, `GeminiOnce` | the JSON handler does not tell of a withheld call (`api/toolmap.go:208`); reasoning and calls do not wait for the role (`api/server.go:663`); a Gemini client that adds up what it is sent has everything twice |
| `ClaudeStream` | `SomethingToRead`, `QuietAfterEnd`, `EndIsTold` | with thinking on, an empty round has a placeholder block and no text; a ping may follow `message_stop` (`api/anthropic_handler.go:541`); the nil `Release` again |
| `SessionAffinity` | `PinnedWhileReady` | a retry after an empty completion unbinds every session of the account it leaves (`scheduler/pick.go:127` against `:80`) |
| `Rotation` | `RetriesRotate` | retries advance the cursor of the others (src/README.md:350) |
| `AccountLimits` | `ManualStaysOff`, `RestartKeepsOff` | an account switched off by hand is switched on by the next usage (`pool/account.go:813`), and one without quota by a restart (`:1077`) |
| `AccountStore` | `RemovedStaysRemoved` | a flush that has begun, or a request that ends, writes a removed account back (`pool/pool.go:380`) |
| | `NewestCredentialStored`, `OnlyPendingIsLost` | the replaced object's mark writes the old key over the new one (`:144`); `Flush` drops the mark of a save that failed (`:609`) |
| `StormBreaker` | `WindowIsTheLastMinute` | under steady traffic the whole ring is wiped every 70 s (`adapter/storm.go:78`) |
| | `OpenBlamesUpstream`, `HealsAlways` | a start that is refused for the request's own fault is reported as a failure (`adapter/prism/client.go:1106`), and so is one whose client has left (`:1030`), although the comment of `StormRecord` says that request errors are not (`adapter/storm.go:59`): enough of them open the breaker, and keep it open, while the upstream works. `Heals` therefore asks that such failures stay below the rate that opens it (`FewOwn`) |
| `Credentials` | `RemovedAfterFailuresInARow`, `ForbiddenTwiceToDrop` | failures from before a login count (`auth/keepalive.go:188`); a 401 counts as the first 403 (`pool/account.go:443`) |
| | `BackOrRemoved`, with `CookieAlways = FALSE` | the refresh token becomes empty and the loop never looks at the account again |
| `Sandbox` | `CanceledByOwnClient`, `DeadlineMeansDegraded`, `ClearedForItself` | followers of a flight get the cancellation, or the raw deadline error, of its leader; an invalidation clears whatever is cached (`adapter/prism/client.go:563`) |
| `Prewarm` | `TokenYoung`, `ColdOnlyInFront` | a token a moment too young is left alone for an interval (`adapter/prism/prewarm.go:10`, `:34`); the sweep after that may be a moment too early (`api/prewarm_boot.go:285`), so the sandbox expires long before its renewal has to wait for others |
| `Turn` | `PollWithinBudget`, `SameEvents` | the budget is looked at after answered polls only (`client.go:1292`); the relay emits calls before the text, and no reasoning (`relay.go:124`) |
| `Material` | `SelfConsistent`, `BackoffHolds` | the project and the start of a turn may come from different slots (`client.go:970`); who has looked before a failure begins the next refresh after it |
| `Tickets` | `SidecarSpared`, `LoopReplacesOld` | during the back-off takers only skip the wait, and mint (`sentinel.go:48`, `:108`); a full channel of old tokens is not renewed (`:140`) |
| `Attachments` | `RequestWithinLimit`, `NothingInVain` | the limit of a request is counted per message (`api/chat_files.go:35`); files beyond it are downloaded (`:40`) |
| `Tasks` | `EndedStays`, `LimitHolds` | a task cancelled in the queue runs all the same; a slot is handed on although the limit was lowered |
| `Batches` | `CancelledEnds`, `OneResultEach` | a cancel during the last request is never finished (`api/batches.go:173`); a batch taken up again repeats its results |
| `Keys` | `LossAlwaysBounded` | a failed save clears the count of what is not written (`clientkeys/store.go:419`) |
| `Groups` | `DeletesOnlyItsName`, `RenameIsWhole` | a forced deletion writes back the names it has read, over a rename or patch in between, and unbinds a key that has been bound to another group (`adminapi/groups.go:169`, `:178`); a restart within a rename leaves the old name with accounts and keys |
| `PromptCache` | `FailureLeavesNoTrace` | a match prolongs an entry before the request has succeeded (`emulation/cache.go:483` against `:75`) |
| `LogRing` | `ShrinksToNewest`, `NewestFirst`, `ClearedForGood`, `InOrder` | a new limit on a wrapped ring keeps the wrong entries (`admin/logs.go:95`); a wrapped ring is not listed newest first (`:202`); an insert under way survives a clear; followers see entries in another order than they were added |
| `Meters` | `WindowExact`, `RefusedIsCounted` | under continuous traffic no bucket is ever cleared, and a model that is idle is not advanced (`api/meters.go:28`); requests the gate refuses are not counted (`api/server.go:1516`) |
| `Egress` | `LastChangeApplies`, `NeverAround`, `RefusedIsUndone` | of two handlers the one that read the older way may apply it last; a proxy may lose its URL, and its accounts go out directly (`proxypool/store.go:156`); a change that was not saved stays in memory |
| `ToolMap` | `OwnName`, `KeepsPattern`, `AlwaysOneAnswer` | with two tools of one kind a call by the name of one may go to the other (`api/toolmap.go:426`), depending on the order of a map (`:516`); a query for a tool declared with a pattern is lost |
| `Conversation` | `FilesApart`, `StrangersUnnamed` (`MaxTurns = 5`) | images are restored over each other (`adapter/prism/attachments.go:46`, `:131`); the result of a dropped call takes another's name (`stream.go:82`) |
| `Settings` | `LogsFollow`, `AllFollowed`, `PromptKept`, `RefusedIsUnmade` | parts are not told after a failed save, which has changed the settings (`admin/config.go:492`); of two handlers at work the one that has read the older value may apply it last, which `Followed` leaves out by its history `overlapped`; the environment seeds the prompt at every start (`:207`) |
| `WebSearch` | `NoMaskStored`, `BlamesFailing`, `FallsBack` | the mask of a removed key is stored as its secret (`emulation/store.go:114`); a deadline is blamed on every further key (`tavily_pool.go:24`); when the upstream has used up the time there is none left for the keys (`emulation/config.go:71`) |

Other things met while reading, which no property states: a cancelled task of
accounts returns without waiting for its goroutines and counts failures without
a lock (`api/admin_tasks.go`); a batch's `expires_at` is never enforced; a new
client key may get the id of a deleted one after a restart; one heartbeat
goroutine is started for each attempt of a chat stream; runtime changes refresh
every account's exit twice; `Account.BeginUse` and `Account.SetLimitResolver`
are never called; the settings a page is shown omit `request_retry`,
`session_affinity_ttl`, `gateway_concurrency` and `gateway_queue_sec`, although
`admin/config.go:295` speaks of all of them.

## 6. Not modelled

* Tables, encryption, the browser application, the login sidecar and the
  scripts: input and output, or another program. The sidecar is the
  environment of `Credentials`, `Material` and `Tickets`.
* `failclass.Classify`: a list of words in order, without state. Its verdicts
  are in `Dispatch` and `Credentials`.
* The model catalogue: the adapter's `ListModels` always answers that it is not
  implemented, so only the static list is served.
* Statistics, debug traces and the admin application's listings, imports and
  exports: nothing reads them back to decide.
* The endpoints that pick an account without a retry (token counts, images),
  schemas, PDF text, and the hashing of bodies and passwords.
* Several accounts that share the workers of the keep-alive loop, and the
  browser login poll: `Credentials` has one account.

## 7. Plan

1. Done: all components above with state, as separate machines; the abstract
   specifications `Reply`, `TurnContract`, `Semaphore`; the proofs of section 4.
2. Proofs: `TakenInTurn`, with lemmas about what sorting and filtering leave
   of a list.
3. Composition: `SessionAffinity` under `Dispatch`, so that readiness comes
   from the slots; `Sandbox` with `Tickets`, so that a start that gets no token
   is one of its attempts.
