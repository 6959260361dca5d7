-------------------------- MODULE SessionAffinity --------------------------
(* How a session stays on its account: Scheduler.Pick over the session cache *)
(* with its alias groups and TTL, and what the requests that share the cache *)
(* do between its locks.  A key is a session identifier together with a      *)
(* model.  A request has a primary key (prompt cache, header, API key ...)   *)
(* and may have a fallback (the conversation); a pick binds both as aliases  *)
(* of one group, merged with the groups they were in.                        *)
(*                                                                           *)
(* Abstracted: which account the strategy prefers among the candidates, why  *)
(* an account is ready or not, and time: a group that is not refreshed may   *)
(* expire at any moment, as SetConfig may change the TTL.  No two groups are *)
(* given the same expiry instant (nanoseconds).                              *)

CONSTANTS
  Requests,    \* handlers of API requests
  Accounts,    \* accounts of the pool
  Keys,        \* cache keys
  Sessions,    \* what ExtractSessionIDs may return
  NoAccount, NoKey

ASSUME SessionAffinityAssumption ==
  /\ NoAccount \notin Accounts
  /\ NoKey \notin Keys
  /\ Sessions \subseteq [primary : Keys \cup {NoKey}, fallback : Keys \cup {NoKey}]

VARIABLES
  bound,     \* sessionEntry.authID of each key, NoAccount when there is no entry
  group,     \* sessionEntry.aliases
  live,      \* expiresAt lies ahead
  ready,     \* accounts that ReadyWithLimits would let through now
  pc,        \* where the request is
  session,   \* its session identifiers
  tried,     \* accountIter.tried
  cands,     \* candidates, the snapshot Pick works on
  picked     \* the account picked, or the bound one that is to be invalidated

cacheVars == <<bound, group, live>>
requestVars == <<pc, session, tried, cands, picked>>
vars == <<cacheVars, ready, requestVars>>

Goto(r, l) == pc' = [pc EXCEPT ![r] = l]

Pinning(r) == session[r].primary # NoKey
Ids(r)     == {session[r].primary, session[r].fallback} \ {NoKey}
-----------------------------------------------------------------------------
(* The session cache.  Its operations hold one lock from start to end.       *)

(* What removeGroupLocked deletes, given the entry of k.                     *)
Owned(k) == {j \in group[k] : bound[j] = bound[k]}

(* replaceLocked: the keys in gone lose their entries, then every alias gets *)
(* the new one.                                                              *)
Store(gone, aliases, a) ==
  /\ bound' = [k \in Keys |-> IF k \in aliases THEN a
                              ELSE IF k \in gone THEN NoAccount ELSE bound[k]]
  /\ group' = [k \in Keys |-> IF k \in aliases THEN aliases
                              ELSE IF k \in gone THEN {} ELSE group[k]]
  /\ live'  = [k \in Keys |-> k \in aliases \/ (k \notin gone /\ live[k])]

RemoveGroup(k) == Store(Owned(k), {}, NoAccount)

Refresh(k) == Store(Owned(k), {k} \cup group[k], bound[k])

SetAliasesKeepingExpired(ids, a) ==    \* mutant of SetAliases
  Store(UNION {Owned(k) : k \in {i \in ids : live[i]}},
        ids \cup UNION {group[k] : k \in {i \in ids : live[i]}}, a)

SetAliasesUnmerged(ids, a) ==    \* mutant of SetAliases
  Store(UNION {Owned(k) : k \in {i \in ids : bound[i] # NoAccount}}, ids, a)

(* Expired groups of the identifiers are dropped, live ones are merged.      *)
SetAliases(ids, a) ==
  Store(UNION {Owned(k) : k \in {i \in ids : bound[i] # NoAccount}},
        ids \cup UNION {group[k] : k \in {i \in ids : live[i]}}, a)

InvalidateAuth(a) ==
  Store(UNION {Owned(k) : k \in {i \in Keys : bound[i] = a}}, {}, NoAccount)
-----------------------------------------------------------------------------
Init ==
  /\ bound = [k \in Keys |-> NoAccount]
  /\ group = [k \in Keys |-> {}]
  /\ live = [k \in Keys |-> FALSE]
  /\ ready = Accounts
  /\ pc = [r \in Requests |-> "idle"]
  /\ session = [r \in Requests |-> [primary |-> NoKey, fallback |-> NoKey]]
  /\ tried = [r \in Requests |-> {}]
  /\ cands = [r \in Requests |-> {}]
  /\ picked = [r \in Requests |-> NoAccount]

(* newAccountIter.                                                           *)
Start(r) ==
  /\ pc[r] = "idle"
  /\ \E s \in Sessions : session' = [session EXCEPT ![r] = s]
  /\ Goto(r, "collect")
  /\ UNCHANGED <<cacheVars, ready, tried, cands, picked>>

(* The handler returns and its iterator is dropped.                          *)
Leave(r) ==
  /\ Goto(r, "idle")
  /\ session' = [session EXCEPT ![r] = [primary |-> NoKey, fallback |-> NoKey]]
  /\ tried' = [tried EXCEPT ![r] = {}]
  /\ cands' = [cands EXCEPT ![r] = {}]
  /\ picked' = [picked EXCEPT ![r] = NoAccount]

(* collectReady.                                                             *)
Collect(r) ==
  /\ pc[r] = "collect"
  /\ IF ready \subseteq tried[r]
     THEN Leave(r)
     ELSE /\ cands' = [cands EXCEPT ![r] = ready \ tried[r]]
          /\ Goto(r, IF Pinning(r) THEN "lookup" ELSE "choose")
          /\ UNCHANGED <<session, tried, picked>>
  /\ UNCHANGED <<cacheVars, ready>>

AfterPrimary(r) == IF session[r].fallback = NoKey THEN "choose" ELSE "fallback"

(* GetAndRefresh of the primary key.                                         *)
LookupPrimary(r) ==
  /\ pc[r] = "lookup"
  /\ LET k == session[r].primary IN
       \/ /\ live[k]
          /\ Refresh(k)
          /\ picked' = [picked EXCEPT ![r] = bound[k]]
          /\ Goto(r, IF bound[k] \in cands[r] THEN "bind" ELSE "invalidate")
       \/ /\ ~live[k]
          /\ IF bound[k] = NoAccount THEN UNCHANGED cacheVars ELSE RemoveGroup(k)
          /\ Goto(r, AfterPrimary(r))
          /\ UNCHANGED picked
  /\ UNCHANGED <<ready, session, tried, cands>>

(* The bound account is no candidate of this request: every session bound to *)
(* it is unbound.                                                            *)
InvalidateStale(r) ==
  /\ pc[r] = "invalidate"
  /\ InvalidateAuth(picked[r])
  /\ Goto(r, AfterPrimary(r))
  /\ UNCHANGED <<ready, session, tried, cands, picked>>

(* Get of the fallback key.                                                  *)
LookupFallback(r) ==
  /\ pc[r] = "fallback"
  /\ LET k == session[r].fallback IN
       /\ IF bound[k] = NoAccount \/ live[k] THEN UNCHANGED cacheVars ELSE RemoveGroup(k)
       /\ IF live[k] /\ bound[k] \in cands[r]
          THEN picked' = [picked EXCEPT ![r] = bound[k]] /\ Goto(r, "bind")
          ELSE Goto(r, "choose") /\ UNCHANGED picked
  /\ UNCHANGED <<ready, session, tried, cands>>

(* highestPriority, warm preference and the strategy pick some candidate.    *)
Choose(r) ==
  /\ pc[r] = "choose"
  /\ \E a \in cands[r] : picked' = [picked EXCEPT ![r] = a]
  /\ Goto(r, "bind")
  /\ UNCHANGED <<cacheVars, ready, session, tried, cands>>

Bind(r) ==
  /\ pc[r] = "bind"
  /\ IF Pinning(r) THEN SetAliases(Ids(r), picked[r]) ELSE UNCHANGED cacheVars
  /\ cands' = [cands EXCEPT ![r] = {}]
  /\ Goto(r, "acquire")
  /\ UNCHANGED <<ready, session, tried, picked>>

(* accountIter.Next takes a slot, or picks again when the account is full.   *)
Acquire(r) ==
  /\ pc[r] = "acquire"
  /\ \/ Goto(r, "serving") /\ tried' = [tried EXCEPT ![r] = @ \cup {picked[r]}]
     \/ picked[r] \notin ready /\ Goto(r, "collect") /\ UNCHANGED tried
  /\ UNCHANGED <<cacheVars, ready, session, cands, picked>>

(* The round on the account ends: the handler returns, retries (an empty     *)
(* completion), or notes a failure that cools the account.                   *)
Served(r) ==
  /\ pc[r] = "serving"
  /\ \/ Leave(r)
     \/ \E l \in {"collect", "forget"} :
          Goto(r, l) /\ UNCHANGED <<session, tried, cands, picked>>
  /\ UNCHANGED <<cacheVars, ready>>

(* noteAccount after a failure with Cool; the handler retries or returns.    *)
NoteAccount(r) ==
  /\ pc[r] = "forget"
  /\ InvalidateAuth(picked[r])
  /\ Leave(r) \/ (Goto(r, "collect") /\ UNCHANGED <<session, tried, cands, picked>>)
  /\ UNCHANGED ready

(* Accounts fill up, are switched off, lose a token, and come back.          *)
ReadinessChanges(a) ==
  /\ ready' = IF a \in ready THEN ready \ {a} ELSE ready \cup {a}
  /\ UNCHANGED <<cacheVars, requestVars>>

(* The TTL of an entry runs out, for all its aliases at once.                *)
Expire(k) ==
  /\ live[k]
  /\ live' = [j \in Keys |-> live[j] /\ ~(bound[j] = bound[k] /\ group[j] = group[k])]
  /\ UNCHANGED <<bound, group, ready, requestVars>>

PickStep(r) ==
  \/ Collect(r) \/ LookupPrimary(r) \/ InvalidateStale(r) \/ LookupFallback(r)
  \/ Choose(r) \/ Bind(r)

Next ==
  \/ \E r \in Requests :
       Start(r) \/ PickStep(r) \/ Acquire(r) \/ Served(r) \/ NoteAccount(r)
  \/ \E a \in Accounts : ReadinessChanges(a)
  \/ \E k \in Keys : Expire(k)

Spec == Init /\ [][Next]_vars
-----------------------------------------------------------------------------
Labels == {"idle", "collect", "lookup", "invalidate", "fallback", "choose",
           "bind", "acquire", "serving", "forget"}

TypeOK ==
  /\ bound \in [Keys -> Accounts \cup {NoAccount}]
  /\ group \in [Keys -> SUBSET Keys]
  /\ live \in [Keys -> BOOLEAN]
  /\ ready \in SUBSET Accounts
  /\ pc \in [Requests -> Labels]
  /\ session \in [Requests -> [primary : Keys \cup {NoKey}, fallback : Keys \cup {NoKey}]]
  /\ tried \in [Requests -> SUBSET Accounts]
  /\ cands \in [Requests -> SUBSET Accounts]
  /\ picked \in [Requests -> Accounts \cup {NoAccount}]

(* The alias groups partition the bound keys: every alias of an entry has    *)
(* that very entry, so a group is refreshed, expires, moves and is removed   *)
(* as one.                                                                   *)
GroupsClosed ==
  \A k \in Keys :
    IF bound[k] = NoAccount
    THEN group[k] = {} /\ ~live[k]
    ELSE /\ k \in group[k]
         /\ \A j \in group[k] :
              bound[j] = bound[k] /\ group[j] = group[k] /\ live[j] = live[k]

(* Identifiers once bound together part only by expiry: whatever moves or    *)
(* unbinds one of them while the binding lasts, also by way of a third       *)
(* identifier, does it to all.                                               *)
NeverSplit ==
  [][\A k \in Keys : live[k] => \A j \in group[k] : bound'[j] = bound'[k]]_vars

(* A session loses a live binding only when its account is given up for all  *)
(* sessions: nobody's clean-up of an expired group takes a live one along.   *)
LostOnlyWithAccount ==
  [][\A k \in Keys : live[k] /\ bound'[k] = NoAccount
        => \A j \in Keys : bound'[j] # bound[k]]_vars

(* Pick: "bound and still usable: pinned".  A session on a ready account     *)
(* stays there unless a request on that account fails, or a request of the   *)
(* session itself has been served there.                                     *)
PinnedWhileReady ==
  [][\A k \in Keys : live[k] /\ bound[k] \in ready /\ bound'[k] = NoAccount
        => \E r \in Requests : (pc[r] = "forget" \/ k \in Ids(r)) /\ pc'[r] # pc[r]]_vars
=============================================================================
