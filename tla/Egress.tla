------------------------------- MODULE Egress -------------------------------
(* Which way the requests of an account leave the process: the store of      *)
(* exits (proxypool/store.go), the resolver (api/egress_resolve.go), and how *)
(* a way is put into the clients of the accounts (pool.RefreshEgress,        *)
(* Account.ApplyEgress, egress.HTTPClient).                                  *)
(*                                                                           *)
(* An exit is its kind, the URL for that kind, and whether it is enabled and *)
(* the default; names, platforms, notes and probe results are left out.  A   *)
(* way is the kind, the exit it comes from, and the URL.                     *)
EXTENDS Naturals, Sequences, FiniteSets, SequencesExt

CONSTANTS
  Accounts, First, \* accounts that may be in the pool, and the one that is
  Own,             \* accounts with a proxy_url of their own, which stays
  Exits, NoExit,   \* ids of exits
  Configured,      \* the process was started with a proxy URL
  Admins,          \* handlers of the administration that run at a time
  MaxChanges       \* bound: changes of exits, pins and settings

ASSUME EgressAssumption ==
  /\ First \in Accounts /\ Own \subseteq Accounts
  /\ Configured \in BOOLEAN /\ NoExit \notin Exits /\ MaxChanges \in Nat

VARIABLES
  exits,     \* the exits in memory, and in the document
  pin,       \* proxyID of every account
  settings,  \* RuntimeConfig: Resin, a global proxy, or neither
  members,   \* accounts in the pool
  way,       \* per account, the way of its client and of its token manager
  job,       \* per handler: its step, accounts still to refresh, the way read
  adding,    \* the account that is being added under the lock of the pool
  past       \* history: changes, whether two handlers overlapped, and whether
             \* a document could not be saved

egressVars == <<exits, pin, settings, members, way, job, adding, past>>

Way(kind, from, url) == [kind |-> kind, from |-> from, url |-> url]
Direct  == Way("direct", NoExit, "none")
OwnWay  == Way("http", NoExit, "own")
LastWay == IF Configured THEN Way("http", NoExit, "configured") ELSE Direct

(* A URL that url.Parse refuses is not told from a good one; an exit that    *)
(* needs a URL and has none is refused by Create, not by Patch.              *)
Addresses == {<<"direct", "none">>, <<"http", "good">>, <<"http", "bad">>, <<"resin", "good">>}
Patches == Addresses \cup {<<"http", "none">>, <<"resin", "none">>}

Idle == [step |-> "idle", rounds |-> 0, todo |-> <<>>, read |-> Direct]
Refreshing(rounds) == [step |-> "snapshot", rounds |-> rounds, todo |-> <<>>, read |-> Direct]

EgressInit ==
  /\ exits = [memory |-> <<>>, document |-> <<>>]
  /\ pin = [a \in Accounts |-> NoExit] /\ settings = "none"
  /\ members = <<First>>
  /\ way = [a \in Accounts |->
       LET w == IF a \in Own THEN OwnWay ELSE LastWay
       IN [client |-> w, tokens |-> w]]
  /\ job = [m \in Admins |-> Idle] /\ adding = [acc |-> NoExit, read |-> Direct]
  /\ past = [changes |-> 0, overlap |-> FALSE, unsaved |-> FALSE]
-----------------------------------------------------------------------------
Defaults(table) == {id \in DOMAIN table : table[id].default /\ table[id].enabled}
SettingsFor(id) == LET p == exits.memory[id] IN Way(p.kind, id, p.url)

(* resolveAccountEgress: the exit the account is pinned to, its own URL, the *)
(* default, the settings, the proxy of the process; an exit that is gone or  *)
(* disabled is passed over.                                                  *)
Resolve(a) ==
  LET table == exits.memory IN
  CASE pin[a] \in DOMAIN table /\ table[pin[a]].enabled -> SettingsFor(pin[a])
    [] OTHER ->
       IF a \in Own THEN OwnWay ELSE
       IF Defaults(table) # {} THEN SettingsFor(CHOOSE id \in Defaults(table) : TRUE)
       ELSE IF settings = "none" THEN LastWay ELSE Way(settings, NoExit, "good")

(* HTTPClient: an HTTP exit without a URL goes out directly; one that does   *)
(* not parse leaves the client what it was.  Resin without a URL fails every *)
(* request (RewriteURL).                                                     *)
Client(w, old) ==
  CASE w.kind = "http" /\ w.url = "none" -> Direct
    [] w.kind = "http" /\ w.url = "bad"  -> old
    [] OTHER -> w

(* mutant of Stored: the default that was is kept *)
StoredKeepingDefault(id, p) ==
  [x \in DOMAIN exits.memory \cup {id} |-> IF x = id THEN p ELSE exits.memory[x]]

(* clearDefaultLocked: a new default takes the place of the old one.         *)
Stored(id, p) ==
  [x \in DOMAIN exits.memory \cup {id} |->
     IF x = id THEN p
     ELSE [exits.memory[x] EXCEPT !.default = @ /\ ~p.default]]

Free(m) == job[m].step = "idle" /\ past.changes < MaxChanges
Begins(m, work) ==
  /\ job' = [job EXCEPT ![m] = work]
  /\ past' = [past EXCEPT !.changes = @ + 1,
                          !.overlap = @ \/ \E n \in Admins : job[n].step # "idle"]

(* saveLocked comes after the change in memory; if it fails the handler ends *)
(* with an error and refreshes nobody.                                       *)
Keep(m, table) ==
  /\ \/ exits' = [memory |-> table, document |-> table] /\ Begins(m, Refreshing(1))
     \/ /\ exits' = [exits EXCEPT !.memory = table] /\ UNCHANGED job
        /\ past' = [past EXCEPT !.changes = @ + 1, !.unsaved = TRUE]
  /\ UNCHANGED <<pin, settings, members, way, adding>>

CreateExit(m, id) ==
  /\ Free(m) /\ id \notin DOMAIN exits.memory
  /\ \E x \in Addresses, default \in BOOLEAN :
       Keep(m, Stored(id, [kind |-> x[1], url |-> x[2], enabled |-> TRUE,
                           default |-> default]))

PatchExit(m, id) ==
  /\ Free(m) /\ id \in DOMAIN exits.memory
  /\ LET p == exits.memory[id] IN
     \/ Keep(m, Stored(id, [p EXCEPT !.enabled = ~@]))
     \/ Keep(m, Stored(id, [p EXCEPT !.default = ~@]))
     \/ \E x \in Patches \ {<<p.kind, p.url>>} :
          Keep(m, Stored(id, [p EXCEPT !.kind = x[1], !.url = x[2]]))

(* Pins to the exit that was are left as they are.                           *)
DeleteExit(m, id) ==
  /\ Free(m) /\ id \in DOMAIN exits.memory
  /\ Keep(m, [x \in DOMAIN exits.memory \ {id} |-> exits.memory[x]])

(* ApplyAdminPatch, and RefreshAccountEgress for this account.               *)
PinAccount(m, a, id) ==
  /\ Free(m) /\ a \in ToSet(members) /\ pin[a] # id
  /\ pin' = [pin EXCEPT ![a] = id]
  /\ Begins(m, [Refreshing(1) EXCEPT !.step = "read", !.todo = <<a>>])
  /\ UNCHANGED <<exits, settings, members, way, adding>>

(* applyRuntimeSideEffects refreshes everybody twice.                        *)
ChangeSettings(m) ==
  /\ Free(m)
  /\ settings' \in {"none", "resin", "http"} \ {settings}
  /\ Begins(m, Refreshing(2))
  /\ UNCHANGED <<exits, pin, members, way, adding>>
-----------------------------------------------------------------------------
(* AddAPIKey: under the lock of the pool the way is read and applied and the *)
(* account appended.                                                         *)
Unlocked == adding.acc = NoExit

AddBegins(a) ==
  /\ Unlocked /\ a \notin ToSet(members)
  /\ adding' = [acc |-> a, read |-> Resolve(a)]
  /\ UNCHANGED <<exits, pin, settings, members, way, job, past>>

AddEnds ==
  /\ ~Unlocked
  /\ LET w == Client(adding.read, Direct) IN
     way' = [way EXCEPT ![adding.acc] = [client |-> w, tokens |-> w]]
  /\ members' = Append(members, adding.acc)
  /\ adding' = [acc |-> NoExit, read |-> Direct]
  /\ UNCHANGED <<exits, pin, settings, job, past>>

(* mutant of TakeMembers: the members are read without the lock *)
TakeMembersUnlocked(m) ==
  /\ job[m].step = "snapshot"
  /\ job' = [job EXCEPT ![m].step = "read", ![m].todo = members]
  /\ UNCHANGED <<exits, pin, settings, members, way, adding, past>>

(* RefreshEgress: for every member the way is read (which takes the lock     *)
(* again, to read the resolver), then the client and the token manager get   *)
(* it.                                                                       *)
TakeMembers(m) ==
  /\ job[m].step = "snapshot" /\ Unlocked
  /\ job' = [job EXCEPT ![m].step = "read", ![m].todo = members]
  /\ UNCHANGED <<exits, pin, settings, members, way, adding, past>>

ReadWay(m) ==
  /\ job[m].step = "read" /\ job[m].todo # <<>> /\ Unlocked
  /\ job' = [job EXCEPT ![m].step = "client", ![m].read = Resolve(Head(job[m].todo))]
  /\ UNCHANGED <<exits, pin, settings, members, way, adding, past>>

SetEgress(m) ==
  /\ job[m].step = "client"
  /\ way' = [way EXCEPT ![Head(job[m].todo)].client = Client(job[m].read, @)]
  /\ job' = [job EXCEPT ![m].step = "tokens"]
  /\ UNCHANGED <<exits, pin, settings, members, adding, past>>

SetHTTPClient(m) ==
  /\ job[m].step = "tokens"
  /\ way' = [way EXCEPT ![Head(job[m].todo)].tokens = Client(job[m].read, @)]
  /\ job' = [job EXCEPT ![m].step = "read", ![m].todo = Tail(@), ![m].read = Direct]
  /\ UNCHANGED <<exits, pin, settings, members, adding, past>>

RefreshEnds(m) ==
  /\ job[m].step = "read" /\ job[m].todo = <<>>
  /\ job' = [job EXCEPT ![m] = IF @.rounds > 1 THEN Refreshing(1) ELSE Idle]
  /\ UNCHANGED <<exits, pin, settings, members, way, adding, past>>

EgressNext ==
  \/ AddEnds \/ \E a \in Accounts : AddBegins(a)
  \/ \E m \in Admins :
       \/ ChangeSettings(m)
       \/ \E id \in Exits : CreateExit(m, id) \/ PatchExit(m, id) \/ DeleteExit(m, id)
       \/ \E a \in Accounts, id \in Exits \cup {NoExit} : PinAccount(m, a, id)
       \/ TakeMembers(m) \/ ReadWay(m) \/ SetEgress(m) \/ SetHTTPClient(m) \/ RefreshEnds(m)

EgressSpec == EgressInit /\ [][EgressNext]_egressVars
-----------------------------------------------------------------------------
AtRest == Unlocked /\ \A m \in Admins : job[m].step = "idle"
Follows(a) ==
  LET w == Resolve(a) IN
  \A w2 \in {way[a].client, way[a].tokens} : w2 = Client(w, w2)

(* There is never more than one default, in memory and in the document, so   *)
(* the range over a map in Default finds the same exit every time.           *)
OneDefault ==
  \A table \in {exits.memory, exits.document} :
    Cardinality({id \in DOMAIN table : table[id].default}) <= 1

(* When no two handlers overlapped and every document was saved, all members *)
(* of the pool, those added while exits changed included, leave by the way   *)
(* the exits, pins and settings say, requests and token refreshes alike.     *)
SettledWays ==
  AtRest /\ ~past.overlap /\ ~past.unsaved => \A a \in ToSet(members) : Follows(a)

(* Exits decide ways: one default, and everybody follows.                    *)
WaysFollow == OneDefault /\ SettledWays

(* The same for handlers that overlap.  Fails: the one that read the older   *)
(* way may apply it last.                                                    *)
LastChangeApplies ==
  AtRest /\ ~past.unsaved => \A a \in ToSet(members) : Follows(a)

(* An account whose exit is a proxy does not go out directly.  Fails: Patch  *)
(* may take the URL of an HTTP exit away.                                    *)
NeverAround ==
  AtRest /\ ~past.overlap /\ ~past.unsaved =>
    \A a \in ToSet(members) : Resolve(a).kind # "direct" => way[a].client.kind # "direct"

(* What a handler refused has not happened.  Fails: the exits in memory have *)
(* changed when the document cannot be saved, and nobody is refreshed.       *)
RefusedIsUndone == exits.memory = exits.document
=============================================================================
