--------------------------- MODULE OperationsProofs ---------------------------
(* Proofs about the administration and what it sets: the exits, the limits   *)
(* of an account, the log, the meters, the settings; and about the           *)
(* translation of tool calls.                                                *)
EXTENDS MCOperations, SumProofs, TLAPS, FiniteSetTheorems, SequenceTheorems

-----------------------------------------------------------------------------
(* The exits (Egress).                                                       *)

Kinds  == {"direct", "http", "resin"}
Urls   == {"none", "good", "bad", "own", "configured"}
Ways   == [kind : Kinds, from : Exits \cup {NoExit}, url : Urls]
Pairs  == [client : Ways, tokens : Ways]
Exit   == [kind : Kinds, url : Urls, enabled : BOOLEAN, default : BOOLEAN]
Tables == UNION {[D -> Exit] : D \in SUBSET Exits}

Pasts == [changes : Nat, overlap : BOOLEAN, unsaved : BOOLEAN]

(* A handler with a way at hand has an account to give it to.                *)
HandlerSteps == {"idle", "snapshot", "read", "client", "tokens"}
Job == {j \in [step : HandlerSteps, rounds : Nat, todo : Seq(Accounts), read : Ways] :
          j.step \in {"client", "tokens"} => j.todo # <<>>}

EgressTypeOK ==
  /\ exits \in [memory : Tables, document : Tables]
  /\ pin \in [Accounts -> Exits \cup {NoExit}]
  /\ settings \in {"none", "resin", "http"}
  /\ members \in Seq(Accounts)
  /\ way \in [Accounts -> Pairs]
  /\ job \in [Admins -> Job]
  /\ adding.acc \in Accounts \cup {NoExit} /\ adding.read \in Ways
  /\ past \in Pasts

Single(t) == \A x, y \in DOMAIN t : t[x].default /\ t[y].default => x = y

(* A handler at work on the first account it has to refresh.                 *)
Busy(m) == job[m].step # "idle"
Works(m) ==
  LET a == Head(job[m].todo) IN
  /\ job[m].step \in {"client", "tokens"} => job[m].read = Resolve(a)
  /\ job[m].step = "tokens" => way[a].client = Client(Resolve(a), way[a].client)

(* As long as the handlers come one after the other, whoever does not follow *)
(* is still to be refreshed, unless the members are still to be looked up;   *)
(* and an account that is being added will follow.                           *)
OneAtATime == \A m, n \in Admins : Busy(m) /\ Busy(n) => m = n
LookedUp == \A m \in Admins : job[m].step # "snapshot"
Awaits(a) == \E m \in Admins : Busy(m) /\ a \in ToSet(job[m].todo)

CaughtUp ==
  /\ ~Unlocked => adding.read = Resolve(adding.acc)
  /\ \A a \in ToSet(members) : Follows(a) \/ Awaits(a)

EgressInv ==
  /\ EgressTypeOK /\ Single(exits.memory) /\ Single(exits.document)
  /\ ~Unlocked => adding.acc \notin ToSet(members)
  /\ ~past.overlap /\ ~past.unsaved =>
       OneAtATime /\ (LookedUp => CaughtUp) /\ \A m \in Admins : Works(m)

LEMMA WayFields ==
  ASSUME NEW k \in Kinds, NEW f \in Exits \cup {NoExit}, NEW u \in Urls
  PROVE  /\ Way(k, f, u) \in Ways /\ Way(k, f, u).kind = k /\ Way(k, f, u).url = u
         /\ Way(k, f, u).from = f
BY DEF Way, Ways

LEMMA DirectWay == Direct \in Ways /\ Direct.kind = "direct"
BY WayFields DEF Direct, Kinds, Urls

LEMMA FixedWays ==
  \A w \in {OwnWay, LastWay} : w \in Ways /\ \A old : Client(w, old) = w
<1>1. ASSUME NEW k \in {"http", "direct"}, NEW u \in {"own", "configured", "none"},
             k = "http" => u # "none"
      PROVE  Way(k, NoExit, u) \in Ways /\ \A old : Client(Way(k, NoExit, u), old) = Way(k, NoExit, u)
  <2>1. k \in Kinds /\ u \in Urls
    BY DEF Kinds, Urls
  <2>2. Way(k, NoExit, u).kind = k /\ Way(k, NoExit, u).url = u /\ Way(k, NoExit, u) \in Ways
    BY <2>1, WayFields
  <2> QED
    BY <1>1, <2>2 DEF Client
<1> QED
  BY <1>1 DEF OwnWay, LastWay, Direct

LEMMA ExitFields ==
  \A p \in Exit : /\ p.kind \in Kinds /\ p.url \in Urls
                  /\ p.enabled \in BOOLEAN /\ p.default \in BOOLEAN
BY DEF Exit

LEMMA TableFields ==
  /\ \A e \in [memory : Tables, document : Tables] : e.memory \in Tables /\ e.document \in Tables
  /\ \A t \in Tables : DOMAIN t \in SUBSET Exits /\ \A id \in DOMAIN t : t[id] \in Exit
BY DEF Tables

LEMMA ExitsFields ==
  ASSUME NEW e \in [memory : Tables, document : Tables], NEW t \in Tables
  PROVE  /\ [memory |-> t, document |-> t] \in [memory : Tables, document : Tables]
         /\ [memory |-> t, document |-> t].memory = t
         /\ [memory |-> t, document |-> t].document = t
         /\ [e EXCEPT !.memory = t] \in [memory : Tables, document : Tables]
         /\ [e EXCEPT !.memory = t].memory = t
         /\ [e EXCEPT !.memory = t].document = e.document
OBVIOUS

LEMMA PastFields ==
  ASSUME NEW h \in Pasts
  PROVE  h.changes \in Nat /\ h.overlap \in BOOLEAN /\ h.unsaved \in BOOLEAN
BY DEF Pasts

LEMMA PastUnsaved ==
  ASSUME NEW h \in Pasts, NEW n \in Nat, NEW b \in BOOLEAN
  PROVE  LET g == [h EXCEPT !.changes = n, !.unsaved = b]
         IN  g \in Pasts /\ g.unsaved = b
BY DEF Pasts

(* HTTPClient, applied twice, does what it does once.                        *)
LEMMA ClientTwice ==
  ASSUME NEW w \in Ways, NEW old \in Ways
  PROVE  Client(w, old) \in Ways /\ Client(w, Client(w, old)) = Client(w, old)
BY DirectWay DEF Client, Kinds

LEMMA PairFields ==
  ASSUME NEW p \in Pairs, NEW w \in Ways
  PROVE  /\ p.client \in Ways /\ p.tokens \in Ways
         /\ [p EXCEPT !.client = w] \in Pairs
         /\ [p EXCEPT !.client = w].client = w /\ [p EXCEPT !.client = w].tokens = p.tokens
         /\ [p EXCEPT !.tokens = w] \in Pairs
         /\ [p EXCEPT !.tokens = w].client = p.client /\ [p EXCEPT !.tokens = w].tokens = w
         /\ [client |-> w, tokens |-> w] \in Pairs
         /\ [client |-> w, tokens |-> w].client = w /\ [client |-> w, tokens |-> w].tokens = w
BY DEF Pairs

LEMMA ResolveIsWay ==
  ASSUME EgressTypeOK, NEW a \in Accounts
  PROVE  Resolve(a) \in Ways
<1> DEFINE t == exits.memory
           d == CHOOSE id \in Defaults(t) : TRUE
<1>1. \A id \in DOMAIN t : SettingsFor(id) \in Ways
  <2> SUFFICES ASSUME NEW id \in DOMAIN t PROVE SettingsFor(id) \in Ways
    OBVIOUS
  <2>1. t[id] \in Exit /\ id \in Exits
    BY TableFields DEF EgressTypeOK
  <2> QED
    BY <2>1, ExitFields, WayFields DEF SettingsFor
<1>2. Defaults(t) # {} => d \in DOMAIN t
  BY DEF Defaults
<1>3. OwnWay \in Ways /\ LastWay \in Ways /\ \A k \in Kinds : Way(k, NoExit, "good") \in Ways
  BY FixedWays, WayFields DEF Urls
<1>4. "http" \in Kinds /\ "resin" \in Kinds /\ settings \in {"none", "resin", "http"}
  BY DEF EgressTypeOK, Kinds
<1> HIDE DEF d
<1>5. CASE pin[a] \in DOMAIN t /\ t[pin[a]].enabled
  BY <1>1, <1>5 DEF Resolve
<1>6. CASE ~(pin[a] \in DOMAIN t /\ t[pin[a]].enabled)
  BY <1>1, <1>2, <1>3, <1>4, <1>6 DEF Resolve, d
<1> QED
  BY <1>5, <1>6

(* What decides a way.                                                       *)
LEMMA SameWays ==
  ASSUME UNCHANGED <<exits, settings>>, NEW a, pin'[a] = pin[a]
  PROVE  Resolve(a)' = Resolve(a)
BY DEF Resolve, Defaults, SettingsFor

LEMMA ToSetOf ==
  ASSUME NEW S, NEW s \in Seq(S)
  PROVE  /\ ToSet(s) \in SUBSET S
         /\ s # <<>> => /\ Head(s) \in S /\ Tail(s) \in Seq(S)
                        /\ \A x \in ToSet(s) : x = Head(s) \/ x \in ToSet(Tail(s))
         /\ \A x : x \in S => /\ Append(s, x) \in Seq(S)
                              /\ ToSet(Append(s, x)) = ToSet(s) \cup {x}
         /\ ToSet(<<>>) = {}
<1>1. ToSet(s) \in SUBSET S
  BY DEF ToSet
<1>2. ASSUME s # <<>>
      PROVE  /\ Head(s) \in S /\ Tail(s) \in Seq(S)
             /\ \A x \in ToSet(s) : x = Head(s) \/ x \in ToSet(Tail(s))
  <2>1. Head(s) \in S /\ Tail(s) \in Seq(S)
    BY <1>2
  <2>2. ASSUME NEW i \in DOMAIN s, i # 1 PROVE s[i] \in ToSet(Tail(s))
    <3>1. i - 1 \in DOMAIN Tail(s) /\ Tail(s)[i - 1] = s[i]
      BY <1>2, <2>2
    <3> QED
      BY <3>1 DEF ToSet
  <2>3. s[1] = Head(s)
    BY <1>2
  <2> QED
    BY <2>1, <2>2, <2>3 DEF ToSet
<1>3. ASSUME NEW x \in S
      PROVE  Append(s, x) \in Seq(S) /\ ToSet(Append(s, x)) = ToSet(s) \cup {x}
  <2>1. Append(s, x) \in Seq(S) /\ Len(Append(s, x)) = Len(s) + 1
    OBVIOUS
  <2>2. \A i \in DOMAIN s : i \in DOMAIN Append(s, x) /\ Append(s, x)[i] = s[i]
    OBVIOUS
  <2>3. Len(s) + 1 \in DOMAIN Append(s, x) /\ Append(s, x)[Len(s) + 1] = x
    OBVIOUS
  <2>4. \A i \in DOMAIN Append(s, x) : i \in DOMAIN s \/ i = Len(s) + 1
    OBVIOUS
  <2> QED
    BY <2>1, <2>2, <2>3, <2>4 DEF ToSet
<1>4. ToSet(<<>>) = {}
  BY DEF ToSet
<1> QED
  BY <1>1, <1>2, <1>3, <1>4

LEMMA JobFields ==
  ASSUME NEW j \in Job
  PROVE  /\ j.step \in HandlerSteps /\ j.rounds \in Nat /\ j.todo \in Seq(Accounts) /\ j.read \in Ways
         /\ j.step \in {"client", "tokens"} => j.todo # <<>>
BY DEF Job

LEMMA NewJobs ==
  /\ Idle \in Job /\ Idle.step = "idle" /\ Idle.todo = <<>>
  /\ \A n \in Nat : /\ Refreshing(n) \in Job /\ Refreshing(n).step = "snapshot"
                    /\ Refreshing(n).todo = <<>>
BY DirectWay DEF Idle, Refreshing, Job, HandlerSteps

(* A new default takes the place of the old one.                             *)
LEMMA StoredTable ==
  ASSUME EgressTypeOK, Single(exits.memory), NEW id \in Exits, NEW p \in Exit
  PROVE  Stored(id, p) \in Tables /\ Single(Stored(id, p))
<1> DEFINE t == exits.memory
           u == Stored(id, p)
           q(x) == [t[x] EXCEPT !.default = @ /\ ~p.default]
<1>1. t \in Tables /\ DOMAIN t \in SUBSET Exits /\ \A x \in DOMAIN t : t[x] \in Exit
  BY TableFields DEF EgressTypeOK
<1>2. \A x \in DOMAIN t : q(x) \in Exit /\ (q(x).default <=> t[x].default /\ ~p.default)
  <2> SUFFICES ASSUME NEW x \in DOMAIN t
               PROVE  q(x) \in Exit /\ (q(x).default <=> t[x].default /\ ~p.default)
    OBVIOUS
  <2>1. ASSUME NEW b \in BOOLEAN
        PROVE  [t[x] EXCEPT !.default = b] \in Exit /\ [t[x] EXCEPT !.default = b].default = b
    BY <1>1 DEF Exit
  <2>2. (t[x].default /\ ~p.default) \in BOOLEAN
    BY <1>1, ExitFields
  <2> QED
    BY <2>1, <2>2
<1> HIDE DEF q
<1>3. u = [x \in DOMAIN t \cup {id} |-> IF x = id THEN p ELSE q(x)]
  BY DEF Stored, q
<1>4. DOMAIN u \in SUBSET Exits /\ DOMAIN u = DOMAIN t \cup {id}
  BY <1>1, <1>3
<1>5. \A x \in DOMAIN u : u[x] \in Exit
  BY <1>2, <1>3
<1>6. u \in [DOMAIN u -> Exit]
  BY <1>3, <1>5
<1>7. u \in Tables
  BY <1>4, <1>6 DEF Tables
<1>8. u[id] = p /\ \A x \in DOMAIN t : x # id => u[x] = q(x)
  BY <1>3
<1> HIDE DEF u
<1>9. Single(u)
  <2> SUFFICES ASSUME NEW x \in DOMAIN u, NEW y \in DOMAIN u, u[x].default, u[y].default
               PROVE  x = y
    BY DEF Single
  <2>1. CASE x = id /\ y # id
    BY <1>2, <1>4, <1>8, <2>1
  <2>2. CASE y = id /\ x # id
    BY <1>2, <1>4, <1>8, <2>2
  <2>3. CASE x # id /\ y # id
    BY <1>2, <1>4, <1>8, <2>3 DEF Single
  <2> QED
    BY <2>1, <2>2, <2>3
<1> QED
  BY <1>7, <1>9 DEF u

LEMMA DeletedTable ==
  ASSUME EgressTypeOK, Single(exits.memory), NEW id
  PROVE  LET u == [x \in DOMAIN exits.memory \ {id} |-> exits.memory[x]]
         IN  u \in Tables /\ Single(u)
<1> DEFINE t == exits.memory
           u == [x \in DOMAIN t \ {id} |-> t[x]]
<1>1. t \in Tables /\ DOMAIN t \in SUBSET Exits /\ \A x \in DOMAIN t : t[x] \in Exit
  BY TableFields DEF EgressTypeOK
<1>2. DOMAIN u \in SUBSET Exits /\ u \in [DOMAIN u -> Exit]
  BY <1>1
<1>3. u \in Tables
  BY <1>2 DEF Tables
<1>4. Single(u)
  BY DEF Single
<1> QED
  BY <1>3, <1>4

LEMMA BeginsAlone ==
  ASSUME EgressTypeOK, NEW m \in Admins, NEW w \in Job, Begins(m, w)
  PROVE  /\ job' \in [Admins -> Job] /\ past' \in Pasts
         /\ job'[m] = w /\ \A n \in Admins \ {m} : job'[n] = job[n]
         /\ ~past'.overlap /\ ~past'.unsaved =>
              ~past.overlap /\ ~past.unsaved /\ \A n \in Admins : ~Busy(n)
<1>1. job \in [Admins -> Job] /\ past \in Pasts
  BY DEF EgressTypeOK
<1>2. past.changes \in Nat /\ past.overlap \in BOOLEAN
  BY <1>1, PastFields
<1>3. PICK b \in BOOLEAN : b = (past.overlap \/ \E n \in Admins : job[n].step # "idle")
  BY <1>2
<1>4. PICK k \in Nat : k = past.changes + 1
  BY <1>2
<1>5. past' = [past EXCEPT !.changes = k, !.overlap = b]
  BY <1>1, <1>3, <1>4 DEF Begins, Pasts
<1>6. past' \in Pasts /\ past'.overlap = b /\ past'.unsaved = past.unsaved
  <2>1. past' \in Pasts
    BY <1>1, <1>5 DEF Pasts
  <2>2. past'.overlap = b
    BY <1>1, <1>5 DEF Pasts
  <2>3. past'.unsaved = past.unsaved
    BY <1>1, <1>5 DEF Pasts
  <2> QED
    BY <2>1, <2>2, <2>3
<1>7. ~past'.overlap /\ ~past'.unsaved =>
        ~past.overlap /\ ~past.unsaved /\ \A n \in Admins : ~Busy(n)
  BY <1>3, <1>6 DEF Busy
<1> QED
  BY <1>1, <1>6, <1>7 DEF Begins

(* A handler that will refresh everybody.                                    *)
LEMMA BeginsAnew ==
  ASSUME EgressInv, NEW m \in Admins, NEW n \in Nat, Begins(m, Refreshing(n)),
         EgressTypeOK', Single(exits.memory)', Single(exits.document)',
         UNCHANGED <<members, adding>>
  PROVE  EgressInv'
<1>1. EgressTypeOK
  BY DEF EgressInv
<1>2. Refreshing(n) \in Job /\ Refreshing(n).step = "snapshot"
  BY NewJobs
<1>3. /\ job'[m] = Refreshing(n) /\ \A k \in Admins \ {m} : job'[k] = job[k]
      /\ ~past'.overlap /\ ~past'.unsaved => \A k \in Admins : ~Busy(k)
  BY <1>1, <1>2, BeginsAlone
<1>4. (~Unlocked => adding.acc \notin ToSet(members))'
  BY DEF EgressInv, Unlocked
<1>5. ASSUME ~past'.overlap, ~past'.unsaved
      PROVE  OneAtATime' /\ ~LookedUp' /\ \A k \in Admins : Works(k)'
  <2>1. \A k \in Admins \ {m} : job'[k].step = "idle"
    BY <1>3, <1>5 DEF Busy
  <2>2. job'[m].step = "snapshot"
    BY <1>2, <1>3
  <2>3. OneAtATime' /\ ~LookedUp'
    BY <2>1, <2>2 DEF OneAtATime, Busy, LookedUp
  <2>4. \A k \in Admins : Works(k)'
    BY <2>1, <2>2 DEF Works
  <2> QED
    BY <2>3, <2>4
<1> QED
  BY <1>4, <1>5 DEF EgressInv

LEMMA KeepKeeps ==
  ASSUME EgressInv, NEW m \in Admins, NEW t \in Tables, Single(t), Keep(m, t)
  PROVE  EgressInv'
<1>1. EgressTypeOK /\ exits \in [memory : Tables, document : Tables] /\ past \in Pasts
  BY DEF EgressInv, EgressTypeOK
<1>2. CASE exits' = [memory |-> t, document |-> t] /\ Begins(m, Refreshing(1))
  <2>1. /\ exits' \in [memory : Tables, document : Tables]
        /\ Single(exits.memory)' /\ Single(exits.document)'
    <3>1. exits' \in [memory : Tables, document : Tables] /\ exits'.memory = t /\ exits'.document = t
      BY <1>1, <1>2, ExitsFields
    <3> QED
      BY <3>1 DEF Single
  <2>2. job' \in [Admins -> Job] /\ past' \in Pasts
    BY <1>1, <1>2, NewJobs, BeginsAlone
  <2>3. EgressTypeOK'
    BY <1>1, <2>1, <2>2 DEF EgressTypeOK, Keep
  <2> QED
    BY <1>2, <2>1, <2>3, BeginsAnew DEF Keep
<1>3. CASE /\ exits' = [exits EXCEPT !.memory = t] /\ UNCHANGED job
           /\ past' = [past EXCEPT !.changes = @ + 1, !.unsaved = TRUE]
  <2>1. /\ exits' \in [memory : Tables, document : Tables]
        /\ Single(exits.memory)' /\ Single(exits.document)'
    <3>1. exits' \in [memory : Tables, document : Tables] /\ exits'.memory = t
          /\ exits'.document = exits.document
      BY <1>1, <1>3, ExitsFields
    <3> QED
      BY <3>1 DEF Single, EgressInv
  <2>2. past' \in Pasts /\ past'.unsaved = TRUE
    <3>1. past' = [past EXCEPT !.changes = past.changes + 1, !.unsaved = TRUE]
      BY <1>1, <1>3
    <3>2. past.changes + 1 \in Nat /\ TRUE \in BOOLEAN
      BY <1>1, PastFields
    <3> DEFINE more == past.changes + 1
    <3>3. more \in Nat /\ past' = [past EXCEPT !.changes = more, !.unsaved = TRUE]
      BY <3>1, <3>2
    <3> HIDE DEF more
    <3> QED
      BY <1>1, <3>2, <3>3, PastUnsaved, Zenon
  <2>3. EgressTypeOK'
    BY <1>1, <1>3, <2>1, <2>2 DEF EgressTypeOK, Keep
  <2>4. (~Unlocked => adding.acc \notin ToSet(members))'
    BY DEF EgressInv, Unlocked, Keep
  <2> QED
    BY <2>1, <2>2, <2>3, <2>4 DEF EgressInv
<1> QED
  BY <1>2, <1>3 DEF Keep

LEMMA ChangesKeep ==
  ASSUME EgressInv, NEW m \in Admins,
         \/ ChangeSettings(m)
         \/ \E id \in Exits : CreateExit(m, id) \/ PatchExit(m, id) \/ DeleteExit(m, id)
  PROVE  EgressInv'
<1>0. EgressTypeOK /\ Single(exits.memory)
  BY DEF EgressInv
<1>1. ASSUME NEW id \in Exits, CreateExit(m, id) PROVE EgressInv'
  <2>1. PICK x \in Addresses, b \in BOOLEAN :
          Keep(m, Stored(id, [kind |-> x[1], url |-> x[2], enabled |-> TRUE, default |-> b]))
    BY <1>1 DEF CreateExit
  <2>2. [kind |-> x[1], url |-> x[2], enabled |-> TRUE, default |-> b] \in Exit
    BY DEF Addresses, Exit, Kinds, Urls
  <2> QED
    BY <1>0, <2>1, <2>2, StoredTable, KeepKeeps
<1>2. ASSUME NEW id \in Exits, PatchExit(m, id) PROVE EgressInv'
  <2> DEFINE p == exits.memory[id]
  <2>1. p \in Exit
    BY <1>0, <1>2, TableFields DEF PatchExit, EgressTypeOK
  <2>2. /\ [p EXCEPT !.enabled = ~@] \in Exit /\ [p EXCEPT !.default = ~@] \in Exit
        /\ \A x \in Patches : [p EXCEPT !.kind = x[1], !.url = x[2]] \in Exit
    <3>1. [p EXCEPT !.enabled = ~@] \in Exit /\ [p EXCEPT !.default = ~@] \in Exit
      BY <2>1 DEF Exit
    <3>2. \A k \in Kinds, u \in Urls : [p EXCEPT !.kind = k, !.url = u] \in Exit
      BY <2>1 DEF Exit
    <3>3. \A x \in Patches : x[1] \in Kinds /\ x[2] \in Urls
      BY DEF Patches, Addresses, Kinds, Urls
    <3> QED
      BY <3>1, <3>2, <3>3
  <2>3. \E q \in Exit : Keep(m, Stored(id, q))
    BY <1>2, <2>2 DEF PatchExit
  <2> QED
    BY <1>0, <2>3, StoredTable, KeepKeeps
<1>3. ASSUME NEW id \in Exits, DeleteExit(m, id) PROVE EgressInv'
  BY <1>0, <1>3, DeletedTable, KeepKeeps DEF DeleteExit
<1>4. ASSUME ChangeSettings(m) PROVE EgressInv'
  <2>1. Begins(m, Refreshing(2)) /\ UNCHANGED <<exits, pin, members, way, adding>>
        /\ settings' \in {"none", "resin", "http"}
    BY <1>4 DEF ChangeSettings
  <2>2. job' \in [Admins -> Job] /\ past' \in Pasts
    BY <1>0, <2>1, NewJobs, BeginsAlone
  <2>3. EgressTypeOK'
    BY <1>0, <2>1, <2>2 DEF EgressTypeOK
  <2>4. Single(exits.memory)' /\ Single(exits.document)'
    BY <2>1 DEF EgressInv, Single
  <2> QED
    BY <2>1, <2>3, <2>4, BeginsAnew
<1> QED
  BY <1>1, <1>2, <1>3, <1>4

LEMMA PinKeeps ==
  ASSUME EgressInv, NEW m \in Admins, NEW a \in Accounts, NEW id \in Exits \cup {NoExit},
         PinAccount(m, a, id)
  PROVE  EgressInv'
<1> DEFINE w == [Refreshing(1) EXCEPT !.step = "read", !.todo = <<a>>]
<1>1. EgressTypeOK
  BY DEF EgressInv
<1>2. w \in Job /\ w.step = "read" /\ w.todo = <<a>>
  <2>1. Refreshing(1) \in Job /\ <<a>> \in Seq(Accounts)
    BY NewJobs
  <2> QED
    BY <2>1 DEF Job, HandlerSteps
<1> HIDE DEF w
<1>3. /\ a \in ToSet(members) /\ pin' = [pin EXCEPT ![a] = id] /\ Begins(m, w)
      /\ UNCHANGED <<exits, settings, members, way, adding>>
  BY DEF PinAccount, w
<1>4. /\ job' \in [Admins -> Job] /\ past' \in Pasts
      /\ job'[m] = w /\ \A n \in Admins \ {m} : job'[n] = job[n]
      /\ ~past'.overlap /\ ~past'.unsaved =>
           ~past.overlap /\ ~past.unsaved /\ \A n \in Admins : ~Busy(n)
  BY <1>1, <1>2, <1>3, BeginsAlone
<1>5. EgressTypeOK'
  <2>1. pin' \in [Accounts -> Exits \cup {NoExit}]
    BY <1>1, <1>3 DEF EgressTypeOK
  <2> QED
    BY <1>1, <1>3, <1>4, <2>1 DEF EgressTypeOK
<1>6. Single(exits.memory)' /\ Single(exits.document)' /\ (~Unlocked => adding.acc \notin ToSet(members))'
  BY <1>3 DEF EgressInv, Single, Unlocked
<1>7. ASSUME ~past'.overlap, ~past'.unsaved
      PROVE  OneAtATime' /\ CaughtUp' /\ \A n \in Admins : Works(n)'
  <2>1. \A n \in Admins : job[n].step = "idle"
    BY <1>4, <1>7 DEF Busy
  <2>2. CaughtUp
    BY <1>4, <1>7, <2>1 DEF EgressInv, LookedUp
  <2>3. \A n \in Admins \ {m} : job'[n].step = "idle"
    BY <1>4, <2>1
  <2>4. \A b : b # a => Resolve(b)' = Resolve(b)
    <3> SUFFICES ASSUME NEW b, b # a PROVE Resolve(b)' = Resolve(b)
      OBVIOUS
    <3>1. pin'[b] = pin[b] \/ b \notin Accounts
      BY <1>1, <1>3 DEF EgressTypeOK
    <3> QED
      BY <1>3, <3>1, SameWays
  <2>5. (~Unlocked => adding.read = Resolve(adding.acc))'
    BY <1>3, <1>6, <2>2, <2>4 DEF CaughtUp, Unlocked
  <2>6. Awaits(a)'
    <3>1. Busy(m)' /\ a \in ToSet(job[m].todo)'
      BY <1>2, <1>4 DEF Busy, ToSet
    <3> QED
      BY <3>1 DEF Awaits
  <2>7. \A b \in ToSet(members) : b # a => Follows(b)'
    <3> SUFFICES ASSUME NEW b \in ToSet(members), b # a PROVE Follows(b)'
      OBVIOUS
    <3>1. Follows(b)
      BY <2>1, <2>2 DEF CaughtUp, Awaits, Busy
    <3> QED
      BY <1>3, <2>4, <3>1 DEF Follows
  <2>8. OneAtATime'
    BY <2>3 DEF OneAtATime, Busy
  <2>9. \A n \in Admins : Works(n)'
    BY <1>2, <1>4, <2>3 DEF Works
  <2> QED
    BY <1>3, <2>5, <2>6, <2>7, <2>8, <2>9 DEF CaughtUp
<1> QED
  BY <1>5, <1>6, <1>7 DEF EgressInv

LEMMA AddBeginsKeeps ==
  ASSUME EgressInv, NEW a \in Accounts, AddBegins(a)
  PROVE  EgressInv'
<1>1. EgressTypeOK
  BY DEF EgressInv
<1>2. adding'.acc = a /\ adding'.read = Resolve(a) /\ a \notin ToSet(members)
  BY DEF AddBegins
<1>3. UNCHANGED <<exits, pin, settings, members, way, job, past>>
  BY DEF AddBegins
<1>4. \A b : Resolve(b)' = Resolve(b)
  BY <1>3, SameWays
<1>5. EgressTypeOK'
  <2>1. adding'.acc \in Accounts \cup {NoExit} /\ adding'.read \in Ways
    BY <1>1, <1>2, ResolveIsWay
  <2> QED
    BY <1>1, <1>3, <2>1 DEF EgressTypeOK
<1>6. Single(exits.memory)' /\ Single(exits.document)' /\ (~Unlocked => adding.acc \notin ToSet(members))'
  BY <1>2, <1>3 DEF EgressInv, Single, Unlocked
<1>7. ASSUME ~past'.overlap, ~past'.unsaved
      PROVE  OneAtATime' /\ (LookedUp => CaughtUp)' /\ \A n \in Admins : Works(n)'
  <2>1. OneAtATime /\ (LookedUp => CaughtUp) /\ \A n \in Admins : Works(n)
    BY <1>3, <1>7 DEF EgressInv
  <2>2. OneAtATime'
    BY <1>3, <2>1 DEF OneAtATime, Busy
  <2>3. \A n \in Admins : Works(n)'
    BY <1>3, <1>4, <2>1 DEF Works
  <2>4. \A b : (Follows(b) => Follows(b)') /\ (Awaits(b) => Awaits(b)')
    BY <1>3, <1>4 DEF Follows, Awaits, Busy
  <2>5. (LookedUp => CaughtUp)'
    BY <1>2, <1>3, <1>4, <2>1, <2>4 DEF LookedUp, CaughtUp
  <2> QED
    BY <2>2, <2>3, <2>5
<1> QED
  BY <1>5, <1>6, <1>7 DEF EgressInv

LEMMA AddEndsKeeps ==
  ASSUME EgressInv, AddEnds
  PROVE  EgressInv'
<1>0. EgressTypeOK /\ adding.acc \in Accounts /\ adding.read \in Ways
  BY DEF EgressInv, EgressTypeOK, AddEnds, Unlocked
<1>1. PICK acc \in Accounts, w \in Ways : acc = adding.acc /\ w = Client(adding.read, Direct)
  BY <1>0, DirectWay, ClientTwice
<1>2. w = Client(adding.read, w)
  BY <1>0, <1>1, DirectWay, ClientTwice
<1>3. /\ way' = [way EXCEPT ![acc] = [client |-> w, tokens |-> w]]
      /\ members' = Append(members, acc) /\ ~Unlocked
      /\ adding'.acc = NoExit /\ adding'.read = Direct
      /\ UNCHANGED <<exits, pin, settings, job, past>>
  BY <1>1 DEF AddEnds
<1>4. \A b : Resolve(b)' = Resolve(b)
  BY <1>3, SameWays
<1>5. /\ way' \in [Accounts -> Pairs] /\ way'[acc].client = w /\ way'[acc].tokens = w
      /\ \A b \in Accounts \ {acc} : way'[b] = way[b]
  BY <1>1, <1>3, PairFields, <1>0 DEF EgressTypeOK
<1>6. members' \in Seq(Accounts) /\ ToSet(members)' = ToSet(members) \cup {acc}
  BY <1>0, <1>3, ToSetOf DEF EgressTypeOK
<1>7. EgressTypeOK'
  BY <1>0, <1>3, <1>5, <1>6, DirectWay DEF EgressTypeOK
<1>8. Single(exits.memory)' /\ Single(exits.document)' /\ (~Unlocked => adding.acc \notin ToSet(members))'
  BY <1>3 DEF EgressInv, Single, Unlocked
<1>9. ASSUME ~past'.overlap, ~past'.unsaved
      PROVE  OneAtATime' /\ (LookedUp => CaughtUp)' /\ \A n \in Admins : Works(n)'
  <2>1. OneAtATime /\ (LookedUp => CaughtUp) /\ \A n \in Admins : Works(n)
    BY <1>3, <1>9 DEF EgressInv
  <2>2. OneAtATime'
    BY <1>3, <2>1 DEF OneAtATime, Busy
  <2>3. LookedUp => adding.read = Resolve(acc) /\ Follows(acc)'
    <3>1. LookedUp => adding.read = Resolve(acc)
      BY <1>1, <1>3, <2>1 DEF CaughtUp
    <3> QED
      BY <1>2, <1>4, <1>5, <3>1 DEF Follows
  <2>4. \A n \in Admins : Works(n)'
    <3> SUFFICES ASSUME NEW n \in Admins, job[n].step \in {"client", "tokens"} PROVE Works(n)'
      BY <1>3 DEF Works
    <3> DEFINE a == Head(job[n].todo)
    <3>1. /\ job[n].read = Resolve(a)
          /\ job[n].step = "tokens" => way[a].client = Client(Resolve(a), way[a].client)
      BY <2>1 DEF Works
    <3>2. LookedUp
      BY <2>1 DEF LookedUp, OneAtATime, Busy
    <3>3. a \in Accounts
      <4>1. job[n] \in Job
        BY <1>0 DEF EgressTypeOK
      <4>2. job[n].todo \in Seq(Accounts) /\ job[n].todo # <<>>
        BY <4>1, JobFields
      <4> QED
        BY <4>2, ToSetOf
    <3>4. job[n].step = "tokens" => way'[a].client = Client(Resolve(a), way'[a].client)
      BY <1>2, <1>5, <2>3, <3>1, <3>2, <3>3
    <3> QED
      BY <1>3, <1>4, <3>1, <3>4 DEF Works
  <2>5. \A b \in ToSet(members) : b # acc =>
          (Follows(b) => Follows(b)') /\ (Awaits(b) => Awaits(b)')
    BY <1>0, <1>3, <1>4, <1>5, ToSetOf DEF Follows, Awaits, Busy, EgressTypeOK
  <2>6. (LookedUp => CaughtUp)'
    BY <1>3, <1>6, <2>1, <2>3, <2>5 DEF LookedUp, CaughtUp, Unlocked
  <2> QED
    BY <2>2, <2>4, <2>6
<1> QED
  BY <1>7, <1>8, <1>9 DEF EgressInv

(* A step of handler m that changes nothing but its job and the ways.        *)
LEMMA JobSteps ==
  ASSUME EgressTypeOK, NEW m \in Admins, NEW w \in Job, job' = [job EXCEPT ![m] = w],
         way' \in [Accounts -> Pairs],
         UNCHANGED <<exits, pin, settings, members, adding, past>>
  PROVE  /\ EgressTypeOK' /\ job'[m] = w /\ \A n \in Admins \ {m} : job'[n] = job[n]
         /\ \A b : Resolve(b)' = Resolve(b)
<1>1. job \in [Admins -> Job]
  BY DEF EgressTypeOK
<1>2. job' \in [Admins -> Job] /\ job'[m] = w /\ \A n \in Admins \ {m} : job'[n] = job[n]
  BY <1>1
<1>3. EgressTypeOK'
  BY <1>2 DEF EgressTypeOK
<1>4. \A b : Resolve(b)' = Resolve(b)
  BY SameWays
<1> QED
  BY <1>2, <1>3, <1>4

(* ... and keeps the invariant if what it does next is right.                *)
LEMMA JobsKeep ==
  ASSUME EgressInv, NEW m \in Admins, NEW w \in Job, job' = [job EXCEPT ![m] = w],
         way' \in [Accounts -> Pairs],
         UNCHANGED <<exits, pin, settings, members, adding, past>>,
         Busy(m), job[m].step # "snapshot" \/ Unlocked,
         /\ OneAtATime /\ Works(m) /\ (job[m].step # "snapshot" => CaughtUp)
         => /\ Works(m)'
            /\ w.step # "snapshot" =>
                 \A b \in ToSet(members) : Follows(b)' \/ Awaits(b)'
  PROVE  EgressInv'
<1>1. EgressTypeOK
  BY DEF EgressInv
<1>2. /\ EgressTypeOK' /\ job'[m] = w /\ \A n \in Admins \ {m} : job'[n] = job[n]
      /\ \A b : Resolve(b)' = Resolve(b)
  BY <1>1, JobSteps
<1>3. Single(exits.memory)' /\ Single(exits.document)' /\ (~Unlocked => adding.acc \notin ToSet(members))'
  BY DEF EgressInv, Single, Unlocked
<1>4. ASSUME ~past'.overlap, ~past'.unsaved
      PROVE  OneAtATime' /\ (LookedUp => CaughtUp)' /\ \A n \in Admins : Works(n)'
  <2>1. OneAtATime /\ (LookedUp => CaughtUp) /\ \A n \in Admins : Works(n)
    BY <1>4 DEF EgressInv
  <2>2. \A n \in Admins \ {m} : job[n].step = "idle"
    BY <2>1 DEF OneAtATime, Busy
  <2>3. job[m].step # "snapshot" => CaughtUp
    BY <2>1, <2>2 DEF LookedUp
  <2>4. /\ Works(m)'
        /\ w.step # "snapshot" => \A b \in ToSet(members) : Follows(b)' \/ Awaits(b)'
    BY <2>1, <2>3
  <2>5. OneAtATime'
    BY <1>2, <2>2 DEF OneAtATime, Busy
  <2>6. \A n \in Admins : Works(n)'
    BY <1>2, <2>2, <2>4 DEF Works
  <2>7. (~Unlocked => adding.read = Resolve(adding.acc))'
    BY <1>2, <2>3 DEF Unlocked, CaughtUp
  <2>8. (LookedUp => CaughtUp)'
    BY <1>2, <2>4, <2>7 DEF LookedUp, CaughtUp
  <2> QED
    BY <2>5, <2>6, <2>8
<1> QED
  BY <1>2, <1>3, <1>4 DEF EgressInv

LEMMA HandlerTypes ==
  ASSUME EgressTypeOK, NEW m \in Admins
  PROVE  /\ job[m] \in Job /\ job[m].todo \in Seq(Accounts) /\ job[m].read \in Ways
         /\ ToSet(members) \in SUBSET Accounts
         /\ job[m].todo # <<>> => /\ Head(job[m].todo) \in Accounts
                                  /\ way[Head(job[m].todo)] \in Pairs
<1>1. job[m] \in Job /\ members \in Seq(Accounts)
  BY DEF EgressTypeOK
<1>2. job[m].todo \in Seq(Accounts) /\ job[m].read \in Ways
  BY <1>1, JobFields
<1>3. job[m].todo # <<>> => Head(job[m].todo) \in Accounts
  BY <1>2, ToSetOf
<1>4. job[m].todo # <<>> => way[Head(job[m].todo)] \in Pairs
  BY <1>3 DEF EgressTypeOK
<1>5. ToSet(members) \in SUBSET Accounts
  BY <1>1, ToSetOf
<1> QED
  BY <1>1, <1>2, <1>3, <1>4, <1>5

LEMMA TakeMembersKeeps ==
  ASSUME EgressInv, NEW m \in Admins, TakeMembers(m)
  PROVE  EgressInv'
<1> DEFINE w == [job[m] EXCEPT !.step = "read", !.todo = members]
<1>1. EgressTypeOK /\ job[m] \in Job /\ members \in Seq(Accounts)
  BY HandlerTypes DEF EgressInv, EgressTypeOK
<1>2. w \in Job /\ w.step = "read" /\ w.todo = members
  BY <1>1 DEF Job, HandlerSteps
<1>3. job' = [job EXCEPT ![m] = w]
  BY <1>1 DEF TakeMembers, EgressTypeOK
<1> HIDE DEF w
<1>4. Busy(m) /\ Unlocked /\ UNCHANGED <<exits, pin, settings, members, way, adding, past>>
  BY DEF TakeMembers, Busy
<1>5. way' \in [Accounts -> Pairs]
  BY <1>1, <1>4 DEF EgressTypeOK
<1>6. job'[m] = w
  BY <1>1, <1>3 DEF EgressTypeOK
<1>7. Works(m)'
  BY <1>2, <1>6 DEF Works
<1>8. \A b \in ToSet(members) : Awaits(b)'
  BY <1>2, <1>6 DEF Awaits, Busy
<1> QED
  BY <1>2, <1>3, <1>4, <1>5, <1>7, <1>8, JobsKeep

LEMMA ReadWayKeeps ==
  ASSUME EgressInv, NEW m \in Admins, ReadWay(m)
  PROVE  EgressInv'
<1> DEFINE a == Head(job[m].todo)
           w == [job[m] EXCEPT !.step = "client", !.read = Resolve(a)]
<1>1. /\ EgressTypeOK /\ job[m] \in Job /\ Resolve(a) \in Ways
      /\ job[m].todo # <<>>
  BY HandlerTypes, ResolveIsWay DEF EgressInv, ReadWay
<1>2. w \in Job /\ w.step = "client" /\ w.todo = job[m].todo /\ w.read = Resolve(a)
  <2>1. ASSUME NEW r \in Ways
        PROVE  LET v == [job[m] EXCEPT !.step = "client", !.read = r]
               IN  v \in Job /\ v.step = "client" /\ v.todo = job[m].todo /\ v.read = r
    BY <1>1 DEF Job, HandlerSteps
  <2> QED
    BY <1>1, <2>1
<1>3. job' = [job EXCEPT ![m] = w]
  BY <1>1 DEF ReadWay, EgressTypeOK
<1>4. Busy(m) /\ Unlocked /\ UNCHANGED <<exits, pin, settings, members, way, adding, past>>
  BY DEF ReadWay, Busy
<1>5. way' \in [Accounts -> Pairs]
  BY <1>1, <1>4 DEF EgressTypeOK
<1> HIDE DEF w
<1>6. job'[m] = w /\ \A n \in Admins \ {m} : job'[n] = job[n]
  BY <1>1, <1>3 DEF EgressTypeOK
<1>7. \A b : Resolve(b)' = Resolve(b)
  BY <1>4, SameWays
<1>8. Works(m)'
  BY <1>1, <1>2, <1>6, <1>7 DEF Works
<1>9. \A b : (Follows(b) => Follows(b)') /\ (Awaits(b) => Awaits(b)')
  <2>1. \A b : Follows(b) => Follows(b)'
    BY <1>4, <1>7 DEF Follows
  <2>2. \A b : Awaits(b) => Awaits(b)'
    BY <1>2, <1>4, <1>6 DEF Awaits, Busy
  <2> QED
    BY <2>1, <2>2
<1>10. job[m].step = "read"
  BY DEF ReadWay
<1>11. CaughtUp => \A b \in ToSet(members) : Follows(b)' \/ Awaits(b)'
  BY <1>9 DEF CaughtUp
<1> QED
  BY <1>2, <1>3, <1>4, <1>5, <1>8, <1>10, <1>11, JobsKeep

LEMMA SetEgressKeeps ==
  ASSUME EgressInv, NEW m \in Admins, SetEgress(m)
  PROVE  EgressInv'
<1> DEFINE w == [job[m] EXCEPT !.step = "tokens"]
<1>1. /\ EgressTypeOK /\ job[m] \in Job /\ job[m].read \in Ways
      /\ job[m].todo # <<>> /\ job[m].step = "client"
  BY HandlerTypes, JobFields DEF EgressInv, SetEgress
<1>2. PICK a \in Accounts : a = Head(job[m].todo) /\ way[a] \in Pairs
  BY <1>1, HandlerTypes
<1>3. PICK c \in Ways : c = Client(job[m].read, way[a].client) /\ Client(job[m].read, c) = c
  BY <1>1, <1>2, PairFields, ClientTwice
<1>4. way' = [way EXCEPT ![a] = [way[a] EXCEPT !.client = c]]
  BY <1>1, <1>2, <1>3 DEF SetEgress, EgressTypeOK
<1>5. /\ way' \in [Accounts -> Pairs] /\ way'[a].client = c
      /\ \A b \in Accounts \ {a} : way'[b] = way[b]
  <2>1. /\ [way[a] EXCEPT !.client = c] \in Pairs /\ [way[a] EXCEPT !.client = c].client = c
    BY <1>2, PairFields
  <2> QED
    BY <1>1, <1>4, <2>1 DEF EgressTypeOK
<1>6. w \in Job /\ w.step = "tokens" /\ w.todo = job[m].todo /\ w.read = job[m].read
  BY <1>1 DEF Job, HandlerSteps
<1>7. job' = [job EXCEPT ![m] = w]
  BY <1>1 DEF SetEgress, EgressTypeOK
<1> HIDE DEF w
<1>8. Busy(m) /\ UNCHANGED <<exits, pin, settings, members, adding, past>>
  BY DEF SetEgress, Busy
<1>9. job'[m] = w /\ \A n \in Admins \ {m} : job'[n] = job[n]
  BY <1>1, <1>7 DEF EgressTypeOK
<1>10. \A b : Resolve(b)' = Resolve(b)
  BY <1>8, SameWays
<1>11. Works(m) => job[m].read = Resolve(a)
  BY <1>1, <1>2 DEF Works
<1>12. Works(m) => Works(m)'
  BY <1>1, <1>2, <1>3, <1>5, <1>6, <1>9, <1>10, <1>11 DEF Works
<1>13. \A b \in Accounts \ {a} : Follows(b) => Follows(b)'
  BY <1>5, <1>10 DEF Follows
<1>14. \A b : Awaits(b) => Awaits(b)'
  BY <1>6, <1>8, <1>9 DEF Awaits, Busy
<1>15. Awaits(a)'
  <2>1. job[m].todo \in Seq(Accounts)
    BY <1>1, HandlerTypes
  <2>2. a \in ToSet(job[m].todo)
    BY <1>1, <1>2, <2>1 DEF ToSet
  <2> QED
    BY <1>6, <1>9, <2>2 DEF Awaits, Busy
<1>16. CaughtUp => \A b \in ToSet(members) : Follows(b)' \/ Awaits(b)'
  BY <1>1, <1>13, <1>14, <1>15, HandlerTypes DEF CaughtUp
<1> QED
  BY <1>1, <1>5, <1>6, <1>7, <1>8, <1>12, <1>16, JobsKeep

LEMMA SetHTTPClientKeeps ==
  ASSUME EgressInv, NEW m \in Admins, SetHTTPClient(m)
  PROVE  EgressInv'
<1> DEFINE w == [job[m] EXCEPT !.step = "read", !.todo = Tail(@), !.read = Direct]
<1>1. /\ EgressTypeOK /\ job[m] \in Job /\ job[m].read \in Ways /\ job[m].todo \in Seq(Accounts)
      /\ job[m].todo # <<>> /\ job[m].step = "tokens"
  BY HandlerTypes, JobFields DEF EgressInv, SetHTTPClient
<1>2. PICK a \in Accounts : a = Head(job[m].todo) /\ way[a] \in Pairs
  BY <1>1, HandlerTypes
<1>3. PICK c \in Ways : c = Client(job[m].read, way[a].tokens) /\ Client(job[m].read, c) = c
  BY <1>1, <1>2, PairFields, ClientTwice
<1>4. way' = [way EXCEPT ![a] = [way[a] EXCEPT !.tokens = c]]
  BY <1>1, <1>2, <1>3 DEF SetHTTPClient, EgressTypeOK
<1>5. /\ way' \in [Accounts -> Pairs] /\ way'[a].client = way[a].client /\ way'[a].tokens = c
      /\ \A b \in Accounts \ {a} : way'[b] = way[b]
  <2>1. /\ [way[a] EXCEPT !.tokens = c] \in Pairs /\ [way[a] EXCEPT !.tokens = c].tokens = c
        /\ [way[a] EXCEPT !.tokens = c].client = way[a].client
    BY <1>2, PairFields
  <2> QED
    BY <1>1, <1>4, <2>1 DEF EgressTypeOK
<1>6. /\ w \in Job /\ w.step = "read" /\ w.todo = Tail(job[m].todo)
      /\ \A b \in ToSet(job[m].todo) : b = a \/ b \in ToSet(w.todo)
  <2>1. Tail(job[m].todo) \in Seq(Accounts)
    BY <1>1, ToSetOf
  <2>2. w \in Job /\ w.step = "read" /\ w.todo = Tail(job[m].todo)
    BY <1>1, <2>1, DirectWay DEF Job, HandlerSteps
  <2> QED
    BY <1>1, <1>2, <2>2, ToSetOf
<1>7. job' = [job EXCEPT ![m] = w]
  BY <1>1 DEF SetHTTPClient, EgressTypeOK
<1> HIDE DEF w
<1>8. Busy(m) /\ UNCHANGED <<exits, pin, settings, members, adding, past>>
  BY DEF SetHTTPClient, Busy
<1>9. job'[m] = w /\ \A n \in Admins \ {m} : job'[n] = job[n]
  BY <1>1, <1>7 DEF EgressTypeOK
<1>10. \A b : Resolve(b)' = Resolve(b)
  BY <1>8, SameWays
<1>11. Works(m)'
  BY <1>6, <1>9 DEF Works
<1>12. Works(m) => Follows(a)'
  <2> SUFFICES ASSUME Works(m) PROVE Follows(a)'
    OBVIOUS
  <2>1. job[m].read = Resolve(a) /\ way[a].client = Client(Resolve(a), way[a].client)
    BY <1>1, <1>2 DEF Works
  <2> QED
    BY <1>3, <1>5, <1>10, <2>1 DEF Follows
<1>13. \A b \in Accounts \ {a} : Follows(b) => Follows(b)'
  BY <1>5, <1>10 DEF Follows
<1>14. \A b : b # a => (Awaits(b) => Awaits(b)')
  BY <1>6, <1>8, <1>9 DEF Awaits, Busy
<1>15. Works(m) /\ CaughtUp => \A b \in ToSet(members) : Follows(b)' \/ Awaits(b)'
  BY <1>1, <1>12, <1>13, <1>14, HandlerTypes DEF CaughtUp
<1> QED
  BY <1>1, <1>5, <1>6, <1>7, <1>8, <1>11, <1>15, JobsKeep

LEMMA RefreshEndsKeeps ==
  ASSUME EgressInv, NEW m \in Admins, RefreshEnds(m)
  PROVE  EgressInv'
<1>1. EgressTypeOK /\ job[m].step = "read" /\ job[m].todo = <<>>
  BY DEF EgressInv, RefreshEnds
<1>2. PICK w \in {Refreshing(1), Idle} : job' = [job EXCEPT ![m] = w]
  BY DEF RefreshEnds
<1>3. w \in Job /\ w.step \in {"snapshot", "idle"}
  BY <1>2, NewJobs
<1>4. /\ Busy(m) /\ UNCHANGED <<exits, pin, settings, members, way, adding, past>>
      /\ way' \in [Accounts -> Pairs]
  BY <1>1 DEF RefreshEnds, Busy, EgressTypeOK
<1>5. job'[m] = w /\ \A n \in Admins \ {m} : job'[n] = job[n]
  BY <1>1, <1>2 DEF EgressTypeOK
<1>6. Works(m)'
  BY <1>3, <1>5 DEF Works
<1>7. \A b : Resolve(b)' = Resolve(b)
  BY <1>4, SameWays
<1>8. \A b : Follows(b) => Follows(b)'
  BY <1>4, <1>7 DEF Follows
<1>9. \A b : Awaits(b) => Awaits(b)'
  BY <1>1, <1>5 DEF Awaits, Busy, ToSet
<1>10. CaughtUp => \A b \in ToSet(members) : Follows(b)' \/ Awaits(b)'
  BY <1>8, <1>9 DEF CaughtUp
<1> QED
  BY <1>1, <1>2, <1>3, <1>4, <1>6, <1>10, JobsKeep

LEMMA EgressStarts == EgressInit => EgressInv
<1> SUFFICES ASSUME EgressInit PROVE EgressInv
  OBVIOUS
<1>1. /\ exits = [memory |-> <<>>, document |-> <<>>] /\ pin = [a \in Accounts |-> NoExit]
      /\ settings = "none" /\ members = <<First>> /\ job = [m \in Admins |-> Idle]
      /\ adding = [acc |-> NoExit, read |-> Direct]
      /\ past = [changes |-> 0, overlap |-> FALSE, unsaved |-> FALSE]
  BY DEF EgressInit
<1>2. <<>> \in Tables /\ Single(<<>>)
  <2>1. DOMAIN <<>> = {} /\ <<>> \in [{} -> Exit]
    OBVIOUS
  <2> QED
    BY <2>1 DEF Tables, Single
<1>3. exits \in [memory : Tables, document : Tables] /\ Single(exits.memory) /\ Single(exits.document)
  BY <1>1, <1>2
<1>4. way \in [Accounts -> Pairs]
      /\ \A a \in Accounts : LET w == IF a \in Own THEN OwnWay ELSE LastWay
                             IN  way[a].client = w /\ way[a].tokens = w
  <2>1. \A a \in Accounts : (IF a \in Own THEN OwnWay ELSE LastWay) \in Ways
    BY FixedWays
  <2> QED
    BY <2>1 DEF EgressInit, Pairs
<1>5. EgressTypeOK
  <2>1. members \in Seq(Accounts)
    BY <1>1, EgressAssumption
  <2>2. job \in [Admins -> Job]
    BY <1>1, NewJobs
  <2>3. past \in Pasts
    BY <1>1 DEF Pasts
  <2> QED
    BY <1>1, <1>3, <1>4, <2>1, <2>2, <2>3, DirectWay DEF EgressTypeOK
<1>6. \A m \in Admins : job[m].step = "idle"
  BY <1>1, NewJobs
<1>7. Unlocked
  BY <1>1 DEF Unlocked
<1>8. \A a \in Accounts : Follows(a)
  <2> SUFFICES ASSUME NEW a \in Accounts PROVE Follows(a)
    OBVIOUS
  <2>1. Resolve(a) = IF a \in Own THEN OwnWay ELSE LastWay
    <3>1. DOMAIN exits.memory = {}
      BY <1>1
    <3> QED
      BY <1>1, <3>1 DEF Resolve, Defaults
  <2>2. \A old : Client(Resolve(a), old) = Resolve(a)
    BY <2>1, FixedWays
  <2> QED
    BY <1>4, <2>1, <2>2 DEF Follows
<1>9. ToSet(members) \in SUBSET Accounts
  BY <1>5, ToSetOf DEF EgressTypeOK
<1> QED
  BY <1>3, <1>5, <1>6, <1>7, <1>8, <1>9 DEF EgressInv, OneAtATime, LookedUp, CaughtUp, Works, Busy

LEMMA EgressNextKeeps == EgressInv /\ [EgressNext]_egressVars => EgressInv'
<1> SUFFICES ASSUME EgressInv, [EgressNext]_egressVars PROVE EgressInv'
  OBVIOUS
<1>1. CASE AddEnds
  BY <1>1, AddEndsKeeps
<1>2. ASSUME NEW a \in Accounts, AddBegins(a) PROVE EgressInv'
  BY <1>2, AddBeginsKeeps
<1>3. ASSUME NEW m \in Admins,
             \/ ChangeSettings(m)
             \/ \E id \in Exits : CreateExit(m, id) \/ PatchExit(m, id) \/ DeleteExit(m, id)
      PROVE  EgressInv'
  BY <1>3, ChangesKeep
<1>4. ASSUME NEW m \in Admins, NEW a \in Accounts, NEW id \in Exits \cup {NoExit},
             PinAccount(m, a, id)
      PROVE  EgressInv'
  BY <1>4, PinKeeps
<1>5. ASSUME NEW m \in Admins,
             TakeMembers(m) \/ ReadWay(m) \/ SetEgress(m) \/ SetHTTPClient(m) \/ RefreshEnds(m)
      PROVE  EgressInv'
  BY <1>5, TakeMembersKeeps, ReadWayKeeps, SetEgressKeeps, SetHTTPClientKeeps, RefreshEndsKeeps
<1>6. CASE UNCHANGED egressVars
  <2>1. UNCHANGED <<exits, pin, settings, members, way, job, adding, past>>
    BY <1>6 DEF egressVars
  <2>2. \A b : Resolve(b)' = Resolve(b)
    BY <2>1, SameWays
  <2>3. \A b : (Follows(b) => Follows(b)') /\ (Awaits(b) => Awaits(b)')
    BY <2>1, <2>2 DEF Follows, Awaits, Busy
  <2>4. CaughtUp => CaughtUp'
    BY <2>1, <2>2, <2>3 DEF CaughtUp, Unlocked
  <2>5. \A m \in Admins : Works(m) => Works(m)'
    BY <2>1, <2>2 DEF Works
  <2>6. EgressTypeOK'
    BY <2>1 DEF EgressInv, EgressTypeOK
  <2> QED
    BY <2>1, <2>4, <2>5, <2>6 DEF EgressInv, Single, Unlocked, OneAtATime, Busy, LookedUp
<1> QED
  BY <1>1, <1>2, <1>3, <1>4, <1>5, <1>6 DEF EgressNext

LEMMA InvFollows == EgressInv => WaysFollow
<1> SUFFICES ASSUME EgressInv PROVE WaysFollow
  OBVIOUS
<1>1. ASSUME NEW t \in {exits.memory, exits.document}
      PROVE  Cardinality({id \in DOMAIN t : t[id].default}) <= 1
  <2> DEFINE S == {id \in DOMAIN t : t[id].default}
  <2>1. \A x, y \in S : x = y
    BY DEF EgressInv, Single
  <2>2. CASE S = {}
    BY <2>2, FS_EmptySet
  <2>3. CASE S # {}
    <3> HIDE DEF S
    <3>1. PICK x : S = {x}
      BY <2>1, <2>3
    <3>2. Cardinality(S) = 1
      BY <3>1, FS_Singleton, Zenon
    <3> QED
      BY <3>2 DEF S
  <2> QED
    BY <2>2, <2>3
<1>2. SettledWays
  <2> SUFFICES ASSUME AtRest, ~past.overlap, ~past.unsaved, NEW a \in ToSet(members)
               PROVE  Follows(a)
    BY DEF SettledWays
  <2>1. \A m \in Admins : ~Busy(m)
    BY DEF AtRest, Busy
  <2>2. CaughtUp
    BY <2>1 DEF EgressInv, LookedUp, Busy
  <2> QED
    BY <2>1, <2>2 DEF CaughtUp, Awaits
<1> QED
  BY <1>1, <1>2 DEF WaysFollow, OneDefault

(* WaysFollow is about the store of exits, the resolver and the refreshes:   *)
(* at most one exit is the default, in memory and in the document; and when  *)
(* the handlers of the administration came one after the other and every     *)
(* document was saved, all members of the pool leave by the way the exits,   *)
(* pins and settings say, whenever nobody is at work.                        *)
THEOREM ExitsDecide == EgressSpec => []WaysFollow
<1>1. EgressInv => WaysFollow
  BY InvFollows
<1> QED
  BY EgressStarts, EgressNextKeeps, <1>1, PTL DEF EgressSpec

(* Runs of the administration, seen from the exits.                          *)
LEMMA RunIsEgress == Init /\ [][Next]_vars => EgressSpec
<1>1. Init => EgressInit
  BY DEF Init
<1>2. [Next]_vars => [EgressNext]_egressVars
  <2> SUFFICES ASSUME [Next]_vars PROVE EgressNext \/ UNCHANGED egressVars
    BY Zenon
  <2>1. CASE UNCHANGED vars
    BY <2>1, Zenon DEF vars
  <2>2. CASE part = "egress" /\ Next
    BY <2>2, Zenon DEF Next, Logs, Metered, Exiting, Limiting, Rotating, Translating,
                       Conversing, Setting, Searching, EgressNext
  <2>3. CASE part # "egress" /\ Next
    BY <2>3, Zenon DEF Next, Logs, Metered, Exiting, Limiting, Rotating, Translating,
                       Conversing, Setting, Searching
  <2> QED
    BY <2>1, <2>2, <2>3
<1> QED
  BY <1>1, <1>2, PTL DEF EgressSpec

-----------------------------------------------------------------------------
(* The limits of an account (AccountLimits).                                 *)

UseCounts == [uses : Seq(Nat), day : Nat, daily : Nat]
Switches == [on : BOOLEAN, reason : {"", "quota"}]
Usages   == {"none", "left", "full"}
OwnLimits == Limits \X Limits
DayDocs  == [day : Nat, daily : Nat]
WordDocs == [hand : BOOLEAN, over : BOOLEAN]
LimitDocs == [daily : DayDocs, switch : Switches, limits : OwnLimits, usage : Usages, told : WordDocs]
Tolds == [edits : Nat, relimited : BOOLEAN, uses : Nat, day : Nat, used : Nat, unsaved : Nat,
          lost : Nat, hand : BOOLEAN, over : BOOLEAN]
Users01 == [Users -> {"idle", "inside"}]

LimitsTypeOK ==
  /\ tick \in Nat
  /\ limits \in [own : OwnLimits, group : OwnLimits]
  /\ counts \in UseCounts /\ switch \in Switches /\ usage \in Usages
  /\ user \in Users01
  /\ document \in LimitDocs /\ told \in Tolds

(* What a count of the day says of the uses of this day, all but the ones    *)
(* that are gone: one of an earlier day, that all are gone; one of a later   *)
(* day has nothing to count yet.                                             *)
CountSays(day, daily, gone) ==
  /\ day < told.day => told.used = gone
  /\ day = told.day => daily = told.used - gone
  /\ day > told.day => daily = 0

Counting ==
  /\ told.day <= Today /\ counts.day <= Today /\ document.daily.day <= Today
  /\ CountSays(counts.day, counts.daily, told.lost)
  /\ CountSays(document.daily.day, document.daily.daily, told.lost + told.unsaved)

LimitsInv == LimitsTypeOK /\ Counting /\ OverrunBounded /\ FullIsOff

LEMMA DayGoesOn ==
  ASSUME NEW t \in Nat, NEW d \in Nat \ {0}
  PROVE  t \div d \in Nat /\ (t + 1) \div d \in Nat /\ t \div d <= (t + 1) \div d
<1> DEFINE q == t \div d
           r == (t + 1) \div d
<1>1. /\ q \in Int /\ q * d <= t /\ t < q * d + d
      /\ r \in Int /\ r * d <= t + 1 /\ t + 1 < r * d + d
  OBVIOUS
<1> QED
  BY <1>1

LEMMA TodayIsNat == LimitsTypeOK => Today \in Nat
BY AccountLimitsAssumption, DayGoesOn DEF LimitsTypeOK, Today

(* How many uses are too old at a time; there is one such number.            *)
Cut(s, now) ==
  CHOOSE i \in 0..Len(s) :
    /\ \A j \in 1..i : s[j] <= now - Minute
    /\ i < Len(s) => s[i + 1] > now - Minute

LEMMA CutIs ==
  ASSUME NEW now \in Nat, NEW s \in Seq(Nat)
  PROVE  /\ Cut(s, now) \in 0..Len(s)
         /\ \A j \in 1..Cut(s, now) : s[j] <= now - Minute
         /\ Cut(s, now) < Len(s) => s[Cut(s, now) + 1] > now - Minute
<1> DEFINE T == {k \in 0..Len(s) : k = Len(s) \/ s[k + 1] > now - Minute}
<1>1. T \in SUBSET Nat /\ Len(s) \in T
  OBVIOUS
<1>2. PICK i \in T : \A k \in T : i <= k
  <2> HIDE DEF T
  <2>1. T # {}
    BY <1>1
  <2> QED
    BY <1>1, <2>1, LeastNat
<1>3. ASSUME NEW j \in 1..i PROVE s[j] <= now - Minute
  <2>0. i \in 0..Len(s) /\ j - 1 \in 0..Len(s) /\ j - 1 < i
    BY <1>2
  <2>1. j - 1 \notin T /\ j - 1 # Len(s)
    <3> HIDE DEF T
    <3> QED
      BY <1>2, <2>0
  <2>2. ~(s[j] > now - Minute)
    BY <2>0, <2>1
  <2>3. s[j] \in Nat
    <3>1. j \in 1..Len(s)
      BY <1>2
    <3> QED
      BY <3>1
  <2> QED
    BY <2>2, <2>3, AccountLimitsAssumption
<1>4. i \in 0..Len(s) /\ (i < Len(s) => s[i + 1] > now - Minute)
  BY <1>2
<1> HIDE DEF T
<1> QED
  BY <1>3, <1>4, Zenon DEF Cut

LEMMA CutIsOnly ==
  ASSUME NEW now \in Nat, NEW s \in Seq(Nat), NEW i \in 0..Len(s),
         \A j \in 1..i : s[j] <= now - Minute,
         i < Len(s) => s[i + 1] > now - Minute
  PROVE  Cut(s, now) = i
<1> DEFINE e == Cut(s, now)
<1>1. /\ e \in 0..Len(s) /\ \A j \in 1..e : s[j] <= now - Minute
      /\ e < Len(s) => s[e + 1] > now - Minute
  BY CutIs
<1> HIDE DEF e
<1>2. \A j \in 1..Len(s) : s[j] \in Nat
  OBVIOUS
<1>3. ~(e < i)
  BY <1>1, <1>2, AccountLimitsAssumption
<1>4. ~(i < e)
  BY <1>1, <1>2, AccountLimitsAssumption
<1> QED
  BY <1>1, <1>3, <1>4 DEF e

LEMMA Suffix ==
  ASSUME NEW S, NEW s \in Seq(S), NEW i \in 0..Len(s)
  PROVE  LET v == SubSeq(s, i + 1, Len(s))
         IN  v \in Seq(S) /\ Len(v) = Len(s) - i /\ (i < Len(s) => v[1] = s[i + 1])
OBVIOUS

LEMMA CountFields ==
  ASSUME NEW c \in UseCounts
  PROVE  c.uses \in Seq(Nat) /\ Len(c.uses) \in Nat /\ c.day \in Nat /\ c.daily \in Nat
BY DEF UseCounts

(* How many uses the window shows.                                           *)
Fresh(c, now) == Len(c.uses) - Cut(c.uses, now)

LEMMA PrunedIs ==
  ASSUME LimitsTypeOK, NEW c \in UseCounts
  PROVE  /\ Pruned(c) \in UseCounts /\ Pruned(c).day = Today
         /\ Pruned(c).daily = IF c.day = Today THEN c.daily ELSE 0
         /\ Fresh(c, tick) \in Nat /\ Len(Pruned(c).uses) = Fresh(c, tick)
         /\ Cut(Pruned(c).uses, tick) = 0
<1> DEFINE e == Cut(c.uses, tick)
           v == SubSeq(c.uses, e + 1, Len(c.uses))
<1>1. tick \in Nat /\ Today \in Nat /\ c.uses \in Seq(Nat) /\ c.day \in Nat /\ c.daily \in Nat
  BY CountFields, TodayIsNat DEF LimitsTypeOK
<1>2. e \in 0..Len(c.uses) /\ (e < Len(c.uses) => c.uses[e + 1] > tick - Minute)
  BY <1>1, CutIs
<1> HIDE DEF e
<1>3. v \in Seq(Nat) /\ Len(v) = Len(c.uses) - e /\ (e < Len(c.uses) => v[1] = c.uses[e + 1])
  BY <1>1, <1>2, Suffix
<1>4. Pruned(c) = [uses |-> v, day |-> Today, daily |-> IF c.day = Today THEN c.daily ELSE 0]
  BY DEF Pruned, Expired, Cut, e
<1> HIDE DEF v
<1>5. Pruned(c) \in UseCounts /\ Pruned(c).uses = v /\ Pruned(c).day = Today
      /\ Pruned(c).daily = IF c.day = Today THEN c.daily ELSE 0
  <2>1. (IF c.day = Today THEN c.daily ELSE 0) \in Nat
    BY <1>1
  <2> QED
    BY <1>1, <1>3, <1>4, <2>1 DEF UseCounts
<1>6. Cut(v, tick) = 0
  <2>1. 0 \in 0..Len(v) /\ (0 < Len(v) => v[0 + 1] > tick - Minute)
    BY <1>2, <1>3
  <2>2. \A j \in 1..0 : v[j] <= tick - Minute
    OBVIOUS
  <2> QED
    BY <1>1, <1>3, <2>1, <2>2, CutIsOnly
<1>7. Fresh(c, tick) = Len(c.uses) - e
  BY DEF Fresh, e
<1>8. Fresh(c, tick) \in Nat /\ Len(v) = Fresh(c, tick)
  BY <1>1, <1>2, <1>3, <1>7
<1> QED
  BY <1>5, <1>6, <1>8

LEMMA LastMinuteIs ==
  LimitsTypeOK => LastMinute = Fresh(counts, tick) /\ LastMinute \in Nat
BY PrunedIs DEF LimitsTypeOK, LastMinute

(* A use that is counted is one more in the window, and of this day.         *)
LEMMA UsedIs ==
  ASSUME LimitsTypeOK
  PROVE  /\ Used \in UseCounts /\ Used.day = Today
         /\ Used.daily = (IF counts.day = Today THEN counts.daily ELSE 0) + 1
         /\ Fresh(Used, tick) = LastMinute + 1
<1> DEFINE p == Pruned(counts)
           v == Append(p.uses, tick)
<1>1. /\ p \in UseCounts /\ p.day = Today /\ p.daily = IF counts.day = Today THEN counts.daily ELSE 0
      /\ Len(p.uses) = LastMinute /\ Cut(p.uses, tick) = 0 /\ tick \in Nat /\ LastMinute \in Nat
  BY PrunedIs, LastMinuteIs DEF LimitsTypeOK
<1> HIDE DEF p
<1>2. p.uses \in Seq(Nat) /\ p.daily \in Nat /\ p.day \in Nat
  BY <1>1, CountFields
<1>3. v \in Seq(Nat) /\ Len(v) = LastMinute + 1
      /\ v[1] = IF LastMinute = 0 THEN tick ELSE p.uses[1]
  BY <1>1, <1>2
<1>4. Used = [p EXCEPT !.uses = v, !.daily = p.daily + 1]
  BY <1>1 DEF Used, p, UseCounts
<1> HIDE DEF v
<1>5. Used \in UseCounts /\ Used.uses = v /\ Used.day = p.day /\ Used.daily = p.daily + 1
  <2>1. p.daily + 1 \in Nat
    BY <1>2
  <2> QED
    BY <1>1, <1>3, <1>4, <2>1 DEF UseCounts
<1>6. Cut(v, tick) = 0
  <2>1. v[0 + 1] > tick - Minute
    <3>1. CASE LastMinute = 0
      BY <1>1, <1>3, <3>1, AccountLimitsAssumption
    <3>2. CASE LastMinute # 0
      <4>1. Cut(p.uses, tick) < Len(p.uses) => p.uses[Cut(p.uses, tick) + 1] > tick - Minute
        BY <1>1, <1>2, CutIs
      <4> QED
        BY <1>1, <1>3, <3>2, <4>1
    <3> QED
      BY <3>1, <3>2
  <2>2. \A j \in 1..0 : v[j] <= tick - Minute
    OBVIOUS
  <2>3. 0 \in 0..Len(v)
    BY <1>1, <1>3
  <2> QED
    BY <1>1, <1>3, <2>1, <2>2, <2>3, CutIsOnly
<1>7. Fresh(Used, tick) = Len(v) - 0
  BY <1>5, <1>6 DEF Fresh
<1> QED
  BY <1>1, <1>3, <1>5, <1>7

LEMMA LastMinuteNext == LimitsTypeOK' => LastMinute' = Fresh(counts', tick') /\ LastMinute' \in Nat
<1>1. LimitsTypeOK' => (LastMinute = Fresh(counts, tick) /\ LastMinute \in Nat)'
  BY LastMinuteIs, PTL
<1> QED
  BY <1>1 DEF Fresh, Cut

(* The requests inside.                                                      *)
LEMMA InsideIs ==
  ASSUME NEW f \in Users01
  PROVE  LET n(g) == Cardinality({u \in Users : g[u] = "inside"})
         IN  /\ n(f) \in Nat /\ Cardinality(Users) \in Nat /\ n(f) <= Cardinality(Users)
             /\ \A u \in Users : f[u] = "inside" =>
                  [f EXCEPT ![u] = "idle"] \in Users01 /\ n([f EXCEPT ![u] = "idle"]) = n(f) - 1
<1> DEFINE I(g) == {u \in Users : g[u] = "inside"}
<1>1. IsFiniteSet(Users)
  BY AccountLimitsAssumption
<1>2. I(f) \in SUBSET Users
  OBVIOUS
<1>3. IsFiniteSet(I(f)) /\ Cardinality(I(f)) \in Nat /\ Cardinality(I(f)) <= Cardinality(Users)
      /\ Cardinality(Users) \in Nat
  BY <1>1, <1>2, FS_Subset, FS_CardinalityType
<1>4. ASSUME NEW u \in Users, f[u] = "inside"
      PROVE  /\ [f EXCEPT ![u] = "idle"] \in Users01
             /\ Cardinality(I([f EXCEPT ![u] = "idle"])) = Cardinality(I(f)) - 1
  <2>1. [f EXCEPT ![u] = "idle"] \in Users01
    BY DEF Users01
  <2>2. I([f EXCEPT ![u] = "idle"]) = I(f) \ {u} /\ u \in I(f)
    BY <1>4 DEF Users01
  <2>3. Cardinality(I(f) \ {u}) = Cardinality(I(f)) - 1
    BY <1>3, <2>2, FS_RemoveElement
  <2> QED
    BY <2>1, <2>2, <2>3
<1> QED
  BY <1>3, <1>4

(* Whoever leaves is one less inside.                                        *)
LEMMA LeavesIs ==
  ASSUME LimitsTypeOK, NEW u \in Users, user[u] = "inside", user' = [user EXCEPT ![u] = "idle"]
  PROVE  user' \in Users01 /\ AtWork \in Nat /\ AtWork' \in Nat /\ AtWork' = AtWork - 1
<1>1. user \in Users01
  BY DEF LimitsTypeOK
<1>2. user' \in Users01 /\ Cardinality({x \in Users : user'[x] = "inside"}) =
        Cardinality({x \in Users : user[x] = "inside"}) - 1
  BY <1>1, InsideIs
<1>3. AtWork \in Nat /\ AtWork' \in Nat
  BY <1>1, <1>2, InsideIs DEF AtWork
<1> QED
  BY <1>2, <1>3 DEF AtWork

(* Nothing about the window gets worse.                                      *)
LEMMA OverrunSame ==
  ASSUME LimitsTypeOK, LimitsTypeOK', OverrunBounded, UNCHANGED limits,
         told'.relimited = told.relimited, LastMinute' + AtWork' <= LastMinute + AtWork
  PROVE  OverrunBounded'
<1>1. Effective' = Effective
  BY DEF Effective
<1>2. LastMinute \in Nat /\ LastMinute' \in Nat
  BY LastMinuteIs, LastMinuteNext
<1>3. AtWork \in Nat /\ AtWork' \in Nat /\ Cardinality(Users) \in Nat
  BY InsideIs DEF LimitsTypeOK, AtWork
<1>4. Effective[1] \in Nat
  <2>1. limits.own[1] \in Nat /\ limits.group[1] \in Nat
    BY AccountLimitsAssumption DEF LimitsTypeOK, OwnLimits
  <2> QED
    BY <2>1 DEF Effective
<1> QED
  BY <1>1, <1>2, <1>3, <1>4 DEF OverrunBounded

LEMMA WindowSame ==
  ASSUME LimitsTypeOK, LimitsTypeOK', OverrunBounded, UNCHANGED <<tick, limits, counts, user>>,
         told'.relimited = told.relimited
  PROVE  OverrunBounded'
<1>1. LastMinute' = LastMinute /\ AtWork' = AtWork
  BY DEF LastMinute, Pruned, Expired, Today, AtWork
<1>2. LastMinute \in Nat /\ AtWork \in Nat
  BY LastMinuteIs, InsideIs DEF LimitsTypeOK, AtWork
<1> QED
  BY <1>1, <1>2, OverrunSame

LEMMA CountingSame ==
  ASSUME Counting, UNCHANGED <<tick, counts>>, document'.daily = document.daily,
         told'.day = told.day, told'.used = told.used, told'.unsaved = told.unsaved,
         told'.lost = told.lost
  PROVE  Counting'
BY DEF Counting, CountSays, Today

LEMMA ToldFields ==
  ASSUME NEW h \in Tolds
  PROVE  /\ h.edits \in Nat /\ h.relimited \in BOOLEAN /\ h.uses \in Nat /\ h.day \in Nat
         /\ h.used \in Nat /\ h.unsaved \in Nat /\ h.lost \in Nat
         /\ h.hand \in BOOLEAN /\ h.over \in BOOLEAN
BY DEF Tolds

LEMMA DocFields ==
  ASSUME NEW d \in LimitDocs
  PROVE  /\ d.daily.day \in Nat /\ d.daily.daily \in Nat /\ d.switch \in Switches
         /\ d.limits \in OwnLimits /\ d.usage \in Usages
         /\ d.told.hand \in BOOLEAN /\ d.told.over \in BOOLEAN
BY DEF LimitDocs, DayDocs, WordDocs

LEMMA SavedIs ==
  ASSUME LimitsTypeOK
  PROVE  /\ Saved \in LimitDocs /\ Saved.daily.day = counts.day /\ Saved.daily.daily = counts.daily
BY ToldFields, CountFields DEF LimitsTypeOK, Saved, LimitDocs, DayDocs, WordDocs

(* A request that ends and is counted.                                       *)
LEMMA UseIs ==
  ASSUME LimitsInv, NEW u \in Users, user[u] = "inside", user' = [user EXCEPT ![u] = "idle"],
         Use, UNCHANGED <<tick, limits, document>>
  PROVE  /\ counts' \in UseCounts /\ told' \in Tolds /\ told'.over = told.over
         /\ Counting' /\ (LimitsTypeOK' => OverrunBounded')
<1>1. LimitsTypeOK /\ told \in Tolds /\ counts \in UseCounts /\ Today \in Nat
  BY TodayIsNat DEF LimitsInv, LimitsTypeOK
<1>2. /\ counts' \in UseCounts /\ counts'.day = Today /\ Fresh(counts', tick) = LastMinute + 1
      /\ counts'.daily = (IF counts.day = Today THEN counts.daily ELSE 0) + 1
  BY <1>1, UsedIs DEF Use
<1> DEFINE h == IF told.day = Today THEN told
                ELSE [told EXCEPT !.day = Today, !.used = 0, !.unsaved = 0, !.lost = 0]
<1>3. /\ h \in Tolds /\ h.day = Today /\ h.over = told.over /\ h.relimited = told.relimited
      /\ h.used = IF told.day = Today THEN told.used ELSE 0
      /\ h.unsaved = IF told.day = Today THEN told.unsaved ELSE 0
      /\ h.lost = IF told.day = Today THEN told.lost ELSE 0
  <2>1. CASE told.day = Today
    BY <1>1, <2>1
  <2>2. CASE told.day # Today
    BY <1>1, <2>2 DEF Tolds
  <2> QED
    BY <2>1, <2>2
<1>4. told' = [h EXCEPT !.uses = h.uses + 1, !.used = h.used + 1, !.unsaved = h.unsaved + 1]
  <2>1. told' = [h EXCEPT !.uses = @ + 1, !.used = @ + 1, !.unsaved = @ + 1]
    BY DEF Use
  <2> HIDE DEF h
  <2> QED
    BY <1>3, <2>1 DEF Tolds
<1> HIDE DEF h
<1>5. /\ told' \in Tolds /\ told'.day = Today /\ told'.over = told.over
      /\ told'.relimited = told.relimited
      /\ told'.used = h.used + 1 /\ told'.unsaved = h.unsaved + 1 /\ told'.lost = h.lost
  <2>1. h.uses + 1 \in Nat /\ h.used + 1 \in Nat /\ h.unsaved + 1 \in Nat
    BY <1>3, ToldFields
  <2> QED
    BY <1>3, <1>4, <2>1 DEF Tolds
<1>6. Counting'
  <2>1. Today' = Today
    BY DEF Today
  <2>2. /\ told.day \in Nat /\ counts.day \in Nat /\ counts.daily \in Nat
        /\ told.used \in Nat /\ told.lost \in Nat /\ told.unsaved \in Nat
        /\ document.daily.day \in Nat /\ document.daily.daily \in Nat
    BY <1>1, ToldFields, CountFields, DocFields DEF LimitsTypeOK
  <2>3. Counting
    BY DEF LimitsInv
  <2>4. told'.day <= Today /\ counts'.day <= Today /\ document'.daily.day <= Today
    BY <1>1, <1>2, <1>5, <2>3 DEF Counting
  <2>5. CountSays(counts.day, counts.daily, told.lost)'
    BY <1>1, <1>2, <1>3, <1>5, <2>2, <2>3 DEF Counting, CountSays
  <2>6. CountSays(document.daily.day, document.daily.daily, told.lost + told.unsaved)'
    BY <1>1, <1>3, <1>5, <2>2, <2>3 DEF Counting, CountSays
  <2> QED
    BY <2>1, <2>4, <2>5, <2>6 DEF Counting
<1>7. ASSUME LimitsTypeOK' PROVE OverrunBounded'
  <2>1. LastMinute' = LastMinute + 1 /\ LastMinute \in Nat
    BY <1>1, <1>2, <1>7, LastMinuteIs, LastMinuteNext
  <2>2. AtWork' = AtWork - 1 /\ AtWork \in Nat
    BY <1>1, LeavesIs
  <2> QED
    BY <1>1, <1>5, <1>7, <2>1, <2>2, OverrunSame DEF LimitsInv
<1> QED
  BY <1>2, <1>5, <1>6, <1>7

LEMMA EnterKeeps ==
  ASSUME LimitsInv, NEW u \in Users, Enter(u)
  PROVE  LimitsInv'
<1>1. /\ LimitsTypeOK /\ Today \in Nat /\ user \in Users01 /\ counts' = Pruned(counts)
      /\ UNCHANGED <<tick, limits, switch, usage, document, told>>
  BY TodayIsNat DEF LimitsInv, LimitsTypeOK, Enter
<1>2. /\ counts' \in UseCounts /\ counts'.day = Today
      /\ counts'.daily = (IF counts.day = Today THEN counts.daily ELSE 0)
      /\ Len(counts'.uses) = LastMinute /\ Fresh(counts', tick) = LastMinute /\ LastMinute \in Nat
  <2>1. /\ counts' \in UseCounts /\ counts'.day = Today
        /\ counts'.daily = (IF counts.day = Today THEN counts.daily ELSE 0)
        /\ Len(counts'.uses) = LastMinute /\ Cut(counts'.uses, tick) = 0 /\ LastMinute \in Nat
    BY <1>1, PrunedIs, LastMinuteIs DEF LimitsTypeOK
  <2> QED
    BY <2>1 DEF Fresh
<1>3. user' \in Users01
  <2>1. PICK s \in {"idle", "inside"} : user' = [user EXCEPT ![u] = s]
    BY DEF Enter
  <2> QED
    BY <1>1, <2>1 DEF Users01
<1>4. LimitsTypeOK'
  BY <1>1, <1>2, <1>3 DEF LimitsTypeOK
<1>5. Counting'
  <2>1. Today' = Today
    BY <1>1 DEF Today
  <2>2. /\ told.day \in Nat /\ counts.day \in Nat /\ counts.daily \in Nat
        /\ told.used \in Nat /\ told.lost \in Nat
    BY <1>1, ToldFields, CountFields DEF LimitsTypeOK
  <2>3. Counting
    BY DEF LimitsInv
  <2>4. CountSays(counts.day, counts.daily, told.lost)'
    BY <1>1, <1>2, <2>2, <2>3 DEF Counting, CountSays
  <2> QED
    BY <1>1, <1>2, <2>1, <2>3, <2>4 DEF Counting, CountSays
<1>6. OverrunBounded'
  <2>1. LastMinute' = LastMinute
    BY <1>1, <1>2, <1>4, LastMinuteNext
  <2>2. AtWork \in Nat /\ AtWork' \in Nat /\ Cardinality(Users) \in Nat /\ AtWork' <= Cardinality(Users)
    BY <1>1, <1>3, InsideIs DEF AtWork
  <2>3. CASE switch.on /\ ~OverLimit(counts')
    <3>1. Effective[1] \in Nat
      <4>1. limits.own[1] \in Nat /\ limits.group[1] \in Nat
        BY <1>1, AccountLimitsAssumption DEF LimitsTypeOK, OwnLimits
      <4> QED
        BY <4>1 DEF Effective
    <3>2. Effective[1] > 0 => LastMinute <= Effective[1] - 1
      BY <1>2, <2>3, <3>1 DEF OverLimit
    <3>3. Effective' = Effective
      BY <1>1 DEF Effective
    <3> QED
      BY <1>2, <2>1, <2>2, <3>1, <3>2, <3>3 DEF OverrunBounded
  <2>4. CASE ~(switch.on /\ ~OverLimit(counts'))
    <3>1. user' = user
      BY <1>1, <2>4 DEF Enter, Users01
    <3>2. AtWork' = AtWork
      BY <3>1 DEF AtWork
    <3> QED
      BY <1>1, <1>2, <1>4, <2>1, <2>2, <3>2, OverrunSame DEF LimitsInv
  <2> QED
    BY <2>3, <2>4
<1>7. FullIsOff'
  BY <1>1 DEF LimitsInv, FullIsOff
<1> QED
  BY <1>4, <1>5, <1>6, <1>7 DEF LimitsInv

LEMMA EndsKeep ==
  ASSUME LimitsInv, NEW u \in Users, Succeeds(u) \/ Uncounted(u) \/ OutOfQuota(u)
  PROVE  LimitsInv'
<1>1. LimitsTypeOK /\ switch \in Switches
  BY DEF LimitsInv, LimitsTypeOK
<1>2. user[u] = "inside" /\ user' = [user EXCEPT ![u] = "idle"]
  BY DEF Succeeds, Uncounted, OutOfQuota
<1>3. user' \in Users01 /\ AtWork' = AtWork - 1 /\ AtWork \in Nat
  BY <1>1, <1>2, LeavesIs
<1>4. CASE Uncounted(u)
  <2>1. UNCHANGED <<tick, limits, counts, switch, usage, document, told>>
    BY <1>4 DEF Uncounted
  <2>2. LimitsTypeOK'
    BY <1>1, <1>3, <2>1 DEF LimitsTypeOK
  <2>3. LastMinute' = LastMinute /\ LastMinute \in Nat
    BY <1>1, <2>1, LastMinuteIs DEF LastMinute, Pruned, Expired, Today
  <2>4. OverrunBounded'
    BY <1>1, <1>3, <2>1, <2>2, <2>3, OverrunSame DEF LimitsInv
  <2> QED
    BY <2>1, <2>2, <2>4, CountingSame DEF LimitsInv, FullIsOff
<1>5. CASE Succeeds(u) \/ OutOfQuota(u)
  <2>1. Use /\ UNCHANGED <<tick, limits, usage, document>>
    BY <1>5 DEF Succeeds, OutOfQuota
  <2>2. /\ counts' \in UseCounts /\ told' \in Tolds /\ told'.over = told.over
        /\ Counting' /\ (LimitsTypeOK' => OverrunBounded')
    BY <1>2, <2>1, UseIs
  <2>3. switch' \in Switches /\ (~switch.on => ~switch'.on)
    <3>1. switch' = switch \/ switch' = [on |-> FALSE, reason |-> "quota"]
      BY <1>5 DEF Succeeds, OutOfQuota
    <3>2. [on |-> FALSE, reason |-> "quota"] \in Switches
      BY DEF Switches
    <3>3. CASE switch' = switch
      BY <1>1, <3>3
    <3>4. CASE switch' = [on |-> FALSE, reason |-> "quota"]
      BY <3>2, <3>4
    <3> QED
      BY <3>1, <3>3, <3>4
  <2>4. LimitsTypeOK'
    BY <1>1, <1>3, <2>1, <2>2, <2>3 DEF LimitsTypeOK
  <2>5. FullIsOff'
    BY <2>1, <2>2, <2>3 DEF LimitsInv, FullIsOff
  <2> QED
    BY <2>2, <2>4, <2>5 DEF LimitsInv
<1> QED
  BY <1>4, <1>5

LEMMA PolicyIs ==
  ASSUME NEW s \in Switches, NEW w \in Usages
  PROVE  Policy(s, w) \in Switches /\ (w = "full" => ~Policy(s, w).on)
BY DEF Policy, Switches, Usages

LEMMA EditedIs ==
  ASSUME told \in Tolds
  PROVE  /\ Edited \in Tolds /\ Edited.day = told.day /\ Edited.used = told.used
         /\ Edited.unsaved = told.unsaved /\ Edited.lost = told.lost
         /\ Edited.relimited = told.relimited /\ Edited.over = told.over
<1>1. PICK n \in Nat : n = told.edits + 1
  BY ToldFields
<1>2. Edited = [told EXCEPT !.edits = n]
  BY <1>1 DEF Edited, Tolds
<1> QED
  BY <1>2 DEF Tolds

LEMMA WordsAre ==
  ASSUME NEW h \in Tolds, NEW b \in BOOLEAN, NEW c \in BOOLEAN
  PROVE  LET kept(g) == /\ g \in Tolds /\ g.day = h.day /\ g.used = h.used
                        /\ g.unsaved = h.unsaved /\ g.lost = h.lost
         IN  /\ kept([h EXCEPT !.over = c]) /\ [h EXCEPT !.over = c].over = c
             /\ [h EXCEPT !.over = c].relimited = h.relimited
             /\ kept([h EXCEPT !.hand = b, !.over = c]) /\ [h EXCEPT !.hand = b, !.over = c].over = c
             /\ [h EXCEPT !.hand = b, !.over = c].relimited = h.relimited
             /\ kept([h EXCEPT !.relimited = b]) /\ [h EXCEPT !.relimited = b].over = h.over
             /\ [h EXCEPT !.relimited = b].relimited = b
BY DEF Tolds

LEMMA AdministeredKeeps ==
  ASSUME LimitsInv, RememberUsage \/ SwitchByHand \/ SetLimits
  PROVE  LimitsInv'
<1>1. LimitsTypeOK /\ told \in Tolds /\ switch \in Switches /\ Edited \in Tolds
  BY EditedIs DEF LimitsInv, LimitsTypeOK
<1>2. UNCHANGED <<tick, counts, user, document>>
  BY DEF RememberUsage, SwitchByHand, SetLimits
<1>3. ASSUME told' \in Tolds /\ told'.day = Edited.day /\ told'.used = Edited.used,
             told'.unsaved = Edited.unsaved /\ told'.lost = Edited.lost
      PROVE  Counting'
  BY <1>1, <1>2, <1>3, EditedIs, CountingSame DEF LimitsInv
<1>4. CASE RememberUsage
  <2>1. usage' \in Usages /\ switch' \in Switches /\ (usage' = "full" => ~switch'.on)
        /\ UNCHANGED limits
    BY <1>1, <1>4, PolicyIs DEF RememberUsage, Usages
  <2>2. told' = [Edited EXCEPT !.over = FALSE]
    BY <1>4 DEF RememberUsage
  <2>3. /\ told' \in Tolds /\ told'.day = Edited.day /\ told'.used = Edited.used
        /\ told'.unsaved = Edited.unsaved /\ told'.lost = Edited.lost
        /\ told'.relimited = Edited.relimited
    BY <1>1, <2>2, WordsAre
  <2>4. LimitsTypeOK'
    BY <1>1, <1>2, <2>1, <2>3 DEF LimitsTypeOK
  <2>5. OverrunBounded'
    BY <1>1, <1>2, <2>1, <2>3, <2>4, EditedIs, WindowSame DEF LimitsInv
  <2> QED
    BY <1>3, <2>1, <2>3, <2>4, <2>5 DEF LimitsInv, FullIsOff
<1>5. CASE SwitchByHand
  <2>1. PICK b \in BOOLEAN :
          /\ switch' = [on |-> b, reason |-> IF b THEN "" ELSE switch.reason]
          /\ told' = [Edited EXCEPT !.hand = b, !.over = b]
    BY <1>5 DEF SwitchByHand
  <2>2. switch' \in Switches /\ switch'.on = b
    BY <1>1, <2>1 DEF Switches
  <2>3. /\ told' \in Tolds /\ told'.day = Edited.day /\ told'.used = Edited.used
        /\ told'.unsaved = Edited.unsaved /\ told'.lost = Edited.lost
        /\ told'.relimited = Edited.relimited /\ told'.over = b
    BY <1>1, <2>1 DEF Tolds
  <2>4. UNCHANGED <<limits, usage>>
    BY <1>5 DEF SwitchByHand
  <2>5. LimitsTypeOK'
    BY <1>1, <1>2, <2>2, <2>3, <2>4 DEF LimitsTypeOK
  <2>6. OverrunBounded'
    BY <1>1, <1>2, <2>3, <2>4, <2>5, EditedIs, WindowSame DEF LimitsInv
  <2>7. FullIsOff'
    BY <2>2, <2>3 DEF FullIsOff
  <2> QED
    BY <1>3, <2>3, <2>5, <2>6, <2>7 DEF LimitsInv
<1>6. CASE SetLimits
  <2>1. limits' \in [own : OwnLimits, group : OwnLimits] /\ UNCHANGED <<switch, usage>>
    BY <1>6 DEF SetLimits, OwnLimits
  <2>2. told' = [Edited EXCEPT !.relimited = TRUE]
    BY <1>6 DEF SetLimits
  <2>3. /\ told' \in Tolds /\ told'.day = Edited.day /\ told'.used = Edited.used
        /\ told'.unsaved = Edited.unsaved /\ told'.lost = Edited.lost
        /\ told'.relimited = TRUE /\ told'.over = told.over
    BY <1>1, <2>2, WordsAre, EditedIs
  <2>4. LimitsTypeOK'
    BY <1>1, <1>2, <2>1, <2>3 DEF LimitsTypeOK
  <2> QED
    BY <1>3, <2>1, <2>3, <2>4 DEF LimitsInv, FullIsOff, OverrunBounded
<1> QED
  BY <1>4, <1>5, <1>6

LEMMA FlushKeeps ==
  ASSUME LimitsInv, Flush
  PROVE  LimitsInv'
<1>1. /\ LimitsTypeOK /\ told \in Tolds /\ document' = Saved /\ told' = [told EXCEPT !.unsaved = 0]
      /\ UNCHANGED <<tick, limits, counts, switch, usage, user>>
  BY DEF LimitsInv, LimitsTypeOK, Flush
<1>2. /\ told' \in Tolds /\ told'.day = told.day /\ told'.used = told.used /\ told'.unsaved = 0
      /\ told'.lost = told.lost /\ told'.relimited = told.relimited /\ told'.over = told.over
  BY <1>1 DEF Tolds
<1>3. document' \in LimitDocs /\ document'.daily.day = counts.day
      /\ document'.daily.daily = counts.daily
  BY <1>1, SavedIs
<1>4. LimitsTypeOK'
  BY <1>1, <1>2, <1>3 DEF LimitsTypeOK
<1>5. Counting'
  <2>1. told.lost \in Nat
    BY <1>1, ToldFields
  <2> QED
    BY <1>1, <1>2, <1>3, <2>1 DEF LimitsInv, Counting, CountSays, Today
<1>6. OverrunBounded'
  BY <1>1, <1>2, <1>4, WindowSame DEF LimitsInv
<1>7. FullIsOff'
  BY <1>1, <1>2 DEF LimitsInv, FullIsOff
<1> QED
  BY <1>4, <1>5, <1>6, <1>7 DEF LimitsInv

LEMMA RestartKeeps ==
  ASSUME LimitsInv, Restart
  PROVE  LimitsInv'
<1>1. /\ LimitsTypeOK /\ told \in Tolds /\ Edited \in Tolds /\ document \in LimitDocs
      /\ UNCHANGED <<tick, document>>
  BY EditedIs DEF LimitsInv, LimitsTypeOK, Restart
<1>2. counts' \in UseCounts /\ counts'.day = document.daily.day /\ counts'.daily = document.daily.daily
  <2>1. document.daily.day \in Nat /\ document.daily.daily \in Nat
    BY <1>1, DocFields
  <2>2. counts' = [uses |-> <<>>, day |-> document.daily.day, daily |-> document.daily.daily]
    BY DEF Restart, Restored
  <2> QED
    BY <2>1, <2>2 DEF UseCounts
<1>3. limits' \in [own : OwnLimits, group : OwnLimits]
  <2>1. document.limits \in OwnLimits
    BY <1>1, DocFields
  <2> QED
    BY <1>1, <2>1 DEF Restart, LimitsTypeOK
<1>4. usage' \in Usages /\ switch' \in Switches /\ (usage' = "full" => ~switch'.on)
  <2>1. document.switch \in Switches /\ document.usage \in Usages
    BY <1>1, DocFields
  <2> QED
    BY <2>1, PolicyIs DEF Restart
<1>5. user' \in Users01
  BY DEF Restart, Users01
<1>6. /\ told' \in Tolds /\ told'.day = told.day /\ told'.used = told.used /\ told'.unsaved = 0
      /\ told'.lost = told.lost + told.unsaved /\ told'.relimited = TRUE
  <2>1. PICK b \in BOOLEAN, c \in BOOLEAN :
          b = document.told.hand /\ c = (document.told.over /\ document.usage # "full")
    BY <1>1, DocFields
  <2>2. PICK n \in Nat : n = told.lost + told.unsaved
    BY <1>1, ToldFields
  <2>3. told' = [Edited EXCEPT !.lost = Edited.lost + told.unsaved, !.unsaved = 0, !.relimited = TRUE,
                               !.hand = b, !.over = c]
    BY <1>1, <2>1 DEF Restart, Tolds
  <2>4. told' = [Edited EXCEPT !.lost = n, !.unsaved = 0, !.relimited = TRUE, !.hand = b, !.over = c]
    BY <1>1, <2>2, <2>3, EditedIs
  <2> QED
    BY <1>1, <2>2, <2>4, EditedIs DEF Tolds
<1>7. LimitsTypeOK'
  BY <1>1, <1>2, <1>3, <1>4, <1>5, <1>6 DEF LimitsTypeOK
<1>8. Counting'
  <2>1. told.lost \in Nat /\ told.unsaved \in Nat
    BY <1>1, ToldFields
  <2>2. Today' = Today
    BY <1>1 DEF Today
  <2>3. Counting
    BY DEF LimitsInv
  <2>4. told'.lost + told'.unsaved = told.lost + told.unsaved /\ told'.lost = told.lost + told.unsaved
    BY <1>6, <2>1
  <2> QED
    BY <1>1, <1>2, <1>6, <2>2, <2>3, <2>4 DEF Counting, CountSays
<1>9. OverrunBounded'
  BY <1>6 DEF OverrunBounded
<1>10. FullIsOff'
  BY <1>4 DEF FullIsOff
<1> QED
  BY <1>7, <1>8, <1>9, <1>10 DEF LimitsInv

LEMMA ElapseKeeps ==
  ASSUME LimitsInv, Elapse
  PROVE  LimitsInv'
<1>1. /\ LimitsTypeOK /\ tick \in Nat /\ tick' = tick + 1
      /\ UNCHANGED <<limits, counts, switch, usage, user, document, told>>
  BY DEF LimitsInv, LimitsTypeOK, Elapse
<1>2. LimitsTypeOK'
  BY <1>1 DEF LimitsTypeOK
<1>3. Today \in Nat /\ Today' \in Nat /\ Today <= Today'
  BY <1>1, DayGoesOn, AccountLimitsAssumption DEF Today
<1>4. Counting'
  <2>1. told.day \in Nat /\ counts.day \in Nat /\ document.daily.day \in Nat
    BY <1>1, ToldFields, CountFields, DocFields DEF LimitsTypeOK
  <2> QED
    BY <1>1, <1>3, <2>1 DEF LimitsInv, Counting, CountSays
<1>5. OverrunBounded'
  <2>1. counts.uses \in Seq(Nat) /\ Len(counts.uses) \in Nat
    BY <1>1, CountFields DEF LimitsTypeOK
  <2> DEFINE s == counts.uses
             i == Cut(s, tick)
  <2>2. i \in 0..Len(s) /\ \A j \in 1..i : s[j] <= tick - Minute
    BY <1>1, <2>1, CutIs
  <2>3. PICK now \in Nat : now = tick + 1
    BY <1>1
  <2> DEFINE k == Cut(s, now)
  <2>4. k \in 0..Len(s)
    BY <2>1, <2>3, CutIs
  <2>5. k < Len(s) => s[k + 1] > now - Minute
    BY <2>1, <2>3, CutIs
  <2>6. \A j \in 1..Len(s) : s[j] \in Nat
    BY <2>1
  <2>7. i <= k
    <3> HIDE DEF i, k
    <3> SUFFICES ASSUME k < i PROVE FALSE
      BY <2>1, <2>2, <2>4
    <3>1. k + 1 \in 1..i /\ k + 1 \in 1..Len(s) /\ k < Len(s)
      BY <2>1, <2>2, <2>4
    <3>2. s[k + 1] <= tick - Minute /\ s[k + 1] > now - Minute /\ s[k + 1] \in Nat
      BY <2>2, <2>5, <2>6, <3>1
    <3> QED
      BY <1>1, <2>3, <3>2, AccountLimitsAssumption
  <2>8. LastMinute = Len(s) - i /\ LastMinute' = Len(s) - k
    <3>1. LastMinute' = Fresh(counts', tick')
      BY <1>2, LastMinuteNext
    <3>2. LastMinute = Fresh(counts, tick)
      BY <1>1, LastMinuteIs
    <3> QED
      BY <1>1, <2>3, <3>1, <3>2 DEF Fresh
  <2>9. AtWork' = AtWork /\ AtWork \in Nat
    BY <1>1, InsideIs DEF AtWork, LimitsTypeOK
  <2>10. LastMinute' + AtWork' <= LastMinute + AtWork
    <3> HIDE DEF i, k
    <3> QED
      BY <2>1, <2>2, <2>4, <2>7, <2>8, <2>9
  <2> QED
    BY <1>1, <1>2, <2>10, OverrunSame DEF LimitsInv
<1>6. FullIsOff'
  BY <1>1 DEF LimitsInv, FullIsOff
<1> QED
  BY <1>2, <1>4, <1>5, <1>6 DEF LimitsInv

LEMMA LimitsStart == LimitsInit => LimitsInv
<1> SUFFICES ASSUME LimitsInit PROVE LimitsInv
  OBVIOUS
<1>1. /\ tick = 0 /\ counts = [uses |-> <<>>, day |-> 0, daily |-> 0]
      /\ switch = [on |-> TRUE, reason |-> ""] /\ usage = "none"
      /\ user = [u \in Users |-> "idle"] /\ told = ToldInit /\ document = Saved
  BY DEF LimitsInit, NoCounts
<1>0. limits \in [own : OwnLimits, group : OwnLimits]
  <2>1. PICK own \in Limits \X Limits : limits = [own |-> own, group |-> <<0, 0>>]
    BY DEF LimitsInit
  <2>2. <<0, 0>> \in Limits \X Limits
    BY AccountLimitsAssumption
  <2> QED
    BY <2>1, <2>2 DEF OwnLimits
<1>2. /\ told \in Tolds /\ told.day = 0 /\ told.used = 0 /\ told.unsaved = 0 /\ told.lost = 0
      /\ told.hand \in BOOLEAN /\ told.over \in BOOLEAN
  BY <1>1 DEF ToldInit, Tolds
<1>3. counts \in UseCounts /\ counts.day = 0 /\ counts.daily = 0 /\ counts.uses = <<>>
  <2>1. counts = [uses |-> <<>>, day |-> 0, daily |-> 0]
    BY <1>1
  <2> QED
    BY <2>1 DEF UseCounts
<1>4. switch \in Switches /\ usage \in Usages /\ user \in Users01
  BY <1>1 DEF Switches, Usages, Users01
<1>5. document \in LimitDocs /\ document.daily.day = 0 /\ document.daily.daily = 0
  <2>1. limits.own \in OwnLimits
    BY <1>0
  <2>2. [day |-> counts.day, daily |-> counts.daily] \in DayDocs
    BY <1>3 DEF DayDocs
  <2>3. [hand |-> told.hand, over |-> told.over] \in WordDocs
    BY <1>2 DEF WordDocs
  <2>4. document = Saved
    BY <1>1
  <2>5. Saved \in LimitDocs
    BY <1>4, <2>1, <2>2, <2>3 DEF Saved, LimitDocs
  <2> QED
    BY <1>3, <2>4, <2>5 DEF Saved
<1>6. LimitsTypeOK
  BY <1>0, <1>1, <1>2, <1>3, <1>4, <1>5 DEF LimitsTypeOK
<1>7. Today \in Nat
  BY <1>6, TodayIsNat
<1>8. Counting
  BY <1>2, <1>3, <1>5, <1>7 DEF Counting, CountSays
<1>9. OverrunBounded
  <2>1. Len(counts.uses) = 0 /\ counts.uses \in Seq(Nat) /\ tick \in Nat
    <3>1. Len(<<>>) = 0 /\ <<>> \in Seq(Nat)
      OBVIOUS
    <3>2. tick = 0 /\ counts.uses = <<>>
      BY <1>1, <1>3
    <3> QED
      BY <3>1, <3>2
  <2>2. LastMinute = 0
    <3>1. Cut(counts.uses, tick) = 0
      BY <2>1, CutIs
    <3> QED
      BY <1>6, <2>1, <3>1, LastMinuteIs DEF Fresh
  <2>3. AtWork = 0
    <3>1. {u \in Users : user[u] = "inside"} = {}
      BY <1>1
    <3> QED
      BY <3>1, FS_EmptySet DEF AtWork
  <2>4. Cardinality(Users) \in Nat
    BY <1>4, InsideIs
  <2>5. Effective[1] \in Nat
    <3>1. limits.own[1] \in Nat /\ limits.group[1] \in Nat
      BY <1>0, AccountLimitsAssumption DEF OwnLimits
    <3> QED
      BY <3>1 DEF Effective
  <2> QED
    BY <2>2, <2>3, <2>4, <2>5 DEF OverrunBounded
<1>10. FullIsOff
  BY <1>1 DEF FullIsOff
<1> QED
  BY <1>6, <1>8, <1>9, <1>10 DEF LimitsInv

LEMMA LimitsNextKeeps == LimitsInv /\ [LimitsNext]_limitVars => LimitsInv'
<1> SUFFICES ASSUME LimitsInv, [LimitsNext]_limitVars PROVE LimitsInv'
  OBVIOUS
<1>1. CASE RememberUsage \/ SwitchByHand \/ SetLimits
  BY <1>1, AdministeredKeeps
<1>2. CASE Flush
  BY <1>2, FlushKeeps
<1>3. CASE Restart
  BY <1>3, RestartKeeps
<1>4. CASE Elapse
  BY <1>4, ElapseKeeps
<1>5. ASSUME NEW u \in Users, Enter(u) PROVE LimitsInv'
  BY <1>5, EnterKeeps
<1>6. ASSUME NEW u \in Users, Succeeds(u) \/ Uncounted(u) \/ OutOfQuota(u) PROVE LimitsInv'
  BY <1>6, EndsKeep
<1>7. CASE UNCHANGED limitVars
  <2>1. UNCHANGED <<tick, limits, counts, switch, usage, user, document, told>>
    BY <1>7 DEF limitVars
  <2>2. LimitsTypeOK'
    BY <2>1 DEF LimitsInv, LimitsTypeOK
  <2> QED
    BY <2>1, <2>2, CountingSame, WindowSame DEF LimitsInv, FullIsOff
<1> QED
  BY <1>1, <1>2, <1>3, <1>4, <1>5, <1>6, <1>7 DEF LimitsNext

LEMMA InvLimits == LimitsInv => LimitsKept
<1> SUFFICES ASSUME LimitsInv PROVE DailyExact
  BY DEF LimitsInv, LimitsKept
<1>1. /\ LimitsTypeOK /\ counts \in UseCounts /\ told \in Tolds /\ Today \in Nat
      /\ Counting
  BY TodayIsNat DEF LimitsInv, LimitsTypeOK
<1>2. Pruned(counts).daily = IF counts.day = Today THEN counts.daily ELSE 0
  BY <1>1, PrunedIs
<1>3. counts.day \in Nat /\ counts.daily \in Nat /\ told.day \in Nat /\ told.used \in Nat /\ told.lost \in Nat
  BY <1>1, CountFields, ToldFields
<1> QED
  BY <1>1, <1>2, <1>3 DEF DailyExact, Counting, CountSays

(* LimitsKept is about ReadyWithLimits, recordUseLocked, pruneUsesLocked and *)
(* the quota policy: while the limits stay as they are, the uses of the last *)
(* minute and the requests inside exceed rpm by no more than the requests    *)
(* that were let in together; the count of the day is exactly the uses of    *)
(* the day that no crash has lost; and an account whose last usage said that *)
(* nothing is left is off.                                                   *)
THEOREM LimitsHold == LimitsSpec => []LimitsKept
<1>1. LimitsInv => LimitsKept
  BY InvLimits
<1> QED
  BY LimitsStart, LimitsNextKeeps, <1>1, PTL DEF LimitsSpec

(* Runs of the administration, seen from the limits of an account.           *)
LEMMA RunIsLimits == Init /\ [][Next]_vars => LimitsSpec
<1>1. Init => LimitsInit
  BY DEF Init
<1>2. [Next]_vars => [LimitsNext]_limitVars
  <2> SUFFICES ASSUME [Next]_vars PROVE LimitsNext \/ UNCHANGED limitVars
    BY Zenon
  <2>1. CASE UNCHANGED vars
    BY <2>1, Zenon DEF vars
  <2>2. CASE part = "limits" /\ Next
    BY <2>2, Zenon DEF Next, Logs, Metered, Exiting, Limiting, Rotating, Translating,
                       Conversing, Setting, Searching, LimitsNext
  <2>3. CASE part # "limits" /\ Next
    BY <2>3, Zenon DEF Next, Logs, Metered, Exiting, Limiting, Rotating, Translating,
                       Conversing, Setting, Searching
  <2> QED
    BY <2>1, <2>2, <2>3
<1> QED
  BY <1>1, <1>2, PTL DEF LimitsSpec

-----------------------------------------------------------------------------
(* The settings (Settings).                                                  *)

IsConfig(c) ==
  c \in [fields : {c.fields}, password : {c.password}, must : {c.must},
         text : {c.text}, mode : {c.mode}]

IsEdit(r) ==
  /\ r \in [at : {r.at}, sent : {r.sent}, value : {r.value}]
  /\ r.at \in {"idle", "logs", "scheduler", "runner"}

SettingsShape ==
  /\ IsConfig(config)
  /\ edits = [e \in Editors |-> edits[e]] /\ \A e \in Editors : IsEdit(edits[e])
  /\ applied = [f \in Told |-> applied[f]]
  /\ saved \in BOOLEAN /\ overlapped \in BOOLEAN

AsShown(f) == applied[f] = Reads[f]

(* A handler tells the scheduler and then the task runner, of what it has    *)
(* read since the settings changed.                                          *)
Tells(e) ==
  /\ edits[e].at = "scheduler" => edits[e].value \in {Nothing, Reads["request_retry"]}
  /\ edits[e].at = "runner" =>
       edits[e].value \in {Nothing, Reads["batch_concurrency"]} /\ AsShown("request_retry")

SettingsInv ==
  /\ SettingsShape
  /\ saved /\ ~overlapped =>
       /\ \A e, n \in Editors : edits[e].at # "idle" /\ edits[n].at # "idle" => e = n
       /\ \A e \in Editors : Tells(e)
       /\ (\A e \in Editors : edits[e].at = "idle") =>
            AsShown("request_retry") /\ AsShown("batch_concurrency")

LEMMA ConfigIs ==
  ASSUME NEW c, IsConfig(c), NEW t, NEW o
  PROVE  /\ IsConfig([c EXCEPT !.password = t, !.must = o])
         /\ [c EXCEPT !.password = t, !.must = o].fields = c.fields
         /\ IsConfig([c EXCEPT !.text = t, !.mode = o])
<1>1. IsConfig([c EXCEPT !.password = t, !.must = o])
  BY DEF IsConfig
<1>2. [c EXCEPT !.password = t, !.must = o].fields = c.fields
  BY DEF IsConfig
<1>3. IsConfig([c EXCEPT !.text = t, !.mode = o])
  BY DEF IsConfig
<1> QED
  BY <1>1, <1>2, <1>3

LEMMA StartFollows ==
  ASSUME NEW d, Start(d)
  PROVE  SettingsInv'
<1>1. /\ config' = Opened(d) /\ applied' = [f \in Told |-> Shown(f, Opened(d).fields[f])]
      /\ edits' = [e \in Editors |-> NoEdit] /\ saved' = TRUE /\ overlapped' = FALSE
  BY DEF Start
<1>2. IsConfig(config')
  BY <1>1 DEF IsConfig, Opened
<1>3. \A e \in Editors : edits'[e] = NoEdit /\ edits'[e].at = "idle" /\ IsEdit(edits'[e])
  BY <1>1 DEF NoEdit, IsEdit
<1>4. SettingsShape'
  BY <1>1, <1>2, <1>3 DEF SettingsShape
<1>5. ASSUME NEW f \in Told PROVE AsShown(f)'
  <2>1. applied'[f] = Shown(f, config'.fields[f])
    BY <1>1
  <2>2. Reads'[f] = Shown(f, config'.fields[f])
    BY DEF Reads, Told, SettingFields
  <2> QED
    BY <2>1, <2>2 DEF AsShown
<1>6. "request_retry" \in Told /\ "batch_concurrency" \in Told
  BY DEF Told
<1> QED
  BY <1>3, <1>4, <1>5, <1>6 DEF SettingsInv, Tells

LEMMA UpdateFollows ==
  ASSUME SettingsInv, NEW e \in Editors, NEW sent, NEW to, IsConfig(to), Update(e, sent, to)
  PROVE  SettingsInv'
<1>1. /\ config' = to /\ UNCHANGED applied /\ edits[e].at = "idle"
      /\ overlapped' = (overlapped \/ \E n \in Editors : edits[n].at # "idle")
  BY DEF Update
<1>2. CASE /\ saved' = TRUE
           /\ edits' = [edits EXCEPT ![e] =
                [at |-> "logs", sent |-> sent, value |-> to.fields["log_max_entries"]]]
  <2> DEFINE r == [at |-> "logs", sent |-> sent, value |-> to.fields["log_max_entries"]]
  <2>1. IsEdit(r) /\ r.at = "logs"
    BY DEF IsEdit
  <2> HIDE DEF r
  <2>2. edits' = [edits EXCEPT ![e] = r]
    BY <1>2 DEF r
  <2>3. edits' = [n \in Editors |-> IF n = e THEN r ELSE edits[n]]
    BY <2>2 DEF SettingsInv, SettingsShape
  <2>4. edits'[e] = r /\ \A n \in Editors \ {e} : edits'[n] = edits[n]
    BY <2>3
  <2>5. SettingsShape'
    <3>1. \A n \in Editors : IsEdit(edits'[n])
      BY <2>1, <2>4 DEF SettingsInv, SettingsShape
    <3>2. edits' = [n \in Editors |-> edits'[n]]
      BY <2>3
    <3>3. overlapped' \in BOOLEAN /\ saved' \in BOOLEAN
      BY <1>1, <1>2
    <3> QED
      BY <1>1, <3>1, <3>2, <3>3 DEF SettingsInv, SettingsShape
  <2>6. ASSUME ~overlapped' PROVE \A n \in Editors \ {e} : edits'[n].at = "idle"
    BY <1>1, <2>4, <2>6
  <2> QED
    BY <2>1, <2>4, <2>5, <2>6 DEF SettingsInv, Tells
<1>3. CASE saved' = FALSE /\ UNCHANGED <<stored, edits>>
  <2>1. overlapped' \in BOOLEAN
    BY <1>1
  <2> QED
    BY <1>1, <1>3, <2>1 DEF SettingsInv, SettingsShape
<1> QED
  BY <1>2, <1>3 DEF Update

LEMMA AdminsFollow ==
  ASSUME SettingsInv, NEW e \in Editors, SetField(e) \/ SetPassword(e) \/ SetPrompt(e)
  PROVE  SettingsInv'
<1>1. IsConfig(config)
  BY DEF SettingsInv, SettingsShape
<1>2. \E sent, to : IsConfig(to) /\ Update(e, sent, to)
  <2>1. CASE SetField(e)
    <3>1. PICK f \in SettingFields, x \in Offered :
            Update(e, f, [config EXCEPT !.fields[f] = Updated(f, @, x)])
      BY <2>1 DEF SetField
    <3>2. IsConfig([config EXCEPT !.fields[f] = Updated(f, @, x)])
      BY <1>1 DEF IsConfig
    <3> QED
      BY <3>1, <3>2
  <2>2. CASE SetPassword(e)
    BY <1>1, <2>2, ConfigIs DEF SetPassword, WithPassword
  <2>3. CASE SetPrompt(e)
    BY <1>1, <2>3, ConfigIs DEF SetPrompt
  <2> QED
    BY <2>1, <2>2, <2>3
<1> QED
  BY <1>2, UpdateFollows

(* What is shown has not changed.                                            *)
LEMMA SameReads ==
  ASSUME config'.fields = config.fields
  PROVE  Reads' = Reads
BY DEF Reads

LEMMA PasswordFollows ==
  ASSUME SettingsInv, ChangePassword
  PROVE  SettingsInv'
<1>1. /\ config' = WithPassword /\ UNCHANGED <<applied, edits, overlapped>>
      /\ saved' = saved \/ saved' = FALSE
  BY DEF ChangePassword
<1>2. IsConfig(config') /\ config'.fields = config.fields
  BY <1>1, ConfigIs DEF SettingsInv, SettingsShape, WithPassword
<1>3. Reads' = Reads
  BY <1>2, SameReads
<1>4. SettingsShape'
  BY <1>1, <1>2 DEF SettingsInv, SettingsShape
<1> QED
  BY <1>1, <1>3, <1>4 DEF SettingsInv, Tells, AsShown

LEMMA ReadFollows ==
  ASSUME SettingsInv, NEW e \in Editors, ReadSetting(e)
  PROVE  SettingsInv'
<1> DEFINE x == Reads[FieldAt[edits[e].at]]
<1>1. /\ edits[e].at \in {"scheduler", "runner"}
      /\ UNCHANGED <<config, stored, applied, env, saved, overlapped, changes>>
  BY DEF ReadSetting
<1>2. IsEdit(edits[e])
  BY DEF SettingsInv, SettingsShape
<1>3. PICK r : /\ IsEdit(r) /\ r.at = edits[e].at /\ r.value = x
               /\ edits' = [n \in Editors |-> IF n = e THEN r ELSE edits[n]]
  <2> DEFINE r == [edits[e] EXCEPT !.value = x]
  <2>1. IsEdit(r) /\ r.at = edits[e].at /\ r.value = x
    BY <1>2 DEF IsEdit
  <2>2. edits' = [edits EXCEPT ![e] = r]
    BY DEF ReadSetting, SettingsInv, SettingsShape
  <2> HIDE DEF r
  <2>3. edits' = [n \in Editors |-> IF n = e THEN r ELSE edits[n]]
    BY <2>2 DEF SettingsInv, SettingsShape
  <2> QED
    BY <2>1, <2>3
<1>4. edits'[e] = r /\ \A n \in Editors \ {e} : edits'[n] = edits[n]
  BY <1>3
<1>5. SettingsShape'
  <2>1. \A n \in Editors : IsEdit(edits'[n])
    BY <1>3, <1>4 DEF SettingsInv, SettingsShape
  <2>2. edits' = [n \in Editors |-> edits'[n]]
    BY <1>3
  <2> QED
    BY <1>1, <2>1, <2>2 DEF SettingsInv, SettingsShape
<1>6. Reads' = Reads
  BY <1>1, SameReads
<1>7. \A n \in Editors : edits'[n].at = edits[n].at
  BY <1>3, <1>4
<1>8. ASSUME saved, ~overlapped PROVE \A n \in Editors : Tells(n)'
  <2>1. \A n \in Editors : Tells(n)
    BY <1>8 DEF SettingsInv
  <2>2. \A n \in Editors \ {e} : Tells(n)'
    BY <1>1, <1>4, <1>6, <2>1 DEF Tells, AsShown
  <2>3. x = IF edits[e].at = "scheduler" THEN Reads["request_retry"] ELSE Reads["batch_concurrency"]
    BY <1>1 DEF FieldAt
  <2>4. Tells(e)'
    BY <1>1, <1>3, <1>4, <1>6, <2>1, <2>3 DEF Tells, AsShown
  <2> QED
    BY <2>2, <2>4
<1> QED
  BY <1>1, <1>5, <1>6, <1>7, <1>8 DEF SettingsInv, AsShown

LEMMA ApplyFollows ==
  ASSUME SettingsInv, NEW e \in Editors, ApplySetting(e)
  PROVE  SettingsInv'
<1>1. /\ edits[e].at \in {"logs", "scheduler", "runner"} /\ edits[e].value # Nothing
      /\ UNCHANGED <<config, stored, env, saved, overlapped, changes>>
      /\ IsEdit(edits[e])
  BY DEF ApplySetting, SettingsInv, SettingsShape, IsEdit
<1>2. PICK w \in {"scheduler", "runner", "idle"} : w = Steps[edits[e].at]
  BY <1>1 DEF Steps
<1>3. /\ edits[e].at = "logs" => w = "scheduler"
      /\ edits[e].at = "scheduler" => w = "runner"
      /\ edits[e].at = "runner" => w = "idle"
  BY <1>2 DEF Steps
<1>4. PICK r : /\ IsEdit(r) /\ r.at = w /\ r.value = Nothing
               /\ edits' = [n \in Editors |-> IF n = e THEN r ELSE edits[n]]
  <2> DEFINE s == IF edits[e].at = "runner" THEN "none" ELSE edits[e].sent
             r == [edits[e] EXCEPT !.at = w, !.value = Nothing, !.sent = s]
  <2>1. IsEdit(r) /\ r.at = w /\ r.value = Nothing
    <3> HIDE DEF s
    <3>1. r.at = w /\ r.value = Nothing
      BY <1>1 DEF IsEdit
    <3>2. IsEdit(r)
      BY <1>1 DEF IsEdit
    <3> QED
      BY <3>1, <3>2
  <2>2. edits' = [edits EXCEPT ![e] = r]
    BY <1>1, <1>2 DEF ApplySetting, SettingsInv, SettingsShape, IsEdit
  <2> HIDE DEF r
  <2>3. edits' = [n \in Editors |-> IF n = e THEN r ELSE edits[n]]
    BY <2>2 DEF SettingsInv, SettingsShape
  <2> QED
    BY <2>1, <2>3
<1>5. edits'[e] = r /\ \A n \in Editors \ {e} : edits'[n] = edits[n]
  BY <1>4
<1>6. applied' = [f \in Told |-> applied'[f]]
  BY DEF ApplySetting, SettingsInv, SettingsShape
<1>7. SettingsShape'
  <2>1. \A n \in Editors : IsEdit(edits'[n])
    BY <1>4, <1>5 DEF SettingsInv, SettingsShape
  <2>2. edits' = [n \in Editors |-> edits'[n]]
    BY <1>4
  <2> QED
    BY <1>1, <1>6, <2>1, <2>2 DEF SettingsInv, SettingsShape
<1>8. Reads' = Reads
  BY <1>1, SameReads
<1>9. ASSUME saved, ~overlapped
      PROVE  /\ \A n, k \in Editors : edits'[n].at # "idle" /\ edits'[k].at # "idle" => n = k
             /\ \A n \in Editors : Tells(n)'
             /\ (\A n \in Editors : edits'[n].at = "idle") =>
                  AsShown("request_retry")' /\ AsShown("batch_concurrency")'
  <2>1. \A n \in Editors \ {e} : edits'[n].at = "idle"
    BY <1>1, <1>5, <1>9 DEF SettingsInv
  <2>2. Tells(e)
    BY <1>9 DEF SettingsInv
  <2>3. CASE edits[e].at = "logs"
    BY <1>3, <1>4, <1>5, <2>1, <2>3 DEF Tells
  <2>4. CASE edits[e].at = "scheduler"
    <3>1. applied' = [applied EXCEPT !["request_retry"] = Reads["request_retry"]]
      <4>1. edits[e].value = Reads["request_retry"]
        BY <1>1, <2>2, <2>4 DEF Tells
      <4>2. FieldAt[edits[e].at] = "request_retry" /\ Due(edits[e])
        BY <2>4 DEF FieldAt, Due
      <4> QED
        BY <4>1, <4>2 DEF ApplySetting
    <3>2. applied'["request_retry"] = Reads["request_retry"]
      BY <3>1 DEF SettingsInv, SettingsShape, Told
    <3> QED
      BY <1>3, <1>4, <1>5, <1>8, <2>1, <2>4, <3>2 DEF Tells, AsShown
  <2>5. CASE edits[e].at = "runner"
    <3>1. applied' = [applied EXCEPT !["batch_concurrency"] = Reads["batch_concurrency"]]
      <4>1. edits[e].value = Reads["batch_concurrency"]
        BY <1>1, <2>2, <2>5 DEF Tells
      <4>2. FieldAt[edits[e].at] = "batch_concurrency" /\ Due(edits[e])
        BY <2>5 DEF FieldAt, Due
      <4> QED
        BY <4>1, <4>2 DEF ApplySetting
    <3>2. /\ applied'["batch_concurrency"] = Reads["batch_concurrency"]
          /\ applied'["request_retry"] = applied["request_retry"]
      BY <3>1 DEF SettingsInv, SettingsShape, Told
    <3> QED
      BY <1>3, <1>4, <1>5, <1>8, <2>1, <2>2, <2>5, <3>2 DEF Tells, AsShown
  <2> QED
    BY <1>1, <2>3, <2>4, <2>5
<1> QED
  BY <1>1, <1>7, <1>9 DEF SettingsInv

LEMMA SettingsStart == SettingsInit => SettingsInv
<1> SUFFICES ASSUME SettingsInit PROVE SettingsInv
  OBVIOUS
<1>1. PICK d \in Documents : config = Opened(d)
  BY DEF SettingsInit
<1>2. /\ applied = [f \in Told |-> Shown(f, config.fields[f])]
      /\ edits = [e \in Editors |-> NoEdit] /\ saved = TRUE /\ overlapped = FALSE
  BY DEF SettingsInit
<1>3. IsConfig(config)
  BY <1>1 DEF IsConfig, Opened
<1>4. \A e \in Editors : edits[e].at = "idle" /\ IsEdit(edits[e])
  BY <1>2 DEF NoEdit, IsEdit
<1>5. SettingsShape
  BY <1>2, <1>3, <1>4 DEF SettingsShape
<1>6. ASSUME NEW f \in Told PROVE AsShown(f)
  BY <1>2 DEF AsShown, Reads, Told, SettingFields
<1>7. "request_retry" \in Told /\ "batch_concurrency" \in Told
  BY DEF Told
<1> QED
  BY <1>4, <1>5, <1>6, <1>7 DEF SettingsInv, Tells

LEMMA SettingsNextFollows == SettingsInv /\ [SettingsNext]_settingVars => SettingsInv'
<1> SUFFICES ASSUME SettingsInv, [SettingsNext]_settingVars PROVE SettingsInv'
  OBVIOUS
<1>1. CASE StartAgain
  BY <1>1, StartFollows DEF StartAgain
<1>2. CASE ChangePassword
  BY <1>2, PasswordFollows
<1>3. ASSUME NEW e \in Editors, SetField(e) \/ SetPassword(e) \/ SetPrompt(e) PROVE SettingsInv'
  BY <1>3, AdminsFollow
<1>4. ASSUME NEW e \in Editors, ReadSetting(e) \/ ApplySetting(e) PROVE SettingsInv'
  BY <1>4, ReadFollows, ApplyFollows
<1>5. CASE UNCHANGED settingVars
  BY <1>5 DEF settingVars, SettingsInv, SettingsShape, Tells, AsShown, Reads
<1> QED
  BY <1>1, <1>2, <1>3, <1>4, <1>5 DEF SettingsNext

(* Followed is about Update and the handlers that tell the parts: when no    *)
(* change is under way, the last one was stored and no two overlapped, the   *)
(* scheduler and the task runner work with the settings that are shown,      *)
(* whatever could not be stored before and however often it has restarted.   *)
THEOREM SettingsAreFollowed == SettingsSpec => []Followed
<1>1. SettingsInv => Followed
  BY DEF SettingsInv, Followed, AsShown, Told
<1> QED
  BY SettingsStart, SettingsNextFollows, <1>1, PTL DEF SettingsSpec

-----------------------------------------------------------------------------
(* What a start brings back (Settings).                                      *)

(* Opening what is stored changes no setting, password or duty to change it, *)
(* and unless a save has failed, what is stored is what is in use.           *)
KeptInv ==
  /\ IsConfig(config)
  /\ config.fields = [f \in SettingFields |-> config.fields[f]]
  /\ \A f \in SettingFields : Loaded(f, config.fields[f]) = config.fields[f]
  /\ config.password # "none" /\ Forced(config) = config.must
  /\ saved => stored = config

LEMMA LoadedTwice ==
  ASSUME NEW f \in SettingFields, NEW v
  PROVE  Loaded(f, Loaded(f, v)) = Loaded(f, v)
BY DEF Loaded, DefaultOf, SettingFields, Nothing

(* Nor would it change what an update has made.                              *)
LEMMA LoadedUpdated ==
  ASSUME NEW f \in SettingFields, NEW old, Loaded(f, old) = old, NEW v \in Offered
  PROVE  Loaded(f, Updated(f, old, v)) = Updated(f, old, v)
BY DEF Loaded, Updated, DefaultOf, SettingFields, Nothing, Offered, Limit

LEMMA OpenedKept ==
  ASSUME NEW d, config = Opened(d)
  PROVE  /\ IsConfig(config)
         /\ config.fields = [f \in SettingFields |-> config.fields[f]]
         /\ \A f \in SettingFields : Loaded(f, config.fields[f]) = config.fields[f]
         /\ config.password # "none" /\ Forced(config) = config.must
<1>1. IsConfig(config)
  BY DEF IsConfig, Opened
<1>2. config.fields = [f \in SettingFields |-> Loaded(f, d.fields[f])]
  BY DEF Opened
<1>3. config.password # "none" /\ Forced(config) = config.must
  BY DEF Opened, Forced
<1> QED
  BY <1>1, <1>2, <1>3, LoadedTwice

LEMMA KeptNext == KeptInv /\ [SettingsNext]_settingVars => KeptInv'
<1> SUFFICES ASSUME KeptInv, [SettingsNext]_settingVars PROVE KeptInv'
  OBVIOUS
<1>1. CASE StartAgain
  <2>1. config' = Opened(stored) /\ stored' = config'
    BY <1>1 DEF StartAgain, Start
  <2>2. IsConfig(config')
    BY <2>1 DEF IsConfig, Opened
  <2>3. config'.fields = [f \in SettingFields |-> Loaded(f, stored.fields[f])]
    BY <2>1 DEF Opened
  <2>4. config'.password # "none" /\ Forced(config') = config'.must
    BY <2>1 DEF Opened, Forced
  <2> QED
    BY <2>1, <2>2, <2>3, <2>4, LoadedTwice DEF KeptInv, Forced
<1>2. CASE UNCHANGED config /\ UNCHANGED stored /\ UNCHANGED saved
  BY <1>2 DEF KeptInv, Forced
<1>3. ASSUME config' = WithPassword PROVE
        /\ IsConfig(config') /\ config'.fields = config.fields
        /\ config'.password # "none" /\ Forced(config') = config'.must
  <2>1. config'.password = "own" /\ config'.must = FALSE
    BY <1>3 DEF WithPassword, KeptInv, IsConfig
  <2>2. IsConfig(config)
    BY DEF KeptInv
  <2>3. IsConfig(config') /\ config'.fields = config.fields
    BY <1>3, <2>2, ConfigIs DEF WithPassword
  <2> QED
    BY <2>1, <2>3 DEF Forced
<1>4. CASE ChangePassword
  BY <1>3, <1>4 DEF ChangePassword, KeptInv, Forced
<1>5. ASSUME NEW e \in Editors, SetPassword(e) PROVE KeptInv'
  BY <1>3, <1>5 DEF SetPassword, Update, KeptInv, Forced
<1>6. ASSUME NEW e \in Editors, SetPrompt(e) PROVE KeptInv'
  <2>1. PICK text, mode : Update(e, "prompt", [config EXCEPT !.text = text, !.mode = mode])
    BY <1>6 DEF SetPrompt
  <2>2. config' = [config EXCEPT !.text = text, !.mode = mode] /\ (saved' => stored' = config')
    BY <2>1 DEF Update
  <2>3. /\ IsConfig(config') /\ config'.fields = config.fields
        /\ config'.password = config.password /\ config'.must = config.must
    BY <2>2 DEF KeptInv, IsConfig
  <2> QED
    BY <2>2, <2>3 DEF KeptInv, Forced
<1>7. ASSUME NEW e \in Editors, SetField(e) PROVE KeptInv'
  <2>1. PICK f \in SettingFields, v \in Offered :
          Update(e, f, [config EXCEPT !.fields[f] = Updated(f, @, v)])
    BY <1>7 DEF SetField
  <2>2. PICK u : u = Updated(f, config.fields[f], v)
    OBVIOUS
  <2>3. config' = [config EXCEPT !.fields[f] = u] /\ (saved' => stored' = config')
    BY <2>1, <2>2 DEF Update
  <2>4. /\ IsConfig(config') /\ config'.fields = [config.fields EXCEPT ![f] = u]
        /\ config'.password = config.password /\ config'.must = config.must
    BY <2>3 DEF KeptInv, IsConfig
  <2>5. config'.fields = [g \in SettingFields |-> IF g = f THEN u ELSE config.fields[g]]
    BY <2>4 DEF KeptInv
  <2>6. Loaded(f, u) = u
    BY <2>2, LoadedUpdated DEF KeptInv
  <2>7. \A g \in SettingFields : Loaded(g, config'.fields[g]) = config'.fields[g]
    BY <2>5, <2>6 DEF KeptInv
  <2>8. config'.fields = [g \in SettingFields |-> config'.fields[g]]
    BY <2>5
  <2> QED
    BY <2>3, <2>4, <2>7, <2>8 DEF KeptInv, Forced
<1>8. ASSUME NEW e \in Editors, ReadSetting(e) \/ ApplySetting(e) PROVE KeptInv'
  BY <1>2, <1>8 DEF ReadSetting, ApplySetting
<1> QED
  BY <1>1, <1>2, <1>4, <1>5, <1>6, <1>7, <1>8 DEF SettingsNext, settingVars

LEMMA KeptStep ==
  KeptInv /\ [SettingsNext]_settingVars =>
    [StartAgain /\ saved => Reads' = Reads /\ config'.password = config.password
                                           /\ config'.must = config.must]_settingVars
<1> SUFFICES ASSUME KeptInv, StartAgain, saved
             PROVE  /\ Reads' = Reads /\ config'.password = config.password
                    /\ config'.must = config.must
  OBVIOUS
<1>1. config' = Opened(config)
  BY DEF StartAgain, Start, KeptInv
<1>2. config'.fields = [f \in SettingFields |-> Loaded(f, config.fields[f])]
  BY <1>1 DEF Opened
<1>3. config'.fields = config.fields
  BY <1>2 DEF KeptInv
<1>4. config'.password = config.password /\ config'.must = config.must
  BY <1>1 DEF Opened, KeptInv
<1> QED
  BY <1>3, <1>4, SameReads

LEMMA KeptStart == SettingsInit => KeptInv
BY OpenedKept DEF SettingsInit, KeptInv

(* StartKeeps is about Open and Update (admin/config.go): a start after a    *)
(* change that was stored brings back every setting as it was read, a zero   *)
(* that switches something off like any other, the password and the duty to  *)
(* change it.                                                                *)
THEOREM StartBringsBack == SettingsSpec => StartKeeps
BY KeptStart, KeptNext, KeptStep, PTL DEF SettingsSpec, StartKeeps

-----------------------------------------------------------------------------
(* The request log (LogRing).                                                *)

Entry == [id : Nat, log : Int]
Rings == [entries : Seq(Entry), next : Nat, max : Nat \ {0}, resized : Nat]

(* Where the logs are: a ring that is not full has them in order, one that   *)
(* is full has the latest before `next` and the oldest from there on.        *)
LogAt(i, n, next, logs) == IF i > next THEN logs - next + i - n ELSE logs - next + i

Holds(r, logs, cleared) ==
  LET n == Len(r.entries) IN
  /\ n <= r.max /\ r.next < r.max
  /\ n < r.max => r.next = 0 /\ n = logs - cleared
  /\ n = r.max => r.max <= logs - cleared
  /\ \A i \in 1..n : r.entries[i].id = i - 1 /\ r.entries[i].log = LogAt(i, n, r.next, logs)

LogInv ==
  /\ ring \in Rings /\ added \in [logs : Nat, cleared : Nat]
  /\ added.cleared <= added.logs
  /\ ring.resized = 0 => Holds(ring, added.logs, added.cleared)

LEMMA RingFields ==
  ASSUME NEW r \in Rings
  PROVE  /\ r.entries \in Seq(Entry) /\ Len(r.entries) \in Nat /\ r.next \in Nat
         /\ r.max \in Nat \ {0} /\ r.resized \in Nat
BY DEF Rings

LEMMA EntryFields ==
  ASSUME NEW id \in Nat, NEW log \in Int
  PROVE  \E e \in Entry : e = [id |-> id, log |-> log] /\ e.id = id /\ e.log = log
<1>1. [id |-> id, log |-> log] \in Entry
  BY DEF Entry
<1> QED
  BY <1>1

LEMMA EmptyRing == \E s \in Seq(Entry) : s = <<>> /\ Len(s) = 0
<1>1. <<>> \in Seq(Entry) /\ Len(<<>>) = 0
  OBVIOUS
<1> QED
  BY <1>1

PutLast(t, e) == Append(t, e)
PutAt(t, k, e) == [t EXCEPT ![k] = e]
RingOf(r, s, x) == [r EXCEPT !.entries = s, !.next = x]

LEMMA PutLastIs ==
  ASSUME NEW t \in Seq(Entry), NEW e \in Entry
  PROVE  /\ PutLast(t, e) \in Seq(Entry) /\ Len(PutLast(t, e)) = Len(t) + 1
         /\ PutLast(t, e)[Len(t) + 1] = e
         /\ \A i \in 1..Len(t) : PutLast(t, e)[i] = t[i]
BY DEF PutLast

LEMMA PutAtIs ==
  ASSUME NEW t \in Seq(Entry), NEW e \in Entry, NEW k \in Int
  PROVE  /\ PutAt(t, k, e) \in Seq(Entry) /\ Len(PutAt(t, k, e)) = Len(t)
         /\ \A i \in 1..Len(t) : PutAt(t, k, e)[i] = IF i = k THEN e ELSE t[i]
<1>1. PICK n \in Nat : n = Len(t) /\ DOMAIN t = 1..n /\ t \in [1..n -> Entry]
  OBVIOUS
<1>2. PICK s \in [1..n -> Entry] : s = PutAt(t, k, e)
  BY <1>1 DEF PutAt
<1>3. s \in Seq(Entry) /\ Len(s) = n
  BY <1>1
<1>4. \A i \in 1..n : s[i] = IF i = k THEN e ELSE t[i]
  BY <1>1, <1>2 DEF PutAt
<1> QED
  BY <1>1, <1>2, <1>3, <1>4

LEMMA RingOfIs ==
  ASSUME NEW r \in Rings, NEW s \in Seq(Entry), NEW x \in Nat
  PROVE  /\ RingOf(r, s, x) \in Rings /\ RingOf(r, s, x).entries = s /\ RingOf(r, s, x).next = x
         /\ RingOf(r, s, x).max = r.max /\ RingOf(r, s, x).resized = r.resized
BY DEF Rings, RingOf

(* A log is put behind the others, or in the place of the oldest.            *)
LEMMA AppendedHolds ==
  ASSUME NEW r \in Rings, NEW logs \in Nat, NEW cleared \in Nat
  PROVE  LET q == Appended(r, logs + 1) IN
         /\ q \in Rings /\ q.resized = r.resized
         /\ Holds(r, logs, cleared) => Holds(q, logs + 1, cleared)
<1>1. PICK n \in Nat : n = Len(r.entries)
  BY RingFields
<1>2. PICK x \in Nat : x = r.next
  BY RingFields
<1>3. PICK m \in Nat \ {0} : m = r.max
  BY RingFields
<1>4. r.entries \in Seq(Entry)
  BY RingFields
<1>5. CASE n < m
  <2>1. PICK e \in Entry : e = [id |-> n, log |-> logs + 1] /\ e.id = n /\ e.log = logs + 1
    BY EntryFields
  <2>2. PICK s \in Seq(Entry) : s = PutLast(r.entries, e) /\ Len(s) = n + 1 /\ s[n + 1] = e
                                /\ \A i \in 1..n : s[i] = r.entries[i]
    <3>1. PICK t \in Seq(Entry) : t = r.entries /\ Len(t) = n
      BY <1>1, <1>4
    <3>2. /\ PutLast(t, e) \in Seq(Entry) /\ Len(PutLast(t, e)) = n + 1
          /\ PutLast(t, e)[n + 1] = e /\ \A i \in 1..n : PutLast(t, e)[i] = t[i]
      BY <3>1, PutLastIs
    <3> QED
      BY <3>1, <3>2
  <2>3. PICK q \in Rings : /\ q = Appended(r, logs + 1) /\ q.entries = s /\ q.next = x /\ q.max = m
                           /\ q.resized = r.resized
    <3>1. Appended(r, logs + 1) = [r EXCEPT !.entries = s]
      BY <1>1, <1>3, <1>5, <2>1, <2>2 DEF Appended, Rings, PutLast
    <3>2. [r EXCEPT !.entries = s] = RingOf(r, s, x)
      BY <1>2 DEF Rings, RingOf
    <3>3. /\ RingOf(r, s, x) \in Rings /\ RingOf(r, s, x).entries = s /\ RingOf(r, s, x).next = x
          /\ RingOf(r, s, x).max = r.max /\ RingOf(r, s, x).resized = r.resized
      BY RingOfIs
    <3> QED
      BY <1>3, <3>1, <3>2, <3>3
  <2>4. ASSUME Holds(r, logs, cleared) PROVE Holds(q, logs + 1, cleared)
    <3>1. x = 0 /\ n = logs - cleared
      BY <1>1, <1>2, <1>3, <1>5, <2>4 DEF Holds
    <3>2. \A i \in 1..n : r.entries[i].id = i - 1 /\ r.entries[i].log = LogAt(i, n, x, logs)
      BY <1>1, <1>2, <2>4 DEF Holds
    <3>3. ASSUME NEW i \in 1..n + 1
          PROVE  s[i].id = i - 1 /\ s[i].log = LogAt(i, n + 1, x, logs + 1)
      <4>1. CASE i = n + 1
        BY <2>1, <2>2, <3>1, <4>1 DEF LogAt
      <4>2. CASE i # n + 1
        <5>1. i \in 1..n /\ s[i] = r.entries[i]
          BY <2>2, <4>2
        <5>2. s[i].id = i - 1 /\ s[i].log = LogAt(i, n, x, logs)
          BY <3>2, <5>1
        <5>3. LogAt(i, n, x, logs) = LogAt(i, n + 1, x, logs + 1)
          BY <3>1, <5>1 DEF LogAt
        <5> QED
          BY <5>2, <5>3
      <4> QED
        BY <4>1, <4>2
    <3>4. /\ n + 1 <= m /\ x < m /\ x = 0
          /\ n + 1 = (logs + 1) - cleared /\ (n + 1 = m => m <= (logs + 1) - cleared)
      BY <1>5, <3>1
    <3> QED
      BY <2>2, <2>3, <3>3, <3>4 DEF Holds
  <2> QED
    BY <2>3, <2>4
<1>6. CASE ~(n < m)
  <2>1. PICK e \in Entry : e = [id |-> x, log |-> logs + 1] /\ e.id = x /\ e.log = logs + 1
    BY EntryFields
  <2>2. PICK s \in Seq(Entry) : s = PutAt(r.entries, x + 1, e) /\ Len(s) = n
                                /\ \A i \in 1..n : s[i] = IF i = x + 1 THEN e ELSE r.entries[i]
    BY <1>1, <1>4, PutAtIs
  <2>3. PICK y \in Nat : y = (x + 1) % m
    OBVIOUS
  <2>4. x < m => y = IF x + 1 < m THEN x + 1 ELSE 0
    BY <2>3
  <2>5. PICK q \in Rings : /\ q = Appended(r, logs + 1) /\ q.entries = s /\ q.next = y /\ q.max = m
                           /\ q.resized = r.resized
    <3>1. Appended(r, logs + 1) = RingOf(r, s, y)
      BY <1>1, <1>2, <1>3, <1>6, <2>1, <2>2, <2>3 DEF Appended, Rings, PutAt, RingOf
    <3> QED
      BY <1>3, <3>1, RingOfIs
  <2>6. ASSUME Holds(r, logs, cleared) PROVE Holds(q, logs + 1, cleared)
    <3>1. n = m /\ x < m /\ m <= logs - cleared
      BY <1>1, <1>2, <1>3, <1>6, <2>6 DEF Holds
    <3>2. \A i \in 1..n : r.entries[i].id = i - 1 /\ r.entries[i].log = LogAt(i, n, x, logs)
      BY <1>1, <1>2, <2>6 DEF Holds
    <3>3. ASSUME NEW i \in 1..n
          PROVE  s[i].id = i - 1 /\ s[i].log = LogAt(i, n, y, logs + 1)
      <4>1. CASE i = x + 1
        <5>1. LogAt(x + 1, n, y, logs + 1) = logs + 1
          <6>1. CASE x + 1 < m
            BY <2>4, <3>1, <6>1 DEF LogAt
          <6>2. CASE ~(x + 1 < m)
            <7>1. y = 0 /\ x + 1 = n
              BY <2>4, <3>1, <6>2
            <7> QED
              BY <7>1 DEF LogAt
          <6> QED
            BY <6>1, <6>2
        <5> QED
          BY <2>1, <2>2, <4>1, <5>1
      <4>2. CASE i # x + 1
        <5>1. s[i].id = i - 1 /\ s[i].log = LogAt(i, n, x, logs)
          BY <2>2, <3>2, <4>2
        <5>2. LogAt(i, n, x, logs) = LogAt(i, n, y, logs + 1)
          <6>1. CASE x + 1 < m
            BY <2>4, <3>1, <4>2, <6>1 DEF LogAt
          <6>2. CASE ~(x + 1 < m)
            <7>1. y = 0 /\ x + 1 = n
              BY <2>4, <3>1, <6>2
            <7> QED
              BY <4>2, <7>1 DEF LogAt
          <6> QED
            BY <6>1, <6>2
        <5> QED
          BY <5>1, <5>2
      <4> QED
        BY <4>1, <4>2
    <3>4. y < m /\ m <= (logs + 1) - cleared
      BY <2>4, <3>1
    <3> QED
      <4>1. Len(q.entries) = n /\ q.next = y /\ q.max = m /\ q.entries = s
        BY <2>2, <2>5
      <4>2. n <= m /\ (n < m => y = 0 /\ n = (logs + 1) - cleared) /\ (n = m => m <= (logs + 1) - cleared)
        BY <3>1, <3>4
      <4> QED
        BY <3>3, <3>4, <4>1, <4>2 DEF Holds
  <2> QED
    BY <2>5, <2>6
<1> QED
  BY <1>5, <1>6

LEMMA LogNextHolds == LogInv /\ [LogNext]_logVars => LogInv'
<1> SUFFICES ASSUME LogInv, [LogNext]_logVars PROVE LogInv'
  OBVIOUS
<1>1. CASE AddLog
  <2>1. PICK l \in Nat : l = added.logs
    BY DEF LogInv
  <2>2. PICK c \in Nat : c = added.cleared
    BY DEF LogInv
  <2>3. /\ ring \in Rings /\ added \in [logs : Nat, cleared : Nat] /\ c <= l
        /\ ring.resized = 0 => Holds(ring, l, c)
    BY <2>1, <2>2 DEF LogInv
  <2>4. /\ ring' = Appended(ring, l + 1) /\ added' = [added EXCEPT !.logs = l + 1]
    BY <1>1, <2>1 DEF AddLog
  <2>5. /\ ring' \in Rings /\ ring'.resized = ring.resized
        /\ ring'.resized = 0 => Holds(ring', l + 1, c)
    BY <2>3, <2>4, AppendedHolds
  <2>6. /\ added' \in [logs : Nat, cleared : Nat] /\ added'.logs = l + 1 /\ added'.cleared = c
    BY <2>2, <2>3, <2>4
  <2>7. c <= l + 1
    BY <2>3
  <2> QED
    BY <2>5, <2>6, <2>7 DEF LogInv
<1>2. CASE ClearLogs
  <2>1. /\ ring \in Rings /\ ring' = [ring EXCEPT !.entries = <<>>, !.next = 0]
        /\ added \in [logs : Nat, cleared : Nat] /\ added' = [added EXCEPT !.cleared = added.logs]
    BY <1>2 DEF LogInv, ClearLogs
  <2>2. /\ added' \in [logs : Nat, cleared : Nat] /\ added'.logs = added'.cleared /\ added'.logs \in Nat
    BY <2>1
  <2>3. PICK s \in Seq(Entry) : s = <<>> /\ Len(s) = 0
    BY EmptyRing
  <2>4. /\ ring' \in Rings /\ ring'.entries = s /\ ring'.next = 0 /\ ring'.max \in Nat \ {0}
    BY <2>1, <2>3 DEF Rings
  <2>5. Holds(ring', added'.logs, added'.cleared)
    <3>1. PICK l \in Nat : l = added'.logs /\ l = added'.cleared
      BY <2>2
    <3>2. PICK m \in Nat \ {0} : m = ring'.max
      BY <2>4
    <3>3. Holds(ring', l, l)
      BY <2>3, <2>4, <3>2 DEF Holds
    <3> QED
      BY <3>1, <3>3
  <2> QED
    BY <2>2, <2>4, <2>5 DEF LogInv
<1>3. ASSUME NEW max \in Sizes, SetMax(max) PROVE LogInv'
  <2>1. ring \in Rings /\ max \in Nat \ {0} /\ UNCHANGED added
        /\ ring' = [Resized(ring, max) EXCEPT !.max = max, !.resized = @ + 1]
    BY <1>3, LogRingAssumption DEF LogInv, SetMax
  <2>2. Resized(ring, max) \in Rings
    <3> DEFINE n == Len(ring.entries)
               drop == n - max
    <3>1. /\ ring.entries \in Seq(Entry) /\ n \in Nat /\ ring.next \in Nat /\ drop \in Int /\ drop <= n
      BY <2>1, RingFields
    <3>2. CASE drop <= 0
      BY <2>1, <3>2 DEF Resized
    <3>3. CASE drop > 0 /\ ring.next >= drop
      <4>1. SubSeq(ring.entries, drop + 1, n) \in Seq(Entry) /\ ring.next - drop \in Nat
        BY <3>1, <3>3
      <4>2. Resized(ring, max) = [ring EXCEPT !.entries = SubSeq(ring.entries, drop + 1, n),
                                              !.next = ring.next - drop]
        BY <2>1, <3>1, <3>3 DEF Resized, Rings
      <4> QED
        BY <2>1, <4>1, <4>2 DEF Rings
    <3>4. CASE drop > 0 /\ ~(ring.next >= drop)
      <4> DEFINE s == SubSeq(ring.entries, ring.next + 1, n) \o SubSeq(ring.entries, 1, drop - ring.next)
      <4>1. s \in Seq(Entry)
        <5>1. SubSeq(ring.entries, ring.next + 1, n) \in Seq(Entry)
          BY <3>1, <3>4
        <5>2. SubSeq(ring.entries, 1, drop - ring.next) \in Seq(Entry)
          BY <3>1, <3>4
        <5> QED
          BY <5>1, <5>2
      <4>2. Resized(ring, max) = [ring EXCEPT !.entries = s, !.next = 0]
        BY <2>1, <3>1, <3>4 DEF Resized, Rings
      <4> HIDE DEF s
      <4> QED
        <5>1. Resized(ring, max) = RingOf(ring, s, 0)
          BY <4>2 DEF RingOf
        <5> QED
          BY <2>1, <4>1, <5>1, RingOfIs
    <3> QED
      BY <3>1, <3>2, <3>3, <3>4
  <2>3. ring' \in Rings /\ ring'.resized # 0
    <3>1. PICK r \in Rings : r = Resized(ring, max)
      BY <2>2
    <3>2. ring' = [r EXCEPT !.max = max, !.resized = r.resized + 1]
      BY <2>1, <3>1 DEF Rings
    <3>3. r.resized + 1 \in Nat /\ r.resized + 1 # 0
      BY <3>1, RingFields
    <3> QED
      BY <2>1, <3>2, <3>3 DEF Rings
  <2> QED
    BY <2>1, <2>3 DEF LogInv
<1>4. CASE UNCHANGED <<ring, added>>
  BY <1>4 DEF LogInv, Holds
<1>5. CASE UNCHANGED logVars
  BY <1>4, <1>5 DEF logVars
<1>6. CASE Insert \/ (\E f \in Followers : Subscribe(f) \/ Follow(f))
           \/ (\E e \in sending : Publish(e) \/ Published(e) \/ \E f \in Followers : Deliver(e, f))
  BY <1>4, <1>6 DEF Insert, Subscribe, Follow, Publish, Published, Deliver
<1> QED
  BY <1>1, <1>2, <1>3, <1>5, <1>6 DEF LogNext

LEMMA InvKeepsNewest == LogInv => KeepsNewest
<1> SUFFICES ASSUME LogInv, ring.resized = 0
             PROVE  /\ ToSet(Listed) = Newest(ring.max)
                    /\ Len(Listed) = Cardinality(Newest(ring.max))
                    /\ \A i \in DOMAIN ring.entries : Found(ring.entries[i].id) = {i}
  BY DEF KeepsNewest
<1>1. PICK s \in Seq(Entry) : s = ring.entries
  BY RingFields DEF LogInv
<1>2. PICK n \in Nat : n = Len(s)
  BY <1>1
<1>3. PICK x \in Nat : x = ring.next
  BY RingFields DEF LogInv
<1>4. PICK m \in Nat \ {0} : m = ring.max
  BY RingFields DEF LogInv
<1>5. PICK l \in Nat : l = added.logs
  BY DEF LogInv
<1>6. PICK c \in Nat : c = added.cleared
  BY DEF LogInv
<1>7. c <= l /\ Holds(ring, l, c)
  BY <1>5, <1>6 DEF LogInv
<1>8. /\ n <= m /\ x < m /\ (n < m => x = 0 /\ n = l - c) /\ (n = m => m <= l - c)
      /\ \A i \in 1..n : s[i].id = i - 1 /\ s[i].log = LogAt(i, n, x, l)
  BY <1>1, <1>2, <1>3, <1>4, <1>7 DEF Holds
<1>9. PICK lo \in Int : lo = l - n + 1
  BY <1>2
<1>10. Newest(ring.max) = lo..l
  <2>1. Newest(ring.max) = {log \in c + 1 .. l : log > l - m}
    BY <1>4, <1>5, <1>6 DEF Newest
  <2>2. ASSUME NEW k \in Int PROVE k \in c + 1 .. l /\ k > l - m <=> k \in lo..l
    BY <1>8, <1>9
  <2>3. c + 1 .. l \subseteq Int /\ lo..l \subseteq Int
    OBVIOUS
  <2> QED
    BY <2>1, <2>2, <2>3
<1>11. DOMAIN s = 1..n /\ Listed = [i \in 1..n |-> s[n - i + 1].log]
  BY <1>1, <1>2 DEF Listed, Reverse
<1>12. DOMAIN Listed = 1..n /\ Len(Listed) = n
  BY <1>2, <1>11
<1>13. ASSUME NEW i \in 1..n PROVE LogAt(i, n, x, l) \in lo..l
  BY <1>8, <1>9, <1>13 DEF LogAt
<1>14. ToSet(Listed) = lo..l
  <2>1. ASSUME NEW i \in 1..n PROVE Listed[i] \in lo..l
    <3>1. PICK k \in 1..n : k = n - i + 1
      OBVIOUS
    <3>2. Listed[i] = LogAt(k, n, x, l)
      BY <1>8, <1>11, <3>1
    <3> QED
      BY <1>13, <3>2
  <2>2. ASSUME NEW v \in lo..l PROVE \E i \in 1..n : Listed[i] = v
    <3>1. PICK k \in 1..n : LogAt(k, n, x, l) = v
      <4>1. CASE v > l - x
        <5>1. v - l + x \in 1..n /\ LogAt(v - l + x, n, x, l) = v
          BY <1>8, <1>9, <4>1 DEF LogAt
        <5> QED
          BY <5>1
      <4>2. CASE ~(v > l - x)
        <5>1. v - l + x + n \in 1..n
          BY <1>8, <1>9, <4>2
        <5>2. v - l + x + n > x
          BY <1>8, <1>9, <4>2
        <5>3. LogAt(v - l + x + n, n, x, l) = v
          BY <5>2 DEF LogAt
        <5> QED
          BY <5>1, <5>3
      <4> QED
        BY <4>1, <4>2
    <3>2. PICK i \in 1..n : k = n - i + 1
      <4>1. n - k + 1 \in 1..n /\ k = n - (n - k + 1) + 1
        OBVIOUS
      <4> QED
        BY <4>1
    <3>3. Listed[i] = v
      BY <1>8, <1>11, <3>1, <3>2
    <3> QED
      BY <3>3
  <2> QED
    <3>1. ToSet(Listed) = {Listed[i] : i \in 1..n}
      BY <1>12 DEF ToSet
    <3>2. ASSUME NEW v \in ToSet(Listed) PROVE v \in lo..l
      BY <2>1, <3>1, <3>2, Zenon
    <3>3. ASSUME NEW v \in lo..l PROVE v \in ToSet(Listed)
      BY <2>2, <3>1, <3>3, Zenon
    <3> QED
      BY <3>2, <3>3, Zenon
<1>15. Cardinality(lo..l) = n
  <2>1. lo \in Int /\ l \in Int /\ l - lo + 1 = n /\ (lo > l => n = 0)
    BY <1>9
  <2>2. Cardinality(lo..l) = IF lo > l THEN 0 ELSE l - lo + 1
    BY <2>1, FS_Interval
  <2> QED
    BY <2>1, <2>2
<1>16. ASSUME NEW i \in DOMAIN ring.entries PROVE Found(ring.entries[i].id) = {i}
  <2>1. \A j \in 1..n : s[j].id = j - 1
    BY <1>8
  <2>2. i \in 1..n /\ Found(s[i].id) = {j \in 1..n : s[j].id = s[i].id}
    BY <1>1, <1>11, <1>16 DEF Found
  <2>3. \A j \in 1..n : s[j].id = s[i].id <=> j = i
    BY <2>1, <2>2
  <2> QED
    BY <1>1, <2>2, <2>3
<1> QED
  BY <1>10, <1>12, <1>14, <1>15, <1>16

(* KeepsNewest is about LogStore.Add, Clear and the reads: until its         *)
(* capacity is changed, the ring holds the latest logs, as many as it has    *)
(* room for, and finds each by its id, however often it wrapped.             *)
THEOREM LogKeepsNewest == LogSpec => []KeepsNewest
<1>1. LogInit => LogInv
  <2> SUFFICES ASSUME LogInit PROVE LogInv
    OBVIOUS
  <2>1. PICK m \in Sizes : ring = [entries |-> <<>>, next |-> 0, max |-> m, resized |-> 0]
    BY DEF LogInit
  <2>2. m \in Nat \ {0} /\ added = [logs |-> 0, cleared |-> 0]
    BY LogRingAssumption DEF LogInit
  <2>3. PICK s \in Seq(Entry) : s = <<>> /\ Len(s) = 0
    BY EmptyRing
  <2>4. ring \in Rings /\ ring.entries = s /\ ring.next = 0 /\ ring.max = m
    BY <2>1, <2>2, <2>3 DEF Rings
  <2>5. Holds(ring, 0, 0)
    BY <2>2, <2>3, <2>4 DEF Holds
  <2> QED
    BY <2>2, <2>4, <2>5 DEF LogInv
<1> QED
  BY <1>1, LogNextHolds, InvKeepsNewest, PTL DEF LogSpec

-----------------------------------------------------------------------------
(* The meters (Meters).                                                      *)

Series == [head : Nat, buckets : [0..RingSeconds - 1 -> Nat]]

(* A series has, in each second that is still in its ring, the requests of   *)
(* that second: it is at least as far as the last of them, so none of their  *)
(* buckets is cleared.                                                       *)
Covers(s, times, now) ==
  /\ s \in Series /\ s.head <= now
  /\ \A v \in Visitors :
       /\ times[v] \in Int /\ times[v] <= now
       /\ times[v] = -RingSeconds \/ (1 <= times[v] /\ times[v] <= s.head)
  /\ \A t \in Nat : now - RingSeconds < t /\ t <= now =>
       s.buckets[t % RingSeconds] >= Cardinality({v \in Visitors : times[v] = t})

Came == [v \in Visitors |-> seen[v].came]
Done == [v \in Visitors |-> seen[v].done]

Within == {v \in Visitors : visit[v] \in {"gate", "served"}}

MetersInv ==
  /\ second \in Nat \ {0} /\ gauge \in Nat /\ gauge >= Cardinality(Within)
  /\ visit \in [Visitors -> {"away", "gate", "served", "refused", "logged", "broken"}]
  /\ seen \in [Visitors -> [came : Int, done : Int]]
  /\ Covers(global, Came, second) /\ Covers(model, Done, second)

LEMMA RingAt ==
  ASSUME NEW t \in Nat
  PROVE  RingSeconds \in Nat \ {0} /\ t % RingSeconds \in 0..RingSeconds - 1
BY MetersAssumption

LEMMA SeriesFields ==
  ASSUME NEW s \in Series
  PROVE  /\ s.head \in Nat /\ s.buckets \in [0..RingSeconds - 1 -> Nat]
         /\ \A t \in Nat : s.buckets[t % RingSeconds] \in Nat
<1>1. s.head \in Nat /\ s.buckets \in [0..RingSeconds - 1 -> Nat]
  BY DEF Series
<1> QED
  BY <1>1, RingAt

LEMMA AdvancedCovers ==
  ASSUME NEW s, NEW times, NEW now \in Nat \ {0}, now = second, Covers(s, times, now)
  PROVE  Covers(Advanced(s), times, now) /\ Advanced(s).head = now
<1>1. PICK h \in Nat : h = IF s.head = 0 THEN now ELSE s.head
  BY SeriesFields DEF Covers
<1>2. PICK C : C = {t % RingSeconds : t \in h .. now - RingSeconds}
  OBVIOUS
<1>3. PICK b \in [0..RingSeconds - 1 -> Nat] : b = s.buckets
  BY SeriesFields DEF Covers
<1>4. PICK a \in [0..RingSeconds - 1 -> Nat] : a = [k \in 0..RingSeconds - 1 |-> IF k \in C THEN 0 ELSE b[k]]
  <2>1. [k \in 0..RingSeconds - 1 |-> IF k \in C THEN 0 ELSE b[k]] \in [0..RingSeconds - 1 -> Nat]
    OBVIOUS
  <2> QED
    BY <2>1
<1>5. Advanced(s) = [head |-> now, buckets |-> a]
  BY <1>1, <1>2, <1>3, <1>4 DEF Advanced
<1>6. Advanced(s) \in Series /\ Advanced(s).head = now /\ Advanced(s).buckets = a
  BY <1>5 DEF Series
<1>7. s.head \in Nat /\ s.head <= now
  BY SeriesFields DEF Covers
<1>8. ASSUME NEW v \in Visitors
      PROVE  /\ times[v] \in Int /\ times[v] <= now
             /\ times[v] = -RingSeconds \/ (1 <= times[v] /\ times[v] <= now)
  BY <1>7 DEF Covers
<1>9. ASSUME NEW t \in Nat, now - RingSeconds < t, t <= now
      PROVE  a[t % RingSeconds] >= Cardinality({v \in Visitors : times[v] = t})
  <2>1. PICK k \in 0..RingSeconds - 1 : k = t % RingSeconds
    BY RingAt
  <2>2. CASE {v \in Visitors : times[v] = t} = {}
    <3>1. Cardinality({v \in Visitors : times[v] = t}) = 0
      BY <2>2, FS_EmptySet
    <3>2. a[k] \in Nat
      OBVIOUS
    <3> QED
      BY <2>1, <3>1, <3>2
  <2>3. CASE {v \in Visitors : times[v] = t} # {}
    <3>1. PICK v \in Visitors : times[v] = t
      BY <2>3
    <3>2. RingSeconds \in Nat \ {0} /\ (t = -RingSeconds \/ (1 <= t /\ t <= s.head))
      BY <3>1, MetersAssumption DEF Covers
    <3>3. t <= h
      BY <1>1, <1>7, <3>2
    <3>4. h .. now - RingSeconds = {}
      BY <1>9, <3>2, <3>3
    <3>5. a[k] = b[k]
      BY <1>2, <1>4, <3>4
    <3>6. b[k] >= Cardinality({u \in Visitors : times[u] = t})
      BY <1>3, <1>9, <2>1 DEF Covers
    <3> QED
      BY <2>1, <3>5, <3>6
  <2> QED
    BY <2>2, <2>3
<1>10. \A v \in Visitors :
         /\ times[v] \in Int /\ times[v] <= now
         /\ times[v] = -RingSeconds \/ (1 <= times[v] /\ times[v] <= Advanced(s).head)
  BY <1>6, <1>8
<1>11. \A t \in Nat : now - RingSeconds < t /\ t <= now =>
         Advanced(s).buckets[t % RingSeconds] >= Cardinality({v \in Visitors : times[v] = t})
  BY <1>6, <1>9
<1>12. Advanced(s).head <= now
  BY <1>6
<1> QED
  BY <1>6, <1>10, <1>11, <1>12 DEF Covers

LEMMA CountedCovers ==
  ASSUME NEW s, NEW times, NEW now \in Nat \ {0}, now = second, Covers(s, times, now),
         NEW u \in Visitors, NEW after, after[u] = now,
         \A v \in Visitors \ {u} : after[v] = times[v]
  PROVE  Covers(Counted(s), after, now)
<1>1. PICK a \in Series : a = Advanced(s) /\ a.head = now /\ Covers(a, times, now)
  <2>1. Covers(Advanced(s), times, now) /\ Advanced(s).head = now
    BY AdvancedCovers
  <2>2. Advanced(s) \in Series
    BY <2>1 DEF Covers
  <2> QED
    BY <2>1, <2>2
<1>2. PICK k \in 0..RingSeconds - 1 : k = now % RingSeconds
  BY RingAt
<1>3. PICK b \in [0..RingSeconds - 1 -> Nat] : b = a.buckets
  BY <1>1, SeriesFields
<1>4. PICK c \in [0..RingSeconds - 1 -> Nat] : c = [b EXCEPT ![k] = b[k] + 1]
  <2>1. b[k] + 1 \in Nat
    OBVIOUS
  <2>2. [b EXCEPT ![k] = b[k] + 1] \in [0..RingSeconds - 1 -> Nat]
    BY <2>1
  <2> QED
    BY <2>2
<1>5. Counted(s) = [a EXCEPT !.buckets = c]
  BY <1>1, <1>2, <1>3, <1>4 DEF Counted, Series
<1>6. Counted(s) \in Series /\ Counted(s).head = now /\ Counted(s).buckets = c
  BY <1>1, <1>4, <1>5 DEF Series
<1>7. ASSUME NEW v \in Visitors
      PROVE  /\ after[v] \in Int /\ after[v] <= now
             /\ after[v] = -RingSeconds \/ (1 <= after[v] /\ after[v] <= now)
  <2>1. CASE v = u
    BY <2>1
  <2>2. CASE v # u
    BY <1>1, <2>2 DEF Covers
  <2> QED
    BY <2>1, <2>2
<1>8. ASSUME NEW t \in Nat, now - RingSeconds < t, t <= now
      PROVE  c[t % RingSeconds] >= Cardinality({v \in Visitors : after[v] = t})
  <2>1. PICK i \in 0..RingSeconds - 1 : i = t % RingSeconds
    BY RingAt
  <2> DEFINE Was == {v \in Visitors : times[v] = t}
             Is == {v \in Visitors : after[v] = t}
  <2>2. /\ IsFiniteSet(Was) /\ Cardinality(Was) \in Nat /\ IsFiniteSet(Is) /\ Cardinality(Is) \in Nat
    BY MetersAssumption, FS_Subset, FS_CardinalityType
  <2>3. b[i] >= Cardinality(Was)
    BY <1>1, <1>3, <1>8, <2>1 DEF Covers
  <2>4. CASE t = now
    <3>1. Is \subseteq Was \cup {u}
      OBVIOUS
    <3> HIDE DEF Was, Is
    <3>2. /\ IsFiniteSet(Was \cup {u})
          /\ Cardinality(Was \cup {u}) = IF u \in Was THEN Cardinality(Was) ELSE Cardinality(Was) + 1
      BY <2>2, FS_AddElement
    <3>3. Cardinality(Is) <= Cardinality(Was \cup {u})
      BY <3>1, <3>2, FS_Subset
    <3>4. Cardinality(Is) <= Cardinality(Was) + 1
      BY <2>2, <3>2, <3>3
    <3>5. c[i] = b[i] + 1
      BY <1>2, <1>4, <2>1, <2>4
    <3>6. c[i] >= Cardinality(Is)
      BY <2>2, <2>3, <3>4, <3>5
    <3> QED
      BY <2>1, <3>6 DEF Is
  <2>5. CASE t # now
    <3>1. Is \subseteq Was
      BY <2>5
    <3> HIDE DEF Was, Is
    <3>2. Cardinality(Is) <= Cardinality(Was)
      BY <2>2, <3>1, FS_Subset
    <3>3. c[i] >= b[i]
      BY <1>4
    <3>4. c[i] >= Cardinality(Is)
      BY <2>2, <2>3, <3>2, <3>3
    <3> QED
      BY <2>1, <3>4 DEF Is
  <2> QED
    BY <2>4, <2>5
<1>9. Counted(s).head <= now
  BY <1>6
<1>10. \A v \in Visitors :
         /\ after[v] \in Int /\ after[v] <= now
         /\ after[v] = -RingSeconds \/ (1 <= after[v] /\ after[v] <= Counted(s).head)
  BY <1>6, <1>7
<1>11. \A t \in Nat : now - RingSeconds < t /\ t <= now =>
         Counted(s).buckets[t % RingSeconds] >= Cardinality({v \in Visitors : after[v] = t})
  BY <1>6, <1>8
<1> QED
  BY <1>6, <1>9, <1>10, <1>11 DEF Covers

LEMMA LaterCovers ==
  ASSUME NEW s, NEW times, NEW now \in Nat \ {0}, Covers(s, times, now)
  PROVE  Covers(s, times, now + 1)
<1>1. s \in Series /\ s.head \in Nat /\ s.head <= now
  BY SeriesFields DEF Covers
<1>2. \A v \in Visitors :
        /\ times[v] \in Int /\ times[v] <= now
        /\ times[v] = -RingSeconds \/ (1 <= times[v] /\ times[v] <= s.head)
  BY DEF Covers
<1>3. ASSUME NEW t \in Nat, (now + 1) - RingSeconds < t, t <= now + 1
      PROVE  s.buckets[t % RingSeconds] >= Cardinality({v \in Visitors : times[v] = t})
  <2>1. CASE t = now + 1
    <3>1. {v \in Visitors : times[v] = t} = {}
      BY <1>2, <2>1
    <3> QED
      <4>1. Cardinality({v \in Visitors : times[v] = t}) = 0
        BY <3>1, FS_EmptySet
      <4>2. s.buckets[t % RingSeconds] \in Nat
        BY <1>1, SeriesFields
      <4> QED
        BY <4>1, <4>2
  <2>2. CASE t # now + 1
    <3>1. now - RingSeconds < t /\ t <= now
      BY <1>3, <2>2, MetersAssumption
    <3> QED
      BY <3>1 DEF Covers
  <2> QED
    BY <2>1, <2>2
<1>4. s.head <= now + 1
  BY <1>1
<1>5. \A v \in Visitors : times[v] <= now + 1
  BY <1>2
<1> QED
  BY <1>1, <1>2, <1>3, <1>4, <1>5 DEF Covers

LEMMA CoversWindow ==
  ASSUME NEW s, NEW times, NEW now \in Nat \ {0}, now = second, Covers(s, times, now)
  PROVE  InWindow(s) >= Cardinality({v \in Visitors : times[v] > now - MeterWindow})
<1>1. PICK r \in Nat \ {0} : r = RingSeconds
  BY MetersAssumption
<1>2. PICK w \in 1..r : w = MeterWindow
  BY <1>1, MetersAssumption
<1>3. PICK D : D = {i \in 0..w - 1 : now - i >= 0}
  OBVIOUS
<1>4. PICK f : f = [i \in D |-> s.buckets[(now - i) % r]]
  OBVIOUS
<1>5. DOMAIN f = D /\ InWindow(s) = SumOf(f, D)
  BY <1>1, <1>2, <1>3, <1>4 DEF InWindow, SumOf
<1>6. IsFiniteSet(D)
  <2>1. D \in SUBSET (0..w - 1)
    BY <1>3
  <2>2. 0 \in Int /\ w - 1 \in Int
    OBVIOUS
  <2> QED
    BY <2>1, <2>2, FS_Interval, FS_Subset
<1>7. PICK p : p = [v \in Visitors |-> now - times[v]]
  OBVIOUS
<1>8. \A v \in Visitors : /\ times[v] \in Int /\ times[v] <= now
                          /\ times[v] = -r \/ 1 <= times[v]
  BY <1>1 DEF Covers
<1>9. ASSUME NEW i \in D PROVE f[i] \in Nat /\ f[i] >= Cardinality({v \in Visitors : p[v] = i})
  <2>1. PICK t \in Nat : t = now - i /\ now - r < t /\ t <= now
    <3>1. now - i \in Nat /\ now - r < now - i /\ now - i <= now
      BY <1>3
    <3> QED
      BY <3>1
  <2>2. s.buckets[t % r] >= Cardinality({v \in Visitors : times[v] = t}) /\ s.buckets[t % r] \in Nat
    BY <1>1, <2>1, SeriesFields DEF Covers
  <2>3. {v \in Visitors : p[v] = i} = {v \in Visitors : times[v] = t}
    <3>1. ASSUME NEW v \in Visitors PROVE p[v] = i <=> times[v] = t
      BY <1>3, <1>7, <1>8, <2>1
    <3> QED
      BY <3>1
  <2>4. f[i] = s.buckets[t % r]
    BY <1>4, <2>1
  <2> QED
    BY <2>2, <2>3, <2>4
<1>10. SumOf(f, D) >= Cardinality({v \in Visitors : p[v] \in D})
  BY <1>6, <1>9, MetersAssumption, SumCovers
<1>11. {v \in Visitors : p[v] \in D} = {v \in Visitors : times[v] > now - MeterWindow}
  <2>1. ASSUME NEW v \in Visitors PROVE p[v] \in D <=> times[v] > now - w
    <3>1. PICK t \in Int : t = times[v] /\ t <= now /\ (t = -r \/ 1 <= t)
      BY <1>8
    <3>2. p[v] = now - t
      BY <1>7, <3>1
    <3>3. now - t \in D <=> t > now - w
      BY <1>3, <3>1
    <3> QED
      BY <3>1, <3>2, <3>3
  <2> QED
    BY <1>2, <2>1
<1> QED
  BY <1>5, <1>10, <1>11

LEMMA MetersStart == MetersInit => MetersInv
<1> SUFFICES ASSUME MetersInit PROVE MetersInv
  OBVIOUS
<1>1. PICK r \in Nat \ {0} : r = RingSeconds
  BY MetersAssumption
<1>2. /\ second = 1 /\ global = EmptySeries /\ model = EmptySeries /\ gauge = 0
      /\ visit = [v \in Visitors |-> "away"]
      /\ seen = [v \in Visitors |-> [came |-> -r, done |-> -r]]
  BY <1>1 DEF MetersInit
<1>3. seen \in [Visitors -> [came : Int, done : Int]]
  BY <1>2
<1>4. \A v \in Visitors : Came[v] = -r /\ Done[v] = -r
  BY <1>2 DEF Came, Done
<1>5. EmptySeries \in Series /\ EmptySeries.head = 0
  BY DEF EmptySeries, Series
<1>6. ASSUME NEW times, \A v \in Visitors : times[v] = -r PROVE Covers(EmptySeries, times, 1)
  <2>1. ASSUME NEW t \in Nat
        PROVE  EmptySeries.buckets[t % RingSeconds] >= Cardinality({v \in Visitors : times[v] = t})
    <3>1. {v \in Visitors : times[v] = t} = {}
      BY <1>6
    <3>2. Cardinality({v \in Visitors : times[v] = t}) = 0
      BY <3>1, FS_EmptySet
    <3>3. EmptySeries.buckets[t % RingSeconds] \in Nat
      BY <1>5, SeriesFields
    <3> QED
      BY <3>2, <3>3
  <2>2. \A v \in Visitors : times[v] \in Int /\ times[v] <= 1 /\ times[v] = -RingSeconds
    BY <1>1, <1>6
  <2> QED
    BY <1>5, <2>1, <2>2 DEF Covers
<1>7. Covers(global, Came, second) /\ Covers(model, Done, second)
  BY <1>2, <1>4, <1>6
<1>8. gauge >= Cardinality(Within)
  <2>1. Within = {}
    BY <1>2 DEF Within
  <2> QED
    BY <1>2, <2>1, FS_EmptySet
<1> QED
  BY <1>2, <1>3, <1>7, <1>8 DEF MetersInv

LEMMA WithinIsFinite == IsFiniteSet(Within) /\ Cardinality(Within) \in Nat
BY MetersAssumption, FS_Subset, FS_CardinalityType DEF Within

LEMMA MetersNextCovers == MetersInv /\ [MetersNext]_meterVars => MetersInv'
<1> SUFFICES ASSUME MetersInv, [MetersNext]_meterVars PROVE MetersInv'
  OBVIOUS
<1> DEFINE States == {"away", "gate", "served", "refused", "logged", "broken"}
<1>0. PICK n \in Nat \ {0} : n = second
  BY DEF MetersInv
<1>1. /\ gauge \in Nat /\ gauge >= Cardinality(Within) /\ visit \in [Visitors -> States]
      /\ seen \in [Visitors -> [came : Int, done : Int]]
      /\ Covers(global, Came, n) /\ Covers(model, Done, n)
  BY <1>0 DEF MetersInv
<1>2. PICK W : W = Within /\ IsFiniteSet(W) /\ Cardinality(W) \in Nat
  BY WithinIsFinite
<1>3. CASE Snapshot
  <2>1. /\ global' = Advanced(global) /\ UNCHANGED <<second, model, gauge, visit, seen>>
    BY <1>3 DEF Snapshot
  <2>2. Covers(Advanced(global), Came, n)
    BY <1>0, <1>1, AdvancedCovers
  <2>3. Came' = Came /\ Done' = Done /\ Within' = Within
    BY <2>1 DEF Came, Done, Within
  <2> QED
    BY <1>0, <1>1, <2>1, <2>2, <2>3 DEF MetersInv
<1>4. CASE NextSecond
  <2>1. second' = n + 1 /\ UNCHANGED <<global, model, gauge, visit, seen>>
    BY <1>0, <1>4 DEF NextSecond
  <2>2. Covers(global, Came, n + 1) /\ Covers(model, Done, n + 1)
    BY <1>1, LaterCovers
  <2>3. Came' = Came /\ Done' = Done /\ Within' = Within
    BY <2>1 DEF Came, Done, Within
  <2> QED
    BY <1>0, <1>1, <2>1, <2>2, <2>3 DEF MetersInv
<1>5. ASSUME NEW v \in Visitors, Incoming(v) PROVE MetersInv'
  <2>1. /\ visit[v] = "away" /\ visit' = [visit EXCEPT ![v] = "gate"]
        /\ gauge' = gauge + 1 /\ global' = Counted(global)
        /\ seen' = [seen EXCEPT ![v].came = n] /\ second' = n /\ model' = model
    BY <1>0, <1>5 DEF Incoming
  <2>2. /\ seen' \in [Visitors -> [came : Int, done : Int]]
        /\ seen'[v].came = n /\ \A u \in Visitors \ {v} : seen'[u].came = seen[u].came
        /\ \A u \in Visitors : seen'[u].done = seen[u].done
    BY <1>1, <2>1
  <2>3. Done' = Done
    BY <2>2 DEF Done
  <2>4. PICK after : after = [u \in Visitors |-> seen'[u].came]
    OBVIOUS
  <2>5. after[v] = n /\ \A u \in Visitors \ {v} : after[u] = Came[u]
    BY <2>2, <2>4 DEF Came
  <2>6. Covers(Counted(global), after, n)
    BY <1>0, <1>1, <2>5, CountedCovers
  <2>7. Came' = after
    BY <2>4 DEF Came
  <2>8. Within' = W \cup {v} /\ v \notin W
    BY <1>1, <1>2, <2>1 DEF Within
  <2>9. Cardinality(Within') = Cardinality(W) + 1
    BY <1>2, <2>8, FS_AddElement
  <2>10. visit' \in [Visitors -> States]
    BY <1>1, <2>1
  <2>11. gauge' \in Nat /\ gauge' >= Cardinality(Within')
    BY <1>1, <1>2, <2>1, <2>9
  <2> QED
    BY <1>1, <2>1, <2>2, <2>3, <2>6, <2>7, <2>10, <2>11 DEF MetersInv
<1>6. ASSUME NEW v \in Visitors, PassesGate(v) \/ Panics(v) PROVE MetersInv'
  <2>1. PICK to \in {"served", "refused", "broken"} :
          /\ visit' = [visit EXCEPT ![v] = to] /\ UNCHANGED <<second, global, model, gauge, seen>>
          /\ visit[v] \in {"gate", "served"}
    BY <1>6 DEF PassesGate, Panics
  <2>2. Came' = Came /\ Done' = Done
    BY <2>1 DEF Came, Done
  <2>3. Within' \subseteq W
    BY <1>1, <1>2, <2>1 DEF Within
  <2>4. PICK X : X = Within' /\ X \subseteq W
    BY <2>3
  <2>5. Cardinality(X) <= Cardinality(W) /\ Cardinality(X) \in Nat
    BY <1>2, <2>4, FS_Subset, FS_CardinalityType
  <2>6. visit' \in [Visitors -> States]
    BY <1>1, <2>1
  <2>7. gauge' \in Nat /\ gauge' >= Cardinality(X)
    BY <1>1, <1>2, <2>1, <2>5
  <2> QED
    BY <1>0, <1>1, <2>1, <2>2, <2>4, <2>6, <2>7 DEF MetersInv
<1>7. ASSUME NEW v \in Visitors, Counts(v) PROVE MetersInv'
  <2>1. /\ visit[v] = "served" /\ visit' = [visit EXCEPT ![v] = "logged"]
        /\ gauge' = (IF gauge > 0 THEN gauge - 1 ELSE gauge)
        /\ global' = Advanced(global) /\ model' = Counted(model)
        /\ seen' = [seen EXCEPT ![v].done = n] /\ second' = n
    BY <1>0, <1>7 DEF Counts
  <2>2. /\ seen' \in [Visitors -> [came : Int, done : Int]]
        /\ seen'[v].done = n /\ \A u \in Visitors \ {v} : seen'[u].done = seen[u].done
        /\ \A u \in Visitors : seen'[u].came = seen[u].came
    BY <1>1, <2>1
  <2>3. Came' = Came
    BY <2>2 DEF Came
  <2>4. PICK after : after = [u \in Visitors |-> seen'[u].done]
    OBVIOUS
  <2>5. after[v] = n /\ \A u \in Visitors \ {v} : after[u] = Done[u]
    BY <2>2, <2>4 DEF Done
  <2>6. Covers(Counted(model), after, n) /\ Covers(Advanced(global), Came, n)
    BY <1>0, <1>1, <2>5, CountedCovers, AdvancedCovers
  <2>7. Done' = after
    BY <2>4 DEF Done
  <2>8. Within' = W \ {v} /\ v \in W
    BY <1>1, <1>2, <2>1 DEF Within
  <2>9. Cardinality(Within') = Cardinality(W) - 1 /\ Cardinality(Within') \in Nat
    <3>1. Cardinality(W \ {v}) = Cardinality(W) - 1 /\ IsFiniteSet(W \ {v})
      BY <1>2, <2>8, FS_RemoveElement
    <3> QED
      BY <2>8, <3>1, FS_CardinalityType
  <2>10. visit' \in [Visitors -> States]
    BY <1>1, <2>1
  <2>11. gauge' \in Nat /\ gauge' >= Cardinality(Within')
    BY <1>1, <1>2, <2>1, <2>9
  <2> QED
    BY <1>1, <2>1, <2>2, <2>3, <2>6, <2>7, <2>10, <2>11 DEF MetersInv
<1>8. CASE UNCHANGED meterVars
  <2>1. Came' = Came /\ Done' = Done /\ Within' = Within
    BY <1>8 DEF meterVars, Came, Done, Within
  <2> QED
    BY <1>8, <2>1 DEF meterVars, MetersInv
<1> QED
  BY <1>3, <1>4, <1>5, <1>6, <1>7, <1>8 DEF MetersNext

(* NothingMissed is about advance, record and the read of the meters:        *)
(* whenever they are read, whatever the gaps in the traffic and the sizes of *)
(* ring and window, the window counts at least the requests of its seconds,  *)
(* and the gauge at least those inside.                                      *)
THEOREM MetersMissNothing == MetersSpec => []NothingMissed
<1>1. MetersInv => NothingMissed
  <2> SUFFICES ASSUME MetersInv PROVE NothingMissed
    OBVIOUS
  <2>1. PICK n \in Nat \ {0} : n = second /\ Covers(global, Came, n) /\ Covers(model, Done, n)
    BY DEF MetersInv
  <2>2. /\ InWindow(global) >= Cardinality({v \in Visitors : Came[v] > n - MeterWindow})
        /\ InWindow(model) >= Cardinality({v \in Visitors : Done[v] > n - MeterWindow})
    BY <2>1, CoversWindow
  <2>3. /\ {v \in Visitors : Came[v] > n - MeterWindow} = {v \in Visitors : seen[v]["came"] > n - MeterWindow}
        /\ {v \in Visitors : Done[v] > n - MeterWindow} = {v \in Visitors : seen[v]["done"] > n - MeterWindow}
    BY DEF Came, Done
  <2>4. InWindow(global) >= Recent("came") /\ InWindow(model) >= Recent("done")
    BY <2>1, <2>2, <2>3 DEF Recent
  <2>5. gauge >= Inside
    BY DEF MetersInv, Inside, Within
  <2> QED
    BY <2>4, <2>5 DEF NothingMissed
<1> QED
  BY MetersStart, MetersNextCovers, <1>1, PTL DEF MetersSpec

-----------------------------------------------------------------------------
(* The translation of tool calls (ToolMap).                                  *)

(* Under which names a key of the table is found.                            *)
Spellings(k) == {Lower(k)} \cup Range(Aliases[k])

(* The lists of the table, as sets.                                         *)
LEMMA SpellingsAre ==
  /\ Spellings("Shell") = {"bash", "shell", "run_command", "execute_command", "run_terminal_command",
       "terminal", "powershell", "cmd", "execute"}
  /\ Spellings("Read") = {"read", "read_file", "readfile", "view_file", "view"}
  /\ Spellings("Edit") = {"edit", "edit_file", "apply_patch", "apply_diff", "str_replace_editor",
       "replace_in_file", "search_replace"}
  /\ Spellings("Write") = {"write", "write_file", "write_to_file", "create_file", "writefile"}
  /\ Spellings("Delete") = {"delete", "delete_file", "deletefile", "rm"}
  /\ Spellings("Glob") = {"glob", "find_files", "list_files_glob"}
  /\ Spellings("LS") = {"ls", "list_dir", "list_files", "list_directory", "listfiles"}
  /\ Spellings("Fetch") = {"webfetch", "fetch", "web_fetch", "fetch_url"}
  /\ Spellings("WebSearch") = {"websearch", "web_search", "search_web"}
  /\ Spellings("AskQuestion") = {"askuserquestion", "ask_question", "ask", "ask_user", "askquestion"}
  /\ Spellings("Grep") = {"grep", "ripgrep", "search_files"}
  /\ Spellings("Search") = {"search", "grep", "ripgrep", "search_files"}
  /\ Spellings("Task") = {"agent", "task", "subagent", "run_subagent", "dispatch_agent",
       "delegate"}
  /\ Spellings("subagent") = {"agent", "task", "subagent", "run_subagent", "dispatch_agent",
       "delegate"}
<1>1. /\ Aliases["Grep"] = GrepNames /\ Aliases["Search"] = GrepNames
      /\ Aliases["Task"] = AgentNames /\ Aliases["subagent"] = AgentNames
      /\ Aliases["Shell"] = ShellNames
  BY DEF Aliases
<1>2. Spellings("Shell") = {"bash", "shell", "run_command", "execute_command", "run_terminal_command",
       "terminal", "powershell", "cmd", "execute"}
  BY <1>1 DEF Spellings, Lower, LowerKey, Aliases, ShellNames, GrepNames, AgentNames, Range
<1>3. Spellings("Read") = {"read", "read_file", "readfile", "view_file", "view"}
  BY <1>1 DEF Spellings, Lower, LowerKey, Aliases, ShellNames, GrepNames, AgentNames, Range
<1>4. Spellings("Edit") = {"edit", "edit_file", "apply_patch", "apply_diff", "str_replace_editor",
       "replace_in_file", "search_replace"}
  BY <1>1 DEF Spellings, Lower, LowerKey, Aliases, ShellNames, GrepNames, AgentNames, Range
<1>5. Spellings("Write") = {"write", "write_file", "write_to_file", "create_file", "writefile"}
  BY <1>1 DEF Spellings, Lower, LowerKey, Aliases, ShellNames, GrepNames, AgentNames, Range
<1>6. Spellings("Delete") = {"delete", "delete_file", "deletefile", "rm"}
  BY <1>1 DEF Spellings, Lower, LowerKey, Aliases, ShellNames, GrepNames, AgentNames, Range
<1>7. Spellings("Glob") = {"glob", "find_files", "list_files_glob"}
  BY <1>1 DEF Spellings, Lower, LowerKey, Aliases, ShellNames, GrepNames, AgentNames, Range
<1>8. Spellings("LS") = {"ls", "list_dir", "list_files", "list_directory", "listfiles"}
  BY <1>1 DEF Spellings, Lower, LowerKey, Aliases, ShellNames, GrepNames, AgentNames, Range
<1>9. Spellings("Fetch") = {"webfetch", "fetch", "web_fetch", "fetch_url"}
  BY <1>1 DEF Spellings, Lower, LowerKey, Aliases, ShellNames, GrepNames, AgentNames, Range
<1>10. Spellings("WebSearch") = {"websearch", "web_search", "search_web"}
  BY <1>1 DEF Spellings, Lower, LowerKey, Aliases, ShellNames, GrepNames, AgentNames, Range
<1>11. Spellings("AskQuestion") = {"askuserquestion", "ask_question", "ask", "ask_user", "askquestion"}
  BY <1>1 DEF Spellings, Lower, LowerKey, Aliases, ShellNames, GrepNames, AgentNames, Range
<1>12. Spellings("Grep") = {"grep", "ripgrep", "search_files"}
  BY <1>1 DEF Spellings, Lower, LowerKey, Aliases, ShellNames, GrepNames, AgentNames, Range
<1>13. Spellings("Search") = {"search", "grep", "ripgrep", "search_files"}
  BY <1>1 DEF Spellings, Lower, LowerKey, Aliases, ShellNames, GrepNames, AgentNames, Range
<1>14. Spellings("Task") = {"agent", "task", "subagent", "run_subagent", "dispatch_agent",
       "delegate"}
  BY <1>1 DEF Spellings, Lower, LowerKey, Aliases, ShellNames, GrepNames, AgentNames, Range
<1>15. Spellings("subagent") = {"agent", "task", "subagent", "run_subagent", "dispatch_agent",
       "delegate"}
  BY <1>1 DEF Spellings, Lower, LowerKey, Aliases, ShellNames, GrepNames, AgentNames, Range
<1> QED
  BY <1>2, <1>3, <1>4, <1>5, <1>6, <1>7, <1>8, <1>9, <1>10, <1>11, <1>12, <1>13, <1>14, <1>15

(* The keys of the table.                                                    *)
LEMMA KeysAre ==
  Keys = {"Shell", "Read", "Edit", "Write", "Delete", "Glob", "LS", "Fetch", "WebSearch",
          "AskQuestion", "Grep", "Search", "Task", "subagent"}
BY DEF Keys, Aliases

(* Two keys share a name only if they are the two of a search, or the two of *)
(* an agent.                                                                 *)
LEMMA SharedSpellings ==
  ASSUME NEW j \in Keys, NEW k \in Keys, j # k, NEW n, n \in Spellings(j), n \in Spellings(k)
  PROVE  {j, k} = {"Grep", "Search"} \/ {j, k} = {"Task", "subagent"}
BY KeysAre, SpellingsAre

(* canonicalBuiltinName finds one key, or two that share their aliases.      *)
LEMMA CanonicalIs ==
  ASSUME NEW n, NEW j \in Canonical(n), NEW k \in Canonical(n), j # k
  PROVE  n \notin Keys /\ ({j, k} = {"Grep", "Search"} \/ {j, k} = {"Task", "subagent"})
<1>1. n \notin Keys
  BY DEF Canonical
<1>2. j \in Keys /\ k \in Keys /\ n \in Spellings(j) /\ n \in Spellings(k)
  BY <1>1 DEF Canonical, Spellings
<1> QED
  BY <1>1, <1>2, SharedSpellings

(* pick gives a declared name, or none.                                      *)
LEMMA DeclaredIs ==
  ASSUME NEW S, NEW s \in Seq(S)
  PROVE  Declared(s) = "" \/ Declared(s) \in DOMAIN client
<1> DEFINE found == {i \in DOMAIN s : s[i] \in DOMAIN client}
<1>1. DOMAIN s = 1..Len(s) /\ Len(s) \in Nat
  OBVIOUS
<1>2. found \in SUBSET Nat
  BY <1>1
<1>3. Declared(s) = IF found = {} THEN "" ELSE s[Min(found)]
  BY DEF Declared
<1>4. found # {} => Min(found) \in found
  <2> HIDE DEF found
  <2> QED
    BY <1>2, LeastNat DEF Min
<1>5. CASE found = {}
  BY <1>3, <1>5
<1>6. CASE found # {}
  <2>1. Declared(s) = s[Min(found)]
    BY <1>3, <1>6
  <2> QED
    BY <1>4, <1>6, <2>1
<1> QED
  BY <1>5, <1>6

(* A name more, which was in the list before or is not declared, makes no    *)
(* difference.                                                               *)
LEMMA DeclaredStays ==
  ASSUME NEW S, NEW s \in Seq(S), NEW x \in S, x \in DOMAIN client => x \in Range(s)
  PROVE  Declared(Append(s, x)) = Declared(s)
<1> DEFINE t == Append(s, x)
           A == {i \in DOMAIN s : s[i] \in DOMAIN client}
           B == {i \in DOMAIN t : t[i] \in DOMAIN client}
           n == Len(s)
<1>1. /\ DOMAIN s = 1..n /\ DOMAIN t = 1..(n + 1) /\ t[n + 1] = x /\ n \in Nat
      /\ \A i \in 1..n : t[i] = s[i]
  OBVIOUS
<1> HIDE DEF t
<1>2. A \subseteq B /\ B \subseteq A \cup {n + 1} /\ A \in SUBSET (1..n)
  BY <1>1
<1>3. Declared(s) = (IF A = {} THEN "" ELSE s[Min(A)]) /\ Declared(t) = IF B = {} THEN "" ELSE t[Min(B)]
  BY DEF Declared
<1>4. CASE A = {}
  <2>1. x \notin DOMAIN client
    BY <1>1, <1>4 DEF Range
  <2>2. B = {}
    BY <1>1, <1>2, <1>4, <2>1
  <2> QED
    BY <1>3, <1>4, <2>2 DEF t
<1>5. CASE A # {}
  <2> HIDE DEF A, B
  <2>1. PICK a \in A : \A y \in A : a <= y
    BY <1>1, <1>2, <1>5, LeastNat
  <2>2. a \in 1..n /\ a \in B /\ \A y \in B : a <= y
    BY <1>1, <1>2, <2>1
  <2>3. (\A y \in A : y \in Nat) /\ \A y \in B : y \in Nat
    BY <1>1, <1>2
  <2>4. Min(A) = a
    <3>1. ASSUME NEW b \in A, \A y \in A : b <= y PROVE b = a
      <4>1. a <= b /\ b <= a
        BY <2>1, <3>1
      <4> QED
        BY <2>1, <2>3, <4>1
    <3> QED
      BY <2>1, <3>1 DEF Min
  <2>5. Min(B) = a
    <3>1. ASSUME NEW b \in B, \A y \in B : b <= y PROVE b = a
      <4>1. a <= b /\ b <= a
        BY <2>2, <3>1
      <4> QED
        BY <2>2, <2>3, <4>1
    <3> QED
      BY <2>2, <3>1 DEF Min
  <2> QED
    BY <1>1, <1>2, <1>3, <1>5, <2>2, <2>4, <2>5 DEF t
<1> QED
  BY <1>4, <1>5

(* A list of aliases is one of spellings.                                    *)
LEMMA NamesTyped ==
  ASSUME NEW S, NEW k \in Keys, Spellings(k) \subseteq S
  PROVE  Aliases[k] \in Seq(S)
<1>1. /\ Aliases["Grep"] = GrepNames /\ Aliases["Search"] = GrepNames
      /\ Aliases["Task"] = AgentNames /\ Aliases["subagent"] = AgentNames
      /\ Aliases["Shell"] = ShellNames
  BY DEF Aliases
<1>2. CASE k = "Shell"
  BY <1>1, <1>2, SpellingsAre DEF Aliases, ShellNames, GrepNames, AgentNames
<1>3. CASE k = "Read"
  BY <1>1, <1>3, SpellingsAre DEF Aliases, ShellNames, GrepNames, AgentNames
<1>4. CASE k = "Edit"
  BY <1>1, <1>4, SpellingsAre DEF Aliases, ShellNames, GrepNames, AgentNames
<1>5. CASE k = "Write"
  BY <1>1, <1>5, SpellingsAre DEF Aliases, ShellNames, GrepNames, AgentNames
<1>6. CASE k = "Delete"
  BY <1>1, <1>6, SpellingsAre DEF Aliases, ShellNames, GrepNames, AgentNames
<1>7. CASE k = "Glob"
  BY <1>1, <1>7, SpellingsAre DEF Aliases, ShellNames, GrepNames, AgentNames
<1>8. CASE k = "LS"
  BY <1>1, <1>8, SpellingsAre DEF Aliases, ShellNames, GrepNames, AgentNames
<1>9. CASE k = "Fetch"
  BY <1>1, <1>9, SpellingsAre DEF Aliases, ShellNames, GrepNames, AgentNames
<1>10. CASE k = "WebSearch"
  BY <1>1, <1>10, SpellingsAre DEF Aliases, ShellNames, GrepNames, AgentNames
<1>11. CASE k = "AskQuestion"
  BY <1>1, <1>11, SpellingsAre DEF Aliases, ShellNames, GrepNames, AgentNames
<1>12. CASE k = "Grep"
  BY <1>1, <1>12, SpellingsAre DEF Aliases, ShellNames, GrepNames, AgentNames
<1>13. CASE k = "Search"
  BY <1>1, <1>13, SpellingsAre DEF Aliases, ShellNames, GrepNames, AgentNames
<1>14. CASE k = "Task"
  BY <1>1, <1>14, SpellingsAre DEF Aliases, ShellNames, GrepNames, AgentNames
<1>15. CASE k = "subagent"
  BY <1>1, <1>15, SpellingsAre DEF Aliases, ShellNames, GrepNames, AgentNames
<1> QED
  BY KeysAre, <1>2, <1>3, <1>4, <1>5, <1>6, <1>7, <1>8, <1>9, <1>10, <1>11, <1>12, <1>13, <1>14, <1>15

(* resolveDeclared gives a name that is declared, or none ...                *)
LEMMA ResolvedIs ==
  ASSUME NEW n
  PROVE  Resolved(n) = "" \/ Resolved(n) \in DOMAIN client
<1> DEFINE keys == {k \in Keys : Lower(k) = Lower(n)}
           aliases == IF keys = {} THEN <<>> ELSE Aliases[CHOOSE k \in keys : TRUE]
<1>1. \E S : aliases \in Seq(S) /\ Lower(n) \in S
  <2>1. CASE keys = {}
    <3>1. aliases \in Seq({Lower(n)})
      BY <2>1
    <3> QED
      BY <3>1
  <2>2. CASE keys # {}
    <3>1. PICK k \in Keys : aliases = Aliases[k]
      BY <2>2
    <3> DEFINE S == Spellings(k) \cup {Lower(n)}
    <3>2. aliases \in Seq(S)
      BY <3>1, NamesTyped
    <3> QED
      BY <3>2
  <2> QED
    BY <2>1, <2>2
<1>2. Resolved(n) = Declared(Append(aliases, Lower(n)))
  BY DEF Resolved
<1> HIDE DEF aliases
<1>3. PICK S : aliases \in Seq(S) /\ Lower(n) \in S
  BY <1>1
<1>4. Append(aliases, Lower(n)) \in Seq(S)
  BY <1>3
<1> QED
  BY <1>2, <1>4, DeclaredIs

(* ... and so does the name of the shell.                                    *)
LEMMA ShellIs ==
  ASSUME DOMAIN client # {}
  PROVE  ShellName = "" \/ ShellName \in DOMAIN client
<1>1. ShellNames \in Seq(Spellings("Shell"))
  <2>1. Aliases["Shell"] = ShellNames /\ "Shell" \in Keys
    BY KeysAre DEF Aliases
  <2> QED
    BY <2>1, NamesTyped
<1> QED
  BY <1>1, DeclaredIs DEF ShellName

(* A call of a declared tool, with the arguments its schema has.             *)
Sendable(x) ==
  x = Withheld \/ \E t \in DOMAIN client : \E a : x = Forwarded(t, Projected(a, SchemaOf(t)))

(* What is converted for a declared tool is such a call; so is what is made  *)
(* for the shell, and all that mapCursorToolCall makes.                      *)
LEMMA ConvertSendable ==
  ASSUME NEW t \in DOMAIN client
  PROVE  Sendable(Convert(t)) /\ Sendable(Declare(t))
BY DEF Sendable, Convert, Declare

LEMMA ShellSendable ==
  ASSUME DOMAIN client # {}, NEW can
  PROVE  Sendable(ForShell(can))
<1>1. CASE ShellName # "" /\ can
  BY <1>1, ShellIs DEF Sendable, ForShell
<1>2. CASE ~(ShellName # "" /\ can)
  BY <1>2 DEF Sendable, ForShell
<1> QED
  BY <1>1, <1>2

LEMMA MappedSendable ==
  ASSUME DOMAIN client # {}, NEW canon
  PROVE  Sendable(MappedAs(canon))
<1> DEFINE lower == Lower(canon)
           target == Resolved(call.name)
<1>1. \A n : Resolved(n) # "" => Sendable(Convert(Resolved(n))) /\ Sendable(Declare(Resolved(n)))
  BY ResolvedIs, ConvertSendable
<1>2. Sendable(ForShell(CanGlob)) /\ Sendable(ForShell(CanGrep))
  BY ShellSendable
<1>3. Sendable(Synthesized(lower))
  <2>1. Sendable(Withheld)
    BY DEF Sendable
  <2>2. Sendable(ForShell(CanDelete)) /\ Sendable(ForShell(TRUE))
    BY ShellSendable
  <2> QED
    BY <1>2, <2>1, <2>2 DEF Synthesized
<1> QED
  BY <1>1, <1>2, <1>3 DEF MappedAs

(* What the keys that share their names are in lower case, and what is       *)
(* declared of them.                                                         *)
LEMMA LowersAre ==
  /\ Lower("Grep") = "grep" /\ Lower("Search") = "search"
  /\ Lower("Task") = "task" /\ Lower("subagent") = "subagent"
  /\ \A k \in Keys : /\ Lower(k) = "grep" => k = "Grep"
                     /\ Lower(k) = "search" => k = "Search"
                     /\ Lower(k) = "task" => k = "Task"
                     /\ Lower(k) = "subagent" => k = "subagent"
BY KeysAre DEF Lower, LowerKey

LEMMA SharedResolve ==
  /\ Resolved("Grep") = Declared(GrepNames)
  /\ "search" \notin DOMAIN client => Resolved("Search") = Declared(GrepNames)
  /\ Resolved("Task") = Declared(AgentNames)
  /\ Resolved("subagent") = Declared(AgentNames)
<1>1. \A n \in {"Grep", "Search", "Task", "subagent"} :
        Resolved(n) = Declared(Append(Aliases[n], Lower(n)))
  <2>1. SUFFICES ASSUME NEW n \in {"Grep", "Search", "Task", "subagent"}
                 PROVE  Resolved(n) = Declared(Append(Aliases[n], Lower(n)))
    OBVIOUS
  <2> DEFINE keys == {k \in Keys : Lower(k) = Lower(n)}
  <2>2. keys = {n}
    BY LowersAre, KeysAre
  <2>3. keys # {} /\ (CHOOSE k \in keys : TRUE) = n
    BY <2>2
  <2> QED
    BY <2>3 DEF Resolved
<1>2. /\ Aliases["Grep"] = GrepNames /\ Aliases["Search"] = GrepNames
      /\ Aliases["Task"] = AgentNames /\ Aliases["subagent"] = AgentNames
  BY DEF Aliases
<1>3. GrepNames \in Seq(Spellings("Search")) /\ AgentNames \in Seq(Spellings("Task"))
  <2>1. "Search" \in Keys /\ "Task" \in Keys
    BY KeysAre
  <2> QED
    BY <1>2, <2>1, NamesTyped
<1>4. /\ "grep" \in Range(GrepNames)
      /\ "task" \in Range(AgentNames) /\ "subagent" \in Range(AgentNames)
  BY DEF GrepNames, AgentNames, Range
<1>5. /\ "grep" \in Spellings("Search") /\ "search" \in Spellings("Search")
      /\ "task" \in Spellings("Task") /\ "subagent" \in Spellings("Task")
  BY SpellingsAre
<1>6. Declared(Append(GrepNames, "grep")) = Declared(GrepNames)
  BY <1>3, <1>4, <1>5, DeclaredStays
<1>7. "search" \notin DOMAIN client => Declared(Append(GrepNames, "search")) = Declared(GrepNames)
  BY <1>3, <1>5, DeclaredStays
<1>8. /\ Declared(Append(AgentNames, "task")) = Declared(AgentNames)
      /\ Declared(Append(AgentNames, "subagent")) = Declared(AgentNames)
  BY <1>3, <1>4, <1>5, DeclaredStays
<1> QED
  BY <1>1, <1>2, <1>6, <1>7, <1>8, LowersAre

(* Whichever of two keys is found, the client gets the same call.            *)
LEMMA MappedAlike ==
  ASSUME NEW j \in Canonical(call.name), NEW k \in Canonical(call.name),
         "search" \notin DOMAIN client
  PROVE  Gated(j) = Gated(k)
<1>1. CASE j = k
  BY <1>1
<1>2. CASE j # k
  <2>1. /\ call.name \notin Keys
        /\ {j, k} = {"Grep", "Search"} \/ {j, k} = {"Task", "subagent"}
    BY <1>2, CanonicalIs
  <2>2. j # call.name /\ k # call.name
    BY <2>1, KeysAre
  <2>3. Resolved(j) = Resolved(k)
    BY <2>1, SharedResolve
  <2>4. GlobInstead(Lower(j)) = GlobInstead(Lower(k))
    BY <2>1, LowersAre, Zenon DEF GlobInstead, IsGrep
  <2>5. Synthesized(Lower(j)) = Synthesized(Lower(k))
    <3>1. CASE {j, k} = {"Grep", "Search"}
      <4>1. IsGrep(Lower(j)) /\ IsGrep(Lower(k))
        BY <3>1, LowersAre DEF IsGrep
      <4>2. \A x \in {"grep", "search"} :
              x # "glob" /\ x # "ls" /\ x # "delete" /\ x \notin DOMAIN Registry /\ IsGrep(x)
        BY DEF Registry, IsGrep
      <4>3. \A x \in {"grep", "search"} : Synthesized(x) = ForShell(CanGrep)
        BY <4>2 DEF Synthesized
      <4> QED
        BY <4>1, <4>3 DEF IsGrep
    <3>2. CASE {j, k} = {"Task", "subagent"}
      <4>1. Lower(j) \in {"task", "subagent"} /\ Lower(k) \in {"task", "subagent"}
        BY <3>2, LowersAre
      <4>2. \A x \in {"task", "subagent"} :
              /\ x \in DOMAIN Registry /\ Registry[x] = "agent"
              /\ ~IsGrep(x) /\ x # "glob" /\ x # "ls" /\ x # "delete"
        BY DEF Registry, IsGrep
      <4>3. \A x \in {"task", "subagent"} :
              Synthesized(x) = IF DOMAIN client = {} THEN Convert("agent") ELSE Withheld
        BY <4>2 DEF Synthesized
      <4> QED
        BY <4>1, <4>3
    <3> QED
      BY <2>1, <3>1, <3>2
  <2>6. MappedAs(j) = MappedAs(k)
    BY <2>2, <2>3, <2>4, <2>5 DEF MappedAs
  <2> QED
    BY <2>6 DEF Gated
<1> QED
  BY <1>1, <1>2

(* What a call is answered with depends on the call and the client.          *)
LEMMA AnswerStays ==
  ASSUME UNCHANGED <<call, client>>
  PROVE  \A c : Gated(c)' = Gated(c)
<1>1. call' = call /\ client' = client
  OBVIOUS
<1>2. \A s : Declared(s)' = Declared(s)
  BY <1>1 DEF Declared
<1>3. ShellName' = ShellName /\ \A n : Resolved(n)' = Resolved(n)
  BY <1>1, <1>2 DEF ShellName, Resolved
<1>4. \A n : SchemaOf(n)' = SchemaOf(n)
  BY <1>1 DEF SchemaOf
<1>5. \A t : Convert(t)' = Convert(t)
  BY <1>1, <1>4 DEF Convert
<1>6. \A t : Declare(t)' = Declare(t)
  BY <1>1, <1>4, <1>5 DEF Declare
<1>7. \A can : ForShell(can)' = ForShell(can)
  BY <1>1, <1>3, <1>4 DEF ForShell
<1>8. /\ CanGlob' = CanGlob /\ CanGrep' = CanGrep /\ CanDelete' = CanDelete
      /\ \A x : GlobInstead(x)' = GlobInstead(x)
  BY <1>1 DEF CanGlob, CanGrep, CanDelete, GlobInstead, Given
<1>9. \A x : Synthesized(x)' = Synthesized(x)
  BY <1>1, <1>5, <1>7, <1>8 DEF Synthesized
<1>10. \A c : MappedAs(c)' = MappedAs(c)
  <2>1. SUFFICES ASSUME NEW c PROVE MappedAs(c)' = MappedAs(c)
    OBVIOUS
  <2>2. /\ Resolved(c)' = Resolved(c) /\ Resolved("Glob")' = Resolved("Glob")
        /\ Resolved(call.name)' = Resolved(call.name)
        /\ Declare(Resolved(c))' = Declare(Resolved(c))
        /\ Declare(Resolved(call.name))' = Declare(Resolved(call.name))
        /\ Convert(Resolved("Glob"))' = Convert(Resolved("Glob"))
    BY <1>1, <1>3, <1>5, <1>6
  <2>3. /\ ForShell(CanGlob)' = ForShell(CanGlob) /\ ForShell(CanGrep)' = ForShell(CanGrep)
        /\ GlobInstead(Lower(c))' = GlobInstead(Lower(c))
        /\ Synthesized(Lower(c))' = Synthesized(Lower(c))
    BY <1>7, <1>8, <1>9
  <2> QED
    BY <1>1, <2>2, <2>3 DEF MappedAs
<1> QED
  BY <1>1, <1>10 DEF Gated

(* The answer is one the table gives.                                        *)
ToolsInv == Answered => \E c \in Canonical(call.name) : answer = Gated(c)

LEMMA ToolsKeep == ToolsInv /\ [Translate]_toolVars => ToolsInv'
<1> SUFFICES ASSUME ToolsInv, [Translate]_toolVars PROVE ToolsInv'
  OBVIOUS
<1>1. UNCHANGED <<call, client>>
  BY DEF Translate, toolVars
<1>2. \A c : Gated(c)' = Gated(c)
  BY <1>1, AnswerStays
<1>3. Canonical(call.name)' = Canonical(call.name)
  BY <1>1 DEF Canonical
<1>4. Answered' => \E c \in Canonical(call.name) : answer' = Gated(c)
  BY DEF ToolsInv, Translate, toolVars, Answered
<1> QED
  BY <1>1, <1>2, <1>3, <1>4 DEF ToolsInv

(* projectArgsToSchema leaves what the schema has.                           *)
LEMMA ProjectedFits ==
  ASSUME NEW a, NEW s
  PROVE  s = {} \/ Projected(a, s) = Raw \/ DOMAIN Projected(a, s) \subseteq s
BY DEF Projected

LEMMA AnswersUsable == ToolsInv => CallsUsable
<1> SUFFICES ASSUME ToolsInv, Answered PROVE CallsUsable
  BY DEF CallsUsable, Executable, OneAnswer
<1>1. PICK c \in Canonical(call.name) : answer = Gated(c)
  BY DEF ToolsInv
<1>2. ASSUME Sent, DOMAIN client # {}
      PROVE  /\ answer.name \in DOMAIN client
             /\ client[answer.name] = {} \/ answer.args = Raw
                  \/ DOMAIN answer.args \subseteq client[answer.name]
  <2>1. Sendable(answer)
    <3>1. Sendable(MappedAs(c)) /\ Sendable(Withheld)
      BY <1>2, MappedSendable DEF Sendable
    <3> QED
      BY <1>1, <1>2, <3>1 DEF Gated
  <2>2. answer # Withheld
    BY <1>2 DEF Sent, Withheld
  <2>3. PICK t \in DOMAIN client : \E a : answer = Forwarded(t, Projected(a, SchemaOf(t)))
    BY <2>1, <2>2 DEF Sendable
  <2>4. PICK a : answer = Forwarded(t, Projected(a, SchemaOf(t)))
    BY <2>3
  <2>5. answer.name = t /\ answer.args = Projected(a, client[t])
    BY <2>4 DEF Forwarded, SchemaOf
  <2> QED
    BY <2>5, ProjectedFits
<1>3. "search" \notin DOMAIN client => \A k \in Canonical(call.name) : answer = Gated(k)
  BY <1>1, MappedAlike
<1> QED
  BY <1>2, <1>3 DEF CallsUsable, Executable, OneAnswer

(* mapCursorToolCall and gateUpstreamToolCall, for any call and any client:  *)
(* a client with tools is sent calls of those only, with arguments of their  *)
(* schemas, and the order in which the table of aliases is gone through      *)
(* makes no difference unless it has declared a Search.                      *)
THEOREM CallsAreUsable == ToolsSpec => []CallsUsable
<1>1. ToolsInit => ToolsInv
  BY DEF ToolsInit, ToolsInv, Answered
<1> QED
  BY <1>1, ToolsKeep, AnswersUsable, PTL DEF ToolsSpec

-----------------------------------------------------------------------------
(* The parts side by side: a step of one is a step of it or leaves it alone. *)

LEMMA RunIsLogs == Init /\ [][Next]_vars => LogSpec
<1>1. Init => LogInit
  BY DEF Init
<1>2. [Next]_vars => [LogNext]_logVars
  <2> SUFFICES ASSUME [Next]_vars PROVE LogNext \/ UNCHANGED logVars
    BY Zenon
  <2>1. CASE UNCHANGED vars
    BY <2>1, Zenon DEF vars
  <2>2. CASE part = "logs" /\ Next
    BY <2>2, Zenon DEF Next, Logs, Metered, Exiting, Limiting, Rotating, Translating,
                       Conversing, Setting, Searching, LogNext
  <2>3. CASE part # "logs" /\ Next
    BY <2>3, Zenon DEF Next, Logs, Metered, Exiting, Limiting, Rotating, Translating,
                       Conversing, Setting, Searching
  <2> QED
    BY <2>1, <2>2, <2>3
<1> QED
  BY <1>1, <1>2, PTL DEF LogSpec

LEMMA RunIsMeters == Init /\ [][Next]_vars => MetersSpec
<1>1. Init => MetersInit
  BY DEF Init
<1>2. [Next]_vars => [MetersNext]_meterVars
  <2> SUFFICES ASSUME [Next]_vars PROVE MetersNext \/ UNCHANGED meterVars
    BY Zenon
  <2>1. CASE UNCHANGED vars
    BY <2>1, Zenon DEF vars
  <2>2. CASE part = "meters" /\ Next
    BY <2>2, Zenon DEF Next, Logs, Metered, Exiting, Limiting, Rotating, Translating,
                       Conversing, Setting, Searching, MetersNext
  <2>3. CASE part # "meters" /\ Next
    BY <2>3, Zenon DEF Next, Logs, Metered, Exiting, Limiting, Rotating, Translating,
                       Conversing, Setting, Searching
  <2> QED
    BY <2>1, <2>2, <2>3
<1> QED
  BY <1>1, <1>2, PTL DEF MetersSpec

(* A step of a run is one of the settings, or leaves them alone.             *)
LEMMA RunIsSettings == [Next]_vars => [SettingsNext]_settingVars
<1> SUFFICES ASSUME [Next]_vars PROVE SettingsNext \/ UNCHANGED settingVars
  BY Zenon
<1>1. CASE UNCHANGED vars
  BY <1>1, Zenon DEF vars
<1>2. CASE part = "settings" /\ Next
  BY <1>2, Zenon DEF Next, Logs, Metered, Exiting, Limiting, Rotating, Translating,
                     Conversing, Setting, Searching, SettingsNext
<1>3. CASE part # "settings" /\ Next
  BY <1>3, Zenon DEF Next, Logs, Metered, Exiting, Limiting, Rotating, Translating,
                     Conversing, Setting, Searching
<1> QED
  BY <1>1, <1>2, <1>3

(* Where the settings rest they begin with one document, which need not be   *)
(* one of Documents.                                                         *)
LEMMA RunKeepsSettings == Init /\ [][Next]_vars => []SettingsInv
<1>1. Init => SettingsInv
  <2> SUFFICES ASSUME Init PROVE SettingsInv
    OBVIOUS
  <2>1. CASE part = "settings"
    BY <2>1, SettingsStart DEF Init
  <2>2. CASE part # "settings"
    <3>1. SettingsRest
      BY <2>2 DEF Init
    <3>2. PICK d : d = Doc(Nothing, "none", FALSE)
      OBVIOUS
    <3>3. /\ config = Opened(d) /\ applied = [f \in Told |-> Shown(f, config.fields[f])]
          /\ edits = [e \in Editors |-> NoEdit] /\ saved = TRUE /\ overlapped = FALSE
      BY <3>1, <3>2 DEF SettingsRest
    <3>4. IsConfig(config)
      BY <3>3 DEF IsConfig, Opened
    <3>5. \A e \in Editors : edits[e].at = "idle" /\ IsEdit(edits[e])
      BY <3>3 DEF NoEdit, IsEdit
    <3>6. SettingsShape
      BY <3>3, <3>4, <3>5 DEF SettingsShape
    <3>7. ASSUME NEW f \in Told PROVE AsShown(f)
      BY <3>3 DEF AsShown, Reads, Told, SettingFields
    <3>8. "request_retry" \in Told /\ "batch_concurrency" \in Told
      BY DEF Told
    <3> QED
      BY <3>3, <3>5, <3>6, <3>7, <3>8 DEF SettingsInv, Tells
  <2> QED
    BY <2>1, <2>2
<1> QED
  BY <1>1, RunIsSettings, SettingsNextFollows, PTL

(* What begins, and what a start brings back, in the same runs.              *)
LEMMA RunKeepsDocument == Init /\ [][Next]_vars => StartKeeps
<1>1. Init => KeptInv
  <2> SUFFICES ASSUME Init PROVE KeptInv
    OBVIOUS
  <2>1. CASE part = "settings"
    BY <2>1, KeptStart DEF Init
  <2>2. CASE part # "settings"
    BY <2>2, OpenedKept DEF Init, SettingsRest, KeptInv
  <2> QED
    BY <2>1, <2>2
<1> QED
  BY <1>1, RunIsSettings, KeptNext, KeptStep, PTL DEF StartKeeps

(* A step of a run is a translation, or leaves the call alone; where calls   *)
(* rest none is answered.                                                    *)
LEMMA RunTranslates == Init /\ [][Next]_vars => []ToolsInv
<1>1. Init => ToolsInv
  <2>1. ToolsInit => answer = Pending
    BY DEF ToolsInit
  <2>2. ToolsRest => answer = Pending
    BY DEF ToolsRest
  <2> QED
    BY <2>1, <2>2 DEF Init, ToolsInv, Answered
<1>2. [Next]_vars => [Translate]_toolVars
  <2> SUFFICES ASSUME [Next]_vars PROVE Translate \/ UNCHANGED toolVars
    BY Zenon
  <2>1. CASE UNCHANGED vars
    BY <2>1, Zenon DEF vars
  <2>2. CASE part = "tools" /\ Next
    BY <2>2, Zenon DEF Next, Logs, Metered, Exiting, Limiting, Rotating, Translating,
                       Conversing, Setting, Searching
  <2>3. CASE part # "tools" /\ Next
    BY <2>3, Zenon DEF Next, Logs, Metered, Exiting, Limiting, Rotating, Translating,
                       Conversing, Setting, Searching
  <2> QED
    BY <2>1, <2>2, <2>3
<1> QED
  BY <1>1, <1>2, ToolsKeep, PTL

(* Observed is about LogStore and the meters, as the pages read them: the    *)
(* newest entries of the log, and every request of the window.               *)
THEOREM PagesShowIt == Spec => []Observed
<1>1. KeepsNewest /\ NothingMissed => Observed
  BY DEF Observed
<1> QED
  BY <1>1, RunIsLogs, LogKeepsNewest, RunIsMeters, MetersMissNothing, PTL DEF Spec

(* What administrators set is what runs: the exits in use (WaysFollow), the  *)
(* limits of an account (LimitsKept) and the settings the parts are told     *)
(* (Followed) hold in every run of the administration, and every start       *)
(* brings the settings back (StartKeeps).                                    *)
THEOREM SetIsWhatRuns == Spec => [](WaysFollow /\ LimitsKept /\ Followed) /\ StartKeeps
<1>1. SettingsInv => Followed
  BY DEF SettingsInv, Followed, AsShown, Told
<1> QED
  BY <1>1, RunIsEgress, ExitsDecide, RunIsLimits, LimitsHold, RunKeepsSettings,
     RunKeepsDocument, PTL DEF Spec

(* CallsUsable in the same runs: what the client is sent of the upstream's   *)
(* tools are calls it can make.                                              *)
THEOREM ClientsCanCall == Spec => []CallsUsable
BY RunTranslates, AnswersUsable, PTL DEF Spec
=============================================================================
