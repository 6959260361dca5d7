----------------------- MODULE SessionAffinityProofs -----------------------
(* Proofs about SessionAffinity: the alias groups stay closed, live groups   *)
(* never split, and live bindings go only with their account.                *)
EXTENDS SessionAffinity, TLAPS

(* What a request needs at each label.                                       *)
Prepared ==
  \A r \in Requests :
    /\ pc[r] = "lookup" => session[r].primary \in Keys
    /\ pc[r] = "fallback" => session[r].fallback \in Keys
    /\ pc[r] \in {"bind", "acquire"} => picked[r] \in Accounts
    /\ cands[r] \subseteq Accounts

IInv == TypeOK /\ GroupsClosed /\ Prepared

CacheTyped ==
  /\ bound \in [Keys -> Accounts \cup {NoAccount}]
  /\ group \in [Keys -> SUBSET Keys]
  /\ live \in [Keys -> BOOLEAN]

-----------------------------------------------------------------------------
(* One cache operation at a time.                                            *)

LEMMA InitIInv == Init => IInv
BY SessionAffinityAssumption
   DEF Init, IInv, TypeOK, GroupsClosed, Prepared, Labels, Pinning

LEMMA OwnedIsGroup ==
  ASSUME TypeOK, GroupsClosed, NEW k \in Keys, bound[k] # NoAccount
  PROVE  Owned(k) = group[k]
BY DEF TypeOK, GroupsClosed, Owned

LEMMA StoreTyped ==
  ASSUME TypeOK, NEW gone, NEW aliases \in SUBSET Keys,
         NEW a \in Accounts \cup {NoAccount}, Store(gone, aliases, a)
  PROVE  CacheTyped'
BY DEF TypeOK, Store, CacheTyped

(* An operation keeps the groups closed when the keys it touches are whole   *)
(* groups.                                                                   *)
LEMMA StoreCloses ==
  ASSUME TypeOK, GroupsClosed,
         NEW gone \in SUBSET Keys, NEW aliases \in SUBSET Keys,
         NEW a, aliases # {} => a # NoAccount,
         \A k \in gone \cup aliases : group[k] \subseteq gone \cup aliases,
         Store(gone, aliases, a)
  PROVE  GroupsClosed'
<1> SUFFICES ASSUME NEW k \in Keys
             PROVE  IF bound'[k] = NoAccount
                    THEN group'[k] = {} /\ ~live'[k]
                    ELSE /\ k \in group'[k]
                         /\ \A j \in group'[k] : /\ bound'[j] = bound'[k]
                                                 /\ group'[j] = group'[k]
                                                 /\ live'[j] = live'[k]
  BY DEF GroupsClosed
<1>1. CASE k \in aliases
  BY <1>1 DEF Store
<1>2. CASE k \in gone \ aliases
  BY <1>2 DEF Store
<1>3. CASE k \notin gone \cup aliases
  <2>1. bound'[k] = bound[k] /\ group'[k] = group[k] /\ live'[k] = live[k]
    BY <1>3, Zenon DEF Store, TypeOK
  <2>2. CASE bound[k] = NoAccount
    BY <2>1, <2>2 DEF GroupsClosed
  <2>3. ASSUME bound[k] # NoAccount, NEW j \in group[k]
        PROVE  bound'[j] = bound[j] /\ group'[j] = group[j] /\ live'[j] = live[j]
    <3>1. j \in Keys /\ group[j] = group[k] /\ k \in group[k]
      BY <2>3 DEF GroupsClosed, TypeOK
    <3>2. j \notin gone \cup aliases
      BY <1>3, <3>1
    <3> QED
      BY <3>1, <3>2, Zenon DEF Store, TypeOK
  <2> QED
    BY <2>1, <2>2, <2>3 DEF GroupsClosed
<1> QED
  BY <1>1, <1>2, <1>3
-----------------------------------------------------------------------------
(* What the two action properties ask of one step.                           *)
Together ==
  \A k \in Keys : live[k] => \A j \in group[k] : bound'[j] = bound'[k]

LostWhole ==
  \A k \in Keys : live[k] /\ bound'[k] = NoAccount
    => \A j \in Keys : bound'[j] # bound[k]

Sound == CacheTyped' /\ GroupsClosed' /\ Together /\ LostWhole

LEMMA UnchangedSound == TypeOK /\ GroupsClosed /\ UNCHANGED cacheVars => Sound
BY DEF TypeOK, GroupsClosed, cacheVars, Sound, CacheTyped, Together, LostWhole

LEMMA RemoveGroupSound ==
  ASSUME TypeOK, GroupsClosed, NEW k \in Keys, bound[k] # NoAccount, ~live[k],
         RemoveGroup(k)
  PROVE  Sound
<1>1. Owned(k) = group[k] /\ group[k] \in SUBSET Keys
  BY OwnedIsGroup DEF TypeOK
<1>2. Store(group[k], {}, NoAccount)
  BY <1>1 DEF RemoveGroup
<1>3. \A j \in group[k] : group[j] = group[k] /\ ~live[j] /\ bound[j] = bound[k]
  BY <1>1 DEF GroupsClosed
<1>4. CacheTyped' /\ GroupsClosed'
  BY <1>1, <1>2, <1>3, StoreTyped, StoreCloses
<1>5. ASSUME NEW j \in Keys, live[j] PROVE bound'[j] = bound[j] /\ bound[j] # NoAccount
  <2>1. j \notin group[k]
    BY <1>3, <1>5
  <2> QED
    BY <1>2, <1>5, <2>1 DEF Store, GroupsClosed
<1>6. Together
  BY <1>5 DEF Together, GroupsClosed, TypeOK
<1>7. LostWhole
  BY <1>5 DEF LostWhole
<1> QED
  BY <1>4, <1>6, <1>7 DEF Sound

LEMMA RefreshSound ==
  ASSUME TypeOK, GroupsClosed, NEW k \in Keys, live[k], Refresh(k)
  PROVE  Sound
<1>1. bound[k] \in Accounts
  BY DEF TypeOK, GroupsClosed
<1>2. /\ Owned(k) = group[k] /\ group[k] \in SUBSET Keys
      /\ k \in group[k] /\ {k} \cup group[k] = group[k]
  BY <1>1, SessionAffinityAssumption, OwnedIsGroup DEF TypeOK, GroupsClosed
<1>3. Store(group[k], group[k], bound[k])
  BY <1>2 DEF Refresh
<1>4. \A j \in group[k] : group[j] = group[k] /\ bound[j] = bound[k]
  BY <1>1, SessionAffinityAssumption DEF GroupsClosed
<1>5. CacheTyped' /\ GroupsClosed'
  BY <1>1, <1>2, <1>3, <1>4, SessionAffinityAssumption, StoreTyped, StoreCloses
<1>6. \A j \in Keys : bound'[j] = bound[j]
  BY <1>2, <1>3, <1>4 DEF Store
<1>7. Together
  BY <1>6 DEF Together, GroupsClosed, TypeOK
<1>8. LostWhole
  BY <1>6 DEF LostWhole, GroupsClosed
<1> QED
  BY <1>5, <1>7, <1>8 DEF Sound

LEMMA SetAliasesSound ==
  ASSUME TypeOK, GroupsClosed, NEW ids \in SUBSET Keys, NEW a \in Accounts,
         SetAliases(ids, a)
  PROVE  Sound
<1> DEFINE gone    == UNION {Owned(k) : k \in {i \in ids : bound[i] # NoAccount}}
           aliases == ids \cup UNION {group[k] : k \in {i \in ids : live[i]}}
<1>1. Store(gone, aliases, a)
  BY DEF SetAliases
<1>2. \A k \in Keys : bound[k] # NoAccount => Owned(k) = group[k]
  BY OwnedIsGroup
<1>3. \A j : j \in gone <=> \E k \in ids : bound[k] # NoAccount /\ j \in group[k]
  BY <1>2
<1>4. \A j : j \in aliases <=> j \in ids \/ \E k \in ids : live[k] /\ j \in group[k]
  OBVIOUS
<1>5. gone \in SUBSET Keys /\ aliases \in SUBSET Keys /\ a # NoAccount
  BY <1>3, <1>4, SessionAffinityAssumption DEF TypeOK
<1> HIDE DEF gone, aliases
<1>6. \A k \in gone \cup aliases : group[k] \subseteq gone \cup aliases
  <2>1. ASSUME NEW k \in gone PROVE group[k] \subseteq gone
    BY <1>3, <2>1 DEF GroupsClosed, TypeOK
  <2>2. ASSUME NEW k \in aliases PROVE group[k] \subseteq gone
    <3>1. CASE k \in ids /\ bound[k] = NoAccount
      BY <3>1 DEF GroupsClosed
    <3>2. CASE k \in ids /\ bound[k] # NoAccount
      BY <1>3, <3>2
    <3>3. CASE \E i \in ids : live[i] /\ k \in group[i]
      BY <1>3, <3>3 DEF GroupsClosed, TypeOK
    <3> QED
      BY <1>4, <3>1, <3>2, <3>3
  <2> QED
    BY <2>1, <2>2
<1>7. CacheTyped'
  BY <1>1, <1>5, StoreTyped
<1>8. GroupsClosed'
  BY <1>1, <1>5, <1>6, StoreCloses
<1>9. ASSUME NEW k \in Keys, live[k]
      PROVE  \/ k \in aliases /\ group[k] \subseteq aliases
             \/ k \notin gone \cup aliases /\ (\A j \in group[k] : j \notin gone \cup aliases)
  <2>1. bound[k] # NoAccount /\ k \in group[k]
    BY <1>9 DEF GroupsClosed
  <2>2. \A j \in group[k] : j \in Keys /\ group[j] = group[k] /\ live[j] /\ bound[j] # NoAccount
    BY <1>9, <2>1 DEF GroupsClosed, TypeOK
  <2>3. CASE \E i \in ids : i \in group[k]
    <3>1. PICK i \in ids : i \in group[k]
      BY <2>3
    <3>2. live[i] /\ group[i] = group[k]
      BY <2>2, <3>1
    <3> QED
      BY <1>4, <2>1, <3>1, <3>2
  <2>4. CASE ~\E i \in ids : i \in group[k]
    <3>1. ASSUME NEW j \in group[k], j \in gone \cup aliases PROVE FALSE
      <4>1. \E i \in ids : bound[i] # NoAccount /\ j \in group[i]
        BY <1>3, <1>4, <2>4, <3>1 DEF GroupsClosed, TypeOK
      <4>2. PICK i \in ids : bound[i] # NoAccount /\ j \in group[i]
        BY <4>1
      <4>3. i \in group[i] /\ group[j] = group[i]
        BY <4>2 DEF GroupsClosed
      <4> QED
        BY <2>2, <2>4, <3>1, <4>2, <4>3
    <3> QED
      BY <2>1, <3>1
  <2> QED
    BY <2>3, <2>4
<1>10. ASSUME NEW k \in Keys
       PROVE  /\ k \in aliases => bound'[k] = a
              /\ k \notin gone \cup aliases => bound'[k] = bound[k]
  BY <1>1 DEF Store
<1>11. Together
  <2> SUFFICES ASSUME NEW k \in Keys, live[k], NEW j \in group[k]
               PROVE  bound'[j] = bound'[k]
    BY DEF Together
  <2>1. j \in Keys /\ bound[j] = bound[k]
    BY DEF GroupsClosed, TypeOK
  <2> QED
    BY <1>9, <1>10, <2>1
<1>12. LostWhole
  BY <1>5, <1>9, <1>10 DEF LostWhole, GroupsClosed
<1> QED
  BY <1>7, <1>8, <1>11, <1>12 DEF Sound

LEMMA InvalidateAuthSound ==
  ASSUME TypeOK, GroupsClosed, NEW a, InvalidateAuth(a)
  PROVE  Sound
<1> DEFINE gone == UNION {Owned(k) : k \in {i \in Keys : bound[i] = a}}
<1>1. Store(gone, {}, NoAccount)
  BY DEF InvalidateAuth
<1>2. gone = {k \in Keys : bound[k] = a /\ a # NoAccount}
  <2>1. ASSUME NEW k \in gone PROVE k \in Keys /\ bound[k] = a /\ a # NoAccount
    <3>1. PICK i \in Keys : bound[i] = a /\ k \in group[i] /\ bound[k] = bound[i]
      BY DEF Owned
    <3> QED
      BY <3>1 DEF GroupsClosed, TypeOK
  <2>2. ASSUME NEW k \in Keys, bound[k] = a, a # NoAccount PROVE k \in Owned(k)
    BY <2>2 DEF GroupsClosed, Owned
  <2> QED
    BY <2>1, <2>2
<1> HIDE DEF gone
<1>3. \A k \in gone : group[k] \subseteq gone
  BY <1>2 DEF GroupsClosed, TypeOK
<1>4. CacheTyped' /\ GroupsClosed'
  BY <1>1, <1>2, <1>3, StoreTyped, StoreCloses
<1>5. \A k \in Keys : bound'[k] = IF k \in gone THEN NoAccount ELSE bound[k]
  BY <1>1 DEF Store
<1>6. Together
  <2> SUFFICES ASSUME NEW k \in Keys, live[k], NEW j \in group[k]
               PROVE  bound'[j] = bound'[k]
    BY DEF Together
  <2>1. j \in Keys /\ bound[j] = bound[k]
    BY DEF GroupsClosed, TypeOK
  <2> QED
    BY <1>2, <1>5, <2>1
<1>7. LostWhole
  BY <1>2, <1>5 DEF LostWhole, GroupsClosed
<1> QED
  BY <1>4, <1>6, <1>7 DEF Sound
-----------------------------------------------------------------------------
(* Every step of the system is one operation of the cache, an expiry, or     *)
(* leaves the cache alone.                                                   *)
LEMMA ExpireSound ==
  ASSUME TypeOK, GroupsClosed, NEW k \in Keys, Expire(k)
  PROVE  Sound
<1>1. /\ bound' = bound /\ group' = group
      /\ live' = [j \in Keys |-> live[j] /\ ~(bound[j] = bound[k] /\ group[j] = group[k])]
  BY DEF Expire
<1>2. CacheTyped'
  BY <1>1 DEF TypeOK, CacheTyped
<1>3. GroupsClosed'
  BY <1>1 DEF GroupsClosed, TypeOK
<1>4. Together /\ LostWhole
  BY <1>1 DEF Together, LostWhole, GroupsClosed, TypeOK
<1> QED
  BY <1>2, <1>3, <1>4 DEF Sound

LEMMA StepSound == IInv /\ [Next]_vars => Sound
<1> SUFFICES ASSUME IInv, [Next]_vars PROVE Sound
  OBVIOUS
<1> USE DEF IInv
<1>1. ASSUME NEW r \in Requests, LookupPrimary(r) PROVE Sound
  <2> DEFINE k == session[r].primary
  <2>1. k \in Keys
    BY <1>1 DEF LookupPrimary, Prepared
  <2>2. CASE live[k] /\ Refresh(k)
    BY <2>1, <2>2, RefreshSound
  <2>3. CASE ~live[k] /\ bound[k] # NoAccount /\ RemoveGroup(k)
    BY <2>1, <2>3, RemoveGroupSound
  <2> QED
    BY <1>1, <2>2, <2>3, UnchangedSound DEF LookupPrimary
<1>2. ASSUME NEW r \in Requests, LookupFallback(r) PROVE Sound
  <2> DEFINE k == session[r].fallback
  <2>1. k \in Keys
    BY <1>2 DEF LookupFallback, Prepared
  <2>2. CASE ~live[k] /\ bound[k] # NoAccount /\ RemoveGroup(k)
    BY <2>1, <2>2, RemoveGroupSound
  <2> QED
    BY <1>2, <2>2, UnchangedSound DEF LookupFallback
<1>3. ASSUME NEW r \in Requests, InvalidateStale(r) \/ NoteAccount(r) PROVE Sound
  BY <1>3, InvalidateAuthSound DEF InvalidateStale, NoteAccount
<1>4. ASSUME NEW r \in Requests, Bind(r) PROVE Sound
  <2>1. Ids(r) \in SUBSET Keys /\ picked[r] \in Accounts
    BY <1>4 DEF Bind, Prepared, Ids, TypeOK
  <2> QED
    BY <1>4, <2>1, SetAliasesSound, UnchangedSound DEF Bind
<1>5. ASSUME NEW r \in Requests,
             Start(r) \/ Collect(r) \/ Choose(r) \/ Acquire(r) \/ Served(r)
      PROVE  Sound
  BY <1>5, UnchangedSound DEF Start, Collect, Choose, Acquire, Served
<1>6. ASSUME NEW a \in Accounts, ReadinessChanges(a) PROVE Sound
  BY <1>6, UnchangedSound DEF ReadinessChanges
<1>7. ASSUME NEW k \in Keys, Expire(k) PROVE Sound
  BY <1>7, ExpireSound
<1>8. CASE UNCHANGED vars
  BY <1>8, UnchangedSound DEF vars
<1> QED
  BY <1>1, <1>2, <1>3, <1>4, <1>5, <1>6, <1>7, <1>8 DEF Next, PickStep

LEMMA LeaveKeeps ==
  ASSUME TypeOK, Prepared, NEW r \in Requests, Leave(r), ready' \in SUBSET Accounts,
         CacheTyped'
  PROVE  TypeOK' /\ Prepared'
BY SessionAffinityAssumption
   DEF TypeOK, CacheTyped, Prepared, Leave, Goto, Labels, Pinning

LEMMA StepIInv == IInv /\ [Next]_vars => IInv'
<1> SUFFICES ASSUME IInv, [Next]_vars PROVE IInv'
  OBVIOUS
<1>1. CacheTyped' /\ GroupsClosed'
  BY StepSound DEF Sound
<1> USE <1>1 DEF IInv, Prepared, TypeOK, CacheTyped, Labels, Goto, Pinning
<1>2. ASSUME NEW r \in Requests, Start(r) PROVE IInv'
  BY <1>2, SessionAffinityAssumption DEF Start
<1>3. ASSUME NEW r \in Requests, Collect(r) PROVE IInv'
  <2>1. CASE Leave(r)
    BY <1>3, <2>1, LeaveKeeps DEF Collect
  <2>2. CASE /\ cands' = [cands EXCEPT ![r] = ready \ tried[r]]
             /\ pc' = [pc EXCEPT ![r] = IF Pinning(r) THEN "lookup" ELSE "choose"]
             /\ UNCHANGED <<session, tried, picked>>
    <3>1. session[r].primary \in Keys \cup {NoKey}
      OBVIOUS
    <3>2. ready' = ready /\ pc[r] = "collect"
      BY <1>3 DEF Collect
    <3>3. TypeOK'
      BY <2>2, <3>2
    <3>4. Prepared'
      BY <2>2, <3>1, <3>2
    <3> QED
      BY <3>3, <3>4
  <2> QED
    BY <1>3, <2>1, <2>2 DEF Collect
<1>4. ASSUME NEW r \in Requests, LookupPrimary(r) PROVE IInv'
  <2>1. /\ session[r].primary \in Keys
        /\ session[r].fallback \in Keys \cup {NoKey}
        /\ UNCHANGED <<ready, session, tried, cands>>
    BY <1>4 DEF LookupPrimary
  <2>2. live[session[r].primary] => bound[session[r].primary] \in Accounts
    BY <2>1 DEF GroupsClosed
  <2>3. \/ /\ bound[session[r].primary] \in Accounts
           /\ picked' = [picked EXCEPT ![r] = bound[session[r].primary]]
           /\ \/ pc' = [pc EXCEPT ![r] = "bind"]
              \/ pc' = [pc EXCEPT ![r] = "invalidate"]
        \/ /\ pc' = [pc EXCEPT ![r] = AfterPrimary(r)]
           /\ picked' = picked
    BY <1>4, <2>2 DEF LookupPrimary
  <2>4. TypeOK'
    BY <2>1, <2>3 DEF AfterPrimary
  <2>5. Prepared'
    BY <2>1, <2>3 DEF AfterPrimary
  <2> QED
    BY <2>4, <2>5
<1>5. ASSUME NEW r \in Requests, InvalidateStale(r) PROVE IInv'
  BY <1>5, SessionAffinityAssumption DEF InvalidateStale, AfterPrimary
<1>6. ASSUME NEW r \in Requests, LookupFallback(r) PROVE IInv'
  <2>1. /\ pc[r] = "fallback"
        /\ UNCHANGED <<ready, session, tried, cands>>
        /\ \/ /\ bound[session[r].fallback] \in Accounts
              /\ picked' = [picked EXCEPT ![r] = bound[session[r].fallback]]
              /\ pc' = [pc EXCEPT ![r] = "bind"]
           \/ pc' = [pc EXCEPT ![r] = "choose"] /\ picked' = picked
    <3>1. session[r].fallback \in Keys /\ pc[r] = "fallback"
      BY <1>6 DEF LookupFallback
    <3>2. live[session[r].fallback] => bound[session[r].fallback] \in Accounts
      BY <3>1, SessionAffinityAssumption DEF GroupsClosed
    <3> QED
      BY <1>6, <3>1, <3>2 DEF LookupFallback
  <2>2. TypeOK'
    BY <2>1
  <2>3. Prepared'
    BY <2>1
  <2> QED
    BY <2>2, <2>3
<1>7. ASSUME NEW r \in Requests, Choose(r) PROVE IInv'
  BY <1>7 DEF Choose
<1>8. ASSUME NEW r \in Requests, Bind(r) PROVE IInv'
  BY <1>8 DEF Bind
<1>9. ASSUME NEW r \in Requests, Acquire(r) PROVE IInv'
  <2>1. CASE pc' = [pc EXCEPT ![r] = "serving"]
    BY <1>9, <2>1 DEF Acquire
  <2>2. CASE pc' = [pc EXCEPT ![r] = "collect"] /\ tried' = tried
    BY <1>9, <2>2 DEF Acquire
  <2> QED
    BY <1>9, <2>1, <2>2 DEF Acquire
<1>10. ASSUME NEW r \in Requests, Served(r) PROVE IInv'
  BY <1>10, LeaveKeeps DEF Served
<1>11. ASSUME NEW r \in Requests, NoteAccount(r) PROVE IInv'
  BY <1>11, LeaveKeeps DEF NoteAccount
<1>12. ASSUME NEW a \in Accounts, ReadinessChanges(a) PROVE IInv'
  BY <1>12 DEF ReadinessChanges, requestVars
<1>13. ASSUME NEW k \in Keys, Expire(k) PROVE IInv'
  BY <1>13 DEF Expire, requestVars
<1>14. CASE UNCHANGED vars
  BY <1>14 DEF vars, requestVars
<1> QED
  BY <1>2, <1>3, <1>4, <1>5, <1>6, <1>7, <1>8, <1>9, <1>10, <1>11, <1>12,
     <1>13, <1>14 DEF Next, PickStep

THEOREM IInvHolds == Spec => []IInv
BY InitIInv, StepIInv, PTL DEF Spec

(* Every variable keeps its type.                                            *)
THEOREM AffinityTyped == Spec => []TypeOK
BY IInvHolds, PTL DEF IInv

(* The alias groups partition the bound keys at all times, for any keys,     *)
(* sessions, accounts and requests.                                          *)
THEOREM GroupsStayClosed == Spec => []GroupsClosed
BY IInvHolds, PTL DEF IInv

(* While a binding lasts its identifiers move and vanish together.           *)
THEOREM LiveGroupsNeverSplit == Spec => NeverSplit
<1>1. IInv /\ [Next]_vars =>
        [\A k \in Keys : live[k] => \A j \in group[k] : bound'[j] = bound'[k]]_vars
  BY StepSound DEF Sound, Together
<1> QED
  BY <1>1, IInvHolds, PTL DEF Spec, NeverSplit

(* No session loses a live binding to the clean-up of another one.           *)
THEOREM BindingsGoWithTheirAccount == Spec => LostOnlyWithAccount
<1>1. IInv /\ [Next]_vars =>
        [\A k \in Keys : live[k] /\ bound'[k] = NoAccount
            => \A j \in Keys : bound'[j] # bound[k]]_vars
  BY StepSound DEF Sound, LostWhole
<1> QED
  BY <1>1, IInvHolds, PTL DEF Spec, LostOnlyWithAccount
=============================================================================
