--------------------------------- MODULE Keys ---------------------------------
(* The client keys, clientkeys/store.go: two maps that index each other, the *)
(* stored list, and the usage that is written only every so many requests.   *)
EXTENDS Integers, FiniteSets, FiniteSetsExt

CONSTANTS
  Plains,      \* plaintexts of keys
  FlushEvery,  \* usageFlushThreshold
  MaxKeyId,    \* bound: ids that are given out
  MaxUses      \* bound: uses recorded of a key

ASSUME KeysAssumption ==
  /\ "none" \notin Plains
  /\ FlushEvery \in Nat \ {0}
  /\ MaxKeyId \in Nat \ {0} /\ MaxUses \in Nat

VARIABLES
  entries,     \* Store.entries: the keys by id
  byKey,       \* Store.byKey: the ids by plaintext
  nextID, usageDirty,
  keyDoc,      \* the stored list
  master,      \* runtime api_key_auth, as stored with the configuration
  saveLost     \* the last save has failed

keyVars == <<entries, byKey, nextID, usageDirty, keyDoc, master, saveLost>>

Ids == 0..MaxKeyId
NoId == MaxKeyId + 1
NoKey == [key |-> "none", system |-> FALSE, uses |-> 0]
FreshKey(p, system) == [NoKey EXCEPT !.key = p, !.system = system]
Held(es) == {i \in Ids : es[i] # NoKey}

KeysInit ==
  /\ entries = [i \in Ids |-> NoKey] /\ byKey = [p \in Plains |-> NoId]
  /\ nextID = 1 /\ usageDirty = 0 /\ saveLost = FALSE
  /\ keyDoc = entries /\ master = NoKey.key
-----------------------------------------------------------------------------
(* saveLocked: the whole list.  An error is dropped, and the usage counts as *)
(* written all the same.                                                     *)
SaveKeys ==
  /\ \/ keyDoc' = entries' /\ saveLost' = FALSE
     \/ keyDoc' = keyDoc /\ saveLost' = TRUE
  /\ usageDirty' = 0

(* CreateWithKey with a plaintext that has just been generated.              *)
CreateKey ==
  /\ nextID \in Ids
  /\ \E p \in {q \in Plains : byKey[q] = NoId} :
       /\ entries' = [entries EXCEPT ![nextID] = FreshKey(p, FALSE)]
       /\ byKey' = [byKey EXCEPT ![p] = nextID]
  /\ nextID' = nextID + 1
  /\ SaveKeys /\ UNCHANGED master

(* mutant of Adopt: the key moves, its plaintext keeps pointing to the old id *)
AdoptForgetsIndex(p) ==
  LET i == byKey[p]
      e == [entries[i] EXCEPT !.system = TRUE] IN
  /\ entries' = IF i # 0 /\ entries[0] = NoKey
                THEN [entries EXCEPT ![i] = NoKey, ![0] = e]
                ELSE [entries EXCEPT ![i] = e]
  /\ UNCHANGED <<byKey, nextID>>

(* A master key that is there already is marked, and moves to id 0 if that   *)
(* is free.                                                                  *)
Adopt(p) ==
  LET i == byKey[p]
      e == [entries[i] EXCEPT !.system = TRUE] IN
  /\ IF i # 0 /\ entries[0] = NoKey
     THEN /\ entries' = [entries EXCEPT ![i] = NoKey, ![0] = e]
          /\ byKey' = [byKey EXCEPT ![p] = 0]
     ELSE entries' = [entries EXCEPT ![i] = e] /\ UNCHANGED byKey
  /\ UNCHANGED nextID

Register(p) ==
  LET i == IF entries[0] = NoKey THEN 0 ELSE nextID IN
  /\ i \in Ids
  /\ entries' = [entries EXCEPT ![i] = FreshKey(p, TRUE)]
  /\ byKey' = [byKey EXCEPT ![p] = i]
  /\ nextID' = IF i = 0 THEN nextID ELSE nextID + 1

(* EnsureSystemKey, after a change of api_key_auth and at every start: the   *)
(* list is saved if something in it has changed.                             *)
EnsureSystemKey(p) ==
  /\ IF byKey[p] = NoId THEN Register(p) ELSE Adopt(p)
  /\ IF entries' = entries THEN UNCHANGED <<keyDoc, saveLost, usageDirty>> ELSE SaveKeys

SetMaster ==
  \E p \in Plains \ {master} : EnsureSystemKey(p) /\ master' = p

DeleteKey(i) ==
  /\ entries[i] # NoKey /\ ~entries[i].system
  /\ byKey' = [byKey EXCEPT ![entries[i].key] = NoId]
  /\ entries' = [entries EXCEPT ![i] = NoKey]
  /\ SaveKeys /\ UNCHANGED <<nextID, master>>

(* Rotate: a new plaintext; id, counters and the system mark stay.           *)
RotateKey(i) ==
  /\ entries[i] # NoKey
  /\ \E p \in {q \in Plains : byKey[q] = NoId} :
       /\ entries' = [entries EXCEPT ![i].key = p]
       /\ byKey' = [byKey EXCEPT ![entries[i].key] = NoId, ![p] = i]
  /\ SaveKeys /\ UNCHANGED <<nextID, master>>

ResetStats(i) ==
  /\ entries[i].uses > 0
  /\ entries' = [entries EXCEPT ![i].uses = 0]
  /\ SaveKeys /\ UNCHANGED <<byKey, nextID, master>>

(* mutant of FlushDue: one use too late *)
FlushLate(n) == n > FlushEvery

FlushDue(n) == n >= FlushEvery

(* RecordUsage, at the end of a request that was let in with key i.          *)
RecordUsage(i) ==
  /\ entries[i] # NoKey /\ entries[i].uses < MaxUses
  /\ entries' = [entries EXCEPT ![i].uses = @ + 1]
  /\ IF FlushDue(usageDirty + 1) THEN SaveKeys
     ELSE usageDirty' = usageDirty + 1 /\ UNCHANGED <<keyDoc, saveLost>>
  /\ UNCHANGED <<byKey, nextID, master>>

(* Open: both maps and the next id from the list; then ensureSystemKey.  The *)
(* process may have flushed before it went down, or not.                     *)
Loaded ==
  /\ entries' = keyDoc
  /\ byKey' = [p \in Plains |->
       IF \E i \in Held(keyDoc) : keyDoc[i].key = p
       THEN CHOOSE i \in Held(keyDoc) : keyDoc[i].key = p ELSE NoId]
  /\ nextID' = Max(Held(keyDoc) \cup {0}) + 1
  /\ usageDirty' = 0 /\ saveLost' = FALSE
  /\ UNCHANGED <<keyDoc, master>>

(* Flush at shutdown.  A key that is disabled, renamed or described anew is   *)
(* saved in the same way.                                                    *)
FlushKeys == UNCHANGED <<entries, byKey, nextID, master>> /\ SaveKeys

(* The first thing a process does with the keys it has loaded.               *)
BootKeys == master # NoKey.key /\ EnsureSystemKey(master) /\ UNCHANGED master

KeysNext ==
  \/ CreateKey \/ SetMaster \/ FlushKeys \/ Loaded \/ BootKeys
  \/ \E i \in Ids : DeleteKey(i) \/ RotateKey(i) \/ ResetStats(i) \/ RecordUsage(i)

KeysSpec == KeysInit /\ [][KeysNext]_keyVars
-----------------------------------------------------------------------------
(* The two maps index each other through moves, deletions, lost saves and    *)
(* restarts: no plaintext leads to another key's record (Create would return *)
(* it), and the one of a deleted key leads nowhere.  Nor is an id given out  *)
(* while a key has it.                                                       *)
IndexSound ==
  /\ \A i \in Held(entries) : byKey[entries[i].key] = i
  /\ \A p \in Plains : byKey[p] # NoId => entries[byKey[p]].key = p
  /\ \A i \in Held(entries) : i < nextID

Unwritten ==
  MapThenSumSet(LAMBDA i : entries[i].uses - keyDoc[i].uses, Held(entries))

(* store.go:400: a crash loses at most usageFlushThreshold - 1 uses, if the  *)
(* last save has not failed.                                                 *)
LossBounded == ~saveLost => Unwritten < FlushEvery

(* The maps stay sound, and what they count is nearly all written.           *)
KeysKept == IndexSound /\ LossBounded

(* store.go:400, without the condition.  Fails: a save that fails clears the *)
(* count of what is not written.                                             *)
LossAlwaysBounded == Unwritten < FlushEvery
=============================================================================
