---------------------------- MODULE AccountStore ----------------------------
(* The account pool and its documents: pool.Pool keeps one Account object    *)
(* per name, requests and token refreshes keep pointers to the objects, and  *)
(* a flusher writes the objects marked dirty to the backend once a second.   *)
(* An API key added under an existing name replaces the object; a removed    *)
(* account may still be referenced by a request in flight; the process may   *)
(* crash and reload the documents.                                           *)
(*                                                                           *)
(* The content of an account is abstracted to the generation of its          *)
(* credentials and the number of requests it has counted.                    *)
EXTENDS Naturals, FiniteSets

CONSTANTS
  Names,        \* account names
  Objects,      \* addresses of Account objects
  MaxCred,      \* bound: credential generations issued
  MaxCounts,    \* bound: requests counted by an account
  SaveMayFail,  \* may a write fail whose caller is told
  FlushMayFail, \* may a write of the flusher fail
  None

Content == [cred : Nat, uses : Nat]

ASSUME AccountStoreAssumption ==
  /\ None \notin Names /\ None \notin Objects /\ None \notin Content
  /\ MaxCred \in Nat /\ MaxCounts \in Nat
  /\ SaveMayFail \in BOOLEAN /\ FlushMayFail \in BOOLEAN

VARIABLES
  live,     \* Pool.accounts: the object of each name
  name,     \* Account.Name of each object, None before it is allocated
  mem,      \* the content of each object
  refs,     \* objects a request or a token refresh in flight points to
  marked,   \* Pool.dirty
  flush,    \* accs: the objects Flush has taken and not yet written
  stored,   \* the documents of the backend
  creds,    \* credential generations issued so far
  writer,   \* history: the object whose content the document holds, None if a save failed
  removed   \* history: names removed, without error, and not added again

storeVars == <<live, name, mem, refs, marked, flush, stored, creds, writer, removed>>

Unused(o) == /\ o \notin refs \cup flush
             /\ \A n \in Names : live[n] # o /\ marked[n] # o

StoreInit ==
  /\ live    = [n \in Names |-> None]
  /\ name    = [o \in Objects |-> None]
  /\ mem     = [o \in Objects |-> [cred |-> 0, uses |-> 0]]
  /\ refs    = {}
  /\ marked  = [n \in Names |-> None]
  /\ flush   = {}
  /\ stored  = [n \in Names |-> None]
  /\ creds   = 0
  /\ writer  = [n \in Names |-> None]
  /\ removed = {}

(* saveLocked: the content at the time of the write, under p.mu.             *)
Save(n, o, c) ==
  \/ /\ stored' = [stored EXCEPT ![n] = c]
     /\ writer' = [writer EXCEPT ![n] = o]
  \/ /\ SaveMayFail
     /\ writer' = [writer EXCEPT ![n] = None]
     /\ UNCHANGED stored

(* A new object takes the name and is saved at once.                         *)
Install(n, o) ==
  /\ Unused(o) /\ creds < MaxCred
  /\ creds' = creds + 1
  /\ live' = [live EXCEPT ![n] = o]
  /\ name' = [name EXCEPT ![o] = n]
  /\ mem'  = [mem EXCEPT ![o] = [cred |-> creds + 1, uses |-> 0]]
  /\ removed' = removed \ {n}
  /\ Save(n, o, mem'[o])
  /\ UNCHANGED <<refs, marked, flush>>

(* AddAPIKey: a new object even when the name is taken; its counters start   *)
(* at zero.  The dirty mark of the name stays.                               *)
AddAPIKey(n) == \E o \in Objects : Install(n, o)

(* SetToken: a login has ended.                                              *)
SetToken(n) ==
  \/ live[n] = None /\ \E o \in Objects : Install(n, o)
  \/ /\ live[n] # None /\ creds < MaxCred
     /\ creds' = creds + 1
     /\ mem' = [mem EXCEPT ![live[n]].cred = creds + 1]
     /\ Save(n, live[n], mem'[live[n]])
     /\ UNCHANGED <<live, name, refs, marked, flush, removed>>

(* Remove: out of the slice, the dirty mark dropped, the document deleted.   *)
Remove(n) ==
  /\ live' = [live EXCEPT ![n] = None]
  /\ marked' = [marked EXCEPT ![n] = None]
  /\ writer' = [writer EXCEPT ![n] = None]
  /\ \/ stored' = [stored EXCEPT ![n] = None] /\ removed' = removed \cup {n}
     \/ SaveMayFail /\ UNCHANGED <<stored, removed>>
  /\ UNCHANGED <<name, mem, refs, flush, creds>>

(* A request or a token refresh takes a pointer to a live object...          *)
Begin(n) ==
  /\ live[n] # None
  /\ refs' = refs \cup {live[n]}
  /\ UNCHANGED <<live, name, mem, marked, flush, stored, creds, writer, removed>>

MarkDirty(o) == marked' = [marked EXCEPT ![name[o]] = o]

(* ... and when it ends, updates the object and marks it dirty, wherever the *)
(* pool has gone meanwhile.  (MarkSuccess / MarkFailure.)                    *)
RequestEnds(o) ==
  /\ o \in refs /\ mem[o].uses < MaxCounts
  /\ mem' = [mem EXCEPT ![o].uses = @ + 1]
  /\ MarkDirty(o)
  /\ refs' = refs \ {o}
  /\ UNCHANGED <<live, name, flush, stored, creds, writer, removed>>

(* TokenManager.Refresh and its OnRefresh callback.                          *)
RefreshEnds(o) ==
  /\ o \in refs /\ creds < MaxCred
  /\ creds' = creds + 1
  /\ mem' = [mem EXCEPT ![o].cred = creds + 1]
  /\ MarkDirty(o)
  /\ refs' = refs \ {o}
  /\ UNCHANGED <<live, name, flush, stored, writer, removed>>

(* Flush, first half, under dirtyMu: take the dirty objects.                 *)
FlushTake ==
  /\ flush = {}
  /\ flush' = {marked[n] : n \in Names} \ {None}
  /\ flush' # {}
  /\ marked' = [n \in Names |-> None]
  /\ UNCHANGED <<live, name, mem, refs, stored, creds, writer, removed>>

FlushWriteClearsMarks ==    \* mutant of FlushWrite
  /\ flush # {}
  /\ stored' = [n \in Names |->
       IF \E o \in flush : name[o] = n
       THEN mem[CHOOSE o \in flush : name[o] = n] ELSE stored[n]]
  /\ writer' = [n \in Names |->
       IF \E o \in flush : name[o] = n
       THEN CHOOSE o \in flush : name[o] = n ELSE writer[n]]
  /\ flush' = {}
  /\ marked' = [n \in Names |-> None]
  /\ UNCHANGED <<live, name, mem, refs, creds, removed>>

(* Flush, second half, under p.mu: write them; errors are dropped.           *)
FlushWrite ==
  /\ flush # {}
  /\ \E ok \in SUBSET flush :
       /\ FlushMayFail \/ ok = flush
       /\ stored' = [n \in Names |->
            IF \E o \in ok : name[o] = n
            THEN mem[CHOOSE o \in ok : name[o] = n] ELSE stored[n]]
       /\ writer' = [n \in Names |->
            IF \E o \in flush : name[o] = n
            THEN IF \E o \in ok : name[o] = n
                 THEN CHOOSE o \in ok : name[o] = n ELSE None
            ELSE writer[n]]
  /\ flush' = {}
  /\ UNCHANGED <<live, name, mem, refs, marked, creds, removed>>

(* The process dies and comes back: loadAll makes one object per document.   *)
Crash ==
  /\ \E at \in [Names -> Objects] :
       /\ \A m, n \in Names : m # n => at[m] # at[n]
       /\ live' = [n \in Names |-> IF stored[n] = None THEN None ELSE at[n]]
       /\ name' = [o \in Objects |->
            IF \E n \in Names : live'[n] = o
            THEN CHOOSE n \in Names : live'[n] = o ELSE None]
       /\ mem' = [o \in Objects |->
            IF name'[o] = None THEN [cred |-> 0, uses |-> 0] ELSE stored[name'[o]]]
  /\ writer' = live'
  /\ refs' = {} /\ flush' = {}
  /\ marked' = [n \in Names |-> None]
  /\ UNCHANGED <<stored, creds, removed>>

StoreNext ==
  \/ \E n \in Names : AddAPIKey(n) \/ SetToken(n) \/ Remove(n) \/ Begin(n)
  \/ \E o \in Objects : RequestEnds(o) \/ RefreshEnds(o)
  \/ FlushTake \/ FlushWrite \/ Crash

StoreSpec == StoreInit /\ [][StoreNext]_storeVars
-----------------------------------------------------------------------------
(* Properties.                                                               *)

StoreTypeOK ==
  /\ live \in [Names -> Objects \cup {None}]
  /\ name \in [Objects -> Names \cup {None}]
  /\ mem \in [Objects -> Content]
  /\ refs \subseteq Objects
  /\ marked \in [Names -> Objects \cup {None}]
  /\ flush \subseteq Objects
  /\ stored \in [Names -> Content \cup {None}]
  /\ creds \in Nat
  /\ writer \in [Names -> Objects \cup {None}]
  /\ removed \subseteq Names

Pending(n) == marked[n] # None \/ \E o \in flush : name[o] = n

Settled(n) == live[n] # None /\ ~Pending(n)

(* When the current object of a name was the last one written under it and   *)
(* nothing is waiting for the flusher, the document holds its content: an    *)
(* update is lost only with its mark, to a failed write, or to another       *)
(* object of the same name.                                                  *)
CleanMeansStored ==
  \A n \in Names : Settled(n) /\ writer[n] = live[n] => stored[n] = mem[live[n]]

(* A crash costs a settled account nothing.                                  *)
CrashKeepsSettled ==
  [][Crash => \A n \in Names :
        Settled(n) /\ writer[n] = live[n]
          => live'[n] # None /\ mem'[live'[n]] = mem[live[n]]]_storeVars

(* A crash loses what was marked during the last flush interval and nothing  *)
(* else: the document of a settled account has its content ("a crash loses   *)
(* at most one second of counters").                                         *)
OnlyPendingIsLost ==
  \A n \in Names : Settled(n) => stored[n] = mem[live[n]]

(* A credential the pool has accepted, through a save that succeeded, is not *)
(* undone on disk by an older one.                                           *)
NewestCredentialStored ==
  \A n \in Names : Settled(n) => stored[n] # None /\ stored[n].cred >= mem[live[n]].cred

(* A removed account stays removed: no flush writes its document back.       *)
RemovedStaysRemoved == \A n \in removed : stored[n] = None
=============================================================================
