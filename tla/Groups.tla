-------------------------------- MODULE Groups --------------------------------
(* Account groups: the registry of groups/store.go, the names that accounts  *)
(* (pool/account.go) and client keys (clientkeys/store.go) refer to, and the *)
(* calls of adminapi that change them.  Each of the three has its own lock,  *)
(* and none is held over a whole call: calls of several administrators, the  *)
(* flusher and a restart come between any two steps.                         *)
EXTENDS Naturals, FiniteSets

CONSTANTS
  GroupNames,    \* names of groups
  Members,       \* accounts
  BoundKeys,     \* client keys
  NoGroup,       \* the empty name: the key may use every account
  Admins,        \* administrators with a call at a time
  MaxAsked       \* bound: calls that administrators make

ASSUME GroupsAssumption ==
  /\ NoGroup \notin GroupNames /\ Members \cap BoundKeys = {} /\ MaxAsked \in Nat

VARIABLES
  registry,      \* groups.Store.entries; its document is saved with each change
  memberOf,      \* Account.groups, per account
  bound,         \* Key.Group, per key; its document is saved with each change
  docs,          \* the stored documents of the accounts
  call,          \* what each administrator's call is at
  asked          \* how many calls there have been

groupVars == <<registry, memberOf, bound, docs, call, asked>>

Bearers == Members \cup BoundKeys
Bears(x) == IF x \in Members THEN memberOf[x] ELSE {bound[x]}
Reach(g) == IF g = NoGroup THEN Members ELSE {a \in Members : g \in memberOf[a]}

(* left is what a call has still to go over, at the account it has read, and *)
(* read what it will write there.  The rest is history, for a rename: who    *)
(* bore the old name when it began, and to whom others have given the old    *)
(* name, or from whom they have taken either name, since.                    *)
Rested == [op |-> "none", from |-> NoGroup, to |-> NoGroup, left |-> {}, at |-> {},
           read |-> {}, had |-> {}, given |-> {}, taken |-> {}]
Doing(op, from, left) == [Rested EXCEPT !.op = op, !.from = from, !.left = left]

GroupsInit ==
  /\ registry \in SUBSET GroupNames
  /\ memberOf \in [Members -> SUBSET registry] /\ docs = memberOf
  /\ bound \in [BoundKeys -> registry \cup {NoGroup}]
  /\ call = [m \in Admins |-> Rested] /\ asked = 0

Asks == asked < MaxAsked /\ asked' = asked + 1

(* What a rename notes of a step of somebody else, who speaks of `names`.    *)
Noted(c, names) ==
  IF c.op # "rename" THEN c
  ELSE [c EXCEPT
    !.given = @ \cup {x \in Bearers : c.from \in (Bears(x)' \ Bears(x)) \cap names},
    !.taken = @ \cup {x \in Bearers : {c.from, c.to} \cap (Bears(x) \ Bears(x)') \cap names # {}}]

Goes(m, next, names) ==
  call' = [n \in Admins |-> IF n = m THEN next ELSE Noted(call[n], names)]
-----------------------------------------------------------------------------
(* Store.Create, undone when the save fails.                                 *)
CreateGroup ==
  /\ Asks /\ \E g \in GroupNames \ registry : registry' = registry \cup {g}
  /\ UNCHANGED <<memberOf, bound, docs, call>>

(* ApplyAdminPatch and UpdateMeta take any names, those that the registry    *)
(* does not have included, and while other calls are under way.              *)
Patched(a, gs) ==
  /\ Asks /\ memberOf' = [memberOf EXCEPT ![a] = gs] /\ UNCHANGED bound
  /\ call' = [n \in Admins |-> Noted(call[n], GroupNames)]
  /\ UNCHANGED <<registry, docs>>

Rebound(k, g) ==
  /\ Asks /\ bound' = [bound EXCEPT ![k] = g] /\ UNCHANGED memberOf
  /\ call' = [n \in Admins |-> Noted(call[n], GroupNames)]
  /\ UNCHANGED <<registry, docs>>

SetMembership ==
  \/ \E a \in Members, gs \in SUBSET GroupNames : Patched(a, gs)
  \/ \E k \in BoundKeys, g \in GroupNames \cup {NoGroup} : Rebound(k, g)
-----------------------------------------------------------------------------
(* Store.Rename: the registry and its document under the lock, undone when   *)
(* the save fails; then, without it, the accounts one by one, and the keys.  *)
RenameRegistered(m) ==
  /\ call[m].op = "none" /\ Asks
  /\ \E old \in registry, new \in GroupNames \ registry :
       /\ registry' = (registry \ {old}) \cup {new}
       /\ call' = [call EXCEPT ![m] =
            [Doing("rename", old, Bearers) EXCEPT !.to = new,
             !.had = {x \in Bearers : old \in Bears(x)}]]
  /\ UNCHANGED <<memberOf, bound, docs>>

(* mutant of Renamed: an account that has the old name loses it *)
RenamedAway(gs, old, new) == gs \ {old}

(* Account.RenameGroup: the new name in the place of the old one, once.      *)
Renamed(gs, old, new) == IF old \in gs THEN (gs \ {old}) \cup {new} ELSE gs

RenameMember(m, a) ==
  LET c == call[m] IN
  /\ c.op = "rename" /\ a \in c.left
  /\ memberOf' = [memberOf EXCEPT ![a] = Renamed(@, c.from, c.to)] /\ UNCHANGED bound
  /\ Goes(m, [c EXCEPT !.left = @ \ {a}], {c.from, c.to})
  /\ UNCHANGED <<registry, docs, asked>>

RenameKeys(m) ==
  LET c == call[m] IN
  /\ c.op = "rename" /\ c.left = BoundKeys
  /\ bound' = [k \in BoundKeys |-> IF bound[k] = c.from THEN c.to ELSE bound[k]]
  /\ UNCHANGED memberOf
  /\ Goes(m, [c EXCEPT !.left = {}], {c.from, c.to})
  /\ UNCHANGED <<registry, docs, asked>>

RenameReturns(m) ==
  /\ call[m].op = "rename" /\ call[m].left = {}
  /\ call' = [call EXCEPT ![m] = Rested]
  /\ UNCHANGED <<registry, memberOf, bound, docs, asked>>
-----------------------------------------------------------------------------
(* DeleteGroup: refused while somebody refers to the group (one look here,   *)
(* which is over before the record goes); with force, the keys that are      *)
(* listed with it are unbound one by one, whatever they are bound to by      *)
(* then; every account gets the names it had when it was read, without this  *)
(* one; and the record goes if it is there.                                  *)
DeleteBegins(m) ==
  /\ call[m].op = "none" /\ Asks
  /\ \E g \in GroupNames, force \in BOOLEAN :
       /\ force \/ (Reach(g) = {} /\ \A k \in BoundKeys : bound[k] # g)
       /\ call' = [call EXCEPT ![m] = Doing(IF force THEN "list" ELSE "delete", g, {})]
  /\ UNCHANGED <<registry, memberOf, bound, docs>>

DeleteLists(m) ==
  /\ call[m].op = "list"
  /\ call' = [call EXCEPT ![m].op = "unbind",
                          ![m].left = {k \in BoundKeys : bound[k] = call[m].from}]
  /\ UNCHANGED <<registry, memberOf, bound, docs, asked>>

DeleteUnbinds(m, k) ==
  LET c == call[m] IN
  /\ c.op = "unbind" /\ k \in c.left
  /\ bound' = [bound EXCEPT ![k] = NoGroup] /\ UNCHANGED memberOf
  /\ Goes(m, [c EXCEPT !.left = @ \ {k}], GroupNames)
  /\ UNCHANGED <<registry, docs, asked>>

DeleteUnbound(m) ==
  /\ call[m].op = "unbind" /\ call[m].left = {}
  /\ call' = [call EXCEPT ![m].op = "read", ![m].left = Members]
  /\ UNCHANGED <<registry, memberOf, bound, docs, asked>>

DeleteReads(m, a) ==
  LET c == call[m] IN
  /\ c.op = "read" /\ a \in c.left
  /\ call' = [call EXCEPT ![m] = [c EXCEPT !.op = "write", !.left = @ \ {a}, !.at = {a},
                                           !.read = memberOf[a] \ {c.from}]]
  /\ UNCHANGED <<registry, memberOf, bound, docs, asked>>

DeleteWrites(m) ==
  LET c == call[m] IN
  /\ c.op = "write"
  /\ memberOf' = [a \in Members |-> IF a \in c.at THEN c.read ELSE memberOf[a]]
  /\ UNCHANGED bound
  /\ Goes(m, [c EXCEPT !.op = "read", !.at = {}, !.read = {}], GroupNames)
  /\ UNCHANGED <<registry, docs, asked>>

DeleteRecord(m) ==
  /\ \/ call[m].op = "delete"
     \/ call[m].op = "read" /\ call[m].left = {}
  /\ registry' = registry \ {call[m].from}
  /\ call' = [call EXCEPT ![m] = Rested]
  /\ UNCHANGED <<memberOf, bound, docs, asked>>
-----------------------------------------------------------------------------
(* The pool's next flush.                                                    *)
FlushMembers ==
  /\ docs # memberOf /\ docs' = memberOf
  /\ UNCHANGED <<registry, memberOf, bound, call, asked>>

GroupsRestart ==
  /\ memberOf' = docs /\ call' = [m \in Admins |-> Rested]
  /\ UNCHANGED <<registry, bound, docs, asked>>

GroupsNext ==
  \/ CreateGroup \/ SetMembership \/ FlushMembers \/ GroupsRestart
  \/ \E m \in Admins :
       \/ RenameRegistered(m) \/ RenameKeys(m) \/ RenameReturns(m)
       \/ DeleteBegins(m) \/ DeleteLists(m) \/ DeleteUnbound(m) \/ DeleteWrites(m)
       \/ DeleteRecord(m)
       \/ \E a \in Members : RenameMember(m, a) \/ DeleteReads(m, a)
       \/ \E k \in BoundKeys : DeleteUnbinds(m, k)

GroupsSpec == GroupsInit /\ [][GroupsNext]_groupVars
-----------------------------------------------------------------------------
(* Whoever a rename has gone over bears the new name if it bore the old one, *)
(* and the old one no more, as far as nobody else spoke of these names: a    *)
(* rename of two other names takes nothing from this one, an account or key  *)
(* whose other names are changed is not missed, and what excuses an account  *)
(* excuses no other.  Others are patches, which may put the old name back at *)
(* any moment; renames of the same names; and forced deletions, which write  *)
(* back what they have read (DeletesOnlyItsName).                            *)
RenameKeepsReach ==
  \A m \in Admins : call[m].op = "rename" =>
    \A x \in Bearers \ call[m].left :
      /\ x \in call[m].had \ call[m].taken => call[m].to \in Bears(x)
      /\ x \notin call[m].given => call[m].from \notin Bears(x)

(* group-detail-page.tsx:30, the accounts and keys bound to a group that is  *)
(* deleted are unbound: and nobody else.  Fails: an account that is renamed  *)
(* or patched between its two steps gets its older names back, and a key     *)
(* that is bound to another group after it was listed may use every account. *)
DeletesOnlyItsName ==
  [][\A m \in Admins :
       /\ \A a \in call[m].at : DeleteWrites(m) =>
            memberOf'[a] = memberOf[a] \ {call[m].from}
       /\ \A k \in BoundKeys : DeleteUnbinds(m, k) => bound[k] = call[m].from]_groupVars

(* store.go:265, a rename is one of the accounts and keys too: when it is    *)
(* over, whoever bore the old name does not, unless others gave it back.     *)
(* Fails: a restart in the middle ends the rename where it is.               *)
RenameIsWhole ==
  [][\A m \in Admins :
       call[m].op = "rename" /\ call'[m].op # "rename" =>
         \A x \in Bearers \ call[m].given : call[m].from \notin Bears(x)']_groupVars
=============================================================================
