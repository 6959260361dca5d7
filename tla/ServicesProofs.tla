---------------------------- MODULE ServicesProofs ----------------------------
(* Proofs about the services behind the requests: groups, the pool's         *)
(* documents, the slots of the task runner, the client keys.                 *)
EXTENDS MCServices, SumProofs, TLAPS, SequenceTheorems, FiniteSetTheorems

-----------------------------------------------------------------------------
(* Groups.                                                                   *)

CallOps == {"none", "rename", "delete", "list", "unbind", "read", "write"}

GroupCall ==
  [op : CallOps, from : GroupNames \cup {NoGroup}, to : GroupNames \cup {NoGroup},
   left : SUBSET Bearers, at : SUBSET Members, read : SUBSET GroupNames,
   had : SUBSET Bearers, given : SUBSET Bearers, taken : SUBSET Bearers]

GroupsTyped ==
  /\ registry \in SUBSET GroupNames
  /\ memberOf \in [Members -> SUBSET GroupNames]
  /\ docs \in [Members -> SUBSET GroupNames]
  /\ bound \in [BoundKeys -> GroupNames \cup {NoGroup}]
  /\ call \in [Admins -> GroupCall]

(* What everybody bears, as a function.                                      *)
Borne == [x \in Bearers |-> Bears(x)]

(* What a rename c owes to x, who bears the names `names`: one who is still  *)
(* to be gone over has the old name, or has got the new one early.           *)
Owes(c, x, names) ==
  IF x \in c.left THEN x \in c.had \ c.taken => c.from \in names \/ c.to \in names
  ELSE /\ x \in c.had \ c.taken => c.to \in names
       /\ x \notin c.given => c.from \notin names

Kept(c, borne) ==
  c.op = "rename" =>
    /\ c.from \in GroupNames /\ c.to \in GroupNames /\ c.from # c.to
    /\ \A x \in Bearers : Owes(c, x, borne[x])

GroupsInv == GroupsTyped /\ \A m \in Admins : Kept(call[m], Borne)

LEMMA CallFields ==
  ASSUME NEW c \in GroupCall
  PROVE  /\ c.op \in CallOps
         /\ c.from \in GroupNames \cup {NoGroup} /\ c.to \in GroupNames \cup {NoGroup}
         /\ c.left \in SUBSET Bearers /\ c.at \in SUBSET Members
         /\ c.read \in SUBSET GroupNames
         /\ c.had \in SUBSET Bearers /\ c.given \in SUBSET Bearers /\ c.taken \in SUBSET Bearers
BY DEF GroupCall

LEMMA RestedIs == Rested \in GroupCall /\ Rested.op = "none"
BY DEF Rested, GroupCall, CallOps

LEMMA DoingIs ==
  ASSUME NEW op \in CallOps, NEW g \in GroupNames, NEW l \in SUBSET Bearers
  PROVE  Doing(op, g, l) \in GroupCall /\ Doing(op, g, l).op = op
BY DEF Doing, Rested, GroupCall

LEMMA LeftGoesDown ==
  ASSUME NEW c \in GroupCall, NEW l
  PROVE  LET d == [c EXCEPT !.left = l]
         IN  /\ d.op = c.op /\ d.from = c.from /\ d.to = c.to /\ d.left = l
             /\ d.had = c.had /\ d.given = c.given /\ d.taken = c.taken
BY DEF GroupCall

LEMMA NotARename ==
  ASSUME NEW c, NEW borne, c.op # "rename"
  PROVE  Kept(c, borne)
BY DEF Kept

(* The names that x has got, or has got rid of, in this step.                *)
Moved(x) == (Borne'[x] \ Borne[x]) \cup (Borne[x] \ Borne'[x])

(* A step of others that moves only names it speaks of takes nothing from a  *)
(* rename that the rename does not note.                                     *)
LEMMA OthersNoted ==
  ASSUME NEW c \in GroupCall, Kept(c, Borne), NEW names,
         \A x \in Bearers : Moved(x) \cap GroupNames \subseteq names
  PROVE  Noted(c, names) \in GroupCall /\ Kept(Noted(c, names), Borne')
<1> DEFINE d == Noted(c, names)
           G == {x \in Bearers : c.from \in (Borne'[x] \ Borne[x]) \cap names}
           T == {x \in Bearers : {c.from, c.to} \cap (Borne[x] \ Borne'[x]) \cap names # {}}
<1>1. CASE c.op # "rename"
  BY <1>1, NotARename DEF Noted
<1>2. CASE c.op = "rename"
  <2>1. \A x \in Bearers : Borne[x] = Bears(x) /\ Borne'[x] = Bears(x)'
    BY DEF Borne
  <2>2. d = [c EXCEPT !.given = c.given \cup G, !.taken = c.taken \cup T]
    BY <1>2, <2>1 DEF Noted
  <2>3. G \in SUBSET Bearers /\ T \in SUBSET Bearers
    OBVIOUS
  <2> HIDE DEF G, T, d
  <2>4. /\ d \in GroupCall /\ d.op = c.op /\ d.from = c.from /\ d.to = c.to
        /\ d.left = c.left /\ d.had = c.had
        /\ d.given = c.given \cup G /\ d.taken = c.taken \cup T
    BY <2>2, <2>3 DEF GroupCall
  <2>5. c.from \in GroupNames /\ c.to \in GroupNames /\ c.from # c.to
    BY <1>2 DEF Kept
  <2>6. ASSUME NEW x \in Bearers
        PROVE  Owes(d, x, Borne'[x])
    <3>1. Owes(c, x, Borne[x])
      BY <1>2 DEF Kept
    <3>2. c.from \in Borne'[x] /\ c.from \notin Borne[x] => x \in G
      BY <2>5 DEF G, Moved
    <3>3. \A g \in {c.from, c.to} : g \in Borne[x] /\ g \notin Borne'[x] => x \in T
      BY <2>5 DEF T, Moved
    <3> QED
      BY <2>4, <3>1, <3>2, <3>3 DEF Owes
  <2> QED
    BY <1>2, <2>4, <2>5, <2>6 DEF Kept, d
<1> QED
  BY <1>1, <1>2

(* A step of the call of m.                                                  *)
LEMMA CallSteps ==
  ASSUME GroupsInv, NEW m \in Admins, NEW next \in GroupCall, NEW names,
         Goes(m, next, names), Kept(next, Borne'),
         \A x \in Bearers : Moved(x) \cap GroupNames \subseteq names
  PROVE  call' \in [Admins -> GroupCall] /\ \A n \in Admins : Kept(call'[n], Borne')
<1>1. \A n \in Admins : call[n] \in GroupCall /\ Kept(call[n], Borne)
  BY DEF GroupsInv, GroupsTyped
<1>2. \A n \in Admins : Noted(call[n], names) \in GroupCall /\ Kept(Noted(call[n], names), Borne')
  BY <1>1, OthersNoted
<1> QED
  BY <1>2 DEF Goes

(* A step of the call of m that leaves alone what everybody bears.           *)
LEMMA CallMoves ==
  ASSUME GroupsInv, NEW m \in Admins, NEW next \in GroupCall,
         call' = [call EXCEPT ![m] = next], Kept(next, Borne), UNCHANGED <<memberOf, bound>>
  PROVE  /\ call' \in [Admins -> GroupCall]
         /\ \A n \in Admins : Kept(call'[n], Borne')
<1>1. \A n \in Admins : call[n] \in GroupCall /\ Kept(call[n], Borne)
  BY DEF GroupsInv, GroupsTyped
<1>2. Borne' = Borne
  BY DEF Borne, Bears
<1> QED
  BY <1>1, <1>2 DEF GroupsInv, GroupsTyped

(* What is left alone moves nothing.                                         *)
LEMMA BearersApart ==
  /\ \A a \in Members : a \in Bearers /\ Borne[a] = memberOf[a] /\ Borne'[a] = memberOf'[a]
  /\ \A k \in BoundKeys : k \in Bearers /\ Borne[k] = {bound[k]} /\ Borne'[k] = {bound'[k]}
  /\ \A x \in Bearers : x \in Members \/ x \in BoundKeys
  /\ \A a \in Members, k \in BoundKeys : a # k
BY GroupsAssumption DEF Borne, Bears, Bearers
-----------------------------------------------------------------------------
LEMMA GroupsInvInit == GroupsInit => GroupsInv
<1> SUFFICES ASSUME GroupsInit PROVE GroupsInv
  OBVIOUS
<1>1. GroupsTyped
  BY RestedIs DEF GroupsInit, GroupsTyped
<1>2. \A m \in Admins : Kept(call[m], Borne)
  BY RestedIs, NotARename DEF GroupsInit
<1> QED
  BY <1>1, <1>2 DEF GroupsInv

LEMMA PatchKeeps == GroupsInv /\ SetMembership => GroupsInv'
<1> SUFFICES ASSUME GroupsInv, SetMembership PROVE GroupsInv'
  OBVIOUS
<1>1. /\ call' = [n \in Admins |-> Noted(call[n], GroupNames)]
      /\ UNCHANGED <<registry, docs>>
      /\ memberOf' \in [Members -> SUBSET GroupNames]
      /\ bound' \in [BoundKeys -> GroupNames \cup {NoGroup}]
  BY DEF SetMembership, Patched, Rebound, GroupsInv, GroupsTyped
<1>2. \A n \in Admins : /\ Noted(call[n], GroupNames) \in GroupCall
                        /\ Kept(Noted(call[n], GroupNames), Borne')
  BY OthersNoted DEF GroupsInv, GroupsTyped
<1> QED
  BY <1>1, <1>2 DEF GroupsInv, GroupsTyped

LEMMA RenameBeginsKept ==
  ASSUME GroupsInv, NEW m \in Admins, RenameRegistered(m)
  PROVE  GroupsInv'
<1>1. PICK old \in registry, new \in GroupNames \ registry :
        /\ registry' = (registry \ {old}) \cup {new}
        /\ call' = [call EXCEPT ![m] =
             [Doing("rename", old, Bearers) EXCEPT !.to = new,
              !.had = {x \in Bearers : old \in Bears(x)}]]
  BY DEF RenameRegistered
<1> DEFINE c == [Doing("rename", old, Bearers) EXCEPT !.to = new,
                 !.had = {x \in Bearers : old \in Bears(x)}]
<1>2. /\ c \in GroupCall /\ c.op = "rename" /\ c.from = old /\ c.to = new
      /\ c.left = Bearers /\ c.had = {x \in Bearers : old \in Bears(x)}
  BY DEF Doing, Rested, GroupCall, CallOps, GroupsInv, GroupsTyped
<1> HIDE DEF c
<1>3. registry \in SUBSET GroupNames /\ UNCHANGED <<memberOf, bound, docs>>
  BY DEF RenameRegistered, GroupsInv, GroupsTyped
<1>4. Kept(c, Borne)
  BY <1>1, <1>2, <1>3 DEF Kept, Owes, Borne
<1>5. call' = [call EXCEPT ![m] = c]
  BY <1>1 DEF c
<1>6. call' \in [Admins -> GroupCall] /\ \A n \in Admins : Kept(call'[n], Borne')
  BY <1>2, <1>3, <1>4, <1>5, CallMoves
<1> QED
  BY <1>1, <1>3, <1>6 DEF GroupsInv, GroupsTyped

LEMMA RenameMemberKeeps ==
  ASSUME GroupsInv, NEW m \in Admins, NEW a \in Members, RenameMember(m, a)
  PROVE  GroupsInv'
<1> DEFINE c == call[m]
           d == [c EXCEPT !.left = c.left \ {a}]
           new == Renamed(memberOf[a], c.from, c.to)
<1>1. /\ c \in GroupCall /\ Kept(c, Borne)
      /\ memberOf \in [Members -> SUBSET GroupNames]
  BY DEF GroupsInv, GroupsTyped
<1>2. /\ c.op = "rename" /\ a \in c.left /\ memberOf' = [memberOf EXCEPT ![a] = new]
      /\ Goes(m, d, {c.from, c.to}) /\ UNCHANGED <<bound, registry, docs>>
  BY DEF RenameMember
<1> HIDE DEF c
<1>3. c.from \in GroupNames /\ c.to \in GroupNames /\ c.from # c.to
  BY <1>1, <1>2 DEF Kept
<1>4. new \in SUBSET GroupNames
  BY <1>1, <1>3 DEF Renamed
<1>5. memberOf' \in [Members -> SUBSET GroupNames] /\ memberOf'[a] = new
      /\ \A b \in Members \ {a} : memberOf'[b] = memberOf[b]
  BY <1>1, <1>2, <1>4
<1>6. \A x \in Bearers \ {a} : Borne'[x] = Borne[x]
  BY <1>2, <1>5, BearersApart
<1>7. Borne'[a] = Renamed(Borne[a], c.from, c.to)
  BY <1>5, BearersApart
<1>8. c.left \ {a} \in SUBSET Bearers
  BY <1>1, CallFields
<1>9. /\ d \in GroupCall /\ d.op = c.op /\ d.from = c.from /\ d.to = c.to
      /\ d.left = c.left \ {a} /\ d.had = c.had /\ d.given = c.given /\ d.taken = c.taken
  <2>1. d \in GroupCall
    BY <1>1, <1>8 DEF GroupCall
  <2> QED
    BY <1>1, <2>1, LeftGoesDown
<1> HIDE DEF d, new
<1>10. Kept(d, Borne')
  <2>1. ASSUME NEW x \in Bearers PROVE Owes(d, x, Borne'[x])
    <3>1. Owes(c, x, Borne[x])
      BY <1>1, <1>2 DEF Kept
    <3>2. CASE x = a
      BY <1>2, <1>3, <1>7, <1>9, <3>1, <3>2 DEF Owes, Renamed
    <3>3. CASE x # a
      BY <1>6, <1>9, <3>1, <3>3 DEF Owes
    <3> QED
      BY <3>2, <3>3
  <2> QED
    BY <1>3, <1>9, <2>1 DEF Kept
<1>11. \A x \in Bearers : Moved(x) \cap GroupNames \subseteq {c.from, c.to}
  BY <1>6, <1>7 DEF Moved, Renamed
<1>12. call' \in [Admins -> GroupCall] /\ \A n \in Admins : Kept(call'[n], Borne')
  BY <1>2, <1>9, <1>10, <1>11, CallSteps
<1> QED
  BY <1>2, <1>5, <1>12 DEF GroupsInv, GroupsTyped

LEMMA RenameKeysKeeps ==
  ASSUME GroupsInv, NEW m \in Admins, RenameKeys(m)
  PROVE  GroupsInv'
<1> DEFINE c == call[m]
           d == [c EXCEPT !.left = {}]
<1>1. /\ c \in GroupCall /\ Kept(c, Borne)
      /\ bound \in [BoundKeys -> GroupNames \cup {NoGroup}]
  BY DEF GroupsInv, GroupsTyped
<1>2. /\ c.op = "rename" /\ c.left = BoundKeys
      /\ bound' = [k \in BoundKeys |-> IF bound[k] = c.from THEN c.to ELSE bound[k]]
      /\ Goes(m, d, {c.from, c.to}) /\ UNCHANGED <<memberOf, registry, docs>>
  BY DEF RenameKeys
<1> HIDE DEF c
<1>3. c.from \in GroupNames /\ c.to \in GroupNames /\ c.from # c.to
  BY <1>1, <1>2 DEF Kept
<1>4. bound' \in [BoundKeys -> GroupNames \cup {NoGroup}]
  BY <1>1, <1>2, <1>3
<1>5. \A a \in Members : Borne'[a] = Borne[a]
  BY <1>2, BearersApart
<1>6. \A k \in BoundKeys : Borne'[k] = Renamed(Borne[k], c.from, c.to)
  <2> SUFFICES ASSUME NEW k \in BoundKeys PROVE Borne'[k] = Renamed(Borne[k], c.from, c.to)
    OBVIOUS
  <2>1. Borne[k] = {bound[k]} /\ Borne'[k] = {bound'[k]}
    BY BearersApart
  <2> QED
    BY <1>2, <2>1 DEF Renamed
<1>7. /\ d \in GroupCall /\ d.op = c.op /\ d.from = c.from /\ d.to = c.to
      /\ d.left = {} /\ d.had = c.had /\ d.given = c.given /\ d.taken = c.taken
  <2>1. d \in GroupCall
    BY <1>1 DEF GroupCall
  <2> QED
    BY <1>1, <2>1, LeftGoesDown
<1> HIDE DEF d
<1>8. Kept(d, Borne')
  <2>1. ASSUME NEW x \in Bearers PROVE Owes(d, x, Borne'[x])
    <3>1. Owes(c, x, Borne[x])
      BY <1>1, <1>2 DEF Kept
    <3>2. CASE x \in BoundKeys
      BY <1>2, <1>3, <1>6, <1>7, <3>1, <3>2 DEF Owes, Renamed
    <3>3. CASE x \notin BoundKeys
      <4>1. Borne'[x] = Borne[x]
        BY <1>5, <3>3, BearersApart
      <4> QED
        BY <1>2, <1>7, <3>1, <3>3, <4>1 DEF Owes
    <3> QED
      BY <3>2, <3>3
  <2> QED
    BY <1>3, <1>7, <2>1 DEF Kept
<1>9. \A x \in Bearers : Moved(x) \cap GroupNames \subseteq {c.from, c.to}
  <2> SUFFICES ASSUME NEW x \in Bearers
               PROVE  Moved(x) \cap GroupNames \subseteq {c.from, c.to}
    OBVIOUS
  <2>1. Borne'[x] = Borne[x] \/ Borne'[x] = Renamed(Borne[x], c.from, c.to)
    BY <1>5, <1>6, BearersApart
  <2> QED
    BY <2>1 DEF Moved, Renamed
<1>10. call' \in [Admins -> GroupCall] /\ \A n \in Admins : Kept(call'[n], Borne')
  BY <1>2, <1>7, <1>8, <1>9, CallSteps
<1> QED
  BY <1>2, <1>4, <1>10 DEF GroupsInv, GroupsTyped

(* The steps of a deletion: the call is no rename, and what it takes away    *)
(* or brings back, it speaks of.                                             *)
LEMMA DeletionKeeps ==
  ASSUME GroupsInv, NEW m \in Admins, NEW next \in GroupCall, next.op # "rename",
         \/ call' = [call EXCEPT ![m] = next] /\ UNCHANGED <<memberOf, bound>>
         \/ Goes(m, next, GroupNames),
         registry' \in SUBSET GroupNames, UNCHANGED docs,
         memberOf' \in [Members -> SUBSET GroupNames],
         bound' \in [BoundKeys -> GroupNames \cup {NoGroup}]
  PROVE  GroupsInv'
<1>1. Kept(next, Borne) /\ Kept(next, Borne')
  BY NotARename
<1>2. call' \in [Admins -> GroupCall] /\ \A n \in Admins : Kept(call'[n], Borne')
  BY <1>1, CallMoves, CallSteps
<1> QED
  BY <1>2 DEF GroupsInv, GroupsTyped

LEMMA DeleteStepKeeps ==
  ASSUME GroupsInv, NEW m \in Admins,
         \/ DeleteBegins(m) \/ DeleteLists(m) \/ DeleteUnbound(m) \/ DeleteWrites(m)
         \/ DeleteRecord(m) \/ RenameReturns(m)
         \/ \E a \in Members : DeleteReads(m, a)
         \/ \E k \in BoundKeys : DeleteUnbinds(m, k)
  PROVE  GroupsInv'
<1> DEFINE c == call[m]
<1>0. /\ c \in GroupCall /\ registry \in SUBSET GroupNames
      /\ memberOf \in [Members -> SUBSET GroupNames]
      /\ bound \in [BoundKeys -> GroupNames \cup {NoGroup}]
      /\ {} \in SUBSET Bearers /\ {} \in SUBSET Members /\ {} \in SUBSET GroupNames
      /\ Members \in SUBSET Bearers /\ BoundKeys \in SUBSET Bearers
  BY DEF GroupsInv, GroupsTyped, Bearers
<1>1. /\ c.left \in SUBSET Bearers /\ c.read \in SUBSET GroupNames
  BY <1>0, CallFields
<1>2. CASE DeleteBegins(m)
  <2>1. PICK g \in GroupNames, o \in {"list", "delete"} :
          call' = [call EXCEPT ![m] = Doing(o, g, {})]
    BY <1>2 DEF DeleteBegins
  <2>2. Doing(o, g, {}) \in GroupCall /\ Doing(o, g, {}).op # "rename"
    BY <1>0, DoingIs DEF CallOps
  <2> QED
    BY <1>0, <1>2, <2>1, <2>2, DeletionKeeps DEF DeleteBegins
<1>3. CASE DeleteLists(m)
  <2> DEFINE l == {k \in BoundKeys : bound[k] = c.from}
             d == [c EXCEPT !.op = "unbind", !.left = l]
  <2>1. l \in SUBSET Bearers
    BY <1>0
  <2>2. d \in GroupCall /\ d.op = "unbind"
    BY <1>0, <2>1 DEF GroupCall, CallOps
  <2>3. call' = [call EXCEPT ![m] = d]
    BY <1>0, <1>3 DEF DeleteLists, GroupsInv, GroupsTyped
  <2> HIDE DEF d
  <2> QED
    BY <1>0, <1>3, <2>2, <2>3, DeletionKeeps DEF DeleteLists
<1>4. CASE DeleteUnbound(m)
  <2> DEFINE d == [c EXCEPT !.op = "read", !.left = Members]
  <2>1. d \in GroupCall /\ d.op = "read"
    BY <1>0 DEF GroupCall, CallOps
  <2>2. call' = [call EXCEPT ![m] = d]
    BY <1>0, <1>4 DEF DeleteUnbound, GroupsInv, GroupsTyped
  <2> HIDE DEF d
  <2> QED
    BY <1>0, <1>4, <2>1, <2>2, DeletionKeeps DEF DeleteUnbound
<1>5. CASE DeleteWrites(m)
  <2> DEFINE d == [c EXCEPT !.op = "read", !.at = {}, !.read = {}]
  <2>1. d \in GroupCall /\ d.op = "read"
    BY <1>0 DEF GroupCall, CallOps
  <2>2. memberOf' \in [Members -> SUBSET GroupNames]
    BY <1>0, <1>1, <1>5 DEF DeleteWrites
  <2>3. Goes(m, d, GroupNames) /\ UNCHANGED <<bound, registry, docs>>
    BY <1>5 DEF DeleteWrites
  <2> HIDE DEF d
  <2> QED
    BY <1>0, <2>1, <2>2, <2>3, DeletionKeeps
<1>6. CASE DeleteRecord(m)
  BY <1>0, <1>6, RestedIs, DeletionKeeps DEF DeleteRecord
<1>7. CASE RenameReturns(m)
  BY <1>0, <1>7, RestedIs, DeletionKeeps DEF RenameReturns
<1>8. ASSUME NEW a \in Members, DeleteReads(m, a)
      PROVE  GroupsInv'
  <2> DEFINE l == c.left \ {a}
             r == memberOf[a] \ {c.from}
             d == [c EXCEPT !.op = "write", !.left = l, !.at = {a}, !.read = r]
  <2>1. l \in SUBSET Bearers /\ r \in SUBSET GroupNames /\ {a} \in SUBSET Members
    BY <1>0, <1>1
  <2>2. d \in GroupCall /\ d.op = "write"
    BY <1>0, <2>1 DEF GroupCall, CallOps
  <2>3. call' = [call EXCEPT ![m] = d]
    BY <1>8 DEF DeleteReads
  <2> HIDE DEF d
  <2> QED
    BY <1>0, <1>8, <2>2, <2>3, DeletionKeeps DEF DeleteReads
<1>9. ASSUME NEW k \in BoundKeys, DeleteUnbinds(m, k)
      PROVE  GroupsInv'
  <2> DEFINE l == c.left \ {k}
             d == [c EXCEPT !.left = l]
  <2>1. l \in SUBSET Bearers /\ c.op = "unbind"
    BY <1>1, <1>9 DEF DeleteUnbinds
  <2>2. d \in GroupCall /\ d.op = "unbind"
    BY <1>0, <2>1 DEF GroupCall, CallOps
  <2>3. Goes(m, d, GroupNames) /\ UNCHANGED <<memberOf, registry, docs>>
    BY <1>9 DEF DeleteUnbinds
  <2>4. bound' \in [BoundKeys -> GroupNames \cup {NoGroup}]
    BY <1>0, <1>9 DEF DeleteUnbinds
  <2> HIDE DEF d
  <2> QED
    BY <1>0, <2>2, <2>3, <2>4, DeletionKeeps
<1> QED
  BY <1>2, <1>3, <1>4, <1>5, <1>6, <1>7, <1>8, <1>9

LEMMA GroupsInvStep == GroupsInv /\ [GroupsNext]_groupVars => GroupsInv'
<1> SUFFICES ASSUME GroupsInv, [GroupsNext]_groupVars PROVE GroupsInv'
  OBVIOUS
<1>0. GroupsTyped /\ \A m \in Admins : Kept(call[m], Borne)
  BY DEF GroupsInv
<1>1. CASE registry' \in SUBSET GroupNames /\ docs' \in [Members -> SUBSET GroupNames]
           /\ UNCHANGED <<memberOf, bound, call>>
  <2>1. Borne' = Borne
    BY <1>1 DEF Borne, Bears
  <2> QED
    BY <1>0, <1>1, <2>1 DEF GroupsInv, GroupsTyped
<1>2. CASE CreateGroup
  BY <1>0, <1>1, <1>2 DEF CreateGroup, GroupsTyped
<1>3. CASE SetMembership
  BY <1>3, PatchKeeps
<1>4. CASE FlushMembers
  BY <1>0, <1>1, <1>4 DEF FlushMembers, GroupsTyped
<1>5. CASE GroupsRestart
  <2>1. GroupsTyped' /\ \A m \in Admins : call'[m] = Rested
    BY <1>0, <1>5, RestedIs DEF GroupsRestart, GroupsTyped
  <2>2. \A m \in Admins : Kept(call'[m], Borne')
    BY <2>1, RestedIs, NotARename
  <2> QED
    BY <2>1, <2>2 DEF GroupsInv
<1>6. CASE UNCHANGED groupVars
  BY <1>0, <1>1, <1>6 DEF groupVars, GroupsTyped
<1>7. ASSUME NEW m \in Admins, RenameRegistered(m) \/ RenameKeys(m)
      PROVE  GroupsInv'
  BY <1>7, RenameBeginsKept, RenameKeysKeeps
<1>8. ASSUME NEW m \in Admins, NEW a \in Members, RenameMember(m, a)
      PROVE  GroupsInv'
  BY <1>8, RenameMemberKeeps
<1>9. ASSUME NEW m \in Admins,
             \/ DeleteBegins(m) \/ DeleteLists(m) \/ DeleteUnbound(m) \/ DeleteWrites(m)
             \/ DeleteRecord(m) \/ RenameReturns(m)
             \/ \E a \in Members : DeleteReads(m, a)
             \/ \E k \in BoundKeys : DeleteUnbinds(m, k)
      PROVE  GroupsInv'
  BY <1>9, DeleteStepKeeps
<1> QED
  BY <1>2, <1>3, <1>4, <1>5, <1>6, <1>7, <1>8, <1>9 DEF GroupsNext

LEMMA GroupsInvReach == GroupsInv => RenameKeepsReach
<1> SUFFICES ASSUME GroupsInv, NEW m \in Admins, call[m].op = "rename",
                    NEW x \in Bearers \ call[m].left
             PROVE  /\ x \in call[m].had \ call[m].taken => call[m].to \in Bears(x)
                    /\ x \notin call[m].given => call[m].from \notin Bears(x)
  BY DEF RenameKeepsReach
<1>1. Owes(call[m], x, Borne[x]) /\ Borne[x] = Bears(x)
  BY DEF GroupsInv, Kept, Borne
<1> QED
  BY <1>1 DEF Owes

(* A rename passes nobody by while others rename, patch and delete, for any  *)
(* accounts, keys, names and administrators: whoever bore the old name bears *)
(* the new one when it is gone over, unless others have taken it from just   *)
(* this account or key.                                                      *)
THEOREM RenamesKeepReach == GroupsSpec => []RenameKeepsReach
BY GroupsInvInit, GroupsInvStep, GroupsInvReach, PTL DEF GroupsSpec
-----------------------------------------------------------------------------
(* The documents of the pool (AccountStore).                                 *)

(* An object that the pool lists under a name, or has marked under it, bears *)
(* the name: no two names share an object.                                   *)
NamesHeld ==
  \A n \in Names : /\ live[n] # None => name[live[n]] = n
                   /\ marked[n] # None => name[marked[n]] = n

StoreInv == StoreTypeOK /\ NamesHeld /\ CleanMeansStored

LEMMA NewContent ==
  ASSUME NEW k \in Nat
  PROVE  [cred |-> k, uses |-> 0] \in Content
BY DEF Content

LEMMA ContentMoves ==
  ASSUME NEW c \in Content, NEW k \in Nat
  PROVE  /\ [c EXCEPT !.cred = k] \in Content
         /\ c.uses \in Nat
         /\ [c EXCEPT !.uses = @ + 1] \in Content
BY DEF Content

LEMMA StoreInvInit == StoreInit => StoreInv
BY NewContent DEF StoreInit, StoreInv, StoreTypeOK, NamesHeld, CleanMeansStored, Settled

(* A write of the document of n, after the pool's object of n has been       *)
(* changed in memory.                                                        *)
LEMMA SavedKeeps ==
  ASSUME StoreTypeOK, StoreTypeOK', NamesHeld', CleanMeansStored,
         NEW n \in Names, live'[n] # None,
         Save(n, live'[n], mem'[live'[n]]),
         UNCHANGED <<marked, flush>>,
         \A m \in Names \ {n} : live'[m] = live[m],
         \A p \in Objects \ {live'[n]} : mem'[p] = mem[p] /\ name'[p] = name[p],
         \A m \in Names \ {n} : live[m] # live'[n],
         live'[n] \in flush => name'[live'[n]] = name[live'[n]]
  PROVE  CleanMeansStored'
<1> SUFFICES ASSUME NEW m \in Names, Settled(m)', writer'[m] = live'[m]
             PROVE  stored'[m] = mem'[live'[m]]
  BY DEF CleanMeansStored
<1>1. CASE m = n
  BY <1>1 DEF Save, StoreTypeOK, Settled
<1>2. CASE m # n
  <2>1. Settled(m)
    BY <1>2 DEF Settled, Pending, StoreTypeOK
  <2>2. stored'[m] = stored[m] /\ writer'[m] = writer[m]
    BY <1>2 DEF Save, StoreTypeOK
  <2>3. live[m] \in Objects /\ mem'[live[m]] = mem[live[m]] /\ live'[m] = live[m]
    BY <1>2, <2>1 DEF Settled, StoreTypeOK
  <2> QED
    BY <2>1, <2>2, <2>3 DEF CleanMeansStored
<1> QED
  BY <1>1, <1>2

LEMMA SaveTyped ==
  ASSUME StoreTypeOK, NEW n \in Names, NEW o \in Objects, NEW c \in Content, Save(n, o, c)
  PROVE  /\ stored' \in [Names -> Content \cup {None}]
         /\ writer' \in [Names -> Objects \cup {None}]
BY DEF StoreTypeOK, Save

LEMMA InstallKeeps ==
  ASSUME StoreInv, NEW n \in Names, NEW o \in Objects, Install(n, o)
  PROVE  StoreInv'
<1> USE AccountStoreAssumption
<1>0. StoreTypeOK /\ NamesHeld /\ CleanMeansStored
  BY DEF StoreInv
<1>1. /\ live' \in [Names -> Objects \cup {None}] /\ live'[n] = o
      /\ \A m \in Names \ {n} : live'[m] = live[m] /\ live[m] # o
      /\ name' \in [Objects -> Names \cup {None}] /\ name'[o] = n
      /\ \A p \in Objects \ {o} : name'[p] = name[p]
      /\ o \notin refs /\ o \notin flush /\ \A m \in Names : marked[m] # o
      /\ UNCHANGED <<refs, marked, flush>>
  BY <1>0 DEF Install, Unused, StoreTypeOK
<1>2. /\ mem' \in [Objects -> Content] /\ creds' \in Nat /\ removed' \subseteq Names
      /\ \A p \in Objects \ {o} : mem'[p] = mem[p]
      /\ Save(n, o, mem'[o])
  BY <1>0, NewContent DEF Install, StoreTypeOK
<1>3. StoreTypeOK'
  BY <1>0, <1>1, <1>2, SaveTyped DEF StoreTypeOK
<1>4. NamesHeld'
  BY <1>0, <1>1 DEF NamesHeld, StoreTypeOK
<1>5. CleanMeansStored'
  BY <1>0, <1>1, <1>2, <1>3, <1>4, SavedKeeps
<1> QED
  BY <1>3, <1>4, <1>5 DEF StoreInv

LEMMA SetTokenKeeps ==
  ASSUME StoreInv, NEW n \in Names, SetToken(n)
  PROVE  StoreInv'
<1> USE AccountStoreAssumption
<1>0. StoreTypeOK /\ NamesHeld /\ CleanMeansStored
  BY DEF StoreInv
<1>1. CASE \E o \in Objects : Install(n, o)
  BY <1>1, InstallKeeps
<1>2. CASE /\ live[n] # None /\ creds < MaxCred
           /\ creds' = creds + 1
           /\ mem' = [mem EXCEPT ![live[n]].cred = creds + 1]
           /\ Save(n, live[n], mem'[live[n]])
           /\ UNCHANGED <<live, name, refs, marked, flush, removed>>
  <2>1. live[n] \in Objects /\ creds + 1 \in Nat
    BY <1>0, <1>2 DEF StoreTypeOK
  <2>2. /\ mem' \in [Objects -> Content]
        /\ \A p \in Objects \ {live[n]} : mem'[p] = mem[p]
    BY <1>0, <1>2, <2>1, ContentMoves DEF StoreTypeOK
  <2>3. StoreTypeOK'
    BY <1>0, <1>2, <2>1, <2>2, SaveTyped DEF StoreTypeOK
  <2>4. NamesHeld'
    BY <1>0, <1>2 DEF NamesHeld
  <2>5. \A m \in Names \ {n} : live[m] # live[n]
    BY <1>0, <1>2 DEF NamesHeld
  <2>6. CleanMeansStored'
    BY <1>0, <1>2, <2>1, <2>2, <2>3, <2>4, <2>5, SavedKeeps
  <2> QED
    BY <2>3, <2>4, <2>6 DEF StoreInv
<1> QED
  BY <1>1, <1>2 DEF SetToken

(* An object is changed in memory and marked under its name.                 *)
LEMMA MarkedKeeps ==
  ASSUME StoreInv, NEW o \in Objects, MarkDirty(o),
         mem' \in [Objects -> Content], creds' \in Nat, refs' \subseteq Objects,
         \A p \in Objects \ {o} : mem'[p] = mem[p],
         UNCHANGED <<live, name, flush, stored, writer, removed>>
  PROVE  StoreInv'
<1> USE AccountStoreAssumption
<1>0. StoreTypeOK /\ NamesHeld /\ CleanMeansStored
  BY DEF StoreInv
<1>1. /\ marked' \in [Names -> Objects \cup {None}]
      /\ name[o] \in Names => marked'[name[o]] = o
      /\ \A n \in Names \ {name[o]} : marked'[n] = marked[n]
  BY <1>0 DEF MarkDirty, StoreTypeOK
<1>2. StoreTypeOK'
  BY <1>0, <1>1 DEF StoreTypeOK
<1>3. NamesHeld'
  BY <1>0, <1>1 DEF NamesHeld, StoreTypeOK
<1>4. ASSUME NEW n \in Names, Settled(n)', writer'[n] = live'[n]
      PROVE  stored'[n] = mem'[live'[n]]
  <2>1. n # name[o] /\ marked'[n] = None
    BY <1>1, <1>4 DEF Settled, Pending
  <2>2. Settled(n)
    BY <1>1, <1>4, <2>1 DEF Settled, Pending
  <2>3. live[n] \in Objects \ {o}
    BY <1>0, <2>1, <2>2 DEF Settled, NamesHeld, StoreTypeOK
  <2> QED
    BY <1>0, <1>4, <2>2, <2>3 DEF CleanMeansStored
<1> QED
  BY <1>2, <1>3, <1>4 DEF StoreInv, CleanMeansStored

LEMMA RemoveKeeps ==
  ASSUME StoreInv, NEW n \in Names, Remove(n)
  PROVE  StoreInv'
<1> USE AccountStoreAssumption
<1>0. StoreTypeOK /\ NamesHeld /\ CleanMeansStored
  BY DEF StoreInv
<1>1. StoreTypeOK'
  BY <1>0 DEF Remove, StoreTypeOK
<1>2. /\ live'[n] = None
      /\ \A m \in Names \ {n} : /\ live'[m] = live[m] /\ marked'[m] = marked[m]
                                /\ writer'[m] = writer[m] /\ stored'[m] = stored[m]
      /\ UNCHANGED <<name, mem, flush>>
  BY <1>0 DEF Remove, StoreTypeOK
<1>3. NamesHeld'
  BY <1>0, <1>2 DEF Remove, NamesHeld, StoreTypeOK
<1>4. CleanMeansStored'
  BY <1>0, <1>2 DEF CleanMeansStored, Settled, Pending
<1> QED
  BY <1>1, <1>3, <1>4 DEF StoreInv

LEMMA FlushTakeKeeps == StoreInv /\ FlushTake => StoreInv'
<1> SUFFICES ASSUME StoreInv, FlushTake PROVE StoreInv'
  OBVIOUS
<1> USE AccountStoreAssumption
<1>0. StoreTypeOK /\ NamesHeld /\ CleanMeansStored
  BY DEF StoreInv
<1>1. StoreTypeOK' /\ NamesHeld'
  BY <1>0 DEF FlushTake, StoreTypeOK, NamesHeld
<1>2. ASSUME NEW n \in Names, Settled(n)'
      PROVE  Settled(n)
  <2>1. marked[n] = None
    <3>1. SUFFICES ASSUME marked[n] # None PROVE FALSE
      OBVIOUS
    <3>2. marked[n] \in flush' /\ name'[marked[n]] = n
      BY <1>0, <3>1 DEF FlushTake, NamesHeld
    <3> QED
      BY <1>2, <3>2 DEF Settled, Pending
  <2> QED
    BY <1>2, <2>1 DEF FlushTake, Settled, Pending
<1>3. CleanMeansStored'
  BY <1>0, <1>2 DEF FlushTake, CleanMeansStored
<1> QED
  BY <1>1, <1>3 DEF StoreInv

LEMMA FlushWriteKeeps == StoreInv /\ FlushWrite => StoreInv'
<1> SUFFICES ASSUME StoreInv, FlushWrite PROVE StoreInv'
  OBVIOUS
<1> USE AccountStoreAssumption
<1>0. StoreTypeOK /\ NamesHeld /\ CleanMeansStored
  BY DEF StoreInv
<1>1. PICK ok \in SUBSET flush :
        /\ stored' = [n \in Names |->
             IF \E o \in ok : name[o] = n
             THEN mem[CHOOSE o \in ok : name[o] = n] ELSE stored[n]]
        /\ writer' = [n \in Names |->
             IF \E o \in flush : name[o] = n
             THEN IF \E o \in ok : name[o] = n
                  THEN CHOOSE o \in ok : name[o] = n ELSE None
             ELSE writer[n]]
  BY DEF FlushWrite
<1>2. ASSUME NEW n \in Names
      PROVE  \/ /\ \E o \in ok : name[o] = n
                /\ writer'[n] \in Objects /\ stored'[n] = mem[writer'[n]]
             \/ /\ \E o \in flush : name[o] = n
                /\ writer'[n] = None /\ stored'[n] = stored[n]
             \/ /\ ~\E o \in flush : name[o] = n
                /\ writer'[n] = writer[n] /\ stored'[n] = stored[n]
  <2>1. CASE \E o \in ok : name[o] = n
    <3> DEFINE c == CHOOSE o \in ok : name[o] = n
    <3>1. c \in ok
      BY <2>1
    <3>2. writer'[n] = c /\ stored'[n] = mem[c]
      BY <1>1, <2>1
    <3> QED
      BY <1>0, <2>1, <3>1, <3>2 DEF StoreTypeOK
  <2>2. CASE ~\E o \in ok : name[o] = n
    BY <1>1, <2>2
  <2> QED
    BY <2>1, <2>2
<1>3. /\ stored' \in [Names -> Content \cup {None}]
      /\ writer' \in [Names -> Objects \cup {None}]
  <2>1. /\ stored' = [n \in Names |-> stored'[n]] /\ writer' = [n \in Names |-> writer'[n]]
    BY <1>1
  <2>2. \A n \in Names : /\ stored'[n] \in Content \cup {None}
                         /\ writer'[n] \in Objects \cup {None}
    BY <1>0, <1>2 DEF StoreTypeOK
  <2> QED
    BY <2>1, <2>2
<1>4. StoreTypeOK' /\ NamesHeld'
  BY <1>0, <1>3 DEF FlushWrite, StoreTypeOK, NamesHeld
<1>5. ASSUME NEW n \in Names, Settled(n)', writer'[n] = live'[n]
      PROVE  stored'[n] = mem'[live'[n]]
  <2>1. /\ UNCHANGED <<live, name, mem, marked>> /\ live[n] # None /\ marked[n] = None
    BY <1>5 DEF FlushWrite, Settled, Pending
  <2>2. CASE \E o \in ok : name[o] = n
    BY <1>2, <1>5, <2>1, <2>2
  <2>3. CASE ~\E o \in flush : name[o] = n
    BY <1>0, <1>2, <1>5, <2>1, <2>3 DEF CleanMeansStored, Settled, Pending
  <2>4. CASE writer'[n] = None
    BY <1>5, <2>1, <2>4
  <2> QED
    BY <1>2, <2>2, <2>3, <2>4
<1> QED
  BY <1>4, <1>5 DEF StoreInv, CleanMeansStored

(* What a process that comes back has: an object of its own for each         *)
(* document, with its content.                                               *)
LEMMA CrashReloads ==
  ASSUME StoreTypeOK, Crash
  PROVE  /\ live' \in [Names -> Objects \cup {None}]
         /\ name' \in [Objects -> Names \cup {None}]
         /\ mem' \in [Objects -> Content]
         /\ \A n \in Names : live'[n] = None <=> stored[n] = None
         /\ \A n \in Names : live'[n] # None =>
              name'[live'[n]] = n /\ mem'[live'[n]] = stored[n]
<1> USE AccountStoreAssumption
<1>1. PICK at \in [Names -> Objects] :
        /\ \A m, n \in Names : m # n => at[m] # at[n]
        /\ live' = [n \in Names |-> IF stored[n] = None THEN None ELSE at[n]]
        /\ name' = [o \in Objects |->
             IF \E n \in Names : live'[n] = o
             THEN CHOOSE n \in Names : live'[n] = o ELSE None]
        /\ mem' = [o \in Objects |->
             IF name'[o] = None THEN [cred |-> 0, uses |-> 0] ELSE stored[name'[o]]]
  BY DEF Crash
<1>2. /\ live' \in [Names -> Objects \cup {None}]
      /\ \A n \in Names : live'[n] = None <=> stored[n] = None
      /\ \A m, n \in Names : live'[m] # None /\ live'[m] = live'[n] => m = n
  BY <1>1
<1>3. ASSUME NEW o \in Objects
      PROVE  /\ name'[o] \in Names \cup {None}
             /\ name'[o] # None => live'[name'[o]] = o
             /\ \A n \in Names : live'[n] = o => name'[o] = n
  <2>1. CASE \E n \in Names : live'[n] = o
    <3> DEFINE c == CHOOSE n \in Names : live'[n] = o
    <3>1. c \in Names /\ live'[c] = o
      BY <2>1
    <3>2. name'[o] = c
      BY <1>1, <2>1
    <3> QED
      BY <1>2, <3>1, <3>2
  <2>2. CASE ~\E n \in Names : live'[n] = o
    BY <1>1, <2>2
  <2> QED
    BY <2>1, <2>2
<1>4. name' \in [Objects -> Names \cup {None}]
  <2>1. name' = [o \in Objects |-> name'[o]]
    BY <1>1
  <2> QED
    BY <1>3, <2>1
<1>5. \A o \in Objects : mem'[o] \in Content
  <2>1. SUFFICES ASSUME NEW o \in Objects PROVE mem'[o] \in Content
    OBVIOUS
  <2>2. CASE name'[o] = None
    BY <1>1, <2>2, NewContent
  <2>3. CASE name'[o] # None
    <3>1. name'[o] \in Names /\ live'[name'[o]] # None
      BY <1>3, <2>3
    <3>2. stored[name'[o]] \in Content
      BY <1>2, <3>1 DEF StoreTypeOK
    <3> QED
      BY <1>1, <2>3, <3>2
  <2> QED
    BY <2>2, <2>3
<1>6. mem' \in [Objects -> Content]
  <2>1. mem' = [o \in Objects |-> mem'[o]]
    BY <1>1
  <2> QED
    BY <1>5, <2>1
<1>7. ASSUME NEW n \in Names, live'[n] # None
      PROVE  name'[live'[n]] = n /\ mem'[live'[n]] = stored[n]
  <2>1. live'[n] \in Objects
    BY <1>2, <1>7
  <2>2. name'[live'[n]] = n
    BY <1>3, <2>1
  <2> QED
    BY <1>1, <2>1, <2>2
<1> QED
  BY <1>2, <1>4, <1>6, <1>7

LEMMA CrashKeeps == StoreInv /\ Crash => StoreInv'
<1> SUFFICES ASSUME StoreInv, Crash PROVE StoreInv'
  OBVIOUS
<1>0. StoreTypeOK
  BY DEF StoreInv
<1>1. /\ live' \in [Names -> Objects \cup {None}]
      /\ name' \in [Objects -> Names \cup {None}]
      /\ mem' \in [Objects -> Content]
      /\ \A n \in Names : live'[n] # None =>
           name'[live'[n]] = n /\ mem'[live'[n]] = stored[n]
  BY <1>0, CrashReloads
<1>2. /\ writer' = live' /\ refs' = {} /\ flush' = {}
      /\ marked' = [n \in Names |-> None] /\ UNCHANGED <<stored, creds, removed>>
  BY DEF Crash
<1>3. StoreTypeOK'
  BY <1>0, <1>1, <1>2 DEF StoreTypeOK
<1>4. NamesHeld' /\ CleanMeansStored'
  BY <1>1, <1>2 DEF NamesHeld, CleanMeansStored, Settled
<1> QED
  BY <1>3, <1>4 DEF StoreInv

LEMMA StoreInvStep == StoreInv /\ [StoreNext]_storeVars => StoreInv'
<1> SUFFICES ASSUME StoreInv, [StoreNext]_storeVars PROVE StoreInv'
  OBVIOUS
<1>0. StoreTypeOK
  BY DEF StoreInv
<1>1. ASSUME NEW n \in Names, AddAPIKey(n)
      PROVE  StoreInv'
  BY <1>1, InstallKeeps DEF AddAPIKey
<1>2. ASSUME NEW n \in Names, Begin(n)
      PROVE  StoreInv'
  BY <1>2 DEF Begin, StoreInv, StoreTypeOK, NamesHeld, CleanMeansStored, Settled, Pending
<1>3. ASSUME NEW o \in Objects, RequestEnds(o)
      PROVE  StoreInv'
  <2>1. /\ mem' \in [Objects -> Content]
        /\ \A p \in Objects \ {o} : mem'[p] = mem[p]
    BY <1>0, <1>3, ContentMoves DEF RequestEnds, StoreTypeOK
  <2> QED
    BY <1>0, <1>3, <2>1, MarkedKeeps DEF RequestEnds, StoreTypeOK
<1>4. ASSUME NEW o \in Objects, RefreshEnds(o)
      PROVE  StoreInv'
  <2>1. creds + 1 \in Nat /\ mem[o] \in Content
    BY <1>0 DEF StoreTypeOK
  <2>2. /\ mem' \in [Objects -> Content]
        /\ \A p \in Objects \ {o} : mem'[p] = mem[p]
    BY <1>0, <1>4, <2>1, ContentMoves DEF RefreshEnds, StoreTypeOK
  <2> QED
    BY <1>0, <1>4, <2>1, <2>2, MarkedKeeps DEF RefreshEnds, StoreTypeOK
<1>5. CASE UNCHANGED storeVars
  BY <1>5 DEF storeVars, StoreInv, StoreTypeOK, NamesHeld, CleanMeansStored, Settled, Pending
<1> QED
  BY <1>1, <1>2, <1>3, <1>4, <1>5, SetTokenKeeps, RemoveKeeps, FlushTakeKeeps,
     FlushWriteKeeps, CrashKeeps
     DEF StoreNext

(* Whatever is added, refreshed, removed, flushed and lost, in whatever      *)
(* order: a settled account whose object was the last one written has its    *)
(* content on disk; for any names, objects and bounds.                       *)
THEOREM SettledIsStored == StoreSpec => []CleanMeansStored
<1>1. StoreInv => CleanMeansStored
  BY DEF StoreInv
<1> QED
  BY <1>1, StoreInvInit, StoreInvStep, PTL DEF StoreSpec

(* Such an account survives a crash: the process that comes back has it,     *)
(* with the content it had.                                                  *)
THEOREM CrashCostsNothing == StoreSpec => CrashKeepsSettled
<1>1. StoreInv /\ [StoreNext]_storeVars
        => [Crash => \A n \in Names :
              Settled(n) /\ writer[n] = live[n]
                => live'[n] # None /\ mem'[live'[n]] = mem[live[n]]]_storeVars
  <2>1. SUFFICES ASSUME StoreInv, Crash,
                        NEW n \in Names, Settled(n), writer[n] = live[n]
                 PROVE  live'[n] # None /\ mem'[live'[n]] = mem[live[n]]
    OBVIOUS
  <2>2. stored[n] = mem[live[n]] /\ mem[live[n]] \in Content
    BY <2>1 DEF StoreInv, CleanMeansStored, Settled, StoreTypeOK
  <2> QED
    BY <2>1, <2>2, CrashReloads, AccountStoreAssumption DEF StoreInv
<1> QED
  BY <1>1, StoreInvInit, StoreInvStep, PTL DEF StoreSpec, CrashKeepsSettled
-----------------------------------------------------------------------------
(* The slots of the task runner (Tasks, Semaphore).                          *)

RunnerType == [active : Nat, waiters : Seq(Jobs), max : Limits]

Stages == {"none", "acquire", "wait", "start", "over"} \cup Entered

(* The number of slots is that of the tasks that hold one, and the list of   *)
(* channels has every task that it has once, and only such as wait.          *)
SlotsInv ==
  /\ runner \in RunnerType
  /\ pc \in [Jobs -> Stages]
  /\ IsFiniteSet(Holding) /\ Cardinality(Holding) = runner.active
  /\ \A i \in 1..Len(runner.waiters) : pc[runner.waiters[i]] = "wait"
  /\ \A i, j \in 1..Len(runner.waiters) :
       runner.waiters[i] = runner.waiters[j] => i = j

LEMMA RunnerFields ==
  ASSUME NEW r \in RunnerType
  PROVE  r.active \in Nat /\ r.waiters \in Seq(Jobs) /\ r.max \in Limits
BY DEF RunnerType

LEMMA RunnerActive ==
  ASSUME NEW r \in RunnerType, NEW k \in Nat
  PROVE  LET s == [r EXCEPT !.active = k] IN
         s \in RunnerType /\ s.active = k /\ s.waiters = r.waiters /\ s.max = r.max
BY DEF RunnerType

LEMMA RunnerWaiters ==
  ASSUME NEW r \in RunnerType, NEW w \in Seq(Jobs)
  PROVE  LET s == [r EXCEPT !.waiters = w] IN
         s \in RunnerType /\ s.active = r.active /\ s.waiters = w /\ s.max = r.max
BY DEF RunnerType

LEMMA RunnerMax ==
  ASSUME NEW r \in RunnerType, NEW m \in Limits
  PROVE  LET s == [r EXCEPT !.max = m] IN
         s \in RunnerType /\ s.active = r.active /\ s.waiters = r.waiters /\ s.max = m
BY DEF RunnerType

LEMMA FreshRunner ==
  ASSUME NEW m \in Limits
  PROVE  LET r == [active |-> 0, waiters |-> <<>>, max |-> m] IN
         r \in RunnerType /\ r.active = 0 /\ r.waiters = <<>> /\ r.max = m
BY EmptySeq DEF RunnerType

LEMMA SemCounts == \A S : Sem!Cardinality(S) = Cardinality(S)
BY Zenon DEF Sem!Cardinality, Cardinality

(* A step that leaves the runner alone, and each task a holder or none, is   *)
(* none of the semaphore.                                                    *)
LEMMA SlotsUntouched ==
  ASSUME SlotsInv, UNCHANGED runner, pc' \in [Jobs -> Stages],
         \A t \in Jobs : t \in Holding <=> t \in Holding',
         \A t \in Jobs : pc[t] = "wait" => pc'[t] = "wait"
  PROVE  SlotsInv' /\ UNCHANGED <<Holding, runner.waiters, runner.max>>
<1>1. Holding' = Holding
  BY DEF Holding
<1>2. \A i \in 1..Len(runner.waiters) : runner.waiters[i] \in Jobs
  BY RunnerFields, ElementOfSeq DEF SlotsInv
<1> QED
  BY <1>1, <1>2 DEF SlotsInv

(* A slot, or a place in the queue.                                          *)
LEMMA AcquireEnters ==
  ASSUME SlotsInv, NEW t \in Jobs, AcquireSlot(t)
  PROVE  SlotsInv' /\ Sem!Enter(t)
<1> DEFINE q == runner.waiters
<1>1. /\ runner \in RunnerType /\ pc \in [Jobs -> Stages] /\ pc[t] = "acquire"
      /\ runner.active \in Nat /\ q \in Seq(Jobs) /\ runner.max \in Limits
      /\ runner.max \in Nat /\ Len(q) \in Nat
      /\ \A i \in 1..Len(q) : q[i] \in Jobs
  BY RunnerFields, TasksAssumption, LenProperties, ElementOfSeq DEF SlotsInv, AcquireSlot
<1>2. t \notin Holding /\ \A i \in 1..Len(q) : q[i] # t
  BY <1>1 DEF Holding, Entered, SlotsInv
<1>3. CASE runner.active < runner.max
  <2>1. /\ runner' = [runner EXCEPT !.active = runner.active + 1]
        /\ pc' = [pc EXCEPT ![t] = "start"]
    BY <1>3 DEF AcquireSlot
  <2>2. /\ runner' \in RunnerType /\ runner'.active = runner.active + 1
        /\ runner'.waiters = q /\ runner'.max = runner.max
    <3>1. runner.active + 1 \in Nat
      BY <1>1
    <3> QED
      BY <1>1, <2>1, <3>1, RunnerActive
  <2>3. pc' \in [Jobs -> Stages] /\ \A u \in Jobs \ {t} : pc'[u] = pc[u]
    BY <1>1, <2>1 DEF Stages
  <2>4. Holding' = Holding \cup {t}
    BY <1>1, <2>1 DEF Holding
  <2>5. IsFiniteSet(Holding') /\ Cardinality(Holding') = runner.active + 1
    BY <1>2, <2>4, FS_AddElement DEF SlotsInv
  <2>6. SlotsInv'
    BY <1>1, <1>2, <2>2, <2>3, <2>5 DEF SlotsInv
  <2>7. Cardinality(Holding) < runner.max
    BY <1>3 DEF SlotsInv
  <2> QED
    <3>1. t \notin Holding \cup Sem!Queued
      BY <1>2 DEF Sem!Queued
    <3> QED
      BY <1>2, <2>2, <2>4, <2>6, <2>7, <3>1, SemCounts DEF Sem!Enter
<1>4. CASE ~(runner.active < runner.max)
  <2>1. /\ runner' = [runner EXCEPT !.waiters = Append(q, t)]
        /\ pc' = [pc EXCEPT ![t] = "wait"]
    BY <1>4 DEF AcquireSlot
  <2>2. /\ Append(q, t) \in Seq(Jobs) /\ Len(Append(q, t)) = Len(q) + 1
        /\ \A i \in 1..Len(q) : Append(q, t)[i] = q[i]
        /\ Append(q, t)[Len(q) + 1] = t
    BY <1>1, AppendProperties
  <2>3. /\ runner' \in RunnerType /\ runner'.active = runner.active
        /\ runner'.waiters = Append(q, t) /\ runner'.max = runner.max
    BY <1>1, <2>1, <2>2, RunnerWaiters
  <2>4. /\ pc' \in [Jobs -> Stages] /\ \A u \in Jobs \ {t} : pc'[u] = pc[u]
        /\ pc'[t] = "wait"
    BY <1>1, <2>1 DEF Stages
  <2>5. Holding' = Holding
    BY <1>1, <2>1 DEF Holding, Entered
  <2>6. \A i \in 1..Len(runner'.waiters) : pc'[runner'.waiters[i]] = "wait"
    BY <1>1, <1>2, <2>2, <2>3, <2>4 DEF SlotsInv
  <2>7. \A i, j \in 1..Len(runner'.waiters) :
          runner'.waiters[i] = runner'.waiters[j] => i = j
    BY <1>1, <1>2, <2>2, <2>3 DEF SlotsInv
  <2>8. SlotsInv'
    BY <2>3, <2>4, <2>5, <2>6, <2>7 DEF SlotsInv
  <2>9. ~(Cardinality(Holding) < runner.max)
    BY <1>4 DEF SlotsInv
  <2> QED
    <3>1. t \notin Holding \cup Sem!Queued
      BY <1>2 DEF Sem!Queued
    <3> QED
      BY <1>2, <2>3, <2>5, <2>8, <2>9, <3>1, SemCounts DEF Sem!Enter
<1> QED
  BY <1>3, <1>4

(* The slot goes to the first in the queue, or becomes free.                 *)
LEMMA ReleaseLeaves ==
  ASSUME SlotsInv, NEW t \in Jobs, ReleaseSlot(t)
  PROVE  SlotsInv' /\ Sem!LeaveSlot(t)
<1> DEFINE q == runner.waiters
<1>1. /\ runner \in RunnerType /\ pc \in [Jobs -> Stages] /\ pc[t] = "release"
      /\ runner.active \in Nat /\ q \in Seq(Jobs) /\ runner.max \in Limits
      /\ Len(q) \in Nat
      /\ \A i \in 1..Len(q) : q[i] \in Jobs
  BY RunnerFields, LenProperties, ElementOfSeq DEF SlotsInv, ReleaseSlot
<1>2. t \in Holding /\ \A i \in 1..Len(q) : q[i] # t
  BY <1>1 DEF Holding, Entered, SlotsInv
<1>3. IsFiniteSet(Holding \ {t}) /\ Cardinality(Holding \ {t}) = runner.active - 1
  BY <1>2, FS_RemoveElement DEF SlotsInv
<1>4. CASE q = <<>>
  <2>1. /\ runner' = [runner EXCEPT !.active = runner.active - 1]
        /\ pc' = [pc EXCEPT ![t] = "over"]
    BY <1>4 DEF ReleaseSlot, HandOn
  <2>2. runner.active - 1 \in Nat
    BY <1>3, FS_CardinalityType
  <2>3. /\ runner' \in RunnerType /\ runner'.active = runner.active - 1
        /\ runner'.waiters = q /\ runner'.max = runner.max
    BY <1>1, <2>1, <2>2, RunnerActive
  <2>4. pc' \in [Jobs -> Stages] /\ \A u \in Jobs \ {t} : pc'[u] = pc[u]
    BY <1>1, <2>1 DEF Stages
  <2>5. Holding' = Holding \ {t}
    BY <1>1, <2>1 DEF Holding, Entered
  <2>6. SlotsInv'
    BY <1>1, <1>2, <1>3, <2>3, <2>4, <2>5 DEF SlotsInv
  <2> QED
    BY <1>2, <1>4, <2>3, <2>5, <2>6 DEF Sem!LeaveSlot
<1>5. CASE q # <<>>
  <2> DEFINE h == Head(q)
  <2>1. /\ runner' = [runner EXCEPT !.waiters = Tail(q)]
        /\ pc' = [pc EXCEPT ![t] = "over", ![h] = "start"]
    BY <1>5 DEF ReleaseSlot, HandOn
  <2>2. /\ Len(q) > 0 /\ h = q[1] /\ h \in Jobs /\ h # t /\ pc[h] = "wait"
        /\ Tail(q) \in Seq(Jobs) /\ Len(Tail(q)) = Len(q) - 1
        /\ \A i \in 1..(Len(q) - 1) : Tail(q)[i] = q[i + 1]
    BY <1>1, <1>2, <1>5, HeadTailProperties, EmptySeq DEF SlotsInv
  <2>3. /\ runner' \in RunnerType /\ runner'.active = runner.active
        /\ runner'.waiters = Tail(q) /\ runner'.max = runner.max
    BY <1>1, <2>1, <2>2, RunnerWaiters
  <2>4. /\ pc' \in [Jobs -> Stages] /\ \A u \in Jobs \ {t, h} : pc'[u] = pc[u]
        /\ pc'[t] = "over" /\ pc'[h] = "start"
    BY <1>1, <2>1, <2>2 DEF Stages
  <2>5. Holding' = (Holding \ {t}) \cup {h}
    BY <2>2, <2>4 DEF Holding, Entered
  <2>6. h \notin Holding \ {t}
    BY <2>2 DEF Holding, Entered
  <2>7. IsFiniteSet(Holding') /\ Cardinality(Holding') = runner.active
    <3> DEFINE rest == Holding \ {t}
    <3>1. /\ IsFiniteSet(rest) /\ Cardinality(rest) = runner.active - 1
          /\ Holding' = rest \cup {h} /\ h \notin rest
      BY <1>3, <2>5, <2>6
    <3> HIDE DEF rest, h
    <3>2. IsFiniteSet(rest \cup {h}) /\ Cardinality(rest \cup {h}) = Cardinality(rest) + 1
      BY <3>1, FS_AddElement
    <3> QED
      BY <1>1, <3>1, <3>2
  <2>8. \A i \in 1..Len(Tail(q)) :
          i + 1 \in 1..Len(q) /\ q[i + 1] # h /\ Tail(q)[i] = q[i + 1]
    BY <1>1, <2>2 DEF SlotsInv
  <2>9. \A i \in 1..Len(runner'.waiters) : pc'[runner'.waiters[i]] = "wait"
    BY <1>1, <1>2, <2>3, <2>4, <2>8 DEF SlotsInv
  <2>10. \A i, j \in 1..Len(runner'.waiters) :
           runner'.waiters[i] = runner'.waiters[j] => i = j
    BY <1>1, <2>3, <2>8 DEF SlotsInv
  <2>11. SlotsInv'
    BY <2>3, <2>4, <2>7, <2>9, <2>10 DEF SlotsInv
  <2> QED
    BY <1>2, <1>5, <2>3, <2>5, <2>11 DEF Sem!LeaveSlot
<1> QED
  BY <1>4, <1>5

LEMMA RestartReboots ==
  ASSUME SlotsInv, TasksRestart
  PROVE  SlotsInv' /\ Sem!Reboot
<1>1. PICK n \in Limits : runner' = [active |-> 0, waiters |-> <<>>, max |-> n]
  BY DEF TasksRestart
<1>2. runner' \in RunnerType /\ runner'.active = 0 /\ runner'.waiters = <<>> /\ runner'.max = n
  BY <1>1, FreshRunner
<1>3. pc' \in [Jobs -> Stages] /\ Holding' = {}
  BY DEF TasksRestart, SlotsInv, Stages, Holding, Entered
<1>4. SlotsInv'
  BY <1>2, <1>3, FS_EmptySet DEF SlotsInv
<1> QED
  BY <1>2, <1>3, <1>4 DEF Sem!Reboot

LEMMA SetConcurrencySets ==
  ASSUME SlotsInv, SetConcurrency
  PROVE  SlotsInv' /\ Sem!SetSemLimit
<1>1. PICK n \in Limits : runner' = [runner EXCEPT !.max = n]
  BY DEF SetConcurrency
<1>2. /\ runner' \in RunnerType /\ runner'.active = runner.active
      /\ runner'.waiters = runner.waiters /\ runner'.max = n
  BY <1>1, RunnerMax DEF SlotsInv
<1>3. pc' = pc /\ Holding' = Holding
  BY DEF SetConcurrency, Holding
<1>4. SlotsInv'
  BY <1>2, <1>3 DEF SlotsInv
<1> QED
  BY <1>2, <1>3, <1>4 DEF Sem!SetSemLimit

LEMMA SlotsInvInit == TasksInit => SlotsInv /\ Sem!SemInit
<1> SUFFICES ASSUME TasksInit PROVE SlotsInv /\ Sem!SemInit
  OBVIOUS
<1>1. PICK n \in Limits : runner = [active |-> 0, waiters |-> <<>>, max |-> n]
  BY DEF TasksInit
<1>2. runner \in RunnerType /\ runner.active = 0 /\ runner.waiters = <<>> /\ runner.max = n
  BY <1>1, FreshRunner
<1>3. pc \in [Jobs -> Stages] /\ Holding = {}
  BY DEF TasksInit, Stages, Holding, Entered
<1>4. SlotsInv
  BY <1>2, <1>3, FS_EmptySet DEF SlotsInv
<1> QED
  BY <1>2, <1>3, <1>4 DEF Sem!SemInit

LEMMA SlotsStep ==
  SlotsInv /\ [TasksNext]_jobVars => SlotsInv' /\ [Sem!SemNext]_(Sem!semVars)
<1> SUFFICES ASSUME SlotsInv, [TasksNext]_jobVars
             PROVE  SlotsInv' /\ [Sem!SemNext]_(Sem!semVars)
  OBVIOUS
<1>0. pc \in [Jobs -> Stages]
  BY DEF SlotsInv
<1>1. ASSUME NEW t \in Jobs, AcquireSlot(t)
      PROVE  SlotsInv' /\ Sem!SemNext
  BY <1>1, AcquireEnters DEF Sem!SemNext
<1>2. ASSUME NEW t \in Jobs, ReleaseSlot(t)
      PROVE  SlotsInv' /\ Sem!SemNext
  BY <1>2, ReleaseLeaves DEF Sem!SemNext
<1>3. CASE SetConcurrency
  BY <1>3, SetConcurrencySets DEF Sem!SemNext
<1>4. CASE TasksRestart
  BY <1>4, RestartReboots DEF Sem!SemNext
<1>5. CASE UNCHANGED <<runner, pc>>
  <2>1. SlotsInv' /\ UNCHANGED <<Holding, runner.waiters, runner.max>>
    BY <1>0, <1>5, SlotsUntouched DEF Holding
  <2> QED
    BY <2>1 DEF Sem!semVars
<1>6. ASSUME NEW t \in Jobs, Enqueue(t) \/ StartTask(t) \/ BeginItem(t) \/ FnReturns(t)
                             \/ RecordEnd(t)
      PROVE  SlotsInv' /\ UNCHANGED Sem!semVars
  <2>1. \/ UNCHANGED pc
        \/ \E s \in Stages \ {"wait"} :
             /\ pc[t] # "wait" /\ pc' = [pc EXCEPT ![t] = s]
             /\ pc[t] \in {"start"} \cup Entered <=> s \in {"start"} \cup Entered
    BY <1>6 DEF Enqueue, StartTask, BeginItem, FnReturns, RecordEnd, Stages, Entered
  <2>2. UNCHANGED runner
    BY <1>6 DEF Enqueue, StartTask, BeginItem, FnReturns, RecordEnd
  <2>3. /\ pc' \in [Jobs -> Stages]
        /\ \A u \in Jobs : u \in Holding <=> u \in Holding'
        /\ \A u \in Jobs : pc[u] = "wait" => pc'[u] = "wait"
    BY <1>0, <2>1 DEF Holding
  <2> QED
    BY <2>2, <2>3, SlotsUntouched DEF Sem!semVars
<1>7. ASSUME NEW t \in Jobs, ItemDone(t)
      PROVE  UNCHANGED <<runner, pc>>
  BY <1>7 DEF ItemDone
<1>8. ASSUME NEW c \in Cancelers,
             CancelChecks(c) \/ CancelMarks(c) \/ \E t \in Jobs : CancelBegins(c, t)
      PROVE  UNCHANGED <<runner, pc>>
  BY <1>8 DEF CancelChecks, CancelMarks, CancelBegins
<1>9. CASE UNCHANGED jobVars
  BY <1>5, <1>9 DEF jobVars
<1> QED
  BY <1>1, <1>2, <1>3, <1>4, <1>5, <1>6, <1>7, <1>8, <1>9 DEF TasksNext, RunStep

(* The runner's number of slots and list of channels implement the           *)
(* first-come first-served semaphore, over hand-overs, changes of the limit  *)
(* and restarts, for any tasks and limits.                                   *)
THEOREM RunnerImplementsSemaphore == TasksSpec => RunnerIsSemaphore
BY SlotsInvInit, SlotsStep, PTL DEF TasksSpec, RunnerIsSemaphore, Sem!SemSpec
-----------------------------------------------------------------------------
(* The client keys (Keys).                                                   *)

RealKey == [key : Plains, system : BOOLEAN, uses : Nat]
KeyMap == [Ids -> RealKey \cup {NoKey}]

KeysTyped ==
  /\ entries \in KeyMap /\ keyDoc \in KeyMap
  /\ byKey \in [Plains -> Ids \cup {NoId}]
  /\ nextID \in Nat \ {0} /\ usageDirty \in Nat
  /\ master \in Plains \cup {NoKey.key} /\ saveLost \in BOOLEAN

(* No two keys of the stored list have one plaintext.                        *)
DocSound == \A i, j \in Held(keyDoc) : keyDoc[i].key = keyDoc[j].key => i = j

IndexInv == KeysTyped /\ IndexSound /\ DocSound

(* What is not written is what has been counted since the last save, if that *)
(* has not failed.                                                           *)
CountInv ==
  /\ usageDirty < FlushEvery
  /\ ~saveLost => Unwritten = usageDirty

LEMMA KeyFields ==
  ASSUME NEW e \in RealKey
  PROVE  e # NoKey /\ e.key \in Plains /\ e.uses \in Nat
<1>1. e.key \in Plains /\ e.uses \in Nat
  BY DEF RealKey
<1>2. NoKey.key = "none"
  BY DEF NoKey
<1> QED
  BY <1>1, <1>2, KeysAssumption

LEMMA KeyMarked ==
  ASSUME NEW e \in RealKey
  PROVE  LET s == [e EXCEPT !.system = TRUE] IN s \in RealKey /\ s.key = e.key
BY DEF RealKey

LEMMA KeyCounts ==
  ASSUME NEW e \in RealKey, NEW k \in Nat
  PROVE  LET s == [e EXCEPT !.uses = k] IN s \in RealKey /\ s.key = e.key /\ s.uses = k
BY DEF RealKey

LEMMA KeyRotates ==
  ASSUME NEW e \in RealKey, NEW p \in Plains
  PROVE  LET s == [e EXCEPT !.key = p] IN s \in RealKey /\ s.key = p
BY DEF RealKey

LEMMA FreshFields ==
  ASSUME NEW p \in Plains, NEW system \in BOOLEAN
  PROVE  FreshKey(p, system) \in RealKey /\ FreshKey(p, system).key = p
BY DEF FreshKey, NoKey, RealKey

LEMMA IdsFacts ==
  /\ 0 \in Ids /\ NoId \notin Ids /\ NoId \in Nat
  /\ \A i \in Ids : i \in Nat
BY KeysAssumption DEF Ids, NoId

LEMMA EmptyFields ==
  /\ NoKey.key = "none" /\ NoKey.uses = 0
  /\ \A p \in Plains : p # NoKey.key
BY KeysAssumption DEF NoKey

LEMMA HeldIsReal ==
  ASSUME NEW es \in KeyMap
  PROVE  \A i \in Ids : i \in Held(es) <=> es[i] \in RealKey
BY KeyFields DEF KeyMap, Held

LEMMA SavedDoc ==
  ASSUME KeysTyped, DocSound, SaveKeys, entries' \in KeyMap,
         \A i, j \in Held(entries') : entries'[i].key = entries'[j].key => i = j
  PROVE  /\ keyDoc' \in KeyMap /\ DocSound' /\ usageDirty' \in Nat /\ saveLost' \in BOOLEAN
BY DEF SaveKeys, KeysTyped, DocSound, Held

(* A key is put in the place of another one of the same plaintext, or of     *)
(* none under an id that is given out.                                       *)
LEMMA KeyPut ==
  ASSUME IndexInv, NEW i \in Ids, NEW e \in RealKey,
         entries' = [entries EXCEPT ![i] = e],
         byKey' = [byKey EXCEPT ![e.key] = i],
         byKey[e.key] \in {i, NoId},
         entries[i] # NoKey => entries[i].key = e.key,
         nextID' \in Nat, nextID' >= nextID, nextID' > i
  PROVE  /\ entries' \in KeyMap /\ byKey' \in [Plains -> Ids \cup {NoId}]
         /\ IndexSound'
<1> USE IdsFacts
<1>0. /\ entries \in KeyMap /\ byKey \in [Plains -> Ids \cup {NoId}] /\ nextID \in Nat
      /\ IndexSound
  BY DEF IndexInv, KeysTyped
<1>1. entries' \in KeyMap /\ byKey' \in [Plains -> Ids \cup {NoId}] /\ e.key \in Plains /\ e # NoKey
  BY <1>0, KeyFields DEF KeyMap
<1>2. /\ entries'[i] = e /\ byKey'[e.key] = i
      /\ \A j \in Ids \ {i} : entries'[j] = entries[j]
      /\ \A p \in Plains \ {e.key} : byKey'[p] = byKey[p]
  BY <1>0, <1>1 DEF KeyMap
<1>3. ASSUME NEW j \in Held(entries')
      PROVE  byKey'[entries'[j].key] = j /\ j < nextID'
  <2>1. CASE j = i
    BY <1>2, <2>1
  <2>2. CASE j # i
    <3>1. j \in Ids /\ j \in Held(entries) /\ entries'[j] = entries[j]
      BY <1>2, <1>3, <2>2 DEF Held
    <3>2. /\ byKey[entries[j].key] = j /\ j < nextID
          /\ entries[j].key \in Plains
      BY <1>0, <3>1, HeldIsReal, KeyFields DEF IndexSound
    <3>3. entries[j].key # e.key
      BY <2>2, <3>1, <3>2
    <3> QED
      BY <1>0, <1>2, <3>1, <3>2, <3>3
  <2> QED
    BY <2>1, <2>2
<1>4. ASSUME NEW p \in Plains, byKey'[p] # NoId
      PROVE  entries'[byKey'[p]].key = p
  <2>1. CASE p = e.key
    BY <1>2, <2>1
  <2>2. CASE p # e.key
    <3>1. byKey'[p] = byKey[p] /\ byKey[p] \in Ids /\ entries[byKey[p]].key = p
      BY <1>0, <1>2, <1>4, <2>2 DEF IndexSound
    <3>2. entries[byKey[p]] # NoKey
      BY <3>1, EmptyFields
    <3> QED
      BY <1>2, <2>2, <3>1, <3>2
  <2> QED
    BY <2>1, <2>2
<1> QED
  BY <1>1, <1>3, <1>4 DEF IndexSound

(* A sound index means that no two keys have one plaintext.                  *)
LEMMA IndexMeansUnique ==
  ASSUME IndexSound
  PROVE  \A i, j \in Held(entries) : entries[i].key = entries[j].key => i = j
BY DEF IndexSound

LEMMA CreateKeeps == IndexInv /\ CreateKey => IndexInv'
<1> SUFFICES ASSUME IndexInv, CreateKey PROVE IndexInv'
  OBVIOUS
<1>0. KeysTyped /\ IndexSound /\ DocSound
  BY DEF IndexInv
<1>1. PICK p \in Plains : /\ byKey[p] = NoId
                          /\ entries' = [entries EXCEPT ![nextID] = FreshKey(p, FALSE)]
                          /\ byKey' = [byKey EXCEPT ![p] = nextID]
  BY DEF CreateKey
<1>2. /\ nextID \in Ids /\ nextID \in Nat /\ nextID' = nextID + 1 /\ SaveKeys
      /\ UNCHANGED master
  BY <1>0 DEF CreateKey, KeysTyped
<1>3. entries[nextID] = NoKey
  BY <1>0, <1>2 DEF IndexSound, Held
<1>4. /\ entries' \in KeyMap /\ byKey' \in [Plains -> Ids \cup {NoId}]
      /\ IndexSound'
  <2> DEFINE e == FreshKey(p, FALSE)
  <2>1. e \in RealKey /\ e.key = p
    BY FreshFields
  <2> HIDE DEF e
  <2>2. entries' = [entries EXCEPT ![nextID] = e] /\ byKey' = [byKey EXCEPT ![e.key] = nextID]
    BY <1>1, <2>1 DEF e
  <2>3. byKey[e.key] \in {nextID, NoId}
    BY <1>1, <2>1
  <2>4. nextID' \in Nat /\ nextID' >= nextID /\ nextID' > nextID
    BY <1>2
  <2> QED
    BY <1>2, <1>3, <2>1, <2>2, <2>3, <2>4, KeyPut
<1>5. /\ keyDoc' \in KeyMap /\ DocSound' /\ usageDirty' \in Nat /\ saveLost' \in BOOLEAN
  BY <1>0, <1>2, <1>4, SavedDoc DEF IndexSound
<1> QED
  BY <1>0, <1>2, <1>4, <1>5 DEF IndexInv, KeysTyped

(* A key is changed in its place and keeps its plaintext.                    *)
LEMMA KeyChanged ==
  ASSUME IndexInv, NEW i \in Ids, NEW e \in RealKey,
         entries[i] # NoKey, e.key = entries[i].key,
         entries' = [entries EXCEPT ![i] = e], UNCHANGED <<byKey, nextID>>
  PROVE  /\ entries' \in KeyMap /\ byKey' \in [Plains -> Ids \cup {NoId}]
         /\ IndexSound'
<1>1. /\ entries \in KeyMap /\ byKey \in [Plains -> Ids \cup {NoId}] /\ nextID \in Nat
      /\ i \in Held(entries) /\ IndexSound
  BY DEF IndexInv, KeysTyped, Held
<1>2. byKey[e.key] = i /\ i < nextID /\ e.key \in Plains
  BY <1>1, KeyFields DEF IndexSound
<1>3. byKey' = [byKey EXCEPT ![e.key] = i]
  BY <1>1, <1>2
<1>4. byKey[e.key] \in {i, NoId} /\ (entries[i] # NoKey => entries[i].key = e.key)
  BY <1>2
<1>5. nextID' \in Nat /\ nextID' >= nextID /\ nextID' > i
  BY <1>1, <1>2, IdsFacts
<1> QED
  BY <1>3, <1>4, <1>5, KeyPut

LEMMA UsesKeep ==
  ASSUME IndexInv, NEW i \in Ids, NEW k \in Nat, entries[i] # NoKey,
         entries' = [entries EXCEPT ![i].uses = k], UNCHANGED <<byKey, nextID>>
  PROVE  /\ entries' \in KeyMap /\ byKey' \in [Plains -> Ids \cup {NoId}]
         /\ IndexSound'
<1> DEFINE e == [entries[i] EXCEPT !.uses = k]
<1>1. entries[i] \in RealKey
  BY HeldIsReal DEF IndexInv, KeysTyped, Held
<1>2. e \in RealKey /\ e.key = entries[i].key
  BY <1>1, KeyCounts
<1>3. entries' = [entries EXCEPT ![i] = e]
  OBVIOUS
<1> HIDE DEF e
<1> QED
  BY <1>2, <1>3, KeyChanged

LEMMA AdoptKeeps ==
  ASSUME IndexInv, NEW p \in Plains, byKey[p] # NoId, Adopt(p)
  PROVE  /\ entries' \in KeyMap /\ byKey' \in [Plains -> Ids \cup {NoId}]
         /\ IndexSound' /\ nextID' = nextID
<1> USE IdsFacts
<1> DEFINE i == byKey[p]
           e == [entries[i] EXCEPT !.system = TRUE]
<1>0. /\ entries \in KeyMap /\ byKey \in [Plains -> Ids \cup {NoId}] /\ nextID \in Nat
      /\ IndexSound
  BY DEF IndexInv, KeysTyped
<1>1. /\ i \in Ids /\ entries[i].key = p /\ entries[i] # NoKey /\ entries[i] \in RealKey
      /\ i < nextID
  <2>1. i \in Ids /\ entries[i].key = p
    BY <1>0 DEF IndexSound
  <2>2. entries[i] # NoKey
    BY <2>1, EmptyFields
  <2> QED
    BY <1>0, <2>1, <2>2, HeldIsReal DEF IndexSound, Held
<1>2. e \in RealKey /\ e.key = p
  BY <1>1, KeyMarked
<1>3. nextID' = nextID
  BY DEF Adopt
<1>4. CASE i # 0 /\ entries[0] = NoKey
  <2>1. /\ entries' = [entries EXCEPT ![i] = NoKey, ![0] = e]
        /\ byKey' = [byKey EXCEPT ![p] = 0]
    BY <1>4 DEF Adopt
  <2> HIDE DEF i, e
  <2>2. entries' \in KeyMap /\ byKey' \in [Plains -> Ids \cup {NoId}]
    BY <1>0, <1>1, <1>2, <2>1 DEF KeyMap
  <2>3. /\ entries'[i] = NoKey /\ entries'[0] = e /\ byKey'[p] = 0
        /\ \A j \in Ids \ {0, i} : entries'[j] = entries[j]
        /\ \A q \in Plains \ {p} : byKey'[q] = byKey[q]
    BY <1>0, <1>1, <1>4, <2>1 DEF KeyMap
  <2>4. ASSUME NEW j \in Held(entries')
        PROVE  byKey'[entries'[j].key] = j /\ j < nextID'
    <3>1. j \in Ids /\ j # i
      BY <2>3 DEF Held
    <3>2. CASE j = 0
      BY <1>0, <1>1, <1>2, <1>3, <2>3, <3>2
    <3>3. CASE j # 0
      <4>1. j \in Held(entries) /\ entries'[j] = entries[j]
        BY <2>3, <3>1, <3>3 DEF Held
      <4>2. byKey[entries[j].key] = j /\ j < nextID /\ entries[j].key \in Plains
        BY <1>0, <4>1, HeldIsReal, KeyFields DEF IndexSound, Held
      <4>3. entries[j].key # p
        BY <3>1, <4>2 DEF i
      <4> QED
        BY <1>3, <2>3, <4>1, <4>2, <4>3
    <3> QED
      BY <3>2, <3>3
  <2>5. ASSUME NEW q \in Plains, byKey'[q] # NoId
        PROVE  entries'[byKey'[q]].key = q
    <3>1. CASE q = p
      BY <1>2, <2>3, <3>1
    <3>2. CASE q # p
      <4>1. byKey'[q] = byKey[q] /\ byKey[q] \in Ids /\ entries[byKey[q]].key = q
        BY <1>0, <2>3, <2>5, <3>2 DEF IndexSound
      <4>2. byKey[q] # 0 /\ byKey[q] # i
        BY <1>1, <1>4, <3>2, <4>1, EmptyFields
      <4> QED
        BY <2>3, <4>1, <4>2
    <3> QED
      BY <3>1, <3>2
  <2> QED
    BY <1>3, <2>2, <2>4, <2>5 DEF IndexSound
<1>5. CASE ~(i # 0 /\ entries[0] = NoKey)
  <2>1. entries' = [entries EXCEPT ![i] = e] /\ UNCHANGED <<byKey, nextID>>
    BY <1>5 DEF Adopt
  <2> HIDE DEF i, e
  <2> QED
    BY <1>1, <1>2, <2>1, KeyChanged
<1> QED
  BY <1>4, <1>5

LEMMA RegisterKeeps ==
  ASSUME IndexInv, NEW p \in Plains, byKey[p] = NoId, Register(p)
  PROVE  /\ entries' \in KeyMap /\ byKey' \in [Plains -> Ids \cup {NoId}]
         /\ IndexSound' /\ nextID' \in Nat \ {0}
<1> USE IdsFacts
<1> DEFINE i == IF entries[0] = NoKey THEN 0 ELSE nextID
           e == FreshKey(p, TRUE)
<1>0. nextID \in Nat \ {0} /\ IndexSound
  BY DEF IndexInv, KeysTyped
<1>1. /\ i \in Ids /\ entries' = [entries EXCEPT ![i] = e] /\ byKey' = [byKey EXCEPT ![p] = i]
      /\ nextID' = IF i = 0 THEN nextID ELSE nextID + 1
  BY DEF Register
<1>2. entries[i] = NoKey
  BY <1>0, <1>1 DEF IndexSound, Held
<1>3. e \in RealKey /\ e.key = p
  BY FreshFields
<1>4. nextID' \in Nat \ {0} /\ nextID' >= nextID /\ nextID' > i
  BY <1>0, <1>1
<1> HIDE DEF i, e
<1>5. byKey' = [byKey EXCEPT ![e.key] = i] /\ byKey[e.key] \in {i, NoId}
  BY <1>1, <1>3
<1>6. /\ entries' \in KeyMap /\ byKey' \in [Plains -> Ids \cup {NoId}]
      /\ IndexSound'
  BY <1>1, <1>2, <1>3, <1>4, <1>5, KeyPut
<1> QED
  BY <1>4, <1>6

LEMMA EnsureKeeps ==
  ASSUME IndexInv, NEW p \in Plains, EnsureSystemKey(p), master' \in Plains \cup {NoKey.key}
  PROVE  IndexInv'
<1>0. KeysTyped /\ IndexSound /\ DocSound
  BY DEF IndexInv
<1>1. /\ entries' \in KeyMap /\ byKey' \in [Plains -> Ids \cup {NoId}]
      /\ IndexSound' /\ nextID' \in Nat \ {0}
  BY <1>0, RegisterKeeps, AdoptKeeps DEF EnsureSystemKey, KeysTyped
<1>2. /\ keyDoc' \in KeyMap /\ DocSound' /\ usageDirty' \in Nat /\ saveLost' \in BOOLEAN
  <2>1. CASE SaveKeys
    BY <1>0, <1>1, <2>1, SavedDoc DEF IndexSound
  <2>2. CASE UNCHANGED <<keyDoc, saveLost, usageDirty>>
    BY <1>0, <2>2 DEF KeysTyped, DocSound
  <2> QED
    BY <2>1, <2>2 DEF EnsureSystemKey
<1> QED
  BY <1>1, <1>2 DEF IndexInv, KeysTyped

LEMMA DeleteKeeps ==
  ASSUME IndexInv, NEW i \in Ids, DeleteKey(i)
  PROVE  IndexInv'
<1> USE IdsFacts
<1> DEFINE p == entries[i].key
<1>0. KeysTyped /\ IndexSound /\ DocSound
  BY DEF IndexInv
<1>1. /\ i \in Held(entries) /\ p \in Plains /\ byKey[p] = i
  BY <1>0, HeldIsReal, KeyFields DEF DeleteKey, Held, IndexSound, KeysTyped
<1>2. /\ entries' = [entries EXCEPT ![i] = NoKey] /\ byKey' = [byKey EXCEPT ![p] = NoId]
      /\ SaveKeys /\ UNCHANGED <<nextID, master>>
  BY DEF DeleteKey
<1> HIDE DEF p
<1>3. entries' \in KeyMap /\ byKey' \in [Plains -> Ids \cup {NoId}]
  BY <1>0, <1>1, <1>2 DEF KeysTyped, KeyMap
<1>4. /\ entries'[i] = NoKey /\ byKey'[p] = NoId
      /\ \A j \in Ids \ {i} : entries'[j] = entries[j]
      /\ \A q \in Plains \ {p} : byKey'[q] = byKey[q]
  BY <1>0, <1>1, <1>2 DEF KeysTyped, KeyMap
<1>5. ASSUME NEW j \in Held(entries')
      PROVE  byKey'[entries'[j].key] = j /\ j < nextID'
  <2>1. j \in Ids /\ j # i /\ j \in Held(entries) /\ entries'[j] = entries[j]
    BY <1>4 DEF Held
  <2>2. byKey[entries[j].key] = j /\ j < nextID /\ entries[j].key \in Plains
    BY <1>0, <2>1, HeldIsReal, KeyFields DEF IndexSound, KeysTyped
  <2>3. entries[j].key # p
    BY <1>1, <2>1, <2>2
  <2> QED
    BY <1>2, <1>4, <2>1, <2>2, <2>3
<1>6. ASSUME NEW q \in Plains, byKey'[q] # NoId
      PROVE  entries'[byKey'[q]].key = q
  <2>1. q # p /\ byKey'[q] = byKey[q] /\ byKey[q] \in Ids /\ entries[byKey[q]].key = q
    BY <1>0, <1>4, <1>6 DEF IndexSound, KeysTyped
  <2>2. byKey[q] # i
    BY <2>1 DEF p
  <2> QED
    BY <1>4, <2>1, <2>2
<1>7. IndexSound'
  BY <1>5, <1>6 DEF IndexSound
<1>8. /\ keyDoc' \in KeyMap /\ DocSound' /\ usageDirty' \in Nat /\ saveLost' \in BOOLEAN
  BY <1>0, <1>2, <1>3, <1>7, SavedDoc DEF IndexSound
<1> QED
  BY <1>0, <1>2, <1>3, <1>7, <1>8 DEF IndexInv, KeysTyped

LEMMA RotateKeeps ==
  ASSUME IndexInv, NEW i \in Ids, RotateKey(i)
  PROVE  IndexInv'
<1> USE IdsFacts
<1> DEFINE old == entries[i].key
<1>0. KeysTyped /\ IndexSound /\ DocSound
  BY DEF IndexInv
<1>1. PICK p \in Plains :
        /\ byKey[p] = NoId
        /\ entries' = [entries EXCEPT ![i].key = p]
        /\ byKey' = [byKey EXCEPT ![old] = NoId, ![p] = i]
  BY DEF RotateKey
<1> DEFINE e == [entries[i] EXCEPT !.key = p]
<1>2. /\ i \in Held(entries) /\ entries[i] \in RealKey /\ old \in Plains /\ byKey[old] = i
      /\ i < nextID
  BY <1>0, HeldIsReal, KeyFields DEF RotateKey, Held, IndexSound, KeysTyped
<1>3. e \in RealKey /\ e.key = p /\ entries' = [entries EXCEPT ![i] = e] /\ p # old
  BY <1>1, <1>2, KeyRotates
<1>4. SaveKeys /\ UNCHANGED <<nextID, master>>
  BY DEF RotateKey
<1> HIDE DEF old, e
<1>5. entries' \in KeyMap /\ byKey' \in [Plains -> Ids \cup {NoId}]
  BY <1>0, <1>1, <1>2, <1>3 DEF KeysTyped, KeyMap
<1>6. /\ entries'[i] = e /\ byKey'[old] = NoId /\ byKey'[p] = i
      /\ \A j \in Ids \ {i} : entries'[j] = entries[j]
      /\ \A q \in Plains \ {old, p} : byKey'[q] = byKey[q]
  BY <1>0, <1>1, <1>2, <1>3 DEF KeysTyped, KeyMap
<1>7. ASSUME NEW j \in Held(entries')
      PROVE  byKey'[entries'[j].key] = j /\ j < nextID'
  <2>1. CASE j = i
    BY <1>2, <1>3, <1>4, <1>6, <2>1
  <2>2. CASE j # i
    <3>1. j \in Ids /\ j \in Held(entries) /\ entries'[j] = entries[j]
      BY <1>6, <2>2 DEF Held
    <3>2. byKey[entries[j].key] = j /\ j < nextID /\ entries[j].key \in Plains
      BY <1>0, <3>1, HeldIsReal, KeyFields DEF IndexSound, KeysTyped
    <3>3. entries[j].key # old /\ entries[j].key # p
      BY <1>1, <1>2, <2>2, <3>1, <3>2
    <3> QED
      BY <1>4, <1>6, <3>1, <3>2, <3>3
  <2> QED
    BY <2>1, <2>2
<1>8. ASSUME NEW q \in Plains, byKey'[q] # NoId
      PROVE  entries'[byKey'[q]].key = q
  <2>1. CASE q = p
    BY <1>3, <1>6, <2>1
  <2>2. CASE q # p
    <3>1. q # old /\ byKey'[q] = byKey[q] /\ byKey[q] \in Ids /\ entries[byKey[q]].key = q
      BY <1>0, <1>6, <1>8, <2>2 DEF IndexSound, KeysTyped
    <3>2. byKey[q] # i
      BY <3>1 DEF old
    <3> QED
      BY <1>6, <3>1, <3>2
  <2> QED
    BY <2>1, <2>2
<1>9. IndexSound'
  BY <1>7, <1>8 DEF IndexSound
<1>10. /\ keyDoc' \in KeyMap /\ DocSound' /\ usageDirty' \in Nat /\ saveLost' \in BOOLEAN
  BY <1>0, <1>4, <1>5, <1>9, SavedDoc DEF IndexSound
<1> QED
  BY <1>0, <1>4, <1>5, <1>9, <1>10 DEF IndexInv, KeysTyped

(* What is counted of a key is no business of the index.                     *)
LEMMA CountersKeep ==
  ASSUME IndexInv, NEW i \in Ids, ResetStats(i) \/ RecordUsage(i)
  PROVE  IndexInv' /\ entries[i] # NoKey
<1>0. KeysTyped /\ IndexSound /\ DocSound
  BY DEF IndexInv
<1>1. entries[i] # NoKey
  BY KeysAssumption, EmptyFields DEF ResetStats, RecordUsage
<1>2. entries[i].uses \in Nat
  BY <1>0, <1>1, HeldIsReal, KeyFields DEF KeysTyped, Held
<1>3. PICK k \in Nat : entries' = [entries EXCEPT ![i].uses = k]
  BY <1>2 DEF ResetStats, RecordUsage
<1>4. UNCHANGED <<byKey, nextID, master>>
  BY DEF ResetStats, RecordUsage
<1>5. /\ entries' \in KeyMap /\ byKey' \in [Plains -> Ids \cup {NoId}]
      /\ IndexSound'
  BY <1>1, <1>3, <1>4, UsesKeep
<1>6. SaveKeys \/ (usageDirty' = usageDirty + 1 /\ UNCHANGED <<keyDoc, saveLost>>)
  BY DEF ResetStats, RecordUsage
<1>7. /\ keyDoc' \in KeyMap /\ DocSound' /\ usageDirty' \in Nat /\ saveLost' \in BOOLEAN
  BY <1>0, <1>5, <1>6, SavedDoc DEF IndexSound, KeysTyped, DocSound
<1> QED
  BY <1>0, <1>1, <1>4, <1>5, <1>7 DEF IndexInv, KeysTyped

LEMMA LoadedKeeps == IndexInv /\ Loaded => IndexInv'
<1> SUFFICES ASSUME IndexInv, Loaded PROVE IndexInv'
  OBVIOUS
<1> USE IdsFacts
<1> DEFINE H == Held(keyDoc)
<1>0. KeysTyped /\ IndexSound /\ DocSound
  BY DEF IndexInv
<1>1. /\ entries' = keyDoc /\ keyDoc' = keyDoc /\ master' = master
      /\ nextID' = Max(H \cup {0}) + 1 /\ usageDirty' = 0 /\ saveLost' = FALSE
      /\ byKey' = [p \in Plains |-> IF \E i \in H : keyDoc[i].key = p
                                    THEN CHOOSE i \in H : keyDoc[i].key = p ELSE NoId]
  BY DEF Loaded
<1>2. H \in SUBSET Ids
  BY DEF Held
<1>3. Max(H \cup {0}) \in Ids /\ \A i \in H : i <= Max(H \cup {0})
  BY <1>2, MaxOfBounded, KeysAssumption DEF Ids
<1>4. nextID' \in Nat \ {0} /\ \A i \in H : i < nextID'
  <2>1. PICK m \in Ids : m = Max(H \cup {0})
    BY <1>3
  <2>2. nextID' = m + 1 /\ m \in Nat /\ \A i \in H : i \in Nat /\ i <= m
    BY <1>1, <1>2, <1>3, <2>1
  <2> HIDE DEF H
  <2> QED
    BY <2>2
<1>5. ASSUME NEW p \in Plains
      PROVE  \/ byKey'[p] = NoId /\ ~\E i \in H : keyDoc[i].key = p
             \/ byKey'[p] \in H /\ keyDoc[byKey'[p]].key = p
  <2>1. CASE \E i \in H : keyDoc[i].key = p
    <3> DEFINE c == CHOOSE i \in H : keyDoc[i].key = p
    <3>1. c \in H /\ keyDoc[c].key = p
      BY <2>1
    <3>2. byKey'[p] = c
      BY <1>1, <2>1
    <3> QED
      BY <3>1, <3>2
  <2>2. CASE ~\E i \in H : keyDoc[i].key = p
    BY <1>1, <2>2
  <2> QED
    BY <2>1, <2>2
<1>6. byKey' \in [Plains -> Ids \cup {NoId}]
  <2>1. byKey' = [p \in Plains |-> byKey'[p]]
    BY <1>1
  <2> QED
    BY <1>2, <1>5, <2>1
<1>7. \A i \in H : byKey'[keyDoc[i].key] = i
  <2>1. SUFFICES ASSUME NEW i \in H PROVE byKey'[keyDoc[i].key] = i
    OBVIOUS
  <2>2. keyDoc[i].key \in Plains
    BY <1>0, <1>2, HeldIsReal, KeyFields DEF KeysTyped
  <2>3. byKey'[keyDoc[i].key] \in H /\ keyDoc[byKey'[keyDoc[i].key]].key = keyDoc[i].key
    BY <1>5, <2>2
  <2> QED
    BY <1>0, <2>3 DEF DocSound
<1>8. IndexSound'
  BY <1>1, <1>4, <1>5, <1>7 DEF IndexSound
<1>9. DocSound'
  BY <1>0, <1>1 DEF DocSound
<1> QED
  BY <1>0, <1>1, <1>4, <1>6, <1>8, <1>9 DEF IndexInv, KeysTyped

LEMMA IndexInvInit == KeysInit => IndexInv
<1> SUFFICES ASSUME KeysInit PROVE IndexInv
  OBVIOUS
<1>1. KeysTyped
  <2>1. [i \in Ids |-> NoKey] \in KeyMap
    BY DEF KeyMap
  <2>2. entries \in KeyMap /\ keyDoc \in KeyMap
    BY <2>1 DEF KeysInit
  <2>3. byKey \in [Plains -> Ids \cup {NoId}]
    <3>1. byKey = [p \in Plains |-> NoId]
      BY DEF KeysInit
    <3> QED
      BY <3>1, Zenon
  <2>4. nextID \in Nat \ {0} /\ usageDirty \in Nat /\ saveLost \in BOOLEAN
    <3>1. nextID = 1 /\ usageDirty = 0 /\ saveLost = FALSE
      BY DEF KeysInit
    <3>2. nextID \in Nat \ {0} /\ usageDirty \in Nat
      BY <3>1
    <3>3. saveLost \in BOOLEAN
      BY <3>1, Zenon
    <3> QED
      BY <3>2, <3>3
  <2>5. master \in Plains \cup {NoKey.key}
    BY DEF KeysInit
  <2> QED
    BY <2>2, <2>3, <2>4, <2>5 DEF KeysTyped
<1>2. Held(entries) = {} /\ keyDoc = entries
  BY DEF KeysInit, Held
<1>3. IndexSound /\ DocSound
  BY <1>2 DEF KeysInit, IndexSound, DocSound
<1> QED
  BY <1>1, <1>3 DEF IndexInv

LEMMA FlushKeeps == IndexInv /\ FlushKeys => IndexInv'
<1> SUFFICES ASSUME IndexInv, FlushKeys PROVE IndexInv'
  OBVIOUS
<1>0. KeysTyped /\ IndexSound /\ DocSound
  BY DEF IndexInv
<1>1. UNCHANGED <<entries, byKey, nextID, master>> /\ SaveKeys
  BY DEF FlushKeys
<1>2. IndexSound' /\ entries' \in KeyMap
  BY <1>0, <1>1 DEF IndexSound, KeysTyped
<1>3. /\ keyDoc' \in KeyMap /\ DocSound' /\ usageDirty' \in Nat /\ saveLost' \in BOOLEAN
  BY <1>0, <1>1, <1>2, SavedDoc DEF IndexSound
<1> QED
  BY <1>0, <1>1, <1>2, <1>3 DEF IndexInv, KeysTyped

LEMMA IndexInvStep == IndexInv /\ [KeysNext]_keyVars => IndexInv'
<1> SUFFICES ASSUME IndexInv, [KeysNext]_keyVars PROVE IndexInv'
  OBVIOUS
<1>0. master \in Plains \cup {NoKey.key}
  BY DEF IndexInv, KeysTyped
<1>1. CASE SetMaster
  <2>1. PICK p \in Plains : EnsureSystemKey(p) /\ master' = p
    BY <1>1 DEF SetMaster
  <2> QED
    BY <2>1, EnsureKeeps
<1>2. CASE BootKeys
  <2>1. master \in Plains /\ EnsureSystemKey(master) /\ master' = master
    BY <1>0, <1>2 DEF BootKeys
  <2> QED
    BY <2>1, EnsureKeeps
<1>3. CASE UNCHANGED keyVars
  BY <1>3 DEF keyVars, IndexInv, KeysTyped, IndexSound, DocSound
<1> QED
  BY <1>1, <1>2, <1>3, CreateKeeps, FlushKeeps, LoadedKeeps, DeleteKeeps, RotateKeeps,
     CountersKeep
     DEF KeysNext

(* What is not written of each key.                                          *)
GapOf(es, doc) == [i \in Ids |-> es[i].uses - doc[i].uses]

LEMMA UnwrittenIsSum == Unwritten = SumOf(GapOf(entries, keyDoc), Held(entries))
<1> DEFINE H == Held(entries)
           Gap == GapOf(entries, keyDoc)
           raw(g) == g = [s \in SUBSET H |-> IF s = {} THEN 0
                          ELSE (entries[OneOf(s)].uses - keyDoc[OneOf(s)].uses)
                               + g[s \ {OneOf(s)}]]
           c == CHOOSE g : raw(g)
<1>1. H \in SUBSET Ids /\ IsFiniteSet(H)
  <2>1. IsFiniteSet(0..MaxKeyId)
    BY KeysAssumption, FS_Interval
  <2>2. H \in SUBSET (0..MaxKeyId)
    BY DEF Held, Ids
  <2> QED
    BY <2>1, <2>2, FS_Subset DEF Ids
<1>2. \A s \in SUBSET H : s # {} =>
        Gap[OneOf(s)] = entries[OneOf(s)].uses - keyDoc[OneOf(s)].uses
  <2>1. \A s \in SUBSET H : s # {} => OneOf(s) \in Ids
    BY <1>1 DEF OneOf
  <2> QED
    BY <2>1 DEF GapOf
<1>3. \A g : raw(g) <=> SumTable(Gap, g, H)
  BY <1>2 DEF SumTable
<1>4. \E g : raw(g)
  BY <1>1, <1>3, TableExists
<1>5. SumTable(Gap, c, H)
  BY <1>3, <1>4
<1>6. Unwritten = c[H]
  BY DEF Unwritten, MapThenSumSet, MapThenFoldSet, OneOf
<1> QED
  BY <1>1, <1>5, <1>6, TableHasSums

LEMMA UnwrittenIsSumNext == Unwritten' = SumOf(GapOf(entries', keyDoc'), Held(entries'))
<1>1. (Unwritten = SumOf(GapOf(entries, keyDoc), Held(entries)))'
  BY UnwrittenIsSum, PTL
<1>2. SumOf(GapOf(entries, keyDoc), Held(entries))' = SumOf(GapOf(entries', keyDoc'), Held(entries'))
  BY DEF SumOf, MapThenSumSet, MapThenFoldSet, GapOf, Held
<1> QED
  BY <1>1, <1>2

LEMMA HeldIsFinite == \A es : Held(es) \in SUBSET Ids /\ IsFiniteSet(Held(es))
<1>1. SUFFICES ASSUME NEW es PROVE Held(es) \in SUBSET Ids /\ IsFiniteSet(Held(es))
  OBVIOUS
<1>2. Held(es) \in SUBSET (0..MaxKeyId)
  BY DEF Held, Ids
<1>3. IsFiniteSet(0..MaxKeyId)
  BY KeysAssumption, FS_Interval
<1> QED
  BY <1>2, <1>3, FS_Subset DEF Ids

LEMMA UsesAreNat ==
  ASSUME NEW es \in KeyMap
  PROVE  \A i \in Ids : es[i].uses \in Nat
<1>1. SUFFICES ASSUME NEW i \in Ids PROVE es[i].uses \in Nat
  OBVIOUS
<1>2. es[i] \in RealKey \/ es[i] = NoKey
  BY DEF KeyMap
<1> QED
  BY <1>2, KeyFields, EmptyFields

(* Nothing is unwritten of a list that is the stored one.                    *)
LEMMA SavedIsWritten ==
  ASSUME entries' \in KeyMap, keyDoc' = entries'
  PROVE  Unwritten' = 0
<1> DEFINE H == Held(entries')
           G == GapOf(entries', keyDoc')
<1>1. Unwritten' = SumOf(G, H)
  BY UnwrittenIsSumNext
<1>2. \A i \in H : G[i] = 0
  BY UsesAreNat, HeldIsFinite DEF GapOf
<1>3. IsFiniteSet(H) /\ \A i \in H : G[i] \in Int
  BY <1>2, HeldIsFinite
<1> HIDE DEF H, G
<1>4. SumOf(G, H) = SumOf(G, {})
  BY <1>2, <1>3, SumDropsZeros
<1> QED
  BY <1>1, <1>4, SumEmpty

LEMMA SaveCounts ==
  ASSUME entries' \in KeyMap, SaveKeys
  PROVE  CountInv'
<1>1. usageDirty' = 0 /\ 0 < FlushEvery
  BY KeysAssumption DEF SaveKeys
<1>2. saveLost' \/ keyDoc' = entries'
  BY DEF SaveKeys
<1> QED
  BY <1>1, <1>2, SavedIsWritten DEF CountInv

(* A use that is not written yet.                                            *)
LEMMA UseCounts ==
  ASSUME IndexInv, NEW i \in Ids, entries[i] # NoKey, UNCHANGED keyDoc,
         entries' = [entries EXCEPT ![i].uses = @ + 1]
  PROVE  Unwritten' = Unwritten + 1
<1> DEFINE H == Held(entries)
           G == GapOf(entries, keyDoc)
           K == GapOf(entries', keyDoc')
           e == [entries[i] EXCEPT !.uses = @ + 1]
<1>0. entries \in KeyMap /\ keyDoc \in KeyMap
  BY DEF IndexInv, KeysTyped
<1>1. entries[i] \in RealKey /\ entries[i].uses \in Nat /\ i \in H
  BY <1>0, HeldIsReal, KeyFields DEF Held
<1>2. e \in RealKey /\ e.uses = entries[i].uses + 1
  <2>1. entries[i].uses + 1 \in Nat
    BY <1>1
  <2> QED
    BY <1>1, <2>1, KeyCounts
<1>3. entries' = [entries EXCEPT ![i] = e]
  OBVIOUS
<1> HIDE DEF e
<1>4. /\ entries' \in KeyMap /\ entries'[i] = e
      /\ \A j \in Ids \ {i} : entries'[j] = entries[j]
  BY <1>0, <1>2, <1>3 DEF KeyMap
<1>5. Held(entries') = H
  BY <1>2, <1>4, KeyFields DEF Held
<1>6. /\ \A j \in H : G[j] \in Int
      /\ \A j \in H \ {i} : K[j] = G[j]
      /\ K[i] = G[i] + 1
  <2>1. \A j \in Ids : entries[j].uses \in Nat /\ keyDoc[j].uses \in Nat
    BY <1>0, UsesAreNat
  <2>2. \A j \in Ids : G[j] = entries[j].uses - keyDoc[j].uses
    BY DEF GapOf
  <2>3. \A j \in Ids : K[j] = entries'[j].uses - keyDoc[j].uses
    BY DEF GapOf
  <2>4. H \in SUBSET Ids
    BY HeldIsFinite
  <2> HIDE DEF G, K, H
  <2> QED
    BY <1>2, <1>4, <2>1, <2>2, <2>3, <2>4
<1>7. IsFiniteSet(H)
  BY HeldIsFinite
<1>8. Unwritten = SumOf(G, H) /\ Unwritten' = SumOf(K, H)
  BY <1>5, UnwrittenIsSum, UnwrittenIsSumNext
<1> HIDE DEF H, G, K
<1>9. SumOf(K, H) = SumOf(G, H) + 1
  <2>1. 1 \in Int
    OBVIOUS
  <2> QED
    BY <1>1, <1>6, <1>7, <2>1, SumBump, Zenon
<1> QED
  BY <1>8, <1>9

LEMMA RecordCounts ==
  ASSUME IndexInv, IndexInv', CountInv, NEW i \in Ids, RecordUsage(i)
  PROVE  CountInv'
<1>1. CASE FlushDue(usageDirty + 1)
  BY <1>1, SaveCounts DEF RecordUsage, IndexInv, KeysTyped
<1>2. CASE ~FlushDue(usageDirty + 1)
  <2>1. /\ usageDirty' = usageDirty + 1 /\ UNCHANGED <<keyDoc, saveLost>>
        /\ entries[i] # NoKey /\ entries' = [entries EXCEPT ![i].uses = @ + 1]
    BY <1>2 DEF RecordUsage
  <2>2. Unwritten' = Unwritten + 1
    BY <2>1, UseCounts
  <2>3. usageDirty \in Nat /\ usageDirty + 1 < FlushEvery
    BY <1>2, KeysAssumption DEF FlushDue, IndexInv, KeysTyped
  <2> QED
    BY <2>1, <2>2, <2>3 DEF CountInv
<1> QED
  BY <1>1, <1>2

LEMMA CountInvInit == KeysInit => CountInv
<1> SUFFICES ASSUME KeysInit PROVE CountInv
  OBVIOUS
<1>1. usageDirty = 0 /\ Held(entries) = {}
  BY DEF KeysInit, Held
<1>2. Unwritten = 0
  BY <1>1, UnwrittenIsSum, SumEmpty
<1> QED
  BY <1>1, <1>2, KeysAssumption DEF CountInv

LEMMA CountInvStep ==
  IndexInv /\ IndexInv' /\ CountInv /\ [KeysNext]_keyVars => CountInv'
<1> SUFFICES ASSUME IndexInv, IndexInv', CountInv, [KeysNext]_keyVars PROVE CountInv'
  OBVIOUS
<1>1. entries' \in KeyMap
  BY DEF IndexInv, KeysTyped
<1>2. CASE SaveKeys
  BY <1>1, <1>2, SaveCounts
<1>3. ASSUME NEW i \in Ids, RecordUsage(i)
      PROVE  CountInv'
  BY <1>3, RecordCounts
<1>4. CASE Loaded
  <2>1. keyDoc' = entries' /\ usageDirty' = 0
    BY <1>4 DEF Loaded
  <2> QED
    BY <1>1, <2>1, SavedIsWritten, KeysAssumption DEF CountInv
<1>5. CASE UNCHANGED <<usageDirty, saveLost, entries, keyDoc>>
  <2>1. UNCHANGED <<usageDirty, saveLost, entries, keyDoc>>
    BY <1>5
  <2>2. Unwritten' = Unwritten
    BY <2>1, UnwrittenIsSum, UnwrittenIsSumNext
  <2> QED
    BY <2>1, <2>2 DEF CountInv
<1> QED
  BY <1>2, <1>3, <1>4, <1>5
     DEF KeysNext, CreateKey, SetMaster, BootKeys, EnsureSystemKey, FlushKeys, DeleteKey,
         RotateKey, ResetStats, keyVars

(* The two maps of the store index each other, and while no save has failed  *)
(* a crash loses fewer uses than the threshold: through moves of the master  *)
(* key, rotations, deletions, lost saves and restarts, for any plaintexts,   *)
(* ids and threshold.                                                        *)
THEOREM KeysAreKept == KeysSpec => []KeysKept
<1>1. KeysInit => IndexInv /\ CountInv
  BY IndexInvInit, CountInvInit
<1>2. IndexInv /\ CountInv /\ [KeysNext]_keyVars => IndexInv' /\ CountInv'
  BY IndexInvStep, CountInvStep
<1>3. IndexInv /\ CountInv => KeysKept
  <2> SUFFICES ASSUME IndexInv, CountInv PROVE KeysKept
    OBVIOUS
  <2>1. IndexSound
    BY DEF IndexInv
  <2>2. ASSUME ~saveLost
        PROVE  Unwritten < FlushEvery
    BY <2>2 DEF CountInv
  <2> QED
    BY <2>1, <2>2 DEF KeysKept, LossBounded
<1> QED
  BY <1>1, <1>2, <1>3, PTL DEF KeysSpec
-----------------------------------------------------------------------------
(* The behaviours of MCServices are behaviours of each service.              *)

LEMMA RunIsStore == Spec => StoreSpec
<1>1. Init => StoreInit
  BY DEF Init
<1>2. [Next]_vars => [StoreNext]_storeVars
  BY DEF Next, vars, Pool, Work, Batch, Key, Group, StoreNext
<1> QED
  BY <1>1, <1>2, PTL DEF Spec, StoreSpec

LEMMA RunIsTasks == Spec => TasksSpec
<1>1. Init => TasksInit
  BY DEF Init
<1>2. [Next]_vars => [TasksNext]_jobVars
  BY DEF Next, vars, Pool, Work, Batch, Key, Group, TasksNext, RunStep
<1> QED
  BY <1>1, <1>2, PTL DEF Spec, TasksSpec

LEMMA RunIsKeys == Spec => KeysSpec
<1>1. Init => KeysInit
  BY DEF Init
<1>2. [Next]_vars => [KeysNext]_keyVars
  BY DEF Next, vars, Pool, Work, Batch, Key, Group, KeysNext
<1> QED
  BY <1>1, <1>2, PTL DEF Spec, KeysSpec

LEMMA RunIsGroups == Spec => GroupsSpec
<1>1. Init => GroupsInit
  BY DEF Init
<1>2. [Next]_vars => [GroupsNext]_groupVars
  BY DEF Next, vars, Pool, Work, Batch, Key, Group, GroupsNext
<1> QED
  BY <1>1, <1>2, PTL DEF Spec, GroupsSpec

(* In the behaviours that the run explores the services keep what each       *)
(* promises: the documents of settled accounts, the maps of the keys, the    *)
(* reach of a group that is renamed, and the order of the slots.             *)
THEOREM ServicesKeep ==
  Spec => /\ []CleanMeansStored /\ []KeysKept /\ []RenameKeepsReach
          /\ RunnerIsSemaphore
BY RunIsStore, RunIsTasks, RunIsKeys, RunIsGroups, SettledIsStored, KeysAreKept,
   RenamesKeepReach, RunnerImplementsSemaphore
=============================================================================
