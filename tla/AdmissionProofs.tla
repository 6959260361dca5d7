--------------------------- MODULE AdmissionProofs ---------------------------
(* Proofs about the HTTP layer: the entry gate, the storm breaker, the       *)
(* replies of the two chat handlers, the emulated prompt cache.              *)
EXTENDS MCAdmission, SumProofs, TLAPS, FiniteSetTheorems, SequenceTheorems

-----------------------------------------------------------------------------
(* The entry gate (EntryGate).                                               *)

(* Who has put a token into a channel and not yet taken one out.             *)
Owing == {h \in Handlers : slot[h] \in Gates /\ at[h] \in {"serve", "release"}}

(* One handler at a time replaces a channel, which has a successor; who      *)
(* waits, or gives a token back, has a channel.                              *)
GateShape ==
  /\ due => gate < MaxGates
  /\ \A h, k \in Handlers : at[h] = "drain" /\ at[k] = "drain" => h = k
  /\ \A h \in Handlers :
       /\ at[h] = "drain" => gate > 0 /\ due
       /\ at[h] \in {"wait", "release"} => slot[h] \in Gates

(* Until the first channel is replaced its tokens are those of its holders.  *)
FirstChannel ==
  ~Resized =>
    /\ \A h \in Handlers : slot[h] <= gate
    /\ gate = 0 => \A g \in Gates : tokens[g] = 0
    /\ gate = 1 => tokens[1] = Cardinality(HoldersOf(1)) /\ tokens[1] <= size[1]

GateInv ==
  /\ GateTypeOK /\ GateShape /\ FirstChannel
  /\ SumOf(tokens, Gates) <= Cardinality(Owing)

LEMMA GatesFacts ==
  /\ IsFiniteSet(Gates) /\ 1 \in Gates /\ 0 \notin Gates /\ MaxGates \in Nat
  /\ \A g \in 0..MaxGates : g # 0 => g \in Gates
  /\ \A g \in Gates : g \in Nat /\ g > 0 /\ g <= MaxGates
<1>1. IsFiniteSet(1..MaxGates)
  BY EntryGateAssumption, FS_Interval
<1> QED
  BY <1>1, EntryGateAssumption DEF Gates

LEMMA HoldersFinite ==
  /\ IsFiniteSet(Owing) /\ Cardinality(Owing) \in Nat
  /\ \A g : IsFiniteSet(HoldersOf(g)) /\ Cardinality(HoldersOf(g)) \in Nat
<1>1. Owing \subseteq Handlers /\ \A g : HoldersOf(g) \subseteq Handlers
  BY DEF Owing, HoldersOf
<1> QED
  BY <1>1, EntryGateAssumption, FS_Subset, FS_CardinalityType

LEMMA TokensSum ==
  ASSUME GateTypeOK
  PROVE  SumOf(tokens, Gates) \in Nat
<1>1. \A g \in Gates : tokens[g] \in Int /\ tokens[g] >= 0
  BY DEF GateTypeOK
<1>2. SumOf(tokens, Gates) \in Int /\ SumOf(tokens, Gates) >= 0
  BY <1>1, GatesFacts, SumType
<1> QED
  BY <1>2

LEMMA TokensBump ==
  ASSUME GateTypeOK, NEW g \in Gates, NEW d \in Int
  PROVE  SumOf([tokens EXCEPT ![g] = @ + d], Gates) = SumOf(tokens, Gates) + d
<1> DEFINE u == [tokens EXCEPT ![g] = @ + d]
<1>1. /\ \A k \in Gates : tokens[k] \in Int
      /\ \A k \in Gates \ {g} : u[k] = tokens[k]
      /\ u[g] = tokens[g] + d
  BY DEF GateTypeOK
<1>2. IsFiniteSet(Gates)
  BY GatesFacts
<1> HIDE DEF u
<1>3. SumOf(u, Gates) = SumOf(tokens, Gates) + d
  BY <1>1, <1>2, SumBump
<1> QED
  BY <1>3 DEF u

LEMMA GateInvInit == GateInit => GateInv
<1> SUFFICES ASSUME GateInit PROVE GateInv
  OBVIOUS
<1> USE GatesFacts
<1>1. GateTypeOK
  BY EntryGateAssumption DEF GateInit, GateTypeOK
<1>2. GateShape
  BY EntryGateAssumption DEF GateInit, GateShape
<1>3. FirstChannel
  BY DEF GateInit, FirstChannel
<1>4. SumOf(tokens, Gates) = SumOf(tokens, {})
  <2>1. \A g \in Gates : tokens[g] = 0
    BY DEF GateInit
  <2> QED
    BY <2>1, SumDropsZeros
<1>5. SumOf(tokens, Gates) = 0
  BY <1>4, SumEmpty
<1> QED
  BY <1>1, <1>2, <1>3, <1>5, HoldersFinite DEF GateInv

(* A step that moves no token and makes or unmakes no holder.                *)
LEMMA NobodyMoves ==
  ASSUME GateInv, UNCHANGED tokens, GateTypeOK',
         \A k \in Handlers : /\ at'[k] \in {"serve", "release"} /\ slot'[k] \in Gates
                                  => at[k] \in {"serve", "release"} /\ slot'[k] = slot[k]
                             /\ at[k] \in {"serve", "release"} /\ slot[k] \in Gates
                                  => at'[k] \in {"serve", "release"} /\ slot'[k] = slot[k]
  PROVE  /\ SumOf(tokens', Gates) <= Cardinality(Owing')
         /\ \A g \in Gates : HoldersOf(g)' = HoldersOf(g)
<1>1. Owing' = Owing
  BY DEF Owing
<1>2. \A g \in Gates : HoldersOf(g)' = HoldersOf(g)
  BY DEF HoldersOf
<1> QED
  BY <1>1, <1>2 DEF GateInv

LEMMA WantKeeps ==
  ASSUME GateInv, Reconfigure \/ Recheck
  PROVE  GateInv'
<1> USE GatesFacts
<1>0. GateTypeOK /\ GateShape /\ FirstChannel
  BY DEF GateInv
<1>1. UNCHANGED <<gate, size, tokens, at, slot>> /\ GateTypeOK'
  BY <1>0 DEF Reconfigure, Recheck, GateTypeOK
<1>2. GateShape'
  BY <1>0 DEF Reconfigure, Recheck, GateShape
<1>3. FirstChannel'
  BY <1>0, <1>1 DEF FirstChannel, Resized, MutexFree, HoldersOf
<1>4. SumOf(tokens', Gates) <= Cardinality(Owing')
  BY <1>1, NobodyMoves
<1> QED
  BY <1>1, <1>2, <1>3, <1>4 DEF GateInv

(* A handler moves on, outside the gate's own bookkeeping.                   *)
LEMMA WalksKeep ==
  ASSUME GateInv, NEW h \in Handlers, ArriveAtGate(h) \/ GiveUp(h) \/ RequestServed(h)
  PROVE  GateInv'
<1> USE GatesFacts
<1>0. GateTypeOK /\ GateShape /\ FirstChannel
  BY DEF GateInv
<1>1. UNCHANGED <<due, gate, size, tokens>> /\ GateTypeOK'
  BY <1>0 DEF ArriveAtGate, GiveUp, RequestServed, Goto, GateTypeOK
<1>2. /\ at[h] \in {"idle", "wait", "serve"} /\ at'[h] \in {"enter", "idle", "release"}
      /\ at'[h] = "release" <=> at[h] = "serve" /\ slot[h] # 0
      /\ \A k \in Handlers \ {h} : at'[k] = at[k] /\ slot'[k] = slot[k]
      /\ slot'[h] \in {slot[h], 0} /\ (at[h] = "serve" => slot'[h] = slot[h])
  BY <1>0 DEF ArriveAtGate, GiveUp, RequestServed, Goto, GateTypeOK
<1>3. GateShape'
  BY <1>0, <1>1, <1>2 DEF GateShape, GateTypeOK
<1>4. \A k \in Handlers :
        /\ at'[k] \in {"serve", "release"} /\ slot'[k] \in Gates
             => at[k] \in {"serve", "release"} /\ slot'[k] = slot[k]
        /\ at[k] \in {"serve", "release"} /\ slot[k] \in Gates
             => at'[k] \in {"serve", "release"} /\ slot'[k] = slot[k]
  BY <1>2
<1>5. /\ SumOf(tokens', Gates) <= Cardinality(Owing')
      /\ \A g \in Gates : HoldersOf(g)' = HoldersOf(g)
  BY <1>1, <1>4, NobodyMoves
<1>6. FirstChannel'
  <2>1. SUFFICES ASSUME ~Resized' PROVE
          /\ \A k \in Handlers : slot'[k] <= gate'
          /\ gate' = 0 => \A g \in Gates : tokens'[g] = 0
          /\ gate' = 1 => tokens'[1] = Cardinality(HoldersOf(1)') /\ tokens'[1] <= size'[1]
    BY DEF FirstChannel
  <2>2. ~Resized
    BY <1>1, <1>2, <2>1 DEF Resized, MutexFree
  <2>3. \A k \in Handlers : slot'[k] <= gate'
    BY <1>0, <1>1, <1>2, <2>2 DEF FirstChannel, GateTypeOK
  <2> QED
    BY <1>0, <1>1, <1>5, <2>2, <2>3 DEF FirstChannel
<1> QED
  BY <1>1, <1>3, <1>5, <1>6 DEF GateInv

LEMMA EnterKeeps ==
  ASSUME GateInv, NEW h \in Handlers, Enter(h)
  PROVE  GateInv'
<1> USE GatesFacts
<1>0. GateTypeOK /\ GateShape /\ FirstChannel /\ at[h] = "enter" /\ MutexFree
      /\ UNCHANGED <<want, tokens>>
  BY DEF GateInv, Enter
<1>a. want \in Capacities /\ size \in [Gates -> Capacities \cup {0}] /\ gate \in 0..MaxGates
      /\ at \in [Handlers -> {"idle", "enter", "drain", "wait", "serve", "release"}]
      /\ slot \in [Handlers -> 0..MaxGates]
  BY <1>0 DEF GateTypeOK
<1>b. size' \in [Gates -> Capacities \cup {0}]
  <2>1. \A g : [size EXCEPT ![g] = want] \in [Gates -> Capacities \cup {0}]
    BY <1>a
  <2> QED
    BY <1>a, <2>1 DEF Enter
<1>c. due' \in BOOLEAN /\ gate' \in 0..MaxGates
  <2>1. 1 \in 0..MaxGates /\ due \in BOOLEAN
    BY <1>0 DEF GateTypeOK
  <2>2. due' = due \/ due' = FALSE
    BY DEF Enter
  <2>3. gate' = gate \/ gate' = 1
    BY DEF Enter
  <2> QED
    BY <1>a, <2>1, <2>2, <2>3, Zenon
<1>d. \E l \in {"wait", "drain", "serve"} : at' = [at EXCEPT ![h] = l]
  BY DEF Enter, Goto
<1>e. slot' = slot \/ \E g \in 0..MaxGates : slot' = [slot EXCEPT ![h] = g]
  BY <1>a DEF Enter
<1>f. at' \in [Handlers -> {"idle", "enter", "drain", "wait", "serve", "release"}]
      /\ slot' \in [Handlers -> 0..MaxGates]
  BY <1>a, <1>d, <1>e
<1>1. /\ GateTypeOK'
      /\ \A k \in Handlers \ {h} : at'[k] = at[k] /\ slot'[k] = slot[k]
      /\ at'[h] \in {"wait", "drain", "serve"}
      /\ at'[h] = "serve" => slot'[h] = 0
  <2>1. GateTypeOK'
    BY <1>0, <1>b, <1>c, <1>f DEF GateTypeOK
  <2>2. \A k \in Handlers \ {h} : at'[k] = at[k] /\ slot'[k] = slot[k]
    BY <1>a, <1>d, <1>e
  <2>3. at'[h] \in {"wait", "drain", "serve"}
    BY <1>a, <1>d
  <2>4. at'[h] = "serve" => slot'[h] = 0
    BY <1>a DEF Enter, Goto
  <2> QED
    BY <2>1, <2>2, <2>3, <2>4
<1>2. GateShape'
  BY <1>0, <1>1, EntryGateAssumption DEF GateShape, Enter, Goto, GateTypeOK, MutexFree
<1>3. \A k \in Handlers :
        /\ at'[k] \in {"serve", "release"} /\ slot'[k] \in Gates
             => at[k] \in {"serve", "release"} /\ slot'[k] = slot[k]
        /\ at[k] \in {"serve", "release"} /\ slot[k] \in Gates
             => at'[k] \in {"serve", "release"} /\ slot'[k] = slot[k]
  BY <1>0, <1>1
<1>4. /\ SumOf(tokens', Gates) <= Cardinality(Owing')
      /\ \A g \in Gates : HoldersOf(g)' = HoldersOf(g)
  BY <1>0, <1>1, <1>3, NobodyMoves
<1>5. FirstChannel'
  <2>1. SUFFICES ASSUME ~Resized' PROVE
          /\ \A k \in Handlers : slot'[k] <= gate'
          /\ gate' = 0 => \A g \in Gates : tokens'[g] = 0
          /\ gate' = 1 => tokens'[1] = Cardinality(HoldersOf(1)') /\ tokens'[1] <= size'[1]
    BY DEF FirstChannel
  <2>2. at'[h] # "drain" /\ gate' \in {0, 1}
    BY <1>1, <2>1 DEF Resized, MutexFree, GateTypeOK
  <2>3. CASE gate = 0 /\ gate' = 1
    <3>1. ~Resized /\ slot'[h] = 1
      BY <1>0, <2>2, <2>3 DEF Resized, Enter, GateTypeOK
    <3>2. \A k \in Handlers : slot[k] = 0
      BY <1>0, <2>3, <3>1 DEF FirstChannel, GateTypeOK
    <3>3. HoldersOf(1) = {} /\ tokens[1] = 0
      BY <1>0, <2>3, <3>1, <3>2 DEF FirstChannel, HoldersOf
    <3>4. HoldersOf(1)' = {} /\ tokens'[1] = 0
      BY <1>0, <1>4, <3>3
    <3>5. size'[1] \in Nat
      <4>1. 1 \in Gates /\ 0 \in Nat /\ \A c \in Capacities : c \in Nat
        BY EntryGateAssumption
      <4>2. size'[1] \in Capacities \cup {0}
        BY <1>b, <4>1, Zenon
      <4> QED
        BY <4>1, <4>2, Zenon
    <3> QED
      BY <1>1, <2>3, <3>1, <3>2, <3>4, <3>5, FS_EmptySet
  <2>4. CASE gate' = gate
    <3>1. ~Resized
      BY <1>0, <2>2, <2>4, EntryGateAssumption DEF Resized, GateTypeOK
    <3>2. size' = size /\ slot'[h] \in {slot[h], gate}
      BY <1>0, <2>2, <2>4 DEF Enter, Goto, GateTypeOK
    <3>3. \A k \in Handlers : slot'[k] <= gate'
      BY <1>0, <1>1, <2>4, <3>1, <3>2 DEF FirstChannel, GateTypeOK
    <3> QED
      BY <1>0, <1>4, <2>4, <3>1, <3>2, <3>3 DEF FirstChannel
  <2>5. gate' = gate \/ (gate = 0 /\ gate' = 1)
    BY DEF Enter
  <2> QED
    BY <2>3, <2>4, <2>5
<1> QED
  BY <1>1, <1>2, <1>4, <1>5 DEF GateInv

LEMMA TakeKeeps ==
  ASSUME GateInv, NEW h \in Handlers, Take(h)
  PROVE  GateInv'
<1> USE GatesFacts
<1> DEFINE g == slot[h]
<1>0. GateTypeOK /\ GateShape /\ FirstChannel
  BY DEF GateInv
<1>1. /\ g \in Gates /\ tokens[g] \in Nat /\ tokens[g] < size[g]
      /\ at[h] = "wait" /\ tokens' = [tokens EXCEPT ![g] = @ + 1]
      /\ at' = [at EXCEPT ![h] = "serve"] /\ UNCHANGED <<want, due, gate, size, slot>>
  BY <1>0 DEF Take, Goto, GateShape, GateTypeOK
<1>2. GateTypeOK'
  BY <1>0, <1>1 DEF GateTypeOK
<1>3. GateShape'
  BY <1>0, <1>1 DEF GateShape, GateTypeOK
<1>4. Owing' = Owing \cup {h} /\ h \notin Owing
  BY <1>0, <1>1 DEF Owing, GateTypeOK
<1>5. Cardinality(Owing') = Cardinality(Owing) + 1
  BY <1>4, HoldersFinite, FS_AddElement
<1>6. SumOf(tokens', Gates) = SumOf(tokens, Gates) + 1
  <2>1. SumOf([tokens EXCEPT ![g] = @ + 1], Gates) = SumOf(tokens, Gates) + 1
    <3>1. 1 \in Int
      OBVIOUS
    <3> HIDE DEF g
    <3> QED
      BY <1>0, <1>1, <3>1, TokensBump, Zenon
  <2> QED
    BY <1>1, <2>1
<1>7. SumOf(tokens', Gates) <= Cardinality(Owing')
  BY <1>0, <1>5, <1>6, HoldersFinite, TokensSum DEF GateInv
<1>8. FirstChannel'
  <2>1. SUFFICES ASSUME ~Resized' PROVE
          /\ \A k \in Handlers : slot'[k] <= gate'
          /\ gate' = 0 => \A d \in Gates : tokens'[d] = 0
          /\ gate' = 1 => tokens'[1] = Cardinality(HoldersOf(1)') /\ tokens'[1] <= size'[1]
    BY DEF FirstChannel
  <2>2. ~Resized
    BY <1>0, <1>1, <2>1 DEF Resized, MutexFree, GateTypeOK
  <2>3. \A k \in Handlers : slot[k] <= gate
    BY <1>0, <2>2 DEF FirstChannel
  <2>4. gate = 1 /\ g = 1
    BY <1>0, <1>1, <2>2, <2>3, EntryGateAssumption DEF Resized, GateTypeOK
  <2>5. HoldersOf(1)' = HoldersOf(1) \cup {h} /\ h \notin HoldersOf(1)
    BY <1>0, <1>1, <2>4 DEF HoldersOf, GateTypeOK
  <2>6. Cardinality(HoldersOf(1)') = Cardinality(HoldersOf(1)) + 1
    BY <2>5, HoldersFinite, FS_AddElement
  <2>7. tokens[1] = Cardinality(HoldersOf(1))
    BY <1>0, <2>2, <2>4 DEF FirstChannel
  <2>8. tokens'[1] = tokens[1] + 1 /\ tokens[1] + 1 <= size[1]
    <3>1. size[1] \in Nat
      <4>1. 0 \in Nat /\ \A c \in Capacities : c \in Nat
        BY EntryGateAssumption
      <4>2. size[1] \in Capacities \cup {0}
        BY <1>0, Zenon DEF GateTypeOK
      <4> QED
        BY <4>1, <4>2, Zenon
    <3> QED
      BY <1>0, <1>1, <2>4, <3>1 DEF GateTypeOK
  <2> QED
    BY <1>1, <2>3, <2>4, <2>6, <2>7, <2>8
<1> QED
  BY <1>2, <1>3, <1>7, <1>8 DEF GateInv

LEMMA ReleaseKeeps ==
  ASSUME GateInv, NEW h \in Handlers, Release(h)
  PROVE  GateInv'
<1> USE GatesFacts
<1> DEFINE g == slot[h]
<1>0. GateTypeOK /\ GateShape /\ FirstChannel
  BY DEF GateInv
<1>1. /\ g \in Gates /\ tokens[g] \in Nat /\ tokens[g] > 0
      /\ at[h] = "release" /\ tokens' = [tokens EXCEPT ![g] = @ - 1]
      /\ at' = [at EXCEPT ![h] = "idle"] /\ slot' = [slot EXCEPT ![h] = 0]
      /\ UNCHANGED <<want, due, gate, size>>
  BY <1>0 DEF Release, Goto, GateShape, GateTypeOK
<1>2. GateTypeOK'
  BY <1>0, <1>1 DEF GateTypeOK
<1>3. GateShape'
  BY <1>0, <1>1 DEF GateShape, GateTypeOK
<1>4. Owing' = Owing \ {h} /\ h \in Owing
  BY <1>0, <1>1 DEF Owing, GateTypeOK
<1>5. Cardinality(Owing') = Cardinality(Owing) - 1
  BY <1>4, HoldersFinite, FS_RemoveElement
<1>6. SumOf(tokens', Gates) = SumOf(tokens, Gates) - 1
  <2> DEFINE d == -1
  <2>1. SumOf([tokens EXCEPT ![g] = @ + d], Gates) = SumOf(tokens, Gates) + d
    <3>1. d \in Int
      OBVIOUS
    <3> HIDE DEF g, d
    <3> QED
      BY <1>0, <1>1, <3>1, TokensBump, Zenon
  <2>2. tokens' = [tokens EXCEPT ![g] = @ + d]
    BY <1>0, <1>1 DEF GateTypeOK
  <2>3. SumOf(tokens', Gates) = SumOf(tokens, Gates) + d
    BY <2>1, <2>2
  <2> QED
    BY <1>0, <2>3, TokensSum
<1>7. SumOf(tokens', Gates) <= Cardinality(Owing')
  BY <1>0, <1>5, <1>6, HoldersFinite, TokensSum DEF GateInv
<1>8. FirstChannel'
  <2>1. SUFFICES ASSUME ~Resized' PROVE
          /\ \A k \in Handlers : slot'[k] <= gate'
          /\ gate' = 0 => \A d \in Gates : tokens'[d] = 0
          /\ gate' = 1 => tokens'[1] = Cardinality(HoldersOf(1)') /\ tokens'[1] <= size'[1]
    BY DEF FirstChannel
  <2>2. ~Resized
    BY <1>0, <1>1, <2>1 DEF Resized, MutexFree, GateTypeOK
  <2>3. \A k \in Handlers : slot[k] <= gate
    BY <1>0, <2>2 DEF FirstChannel
  <2>4. gate = 1 /\ g = 1
    BY <1>0, <1>1, <2>2, <2>3, EntryGateAssumption DEF Resized, GateTypeOK
  <2>5. HoldersOf(1)' = HoldersOf(1) \ {h} /\ h \in HoldersOf(1)
    BY <1>0, <1>1, <2>4 DEF HoldersOf, GateTypeOK
  <2>6. Cardinality(HoldersOf(1)') = Cardinality(HoldersOf(1)) - 1
    BY <2>5, HoldersFinite, FS_RemoveElement
  <2>7. tokens[1] = Cardinality(HoldersOf(1)) /\ tokens[1] <= size[1]
    BY <1>0, <2>2, <2>4 DEF FirstChannel
  <2>8. tokens'[1] = tokens[1] - 1 /\ tokens[1] - 1 <= size[1]
    <3>1. size[1] \in Nat
      <4>1. 0 \in Nat /\ \A c \in Capacities : c \in Nat
        BY EntryGateAssumption
      <4>2. size[1] \in Capacities \cup {0}
        BY <1>0, Zenon DEF GateTypeOK
      <4> QED
        BY <4>1, <4>2, Zenon
    <3> QED
      BY <1>0, <1>1, <2>4, <2>7, <3>1 DEF GateTypeOK
  <2>9. \A k \in Handlers : slot'[k] <= gate'
    BY <1>0, <1>1, <2>3, <2>4 DEF GateTypeOK
  <2> QED
    BY <1>1, <2>4, <2>6, <2>7, <2>8, <2>9
<1> QED
  BY <1>2, <1>3, <1>7, <1>8 DEF GateInv

LEMMA DrainKeeps ==
  ASSUME GateInv, NEW h \in Handlers, Drain(h)
  PROVE  GateInv'
<1> USE GatesFacts
<1>0. GateTypeOK /\ GateShape /\ FirstChannel
  BY DEF GateInv
<1>1. /\ gate \in Gates /\ gate + 1 \in Gates /\ gate # gate + 1 /\ due
      /\ at[h] = "drain" /\ UNCHANGED <<want, size>>
  BY <1>0 DEF Drain, GateShape, GateTypeOK
<1>2. \/ UNCHANGED <<due, gate, at, slot>>
      \/ /\ gate' = gate + 1 /\ due' = FALSE
         /\ slot' = [slot EXCEPT ![h] = gate + 1] /\ at' = [at EXCEPT ![h] = "wait"]
  BY DEF Drain, Goto
<1> DEFINE d == IF tokens[gate] > 0 THEN -1 ELSE 0
           e == IF Moves(gate) THEN 1 ELSE 0
           mid == [tokens EXCEPT ![gate] = @ + d]
<1>3. /\ d \in Int /\ e \in Int /\ d + e <= 0 /\ e >= 0
      /\ \A k \in Gates : tokens[k] \in Nat
      /\ tokens[gate] + d >= 0
  BY <1>0, <1>1 DEF GateTypeOK, Moves
<1>t. tokens \in [Gates -> Nat] /\ tokens' = DrainTokens(gate)
  BY <1>0 DEF Drain, GateTypeOK
<1>4. tokens' \in [Gates -> Nat]
  <2>1. \A f, v, w : f \in [Gates -> Nat] /\ v \in Nat /\ w \in Nat =>
          [f EXCEPT ![gate] = v, ![gate + 1] = w] \in [Gates -> Nat]
    BY <1>1
  <2> DEFINE v == IF tokens[gate] > 0 THEN tokens[gate] - 1 ELSE tokens[gate]
             w == IF Moves(gate) THEN tokens[gate + 1] + 1 ELSE tokens[gate + 1]
  <2>2. v \in Nat /\ w \in Nat
    BY <1>1, <1>3
  <2>3. tokens' = [tokens EXCEPT ![gate] = v, ![gate + 1] = w]
    BY <1>1, <1>t DEF DrainTokens
  <2> QED
    BY <1>t, <2>1, <2>2, <2>3
<1>5. /\ \A k \in Gates \ {gate, gate + 1} : tokens'[k] = tokens[k]
      /\ tokens'[gate] = tokens[gate] + d
      /\ tokens'[gate + 1] = tokens[gate + 1] + e
  <2>1. \A k \in Gates \ {gate, gate + 1} : tokens'[k] = tokens[k]
    BY <1>1, <1>t DEF DrainTokens
  <2>2. tokens'[gate] = tokens[gate] + d
    BY <1>1, <1>3, <1>t DEF DrainTokens
  <2>3. tokens'[gate + 1] = tokens[gate + 1] + e
    BY <1>1, <1>3, <1>t DEF DrainTokens
  <2> QED
    BY <2>1, <2>2, <2>3
<1> HIDE DEF d, e
<1>6. SumOf(tokens', Gates) = SumOf(tokens, Gates) + d + e
  <2>2. SumOf(mid, Gates) = SumOf(tokens, Gates) + d
    BY <1>0, <1>1, <1>3, TokensBump, Zenon
  <2>3. SumOf(tokens', Gates) = SumOf(mid, Gates) + e
    <3>1. /\ \A k \in Gates : mid[k] \in Int
          /\ \A k \in Gates \ {gate + 1} : tokens'[k] = mid[k]
          /\ tokens'[gate + 1] = mid[gate + 1] + e
      BY <1>1, <1>3, <1>t, <1>5
    <3> HIDE DEF mid
    <3>2. IsFiniteSet(Gates) /\ gate + 1 \in Gates
      BY <1>1
    <3> QED
      BY <1>3, <3>1, <3>2, SumBump
  <2> QED
    BY <2>2, <2>3
<1>7. SumOf(tokens', Gates) <= SumOf(tokens, Gates)
  BY <1>0, <1>3, <1>6, TokensSum
<1>8. Owing' = Owing
  BY <1>0, <1>1, <1>2 DEF Owing, GateTypeOK
<1>9. SumOf(tokens', Gates) <= Cardinality(Owing')
  BY <1>0, <1>3, <1>6, <1>8, HoldersFinite, TokensSum DEF GateInv
<1>10. GateTypeOK'
  <2>1. at' \in [Handlers -> {"idle", "enter", "drain", "wait", "serve", "release"}]
    BY <1>0, <1>2 DEF GateTypeOK
  <2>2. slot' \in [Handlers -> 0..MaxGates] /\ gate' \in 0..MaxGates
    <3>1. slot \in [Handlers -> 0..MaxGates] /\ gate \in 0..MaxGates
      BY <1>0 DEF GateTypeOK
    <3>2. gate + 1 \in 0..MaxGates
      BY <1>0, <1>1 DEF GateTypeOK
    <3> QED
      BY <1>2, <3>1, <3>2
  <2>3. due' \in BOOLEAN
    BY <1>0, <1>2, Zenon DEF GateTypeOK
  <2> QED
    BY <1>0, <1>1, <1>4, <2>1, <2>2, <2>3 DEF GateTypeOK
<1>11. GateShape'
  BY <1>0, <1>1, <1>2 DEF GateShape, GateTypeOK
<1>12. FirstChannel'
  <2>1. Resized'
    <3>1. CASE UNCHANGED at
      BY <1>1, <3>1 DEF Resized, MutexFree
    <3>2. CASE gate' = gate + 1
      <4>1. gate + 1 > 1
        BY <1>1
      <4> QED
        BY <3>2, <4>1 DEF Resized
    <3> QED
      BY <1>2, <3>1, <3>2
  <2> QED
    BY <2>1 DEF FirstChannel
<1> QED
  BY <1>9, <1>10, <1>11, <1>12 DEF GateInv

LEMMA GateInvStep == GateInv /\ [GateNext]_gateVars => GateInv'
<1> SUFFICES ASSUME GateInv, [GateNext]_gateVars PROVE GateInv'
  OBVIOUS
<1>1. CASE Reconfigure \/ Recheck
  BY <1>1, WantKeeps
<1>2. CASE \E h \in Handlers : ArriveAtGate(h) \/ GiveUp(h) \/ RequestServed(h)
  BY <1>2, WalksKeep
<1>3. CASE \E h \in Handlers : Enter(h)
  BY <1>3, EnterKeeps
<1>4. CASE \E h \in Handlers : Take(h)
  BY <1>4, TakeKeeps
<1>5. CASE \E h \in Handlers : Release(h)
  BY <1>5, ReleaseKeeps
<1>6. CASE \E h \in Handlers : Drain(h)
  BY <1>6, DrainKeeps
<1>7. CASE UNCHANGED gateVars
  <2>1. GateTypeOK' /\ GateShape' /\ FirstChannel' /\ Owing' = Owing
    BY <1>7 DEF gateVars, GateInv, GateTypeOK, GateShape, FirstChannel, Resized,
                MutexFree, HoldersOf, Owing
  <2> QED
    BY <1>7, <2>1 DEF GateInv, gateVars
<1> QED
  BY <1>1, <1>2, <1>3, <1>4, <1>5, <1>6, <1>7 DEF GateNext, HandlerStep

LEMMA GateInvSound == GateInv => GateSound
<1> SUFFICES ASSUME GateInv PROVE GateSound
  OBVIOUS
<1> USE GatesFacts
<1>0. GateTypeOK /\ GateShape /\ FirstChannel
  BY DEF GateInv
<1>1. UNION {HoldersOf(g) : g \in Gates} = Owing
  BY DEF HoldersOf, Owing
<1>2. EveryTokenOwed
  BY <1>1 DEF EveryTokenOwed, GateInv, SumOf
<1>3. SoundUntilResized
  <2> SUFFICES ASSUME ~Resized
               PROVE  /\ gate > 0 => Cardinality({h \in HoldersOf(gate) : at[h] = "serve"})
                                       <= size[gate]
                      /\ \A h \in Handlers : at[h] = "release" => tokens[slot[h]] > 0
    BY DEF SoundUntilResized
  <2>1. gate \in {0, 1} /\ \A h \in Handlers : slot[h] <= gate
    BY <1>0 DEF Resized, GateTypeOK, FirstChannel
  <2>2. ASSUME gate > 0
        PROVE  Cardinality({h \in HoldersOf(gate) : at[h] = "serve"}) <= size[gate]
    <3> DEFINE served == {h \in HoldersOf(1) : at[h] = "serve"}
    <3>1. gate = 1 /\ tokens[1] = Cardinality(HoldersOf(1)) /\ tokens[1] <= size[1]
      BY <1>0, <2>1, <2>2 DEF FirstChannel
    <3>2. served \subseteq HoldersOf(1)
      OBVIOUS
    <3>3. IsFiniteSet(served) /\ Cardinality(served) <= Cardinality(HoldersOf(1))
      BY <3>2, HoldersFinite, FS_Subset
    <3>4. Cardinality(served) \in Nat /\ Cardinality(HoldersOf(1)) \in Nat
      BY <3>3, HoldersFinite, FS_CardinalityType
    <3>5. size[1] \in Nat
      <4>1. 0 \in Nat /\ \A c \in Capacities : c \in Nat
        BY EntryGateAssumption
      <4>2. size[1] \in Capacities \cup {0}
        BY <1>0, Zenon DEF GateTypeOK
      <4> QED
        BY <4>1, <4>2, Zenon
    <3> HIDE DEF served
    <3>6. Cardinality(served) <= size[1]
      BY <3>1, <3>3, <3>4, <3>5
    <3> QED
      BY <3>1, <3>6 DEF served
  <2>3. ASSUME NEW h \in Handlers, at[h] = "release" PROVE tokens[slot[h]] > 0
    <3>1. slot[h] = 1 /\ gate = 1
      BY <1>0, <2>1, <2>3 DEF GateShape, GateTypeOK
    <3>2. tokens[1] = Cardinality(HoldersOf(1))
      BY <1>0, <3>1 DEF FirstChannel
    <3>3. h \in HoldersOf(1)
      BY <2>3, <3>1 DEF HoldersOf
    <3>4. Cardinality(HoldersOf(1)) # 0
      BY <3>3, HoldersFinite, FS_EmptySet
    <3> QED
      BY <3>1, <3>2, <3>4, HoldersFinite
  <2> QED
    BY <2>2, <2>3
<1> QED
  BY <1>2, <1>3 DEF GateSound

(* The entry gate, whatever the number of handlers and the capacities it is  *)
(* given: until its channel is replaced no more requests are served through  *)
(* it than it has slots and every served one finds its token                 *)
(* (gateAcquire, withEntryGate); after that no token is in a channel that is *)
(* not owed by a request still there.                                        *)
THEOREM GateIsSound == GateSpec => []GateSound
<1>1. GateSpec => []GateInv
  BY GateInvInit, GateInvStep, PTL DEF GateSpec
<1> QED
  BY <1>1, GateInvSound, PTL

-----------------------------------------------------------------------------
(* The storm breaker (StormBreaker).                                         *)

(* A ring as the breaker keeps it, o buckets after its base, and the samples *)
(* by age: a bucket sits at its index, counts what its time's samples say,   *)
(* and a sample that is not before the base has its bucket.                  *)
InPlace(r) ==
  \A i \in Indices : r[i].at = i \/ (i = 0 /\ r[i].at = Buckets)

ToCome(r, o) == \A i \in Indices : r[i].at > o => r[i].n = 0 /\ r[i].f = 0

Agrees(r, o, h) ==
  \A i, a \in Indices : r[i].at + a = o => r[i].n = h[a].n /\ r[i].f = h[a].f

HasBucket(r, o, h) ==
  \A a \in Indices : a <= o /\ (h[a].n # 0 \/ h[a].f # 0) =>
    \E i \in Indices : r[i].at + a = o

Exact(r, o, h) == InPlace(r) /\ ToCome(r, o) /\ Agrees(r, o, h) /\ HasBucket(r, o, h)

(* Before the first attempt.                                                 *)
Blank ==
  /\ off = Far
  /\ \A i \in Indices : /\ ring[i].at = 0 /\ ring[i].n = 0 /\ ring[i].f = 0
                        /\ hist[i].n = 0 /\ hist[i].f = 0

StormInv == StormTypeOK /\ (Exact(ring, off, hist) \/ Blank)

Bucket  == [at : 0..Buckets, n : Nat, f : Nat]
Tallies == [n : Nat, f : Nat, blamed : Nat]

LEMMA BucketFields ==
  \A b \in Bucket : b.at \in 0..Buckets /\ b.n \in Nat /\ b.f \in Nat
BY DEF Bucket

LEMMA TallyFields ==
  \A b \in Tallies : b.n \in Nat /\ b.f \in Nat /\ b.blamed \in Nat
BY DEF Tallies

LEMMA NewBucket ==
  ASSUME NEW t \in 0..Buckets, NEW n \in Nat, NEW f \in Nat
  PROVE  /\ [at |-> t, n |-> n, f |-> f] \in Bucket
         /\ [at |-> t, n |-> n, f |-> f].at = t
         /\ [at |-> t, n |-> n, f |-> f].n = n
         /\ [at |-> t, n |-> n, f |-> f].f = f
BY DEF Bucket

LEMMA NewTally ==
  ASSUME NEW n \in Nat, NEW f \in Nat, NEW b \in Nat
  PROVE  /\ [n |-> n, f |-> f, blamed |-> b] \in Tallies
         /\ [n |-> n, f |-> f, blamed |-> b].n = n
         /\ [n |-> n, f |-> f, blamed |-> b].f = f
BY DEF Tallies

LEMMA BucketCounts ==
  ASSUME NEW b \in Bucket, NEW n \in Nat, NEW f \in Nat
  PROVE  /\ [b EXCEPT !.n = n, !.f = f] \in Bucket
         /\ [b EXCEPT !.n = n, !.f = f].at = b.at
         /\ [b EXCEPT !.n = n, !.f = f].n = n
         /\ [b EXCEPT !.n = n, !.f = f].f = f
BY DEF Bucket

LEMMA RingTypes ==
  ASSUME StormTypeOK
  PROVE  /\ ring \in [Indices -> Bucket] /\ hist \in [Indices -> Tallies]
         /\ off \in 0..Far
BY DEF StormTypeOK, Bucket, Tallies

LEMMA IndexFacts ==
  /\ IsFiniteSet(Indices) /\ 0 \in Indices /\ Buckets \in Nat /\ Buckets > 0
  /\ Far \in Nat /\ Far = 2 * Buckets
  /\ \A i : i \in Indices <=> i \in Nat /\ i < Buckets
<1>1. IsFiniteSet(0..(Buckets - 1))
  BY StormBreakerAssumption, FS_Interval
<1> QED
  BY <1>1, StormBreakerAssumption DEF Indices, Far

LEMMA StormInvInit == StormInit => StormInv
<1> SUFFICES ASSUME StormInit PROVE StormInv
  OBVIOUS
<1> USE IndexFacts
<1>1. [at |-> 0, n |-> 0, f |-> 0] \in [at : 0..Buckets, n : Nat, f : Nat]
      /\ Nothing \in [n : Nat, f : Nat, blamed : Nat]
  BY DEF Nothing
<1>2. StormTypeOK
  BY <1>1, StormBreakerAssumption DEF StormInit, StormTypeOK
<1>3. Blank
  BY DEF StormInit, Blank, Nothing
<1> QED
  BY <1>2, <1>3 DEF StormInv

(* The place of a bucket tells its index.                                    *)
LEMMA PlacesDiffer ==
  ASSUME NEW r \in [Indices -> Bucket], InPlace(r), NEW i \in Indices, NEW j \in Indices,
         r[i].at = r[j].at
  PROVE  i = j
BY IndexFacts DEF InPlace

(* A bucket's time goes by.                                                  *)
LEMMA TickKeeps ==
  ASSUME StormInv, Tick
  PROVE  StormInv'
<1> USE IndexFacts
<1>0. StormTypeOK /\ ring \in [Indices -> Bucket] /\ hist \in [Indices -> Tallies] /\ off \in 0..Far
  BY RingTypes DEF StormInv
<1>1. CASE UNCHANGED <<off, hist>>
  <2>1. StormTypeOK'
    BY <1>0, <1>1, StormBreakerAssumption DEF Tick, StormTypeOK
  <2>2. UNCHANGED ring
    BY DEF Tick
  <2> QED
    BY <1>1, <2>1, <2>2 DEF StormInv, Blank
<1>2. CASE /\ phase' = 0 /\ off' = IF off < Far THEN off + 1 ELSE off
           /\ hist' = [a \in Indices |-> IF a = 0 THEN Nothing ELSE hist[a - 1]]
  <2> DEFINE h2 == [a \in Indices |-> IF a = 0 THEN Nothing ELSE hist[a - 1]]
  <2>1. Nothing \in Tallies /\ Nothing.n = 0 /\ Nothing.f = 0
    BY DEF Nothing, Tallies
  <2>2. h2 \in [Indices -> Tallies]
    BY <1>0, <2>1
  <2>3. UNCHANGED <<ring, pc, healthy>> /\ off' \in 0..Far
    BY <1>0, <1>2 DEF Tick
  <2>4. StormTypeOK'
    <3>1. hist' \in [Indices -> [n : Nat, f : Nat, blamed : Nat]]
      BY <1>2, <2>2 DEF Tallies
    <3>2. probeAge' \in 0..ProbeInterval
      BY <1>0, StormBreakerAssumption DEF Tick, StormTypeOK
    <3>3. phase' \in 0..(Span - 1)
      BY <1>2, StormBreakerAssumption
    <3> QED
      BY <1>0, <2>3, <3>1, <3>2, <3>3 DEF StormTypeOK
  <2>5. CASE Blank
    <3>1. \A a \in Indices : hist'[a].n = 0 /\ hist'[a].f = 0
      BY <1>2, <2>1, <2>5 DEF Blank
    <3> QED
      BY <1>2, <2>3, <2>4, <2>5, <3>1 DEF Blank, StormInv
  <2>6. CASE Exact(ring, off, hist)
    <3>1. \A i \in Indices : ring[i].at \in 0..Buckets
      BY <1>0, BucketFields
    <3>2. ToCome(ring, off')
      BY <1>0, <1>2, <2>6, <3>1 DEF Exact, ToCome
    <3>3. Agrees(ring, off', hist')
      <4> SUFFICES ASSUME NEW i \in Indices, NEW a \in Indices, ring[i].at + a = off'
                   PROVE  ring[i].n = hist'[a].n /\ ring[i].f = hist'[a].f
        BY DEF Agrees
      <4>1. off < Far /\ off' = off + 1
        BY <1>0, <1>2, <3>1
      <4>2. CASE a = 0
        <5>1. ring[i].at > off
          BY <1>0, <3>1, <4>1, <4>2
        <5> QED
          BY <1>2, <2>1, <2>6, <4>2, <5>1 DEF Exact, ToCome
      <4>3. CASE a # 0
        <5>1. a - 1 \in Indices /\ hist'[a] = hist[a - 1]
          BY <1>2, <4>3
        <5>2. ring[i].at + (a - 1) = off
          BY <1>0, <3>1, <4>1
        <5> QED
          BY <2>6, <5>1, <5>2 DEF Exact, Agrees
      <4> QED
        BY <4>2, <4>3
    <3>4. HasBucket(ring, off', hist')
      <4> SUFFICES ASSUME NEW a \in Indices, a <= off', hist'[a].n # 0 \/ hist'[a].f # 0
                   PROVE  \E i \in Indices : ring[i].at + a = off'
        BY DEF HasBucket
      <4>1. a # 0 /\ hist'[a] = hist[a - 1] /\ a - 1 \in Indices
        BY <1>2, <2>1
      <4>2. a - 1 <= off
        BY <1>0, <1>2, <4>1
      <4>3. PICK i \in Indices : ring[i].at + (a - 1) = off
        BY <2>6, <4>1, <4>2 DEF Exact, HasBucket
      <4>4. off < Far
        BY <1>0, <3>1, <4>1, <4>3
      <4>5. ring[i].at + a = off'
        BY <1>0, <1>2, <3>1, <4>1, <4>3, <4>4
      <4> QED
        BY <4>5
    <3>5. Exact(ring', off', hist')
      BY <2>3, <2>6, <3>2, <3>3, <3>4 DEF Exact
    <3> QED
      BY <2>4, <3>5 DEF StormInv
  <2> QED
    BY <2>5, <2>6 DEF StormInv
<1> QED
  BY <1>1, <1>2 DEF Tick

(* What stormCurrentLocked makes of the ring agrees with the samples.        *)
Base == IF BaseStale THEN 0 ELSE off

LEMMA RolledIsExact ==
  ASSUME StormInv
  PROVE  /\ RolledRing \in [Indices -> Bucket] /\ Current \in Indices
         /\ RolledRing[Current].at = Base /\ Base \in 0..Far
         /\ Exact(RolledRing, Base, hist)
<1> USE IndexFacts
<1>0. StormTypeOK /\ ring \in [Indices -> Bucket] /\ hist \in [Indices -> Tallies] /\ off \in 0..Far
  BY RingTypes DEF StormInv
<1>1. \A i \in Indices : ring[i].at \in 0..Buckets /\ ring[i].n \in Nat /\ ring[i].f \in Nat
  BY <1>0, BucketFields
<1>2. CASE BaseStale
  <2> DEFINE r == [i \in Indices |-> [at |-> i, n |-> 0, f |-> 0]]
  <2>1. \A i \in Indices : r[i] \in Bucket /\ r[i].at = i /\ r[i].n = 0 /\ r[i].f = 0
    BY NewBucket
  <2>2. r \in [Indices -> Bucket]
    BY <2>1
  <2>3. RolledRing = r /\ Current = 0 /\ Base = 0
    BY <1>2 DEF RolledRing, Current, Base
  <2>4. hist[0].n = 0 /\ hist[0].f = 0
    <3>1. CASE Blank
      BY <3>1 DEF Blank
    <3>2. CASE Exact(ring, off, hist)
      <4> SUFFICES ASSUME hist[0].n # 0 \/ hist[0].f # 0 PROVE FALSE
        OBVIOUS
      <4>1. PICK i \in Indices : ring[i].at + 0 = off
        BY <1>0, <3>2 DEF Exact, HasBucket
      <4> QED
        BY <1>0, <1>1, <1>2, <4>1 DEF BaseStale
    <3> QED
      BY <3>1, <3>2 DEF StormInv
  <2>5. InPlace(r) /\ ToCome(r, 0)
    BY <2>1 DEF InPlace, ToCome
  <2>6. Agrees(r, 0, hist)
    <3> HIDE DEF r
    <3>1. \A i, a \in Indices : r[i].at + a = 0 => a = 0
      BY <2>1
    <3> QED
      BY <2>1, <2>4, <3>1 DEF Agrees
  <2>7. HasBucket(r, 0, hist)
    <3> HIDE DEF r
    <3>1. \A a \in Indices : a <= 0 => a = 0
      OBVIOUS
    <3> QED
      BY <2>1, <2>4, <3>1 DEF HasBucket
  <2> QED
    BY <1>0, <2>1, <2>2, <2>3, <2>5, <2>6, <2>7 DEF Exact
<1>3. CASE ~BaseStale
  <2> DEFINE c == off % Buckets
  <2>1. off <= Buckets /\ Base = off /\ Current = c
    BY <1>0, <1>3 DEF BaseStale, Base, Current
  <2>2. c \in Indices /\ (off < Buckets => c = off) /\ (off = Buckets => c = 0)
    BY <1>0
  <2>3. Exact(ring, off, hist)
    BY <1>0, <2>1 DEF StormInv, Blank
  <2> HIDE DEF c
  <2>4. CASE ring[c].at = off
    <3>1. RolledRing = ring
      BY <1>3, <2>4 DEF RolledRing, c
    <3> QED
      BY <1>0, <2>1, <2>2, <2>3, <2>4, <3>1
  <2>5. CASE ring[c].at # off
    <3> DEFINE nb == [at |-> off, n |-> 0, f |-> 0]
               r == [ring EXCEPT ![c] = nb]
    <3>1. RolledRing = r
      BY <1>3, <2>5 DEF RolledRing, c
    <3>2. nb \in Bucket /\ nb.at = off /\ nb.n = 0 /\ nb.f = 0
      BY <1>0, <2>1, NewBucket
    <3> HIDE DEF nb
    <3>3. r \in [Indices -> Bucket] /\ r[c] = nb /\ \A i \in Indices \ {c} : r[i] = ring[i]
      BY <1>0, <2>2, <3>2
    <3> HIDE DEF r
    <3>4. c = 0 /\ (off = Buckets \/ off = 0)
      BY <1>0, <2>1, <2>2, <2>3, <2>5 DEF Exact, InPlace
    <3>5. \A i \in Indices : ring[i].at # off
      BY <1>0, <1>1, <2>1, <2>3, <2>5, <3>4 DEF Exact, InPlace
    <3>6. hist[0].n = 0 /\ hist[0].f = 0
      <4> SUFFICES ASSUME hist[0].n # 0 \/ hist[0].f # 0 PROVE FALSE
        OBVIOUS
      <4>1. PICK i \in Indices : ring[i].at + 0 = off
        BY <1>0, <2>3 DEF Exact, HasBucket
      <4> QED
        BY <1>1, <3>5, <4>1
    <3>7. InPlace(r)
      BY <2>3, <3>2, <3>3, <3>4 DEF Exact, InPlace
    <3>8. ToCome(r, off)
      BY <1>0, <2>3, <3>2, <3>3 DEF Exact, ToCome
    <3>9. Agrees(r, off, hist)
      <4> SUFFICES ASSUME NEW i \in Indices, NEW a \in Indices, r[i].at + a = off
                   PROVE  r[i].n = hist[a].n /\ r[i].f = hist[a].f
        BY DEF Agrees
      <4>1. CASE i = c
        <5>1. a = 0
          BY <1>0, <3>2, <3>3, <4>1
        <5> QED
          BY <3>2, <3>3, <3>6, <4>1, <5>1
      <4>2. CASE i # c
        BY <2>3, <3>3, <4>2 DEF Exact, Agrees
      <4> QED
        BY <4>1, <4>2
    <3>10. HasBucket(r, off, hist)
      <4> SUFFICES ASSUME NEW a \in Indices, a <= off, hist[a].n # 0 \/ hist[a].f # 0
                   PROVE  \E i \in Indices : r[i].at + a = off
        BY DEF HasBucket
      <4>1. PICK i \in Indices : ring[i].at + a = off
        BY <2>3 DEF Exact, HasBucket
      <4>2. i # c
        BY <1>0, <1>1, <2>3, <2>5, <3>4, <3>6, <4>1 DEF Exact, InPlace
      <4> QED
        BY <3>3, <4>1, <4>2
    <3> QED
      BY <1>0, <2>1, <2>2, <3>1, <3>2, <3>3, <3>7, <3>8, <3>9, <3>10 DEF Exact
  <2> QED
    BY <2>4, <2>5
<1> QED
  BY <1>2, <1>3

LEMMA RecordKeeps ==
  ASSUME StormInv, NEW r \in Requests, NEW s \in Samples, Record(r, s)
  PROVE  StormInv'
<1> USE IndexFacts
<1> DEFINE bad == IF s = "ok" THEN 0 ELSE 1
           blame == IF s = "upstreamFailure" THEN 1 ELSE 0
           rr == RolledRing
           c == Current
           nb == [rr[c] EXCEPT !.n = rr[c].n + 1, !.f = rr[c].f + bad]
           nt == [n |-> hist[0].n + 1, f |-> hist[0].f + bad, blamed |-> hist[0].blamed + blame]
<1>0. StormTypeOK /\ ring \in [Indices -> Bucket] /\ hist \in [Indices -> Tallies] /\ off \in 0..Far
  BY RingTypes DEF StormInv
<1>1. /\ rr \in [Indices -> Bucket] /\ c \in Indices /\ rr[c].at = Base /\ Base \in 0..Far
      /\ Exact(rr, Base, hist)
  BY RolledIsExact
<1>2. bad \in Nat /\ blame \in Nat
  OBVIOUS
<1>3. /\ ring' = [RolledRing EXCEPT ![Current].n = @ + 1, ![Current].f = @ + bad]
      /\ off' = Base /\ hist' = [hist EXCEPT ![0] = nt]
      /\ UNCHANGED <<phase, probeAge, pc, healthy>>
  BY <1>0 DEF Record, Base
<1> HIDE DEF bad, blame, rr, c
<1>4. rr[c] \in Bucket /\ rr[c].n \in Nat /\ rr[c].f \in Nat
  BY <1>1, BucketFields
<1>5. nb \in Bucket /\ nb.at = Base /\ nb.n = rr[c].n + 1 /\ nb.f = rr[c].f + bad
  <2>1. rr[c].n + 1 \in Nat /\ rr[c].f + bad \in Nat
    BY <1>2, <1>4
  <2>2. /\ nb \in Bucket /\ nb.at = rr[c].at /\ nb.n = rr[c].n + 1 /\ nb.f = rr[c].f + bad
    BY <1>4, <2>1 DEF Bucket
  <2> QED
    BY <1>1, <2>2
<1>6. ring' = [rr EXCEPT ![c] = nb]
  BY <1>1, <1>3, <1>4 DEF rr, c, Bucket
<1>7. nt \in Tallies /\ nt.n = hist[0].n + 1 /\ nt.f = hist[0].f + bad
  BY <1>0, <1>2, TallyFields, NewTally
<1> HIDE DEF nb, nt
<1>8. /\ ring' \in [Indices -> Bucket] /\ ring'[c] = nb
      /\ \A i \in Indices \ {c} : ring'[i] = rr[i]
  BY <1>1, <1>5, <1>6
<1>9. /\ hist' \in [Indices -> Tallies] /\ hist'[0] = nt
      /\ \A a \in Indices \ {0} : hist'[a] = hist[a]
  BY <1>0, <1>3, <1>7
<1>10. StormTypeOK'
  BY <1>0, <1>1, <1>3, <1>8, <1>9 DEF StormTypeOK, Bucket, Tallies
<1>11. \A i \in Indices : rr[i] \in Bucket /\ rr[i].at \in 0..Buckets /\ ring'[i].at = rr[i].at
  BY <1>1, <1>5, <1>8, BucketFields
<1>12. rr[c].n = hist[0].n /\ rr[c].f = hist[0].f
  BY <1>1 DEF Exact, Agrees
<1>13. InPlace(ring')
  BY <1>1, <1>11 DEF Exact, InPlace
<1>14. ToCome(ring', Base)
  BY <1>1, <1>8, <1>11 DEF Exact, ToCome
<1>15. Agrees(ring', Base, hist')
  <2> SUFFICES ASSUME NEW i \in Indices, NEW a \in Indices, ring'[i].at + a = Base
               PROVE  ring'[i].n = hist'[a].n /\ ring'[i].f = hist'[a].f
    BY DEF Agrees
  <2>1. CASE i = c
    <3>1. a = 0
      BY <1>1, <1>11, <2>1
    <3> QED
      BY <1>5, <1>7, <1>8, <1>9, <1>12, <2>1, <3>1
  <2>2. CASE i # c
    <3>1. rr[i].at # rr[c].at
      BY <1>1, <2>2, PlacesDiffer DEF Exact
    <3>2. a # 0
      BY <1>1, <1>11, <3>1
    <3>3. rr[i].n = hist[a].n /\ rr[i].f = hist[a].f
      BY <1>1, <1>11 DEF Exact, Agrees
    <3> QED
      BY <1>8, <1>9, <2>2, <3>2, <3>3
  <2> QED
    BY <2>1, <2>2
<1>16. HasBucket(ring', Base, hist')
  <2> SUFFICES ASSUME NEW a \in Indices, a <= Base, hist'[a].n # 0 \/ hist'[a].f # 0
               PROVE  \E i \in Indices : ring'[i].at + a = Base
    BY DEF HasBucket
  <2>1. CASE a = 0
    BY <1>1, <1>11, <2>1
  <2>2. CASE a # 0
    <3>1. PICK i \in Indices : rr[i].at + a = Base
      BY <1>1, <1>9, <2>2 DEF Exact, HasBucket
    <3> QED
      BY <1>11, <3>1
  <2> QED
    BY <2>1, <2>2
<1> QED
  BY <1>3, <1>10, <1>13, <1>14, <1>15, <1>16 DEF StormInv, Exact

LEMMA OthersKeepRing ==
  ASSUME StormInv, UNCHANGED <<phase, off, ring, hist>>,
         \/ UNCHANGED <<pc, probeAge, healthy>>
         \/ UpstreamTurns
         \/ \E r \in Requests : Arrive(r) \/ Probe(r) \/ End(r)
  PROVE  StormInv'
<1>0. StormTypeOK
  BY DEF StormInv
<1>1. pc' \in [Requests -> {"idle", "probe", "attempt"}]
  BY <1>0 DEF StormTypeOK, UpstreamTurns, Arrive, Probe, End
<1>2. probeAge' \in 0..ProbeInterval
  <2>1. probeAge' = probeAge \/ probeAge' = 0
    BY DEF UpstreamTurns, Arrive, Probe, End
  <2> QED
    BY <1>0, <2>1, StormBreakerAssumption DEF StormTypeOK
<1>3. healthy' \in BOOLEAN
  BY <1>0 DEF StormTypeOK, UpstreamTurns, Arrive, Probe, End
<1>4. StormTypeOK'
  BY <1>0, <1>1, <1>2, <1>3 DEF StormTypeOK
<1> QED
  BY <1>4 DEF StormInv, Blank

LEMMA StormInvStep == StormInv /\ [StormNext]_stormVars => StormInv'
<1> SUFFICES ASSUME StormInv, [StormNext]_stormVars PROVE StormInv'
  OBVIOUS
<1>1. CASE Tick
  BY <1>1, TickKeeps
<1>2. CASE \E r \in Requests, s \in Samples : Record(r, s)
  BY <1>2, RecordKeeps
<1>3. CASE UpstreamTurns \/ \E r \in Requests : Arrive(r) \/ Probe(r) \/ End(r)
  <2>1. UNCHANGED <<phase, off, ring, hist>>
    BY <1>3 DEF UpstreamTurns, Arrive, Probe, End
  <2> QED
    BY <1>3, <2>1, OthersKeepRing
<1>4. CASE UNCHANGED stormVars
  BY <1>4, OthersKeepRing DEF stormVars
<1> QED
  BY <1>1, <1>2, <1>3, <1>4 DEF StormNext

(* The sums of the breaker are sums of functions.                            *)
LEMMA CountsAreSums ==
  /\ Attempts = SumOf([i \in Indices |-> ring[i].n], {i \in Indices : Fresh(i)})
  /\ Failures = SumOf([i \in Indices |-> ring[i].f], {i \in Indices : Fresh(i)})
<1> DEFINE S == {i \in Indices : Fresh(i)}
           N == [i \in Indices |-> ring[i].n]
           F == [i \in Indices |-> ring[i].f]
           rawN(g) == g = [s \in SUBSET S |-> IF s = {} THEN 0
                           ELSE ring[OneOf(s)].n + g[s \ {OneOf(s)}]]
           rawF(g) == g = [s \in SUBSET S |-> IF s = {} THEN 0
                           ELSE ring[OneOf(s)].f + g[s \ {OneOf(s)}]]
           cn == CHOOSE g : rawN(g)
           cf == CHOOSE g : rawF(g)
<1>1. S \in SUBSET Indices /\ IsFiniteSet(S)
  BY IndexFacts, FS_Subset
<1>2. \A s \in SUBSET S : s # {} => OneOf(s) \in Indices
  BY <1>1 DEF OneOf
<1>3. \A s \in SUBSET S : s # {} =>
        N[OneOf(s)] = ring[OneOf(s)].n /\ F[OneOf(s)] = ring[OneOf(s)].f
  BY <1>2
<1>4. \A g : (rawN(g) <=> SumTable(N, g, S)) /\ (rawF(g) <=> SumTable(F, g, S))
  BY <1>3 DEF SumTable
<1>5. (\E g : rawN(g)) /\ (\E g : rawF(g))
  BY <1>1, <1>4, TableExists
<1>6. SumTable(N, cn, S) /\ SumTable(F, cf, S)
  BY <1>4, <1>5
<1>7. Attempts = cn[S] /\ Failures = cf[S]
  BY DEF Attempts, Failures, MapThenSumSet, MapThenFoldSet, OneOf
<1> QED
  BY <1>1, <1>6, <1>7, TableHasSums

Window == {a \in Indices : a <= off}

LEMMA SamplesAreSums ==
  /\ MapThenSumSet(LAMBDA a : hist[a].n, Window) = SumOf([a \in Indices |-> hist[a].n], Window)
  /\ MapThenSumSet(LAMBDA a : hist[a].f, Window) = SumOf([a \in Indices |-> hist[a].f], Window)
<1> DEFINE S == Window
           N == [i \in Indices |-> hist[i].n]
           F == [i \in Indices |-> hist[i].f]
           rawN(g) == g = [s \in SUBSET S |-> IF s = {} THEN 0
                           ELSE hist[OneOf(s)].n + g[s \ {OneOf(s)}]]
           rawF(g) == g = [s \in SUBSET S |-> IF s = {} THEN 0
                           ELSE hist[OneOf(s)].f + g[s \ {OneOf(s)}]]
           cn == CHOOSE g : rawN(g)
           cf == CHOOSE g : rawF(g)
<1>1. S \in SUBSET Indices /\ IsFiniteSet(S)
  BY IndexFacts, FS_Subset DEF Window
<1>2. \A s \in SUBSET S : s # {} => OneOf(s) \in Indices
  BY <1>1 DEF OneOf
<1>3. \A s \in SUBSET S : s # {} =>
        N[OneOf(s)] = hist[OneOf(s)].n /\ F[OneOf(s)] = hist[OneOf(s)].f
  BY <1>2
<1>4. \A g : (rawN(g) <=> SumTable(N, g, S)) /\ (rawF(g) <=> SumTable(F, g, S))
  BY <1>3 DEF SumTable
<1>5. (\E g : rawN(g)) /\ (\E g : rawF(g))
  BY <1>1, <1>4, TableExists
<1>6. SumTable(N, cn, S) /\ SumTable(F, cf, S)
  BY <1>4, <1>5
<1>7. /\ MapThenSumSet(LAMBDA a : hist[a].n, Window) = cn[S]
      /\ MapThenSumSet(LAMBDA a : hist[a].f, Window) = cf[S]
  BY DEF MapThenSumSet, MapThenFoldSet, OneOf
<1> QED
  BY <1>1, <1>6, <1>7, TableHasSums

(* Buckets and samples are paired off: what is left over counts nothing.     *)
LEMMA PairedSums ==
  ASSUME StormTypeOK, Exact(ring, off, hist),
         NEW f \in [Indices -> Nat], NEW h \in [Indices -> Nat],
         \A i \in Indices : ring[i].at > off => f[i] = 0,
         \A i, a \in Indices : ring[i].at + a = off => f[i] = h[a],
         \A a \in Window : h[a] # 0 => \E i \in Indices : ring[i].at + a = off
  PROVE  SumOf(f, {i \in Indices : Fresh(i)}) = SumOf(h, Window)
<1> USE IndexFacts
<1> DEFINE S == {i \in Indices : Fresh(i)}
           R == {i \in S : ring[i].at <= off}
           b == [i \in R |-> off - ring[i].at]
           B == {b[i] : i \in R}
<1>1. ring \in [Indices -> Bucket] /\ off \in 0..Far
  BY RingTypes
<1>2. \A i \in Indices : ring[i].at \in 0..Buckets
  BY <1>1, BucketFields
<1>3. /\ S \in SUBSET Indices /\ R \in SUBSET S /\ IsFiniteSet(S) /\ IsFiniteSet(R)
      /\ IsFiniteSet(Window)
  BY FS_Subset DEF Window
<1>4. \A i \in R : b[i] \in Indices /\ b[i] \in Window /\ ring[i].at + b[i] = off
  BY <1>1, <1>2 DEF Fresh, Window
<1>5. \A i, j \in R : b[i] = b[j] => i = j
  <2> HIDE DEF S, R, b
  <2> SUFFICES ASSUME NEW i \in R, NEW j \in R, b[i] = b[j] PROVE i = j
    OBVIOUS
  <2>1. /\ i \in Indices /\ j \in Indices /\ b[i] \in Nat
        /\ ring[i].at + b[i] = off /\ ring[j].at + b[i] = off
    BY <1>3, <1>4
  <2>2. ring[i].at = ring[j].at
    <3> DEFINE x == ring[i].at
               y == ring[j].at
               z == b[i]
    <3>1. x \in Int /\ y \in Int /\ z \in Int
      BY <1>2, <2>1
    <3>2. x + z = off /\ y + z = off
      BY <2>1
    <3> HIDE DEF x, y, z
    <3>3. x = y
      BY <3>1, <3>2
    <3> QED
      BY <3>3 DEF x, y
  <2> QED
    BY <1>1, <2>1, <2>2, PlacesDiffer DEF Exact
<1>6. \A a \in Window \ B : h[a] = 0
  <2> SUFFICES ASSUME NEW a \in Window, h[a] # 0 PROVE a \in B
    OBVIOUS
  <2>1. PICK i \in Indices : ring[i].at + a = off
    OBVIOUS
  <2>2. a \in Indices /\ a <= off
    BY DEF Window
  <2>3. i \in R /\ b[i] = a
    BY <1>1, <1>2, <2>1, <2>2 DEF Fresh
  <2> QED
    BY <2>3
<1>7. B \in SUBSET Window
  BY <1>4
<1>8. /\ \A i \in S : f[i] \in Int
      /\ \A i \in S \ R : f[i] = 0
      /\ \A i \in R : f[i] \in Int /\ h[b[i]] = f[i]
      /\ \A a \in Window : h[a] \in Int
  <2>1. \A i \in S : f[i] \in Int
    BY <1>3
  <2>2. \A i \in S \ R : f[i] = 0
    <3>1. \A i \in S \ R : ring[i].at > off
      BY <1>1, <1>2, <1>3
    <3> QED
      BY <1>3, <3>1
  <2>3. \A i \in R : f[i] \in Int /\ h[b[i]] = f[i]
    BY <1>3, <1>4, <2>1
  <2>4. \A a \in Window : h[a] \in Int
    BY DEF Window
  <2> QED
    BY <2>1, <2>2, <2>3, <2>4
<1> HIDE DEF S, R, b
<1>9. SumOf(f, S) = SumOf(f, R)
  BY <1>3, <1>8, SumDropsZeros
<1>10. SumOf(f, R) = SumOf(h, B)
  <2>1. \A i \in R : f[i] \in Int /\ h[b[i]] = f[i]
    BY <1>8
  <2>2. IsFiniteSet(R)
    BY <1>3
  <2> QED
    BY <1>5, <2>1, <2>2, SumRenamed, SMTT(30)
<1>11. SumOf(h, Window) = SumOf(h, B)
  <2> HIDE DEF B
  <2> QED
    BY <1>3, <1>6, <1>7, <1>8, SumDropsZeros
<1> QED
  BY <1>9, <1>10, <1>11 DEF S

LEMMA StormInvExact == StormInv => RingExact
<1> SUFFICES ASSUME StormInv PROVE RingExact
  OBVIOUS
<1> USE IndexFacts
<1> DEFINE rn == [i \in Indices |-> ring[i].n]
           rf == [i \in Indices |-> ring[i].f]
           hn == [a \in Indices |-> hist[a].n]
           hf == [a \in Indices |-> hist[a].f]
           S  == {i \in Indices : Fresh(i)}
<1>0. StormTypeOK /\ ring \in [Indices -> Bucket] /\ hist \in [Indices -> Tallies]
  BY RingTypes DEF StormInv
<1>1. /\ rn \in [Indices -> Nat] /\ rf \in [Indices -> Nat]
      /\ hn \in [Indices -> Nat] /\ hf \in [Indices -> Nat]
  BY <1>0, BucketFields, TallyFields
<1>2. /\ \A i \in Indices : rn[i] = ring[i].n /\ rf[i] = ring[i].f
      /\ \A a \in Indices : hn[a] = hist[a].n /\ hf[a] = hist[a].f
  OBVIOUS
<1>3. RingExact <=> Attempts = SumOf(hn, Window) /\ Failures = SumOf(hf, Window)
  BY SamplesAreSums DEF RingExact, Window
<1>4. Attempts = SumOf(rn, S) /\ Failures = SumOf(rf, S)
  BY CountsAreSums
<1>s. S \in SUBSET Indices /\ Window \in SUBSET Indices
  BY DEF Window
<1> HIDE DEF rn, rf, hn, hf, S
<1>5. CASE Exact(ring, off, hist)
  <2>1. /\ \A i \in Indices : ring[i].at > off => rn[i] = 0 /\ rf[i] = 0
        /\ \A i, a \in Indices : ring[i].at + a = off => rn[i] = hn[a] /\ rf[i] = hf[a]
        /\ \A a \in Window : hn[a] # 0 \/ hf[a] # 0 => \E i \in Indices : ring[i].at + a = off
    BY <1>2, <1>5 DEF Exact, ToCome, Agrees, HasBucket, Window
  <2>2. SumOf(rn, S) = SumOf(hn, Window)
    BY <1>0, <1>1, <1>5, <2>1, PairedSums DEF S
  <2>3. SumOf(rf, S) = SumOf(hf, Window)
    BY <1>0, <1>1, <1>5, <2>1, PairedSums DEF S
  <2> QED
    BY <1>3, <1>4, <2>2, <2>3
<1>6. CASE Blank
  <2>1. \A f, s : f \in [Indices -> Nat] /\ s \in SUBSET Indices /\ (\A i \in Indices : f[i] = 0)
                    => SumOf(f, s) = 0
    <3> SUFFICES ASSUME NEW f \in [Indices -> Nat], NEW s \in SUBSET Indices,
                        \A i \in Indices : f[i] = 0
                 PROVE  SumOf(f, s) = 0
      OBVIOUS
    <3>1. IsFiniteSet(s) /\ {} \in SUBSET s
          /\ (\A i \in s : f[i] \in Int) /\ (\A i \in s \ {} : f[i] = 0)
      BY FS_Subset
    <3>2. SumOf(f, s) = SumOf(f, {})
      BY <3>1, SumDropsZeros
    <3> QED
      BY <3>2, SumEmpty
  <2>2. \A i \in Indices : rn[i] = 0 /\ rf[i] = 0 /\ hn[i] = 0 /\ hf[i] = 0
    BY <1>2, <1>6 DEF Blank
  <2>3. /\ SumOf(rn, S) = 0 /\ SumOf(rf, S) = 0
        /\ SumOf(hn, Window) = 0 /\ SumOf(hf, Window) = 0
    BY <1>1, <1>s, <2>1, <2>2
  <2> QED
    BY <1>3, <1>4, <2>3
<1> QED
  BY <1>5, <1>6 DEF StormInv

(* The storm breaker, whatever the number of buckets and of samples: the     *)
(* ring (stormCurrentLocked, StormRecord, stormStatsLocked) counts exactly   *)
(* the start attempts of the window since it was last reset.                 *)
THEOREM RingIsExact == StormSpec => []RingExact
<1>1. StormSpec => []StormInv
  BY StormInvInit, StormInvStep, PTL DEF StormSpec
<1> QED
  BY <1>1, StormInvExact, PTL

-----------------------------------------------------------------------------
(* Counting the places of a sequence.                                        *)

LEMMA SetsOfPlaces ==
  ASSUME NEW n \in Nat, NEW A \in SUBSET (1..n)
  PROVE  IsFiniteSet(A) /\ Cardinality(A) \in Nat /\ (Cardinality(A) = 0 <=> A = {})
<1>1. IsFiniteSet(1..n)
  BY FS_Interval
<1>2. IsFiniteSet(A)
  BY <1>1, FS_Subset
<1> QED
  BY <1>2, FS_CardinalityType, FS_EmptySet

(* What is counted in a first part and in what follows it adds up.           *)
Parts(m, n, A, B, C) ==
  /\ A \in SUBSET (1..m) /\ B \in SUBSET (1..n)
  /\ \A i : i \in C <=> i \in A \/ \E j \in B : i = m + j

LEMMA PartsAddUp ==
  ASSUME NEW m \in Nat, NEW n \in Nat, NEW A, NEW B, NEW C, Parts(m, n, A, B, C)
  PROVE  Cardinality(C) = Cardinality(A) + Cardinality(B)
<1> USE DEF Parts
<1> DEFINE S == {m + j : j \in B}
           f == [j \in B |-> m + j]
<1>1. IsFiniteSet(A) /\ IsFiniteSet(B) /\ Cardinality(A) \in Nat /\ Cardinality(B) \in Nat
  BY SetsOfPlaces
<1>2. f \in Bijection(B, S)
  <2>1. f \in [B -> S] /\ \A s \in S : \E j \in B : f[j] = s
    OBVIOUS
  <2>2. \A i, j \in B : f[i] = f[j] => i = j
    OBVIOUS
  <2> HIDE DEF f, S
  <2> QED
    BY <2>1, <2>2 DEF Bijection, Injection, IsInjective, Surjection
<1>3. IsFiniteSet(S) /\ Cardinality(S) = Cardinality(B)
  <2> HIDE DEF f, S
  <2>1. ExistsBijection(B, S)
    BY <1>2 DEF ExistsBijection
  <2> QED
    BY <1>1, <2>1, FS_Bijection
<1>4. A \cap S = {} /\ C = A \cup S
  OBVIOUS
<1>5. Cardinality(A \cap S) = 0
  BY <1>4, FS_EmptySet
<1> HIDE DEF S
<1>6. Cardinality(A \cup S) = Cardinality(A) + Cardinality(S) - Cardinality(A \cap S)
  BY <1>1, <1>3, FS_Union
<1> QED
  BY <1>1, <1>3, <1>4, <1>5, <1>6

LEMMA PlacesOfJoined ==
  ASSUME NEW X, NEW s \in Seq(X), NEW t \in Seq(X)
  PROVE  /\ s \o t \in Seq(X)
         /\ Len(s) \in Nat /\ Len(t) \in Nat
         /\ DOMAIN (s \o t) = 1..(Len(s) + Len(t))
         /\ DOMAIN s = 1..Len(s) /\ DOMAIN t = 1..Len(t)
         /\ \A i \in 1..Len(s) : (s \o t)[i] = s[i]
         /\ \A j \in 1..Len(t) : (s \o t)[Len(s) + j] = t[j]
         /\ \A i \in 1..(Len(s) + Len(t)) :
              i \in 1..Len(s) \/ \E j \in 1..Len(t) : i = Len(s) + j
<1>1. /\ s \o t \in Seq(X)
      /\ Len(s) \in Nat /\ Len(t) \in Nat
      /\ DOMAIN (s \o t) = 1..(Len(s) + Len(t))
      /\ DOMAIN s = 1..Len(s) /\ DOMAIN t = 1..Len(t)
      /\ \A i \in 1..Len(s) : (s \o t)[i] = s[i]
      /\ \A j \in 1..Len(t) : (s \o t)[Len(s) + j] = t[j]
  OBVIOUS
<1>2. ASSUME NEW i \in 1..(Len(s) + Len(t)), i \notin 1..Len(s)
      PROVE  \E j \in 1..Len(t) : i = Len(s) + j
  <2>1. i - Len(s) \in 1..Len(t) /\ i = Len(s) + (i - Len(s))
    BY <1>1, <1>2
  <2> QED
    BY <2>1
<1> QED
  BY <1>1, <1>2

(* How many places of a sequence have a value of V.                          *)
Amount(s, V) == Cardinality({i \in DOMAIN s : s[i] \in V})

LEMMA AmountJoined ==
  ASSUME NEW X, NEW s \in Seq(X), NEW t \in Seq(X), NEW V
  PROVE  Amount(s \o t, V) = Amount(s, V) + Amount(t, V)
<1> DEFINE A == {i \in 1..Len(s) : s[i] \in V}
           B == {j \in 1..Len(t) : t[j] \in V}
           C == {i \in 1..(Len(s) + Len(t)) : (s \o t)[i] \in V}
<1>1. /\ Len(s) \in Nat /\ Len(t) \in Nat
      /\ DOMAIN (s \o t) = 1..(Len(s) + Len(t))
      /\ DOMAIN s = 1..Len(s) /\ DOMAIN t = 1..Len(t)
      /\ \A i \in 1..Len(s) : (s \o t)[i] = s[i]
      /\ \A j \in 1..Len(t) : (s \o t)[Len(s) + j] = t[j]
      /\ \A i \in 1..(Len(s) + Len(t)) :
           i \in 1..Len(s) \/ \E j \in 1..Len(t) : i = Len(s) + j
  BY PlacesOfJoined
<1>2. A \in SUBSET (1..Len(s)) /\ B \in SUBSET (1..Len(t))
  OBVIOUS
<1>3. \A i : i \in C <=> i \in A \/ \E j \in B : i = Len(s) + j
  <2>1. ASSUME NEW i \in C PROVE i \in A \/ \E j \in B : i = Len(s) + j
    <3>1. CASE i \in 1..Len(s)
      BY <1>1, <3>1
    <3>2. CASE \E j \in 1..Len(t) : i = Len(s) + j
      BY <1>1, <3>2
    <3> QED
      BY <1>1, <3>1, <3>2
  <2>2. ASSUME NEW i \in A PROVE i \in C
    BY <1>1
  <2>3. ASSUME NEW j \in B PROVE Len(s) + j \in C
    BY <1>1
  <2> HIDE DEF A, B, C
  <2> QED
    BY <2>1, <2>2, <2>3
<1>4. Parts(Len(s), Len(t), A, B, C)
  BY <1>2, <1>3 DEF Parts
<1>5. Cardinality(C) = Cardinality(A) + Cardinality(B)
  <2> HIDE DEF A, B, C
  <2> QED
    BY <1>1, <1>4, PartsAddUp
<1> QED
  BY <1>1, <1>5 DEF Amount

LEMMA AmountType ==
  ASSUME NEW X, NEW s \in Seq(X), NEW V
  PROVE  /\ Amount(s, V) \in Nat
         /\ Amount(s, V) = 0 <=> \A i \in DOMAIN s : s[i] \notin V
<1>1. Len(s) \in Nat /\ DOMAIN s = 1..Len(s)
  OBVIOUS
<1>2. /\ {i \in DOMAIN s : s[i] \in V} \in SUBSET (1..Len(s))
      /\ {i \in DOMAIN s : s[i] \in V} = {} <=> \A i \in DOMAIN s : s[i] \notin V
  BY <1>1
<1> HIDE <1>1
<1> QED
  BY <1>1, <1>2, SetsOfPlaces DEF Amount

LEMMA AmountOfFew ==
  /\ \A V : Amount(<<>>, V) = 0
  /\ \A x, V : Amount(<<x>>, V) = IF x \in V THEN 1 ELSE 0
<1>1. ASSUME NEW V PROVE Amount(<<>>, V) = 0
  <2>1. {i \in DOMAIN <<>> : <<>>[i] \in V} = {}
    OBVIOUS
  <2> QED
    BY <2>1, FS_EmptySet DEF Amount
<1>2. ASSUME NEW x, NEW V, x \in V PROVE Amount(<<x>>, V) = 1
  <2>1. {i \in DOMAIN <<x>> : <<x>>[i] \in V} = {1}
    BY <1>2
  <2> QED
    BY <2>1, FS_Singleton DEF Amount
<1>3. ASSUME NEW x, NEW V, x \notin V PROVE Amount(<<x>>, V) = 0
  <2>1. {i \in DOMAIN <<x>> : <<x>>[i] \in V} = {}
    BY <1>3
  <2> QED
    BY <2>1, FS_EmptySet DEF Amount
<1> QED
  BY <1>1, <1>2, <1>3

(* What is taken from the front.                                             *)
LEMMA AmountOfTail ==
  ASSUME NEW X, NEW s \in Seq(X), s # <<>>, NEW V
  PROVE  /\ Amount(s, V) = Amount(Tail(s), V) + (IF Head(s) \in V THEN 1 ELSE 0)
         /\ Tail(s) \in Seq(X) /\ Head(s) \in X
<1>1. s = <<Head(s)>> \o Tail(s) /\ Tail(s) \in Seq(X) /\ Head(s) \in X /\ <<Head(s)>> \in Seq(X)
  OBVIOUS
<1>2. Amount(<<Head(s)>> \o Tail(s), V) = Amount(<<Head(s)>>, V) + Amount(Tail(s), V)
  BY <1>1, AmountJoined
<1>3. Amount(Tail(s), V) \in Nat
  BY <1>1, AmountType
<1>4. Amount(<<Head(s)>>, V) = IF Head(s) \in V THEN 1 ELSE 0
  BY AmountOfFew
<1>5. Amount(s, V) = Amount(<<Head(s)>> \o Tail(s), V)
  BY <1>1, Zenon
<1> DEFINE a == Amount(Tail(s), V)
           b == IF Head(s) \in V THEN 1 ELSE 0
<1>6. b + a = a + b
  <2>1. b \in Nat
    OBVIOUS
  <2> HIDE DEF a, b
  <2> QED
    BY <1>3, <2>1 DEF a
<1> QED
  BY <1>1, <1>2, <1>4, <1>5, <1>6, Zenon
-----------------------------------------------------------------------------
(* The reply of the chat handler (ChatStream).                               *)

Kinds == Contents \cup {"role", "error", "stop", "done", "usage", "tool_calls"}
Frames == [kind : Kinds, round : Nat]
Said == {"thought", "text", "known", "foreign"}

ChatTypeOK ==
  /\ ask \in Asks /\ turn \in {"pick", "round", "events", "judge", "over"}
  /\ tries \in [picks : Nat, rounds : Nat, empty : Nat]
  /\ answer \in Answers /\ coming \in Seq(Said)
  /\ got \in [text : Texts, called : BOOLEAN, blocked : BOOLEAN, said : BOOLEAN, sent : BOOLEAN]
  /\ out \in Seq(Frames)
  /\ outcome \in {"open", "ok", "error", "body", "gone"}

One(b) == IF b THEN 1 ELSE 0
Left(v) == Times(coming, v)

(* What the upstream has said in this round is either still to come, or kept, *)
(* or sent; and the handler knows whether it has sent or counted anything.   *)
NothingLost ==
  /\ got.text \in {"none", answer.text}
  /\ Left("text") + One(got.text # "none") + Count({"text", "guarded"})
       = One(answer.text # "none")
  /\ Left("thought") <= One(answer.thought)
  /\ Left("known") <= Known(answer) /\ (got.called <=> Left("known") < Known(answer))
  /\ ask.stream =>
       /\ Count({"thought"}) + Left("thought") = One(answer.thought)
       /\ Count({"call"}) + Left("known") = Known(answer)
  /\ Count(Contents) > 0 => got.sent /\ got.said
  /\ got.said => \/ got.text # "none" \/ Count(Contents) > 0
                 \/ ~ask.stream /\ (answer.thought \/ got.called)

ChatInv ==
  /\ ChatTypeOK
  /\ turn = "over" <=> outcome # "open"
  /\ ~ask.stream /\ turn # "over" => out = <<>>
  /\ turn # "over" => Count({"tool_calls"}) = 0 /\ Count({"error"}) = 0
  /\ turn \in {"pick", "round"} => Count(Contents) = 0
  /\ \A i \in DOMAIN out : IsContent(out[i]) => out[i].round = tries.rounds
  /\ turn \in {"events", "judge"} => NothingLost
  /\ turn = "judge" => coming = <<>>
  /\ outcome = "error" => Count({"error"}) > 0
  /\ outcome = "ok" => Count({"error"}) = 0 /\ ChatDelivers

(* What a piece of the reply adds to the counts.                             *)
OfKind(K) == {x \in Frames : x.kind \in K}
Adds(s, K) == Amount(s, OfKind(K))
OfRound(s) == \A i \in DOMAIN s : IsContent(s[i]) => s[i].round = tries.rounds
Piece(s) == s \in Seq(Frames) /\ OfRound(s)

LEMMA CountAdds ==
  ASSUME out \in Seq(Frames), NEW K
  PROVE  Count(K) = Adds(out, K) /\ Count(K) \in Nat
<1>1. {i \in DOMAIN out : out[i].kind \in K} = {i \in DOMAIN out : out[i] \in OfKind(K)}
  BY DEF OfKind
<1>2. Amount(out, OfKind(K)) \in Nat
  BY AmountType
<1> QED
  BY <1>1, <1>2 DEF Count, Adds, Amount

LEMMA CountZero ==
  ASSUME out \in Seq(Frames), NEW K
  PROVE  Count(K) = 0 <=> \A i \in DOMAIN out : out[i].kind \notin K
<1>1. Amount(out, OfKind(K)) = 0 <=> \A i \in DOMAIN out : out[i] \notin OfKind(K)
  BY AmountType
<1>2. \A i \in DOMAIN out : out[i] \in Frames
  OBVIOUS
<1> QED
  BY <1>1, <1>2, CountAdds DEF OfKind, Adds

LEMMA AddsJoined ==
  ASSUME NEW s, Piece(s), NEW t, Piece(t)
  PROVE  Piece(s \o t) /\ \A K : Adds(s \o t, K) = Adds(s, K) + Adds(t, K)
<1>1. s \in Seq(Frames) /\ t \in Seq(Frames)
  BY DEF Piece
<1>2. \A K : Adds(s \o t, K) = Adds(s, K) + Adds(t, K)
  BY <1>1, AmountJoined DEF Adds
<1>3. ASSUME NEW X, NEW u \in Seq(X), NEW v \in Seq(X)
      PROVE  /\ u \o v \in Seq(X)
             /\ DOMAIN (u \o v) = 1..(Len(u) + Len(v))
             /\ DOMAIN u = 1..Len(u) /\ DOMAIN v = 1..Len(v)
             /\ \A i \in 1..Len(u) : (u \o v)[i] = u[i]
             /\ \A j \in 1..Len(v) : (u \o v)[Len(u) + j] = v[j]
             /\ \A i \in 1..(Len(u) + Len(v)) :
                  i \in 1..Len(u) \/ \E j \in 1..Len(v) : i = Len(u) + j
  BY PlacesOfJoined
<1>4. ASSUME NEW i \in DOMAIN (s \o t), IsContent((s \o t)[i])
      PROVE  (s \o t)[i].round = tries.rounds
  BY <1>1, <1>3, <1>4 DEF Piece, OfRound
<1> QED
  BY <1>1, <1>2, <1>3, <1>4 DEF Piece, OfRound

LEMMA AddsType ==
  ASSUME NEW s, Piece(s), NEW K
  PROVE  Adds(s, K) \in Nat
  BY AmountType DEF Piece, Adds

LEMMA AddsOne ==
  ASSUME tries.rounds \in Nat, NEW k \in Kinds
  PROVE  /\ Piece(<<Item(k)>>) /\ \A K : Adds(<<Item(k)>>, K) = One(k \in K)
         /\ k \notin Contents =>
              Piece(<<Frame(k)>>) /\ \A K : Adds(<<Frame(k)>>, K) = One(k \in K)
<1>1. Item(k) \in Frames /\ Item(k).kind = k /\ Item(k).round = tries.rounds
  BY DEF Item, Frames
<1>2. Frame(k) \in Frames /\ Frame(k).kind = k
  BY DEF Frame, Frames
<1>3. \A K : \A x \in Frames : Adds(<<x>>, K) = One(x.kind \in K)
  BY AmountOfFew DEF Adds, OfKind, One
<1>4. \A x \in Frames : <<x>> \in Seq(Frames) /\ DOMAIN <<x>> = {1} /\ <<x>>[1] = x
  OBVIOUS
<1>5. Piece(<<Item(k)>>)
  BY <1>1, <1>4 DEF Piece, OfRound
<1>6. k \notin Contents => Piece(<<Frame(k)>>)
  BY <1>2, <1>4 DEF Piece, OfRound, IsContent
<1> QED
  BY <1>1, <1>2, <1>3, <1>5, <1>6

LEMMA AddsNothing == Piece(<<>>) /\ \A K : Adds(<<>>, K) = 0
  BY AmountOfFew DEF Piece, OfRound, Adds

LEMMA AddsWhen ==
  ASSUME NEW s, Piece(s), NEW c \in BOOLEAN
  PROVE  Piece(When(c, s)) /\ \A K : Adds(When(c, s), K) = IF c THEN Adds(s, K) ELSE 0
<1>1. CASE c
  BY <1>1 DEF When
<1>2. CASE ~c
  BY <1>2, AddsNothing DEF When
<1> QED
  BY <1>1, <1>2

(* n times the same.                                                         *)
LEMMA AddsMany ==
  ASSUME tries.rounds \in Nat, NEW k \in Kinds, NEW n \in Nat
  PROVE  LET s == [i \in 1..n |-> Item(k)]
         IN  Piece(s) /\ \A K : Adds(s, K) = IF k \in K THEN n ELSE 0
<1> DEFINE s == [i \in 1..n |-> Item(k)]
<1>1. Item(k) \in Frames /\ Item(k).kind = k /\ Item(k).round = tries.rounds
  BY DEF Item, Frames
<1>2. s \in Seq(Frames) /\ DOMAIN s = 1..n /\ \A i \in 1..n : s[i] = Item(k)
  BY <1>1
<1>3. Piece(s)
  BY <1>1, <1>2 DEF Piece, OfRound
<1>4. ASSUME NEW K PROVE Adds(s, K) = IF k \in K THEN n ELSE 0
  <2>1. CASE k \in K
    <3>1. {i \in DOMAIN s : s[i] \in OfKind(K)} = 1..n
      BY <1>1, <1>2, <2>1 DEF OfKind
    <3>2. Cardinality(1..n) = n
      BY FS_Interval
    <3> QED
      BY <2>1, <3>1, <3>2 DEF Adds, Amount
  <2>2. CASE k \notin K
    <3>1. {i \in DOMAIN s : s[i] \in OfKind(K)} = {}
      BY <1>1, <1>2, <2>2 DEF OfKind
    <3> QED
      BY <2>2, <3>1, FS_EmptySet DEF Adds, Amount
  <2> QED
    BY <2>1, <2>2
<1> QED
  BY <1>3, <1>4

(* The pieces the handler sends.                                             *)
Quiet(K) == K \cap {"role", "usage", "done", "stop"} = {}

LEMMA KindsFacts ==
  /\ Contents = {"thought", "text", "guarded", "call", "note"}
  /\ Kinds = {"thought", "text", "guarded", "call", "note", "role", "error", "stop", "done",
              "usage", "tool_calls"}
  BY DEF Contents, Kinds

LEMMA BrokenAdds ==
  ASSUME tries.rounds \in Nat
  PROVE  /\ Piece(Broken)
         /\ \A K : Adds(Broken, K) = One("error" \in K) + One("stop" \in K) + One("done" \in K)
<1> DEFINE a == <<Frame("error")>>
           b == <<Frame("stop")>>
           c == <<Frame("done")>>
<1>1. Broken = (a \o b) \o c
  BY DEF Broken
<1>2. /\ Piece(a) /\ \A K : Adds(a, K) = One("error" \in K)
      /\ Piece(b) /\ \A K : Adds(b, K) = One("stop" \in K)
      /\ Piece(c) /\ \A K : Adds(c, K) = One("done" \in K)
  BY KindsFacts, AddsOne
<1> HIDE DEF a, b, c
<1>3. Piece(a \o b) /\ \A K : Adds(a \o b, K) = Adds(a, K) + Adds(b, K)
  BY <1>2, AddsJoined
<1>4. Piece((a \o b) \o c) /\ \A K : Adds((a \o b) \o c, K) = Adds(a \o b, K) + Adds(c, K)
  BY <1>2, <1>3, AddsJoined
<1> QED
  BY <1>1, <1>2, <1>3, <1>4

LEMMA RoleAdds ==
  ASSUME tries.rounds \in Nat
  PROVE  Piece(Role) /\ \A K : Quiet(K) => Adds(Role, K) = 0
<1> DEFINE c == ~\E i \in DOMAIN out : out[i].kind = "role"
           s == <<Frame("role")>>
<1>1. Piece(s) /\ \A K : Adds(s, K) = One("role" \in K)
  BY KindsFacts, AddsOne
<1>2. Role = When(c, s) /\ c \in BOOLEAN
  BY DEF Role
<1> HIDE DEF c, s
<1>3. Piece(When(c, s)) /\ \A K : Adds(When(c, s), K) = IF c THEN Adds(s, K) ELSE 0
  BY <1>1, <1>2, AddsWhen
<1>4. \A K : Quiet(K) => "role" \notin K
  BY DEF Quiet
<1> QED
  BY <1>1, <1>2, <1>3, <1>4 DEF One

KeptKind(h) == IF h THEN "guarded" ELSE "text"

LEMMA KeptAdds ==
  ASSUME tries.rounds \in Nat, NEW h
  PROVE  /\ Piece(Kept(h))
         /\ \A K : Adds(Kept(h), K) = IF got.text # "none" THEN One(KeptKind(h) \in K) ELSE 0
<1> DEFINE s == <<Item(KeptKind(h))>>
           c == got.text # "none"
<1>1. Piece(s) /\ \A K : Adds(s, K) = One(KeptKind(h) \in K)
  BY KindsFacts, AddsOne DEF KeptKind
<1>2. Kept(h) = When(c, s) /\ c \in BOOLEAN
  BY DEF Kept, KeptKind
<1> HIDE DEF c, s
<1>3. Piece(When(c, s)) /\ \A K : Adds(When(c, s), K) = IF c THEN Adds(s, K) ELSE 0
  BY <1>1, <1>2, AddsWhen
<1> QED
  BY <1>1, <1>2, <1>3 DEF c

LEMMA NoteAdds ==
  ASSUME tries.rounds \in Nat, got.blocked \in BOOLEAN
  PROVE  LET note == When(got.blocked, <<Item("note")>>)
         IN  /\ Piece(note)
             /\ \A K : Adds(note, K) = IF got.blocked THEN One("note" \in K) ELSE 0
<1> DEFINE s == <<Item("note")>>
<1>1. Piece(s) /\ \A K : Adds(s, K) = One("note" \in K)
  BY KindsFacts, AddsOne
<1> HIDE DEF s
<1>2. Piece(When(got.blocked, s))
      /\ \A K : Adds(When(got.blocked, s), K) = IF got.blocked THEN Adds(s, K) ELSE 0
  BY <1>1, AddsWhen
<1> QED
  BY <1>1, <1>2 DEF s

ReasonKind == IF got.called THEN "tool_calls" ELSE "stop"

LEMMA ReasonAdds ==
  ASSUME tries.rounds \in Nat
  PROVE  Piece(Reason) /\ \A K : Adds(Reason, K) = One(ReasonKind \in K)
<1>1. ReasonKind \in Kinds /\ ReasonKind \notin Contents /\ Reason = <<Frame(ReasonKind)>>
  BY KindsFacts DEF ReasonKind, Reason
<1> QED
  BY <1>1, AddsOne

LEMMA StreamTailAdds ==
  ASSUME tries.rounds \in Nat, got.blocked \in BOOLEAN
  PROVE  LET h == ~ask.gate /\ Hit(got.text)
         IN  /\ Piece(StreamTail)
             /\ \A K : Quiet(K) =>
                  Adds(StreamTail, K) =
                    (IF got.text # "none" THEN One(KeptKind(h) \in K) ELSE 0)
                      + (IF got.blocked THEN One("note" \in K) ELSE 0)
                      + One(ReasonKind \in K)
<1> DEFINE h == ~ask.gate /\ Hit(got.text)
           text == Kept(h)
           note == When(got.blocked, <<Item("note")>>)
           end == <<Frame("usage")>> \o <<Frame("done")>>
           front == IF text = <<>> THEN note \o Role ELSE (Role \o text) \o note
<1>1. /\ Piece(text)
      /\ \A K : Adds(text, K) = IF got.text # "none" THEN One(KeptKind(h) \in K) ELSE 0
  BY KeptAdds
<1>2. /\ Piece(note)
      /\ \A K : Adds(note, K) = IF got.blocked THEN One("note" \in K) ELSE 0
  BY NoteAdds
<1>3. Piece(Role) /\ \A K : Quiet(K) => Adds(Role, K) = 0
  BY RoleAdds
<1>4. Piece(end) /\ \A K : Quiet(K) => Adds(end, K) = 0
  <2>1. /\ Piece(<<Frame("usage")>>) /\ \A K : Adds(<<Frame("usage")>>, K) = One("usage" \in K)
        /\ Piece(<<Frame("done")>>) /\ \A K : Adds(<<Frame("done")>>, K) = One("done" \in K)
    BY KindsFacts, AddsOne
  <2>2. Piece(end) /\ \A K : Adds(end, K) = Adds(<<Frame("usage")>>, K) + Adds(<<Frame("done")>>, K)
    BY <2>1, AddsJoined
  <2>3. \A K : Quiet(K) => "usage" \notin K /\ "done" \notin K
    BY DEF Quiet
  <2> HIDE DEF end
  <2> QED
    BY <2>1, <2>2, <2>3 DEF One
<1>5. Piece(Reason) /\ \A K : Adds(Reason, K) = One(ReasonKind \in K)
  BY ReasonAdds
<1>6. StreamTail = (front \o Reason) \o end
  <2>1. front \in Seq(Frames) /\ Reason \in Seq(Frames)
    BY <1>1, <1>2, <1>3, <1>5 DEF Piece
  <2>2. <<Frame("usage"), Frame("done")>> = end
    OBVIOUS
  <2> QED
    BY <2>1, <2>2 DEF StreamTail
<1> HIDE DEF text, note, end, h
<1>7. Piece(front) /\ \A K : Quiet(K) => Adds(front, K) = Adds(text, K) + Adds(note, K)
  <2>1. CASE text = <<>>
    <3>1. Piece(note \o Role) /\ \A K : Adds(note \o Role, K) = Adds(note, K) + Adds(Role, K)
      BY <1>2, <1>3, AddsJoined
    <3>2. \A K : Adds(text, K) = 0
      BY <2>1, AddsNothing
    <3>3. \A K : Adds(note, K) \in Nat
      BY <1>2, AddsType
    <3> QED
      BY <1>3, <2>1, <3>1, <3>2, <3>3
  <2>2. CASE text # <<>>
    <3>1. Piece(Role \o text) /\ \A K : Adds(Role \o text, K) = Adds(Role, K) + Adds(text, K)
      BY <1>1, <1>3, AddsJoined
    <3>2. /\ Piece((Role \o text) \o note)
          /\ \A K : Adds((Role \o text) \o note, K) = Adds(Role \o text, K) + Adds(note, K)
      BY <1>2, <3>1, AddsJoined
    <3>3. \A K : Adds(text, K) \in Nat
      BY <1>1, AddsType
    <3> QED
      BY <1>3, <2>2, <3>1, <3>2, <3>3
  <2> QED
    BY <2>1, <2>2
<1> HIDE DEF front
<1>8. Piece(front \o Reason) /\ \A K : Adds(front \o Reason, K) = Adds(front, K) + Adds(Reason, K)
  BY <1>5, <1>7, AddsJoined
<1>9. /\ Piece((front \o Reason) \o end)
      /\ \A K : Adds((front \o Reason) \o end, K) = Adds(front \o Reason, K) + Adds(end, K)
  BY <1>4, <1>8, AddsJoined
<1>10. Piece(StreamTail)
  BY <1>6, <1>9
<1>11. ASSUME NEW K, Quiet(K)
       PROVE  Adds(StreamTail, K) = Adds(text, K) + Adds(note, K) + Adds(Reason, K)
  <2>1. Adds(text, K) \in Nat /\ Adds(note, K) \in Nat /\ Adds(Reason, K) \in Nat
    BY <1>1, <1>2, <1>5, AddsType
  <2> QED
    BY <1>4, <1>6, <1>7, <1>8, <1>9, <1>11, <2>1
<1> QED
  BY <1>1, <1>2, <1>5, <1>10, <1>11 DEF h

Caught == ~Spared /\ ask.tools /\ got.blocked

LEMMA JSONReplyAdds ==
  ASSUME tries.rounds \in Nat, got.blocked \in BOOLEAN, answer.thought \in BOOLEAN,
         Known(answer) \in Nat
  PROVE  /\ Piece(JSONReply)
         /\ \A K : Adds(JSONReply, K) =
              (IF answer.thought THEN One("thought" \in K) ELSE 0)
                + (IF Caught THEN One("guarded" \in K)
                   ELSE (IF got.text # "none" THEN One(KeptKind(Hit(got.text)) \in K) ELSE 0)
                          + (IF got.blocked THEN One("note" \in K) ELSE 0))
                + (IF "call" \in K THEN Known(answer) ELSE 0)
                + One(ReasonKind \in K)
<1> DEFINE thought == When(answer.thought, <<Item("thought")>>)
           kept == Kept(Hit(got.text))
           note == When(got.blocked, <<Item("note")>>)
           clean == <<Item("guarded")>>
           text == IF Caught THEN clean ELSE kept \o note
           calls == [i \in 1..Known(answer) |-> Item("call")]
<1>1. /\ Piece(thought)
      /\ \A K : Adds(thought, K) = IF answer.thought THEN One("thought" \in K) ELSE 0
  <2>1. /\ Piece(<<Item("thought")>>)
        /\ \A K : Adds(<<Item("thought")>>, K) = One("thought" \in K)
    BY KindsFacts, AddsOne
  <2>2. /\ Piece(When(answer.thought, <<Item("thought")>>))
        /\ \A K : Adds(When(answer.thought, <<Item("thought")>>), K)
                    = IF answer.thought THEN Adds(<<Item("thought")>>, K) ELSE 0
    BY <2>1, AddsWhen
  <2> QED
    BY <2>1, <2>2
<1>2. /\ Piece(kept)
      /\ \A K : Adds(kept, K) = IF got.text # "none" THEN One(KeptKind(Hit(got.text)) \in K) ELSE 0
  BY KeptAdds
<1>3. Piece(note) /\ \A K : Adds(note, K) = IF got.blocked THEN One("note" \in K) ELSE 0
  BY NoteAdds
<1>4. Piece(clean) /\ \A K : Adds(clean, K) = One("guarded" \in K)
  BY KindsFacts, AddsOne
<1>5. Piece(calls) /\ \A K : Adds(calls, K) = IF "call" \in K THEN Known(answer) ELSE 0
  BY KindsFacts, AddsMany
<1>6. Piece(Reason) /\ \A K : Adds(Reason, K) = One(ReasonKind \in K)
  BY ReasonAdds
<1>7. JSONReply = ((thought \o text) \o calls) \o Reason
  BY DEF JSONReply, Caught
<1> HIDE DEF thought, kept, note, clean, calls
<1>8. /\ Piece(text)
      /\ \A K : Adds(text, K) = IF Caught THEN Adds(clean, K) ELSE Adds(kept, K) + Adds(note, K)
  <2>1. Piece(kept \o note) /\ \A K : Adds(kept \o note, K) = Adds(kept, K) + Adds(note, K)
    BY <1>2, <1>3, AddsJoined
  <2>2. CASE Caught
    BY <1>4, <2>2
  <2>3. CASE ~Caught
    BY <2>1, <2>3
  <2> QED
    BY <2>2, <2>3
<1> HIDE DEF text
<1>9. Piece(thought \o text) /\ \A K : Adds(thought \o text, K) = Adds(thought, K) + Adds(text, K)
  BY <1>1, <1>8, AddsJoined
<1>10. /\ Piece((thought \o text) \o calls)
       /\ \A K : Adds((thought \o text) \o calls, K) = Adds(thought \o text, K) + Adds(calls, K)
  BY <1>5, <1>9, AddsJoined
<1>11. /\ Piece(((thought \o text) \o calls) \o Reason)
       /\ \A K : Adds(((thought \o text) \o calls) \o Reason, K)
                   = Adds((thought \o text) \o calls, K) + Adds(Reason, K)
  BY <1>6, <1>10, AddsJoined
<1>12. ASSUME NEW K
       PROVE  Adds(JSONReply, K) = Adds(thought, K) + Adds(text, K) + Adds(calls, K) + Adds(Reason, K)
  BY <1>7, <1>9, <1>10, <1>11
<1> QED
  BY <1>1, <1>2, <1>3, <1>4, <1>5, <1>6, <1>7, <1>8, <1>11, <1>12

Flush == ask.stream /\ ~ask.gate /\ got.text # "none"

LEMMA CallAdds ==
  ASSUME tries.rounds \in Nat
  PROVE  LET s == When(Flush, Role \o <<Item("text")>>) \o <<Item("call")>>
         IN  /\ Piece(s)
             /\ \A K : Quiet(K) =>
                  Adds(s, K) = (IF Flush THEN One("text" \in K) ELSE 0) + One("call" \in K)
<1> DEFINE text == <<Item("text")>>
           call == <<Item("call")>>
<1>1. /\ Piece(text) /\ \A K : Adds(text, K) = One("text" \in K)
      /\ Piece(call) /\ \A K : Adds(call, K) = One("call" \in K)
  BY KindsFacts, AddsOne
<1>2. Piece(Role) /\ \A K : Quiet(K) => Adds(Role, K) = 0
  BY RoleAdds
<1>3. Flush \in BOOLEAN
  BY DEF Flush
<1> HIDE DEF text, call
<1>4. Piece(Role \o text) /\ \A K : Adds(Role \o text, K) = Adds(Role, K) + Adds(text, K)
  BY <1>1, <1>2, AddsJoined
<1>5. /\ Piece(When(Flush, Role \o text))
      /\ \A K : Adds(When(Flush, Role \o text), K) = IF Flush THEN Adds(Role \o text, K) ELSE 0
  BY <1>3, <1>4, AddsWhen
<1>6. /\ Piece(When(Flush, Role \o text) \o call)
      /\ \A K : Adds(When(Flush, Role \o text) \o call, K)
                  = Adds(When(Flush, Role \o text), K) + Adds(call, K)
  BY <1>1, <1>5, AddsJoined
<1>7. ASSUME NEW K, Quiet(K)
      PROVE  Adds(When(Flush, Role \o text) \o call, K)
               = (IF Flush THEN One("text" \in K) ELSE 0) + One("call" \in K)
  <2>1. CASE Flush
    <3>1. Adds(Role, K) = 0
      BY <1>2, <1>7
    <3>2. Adds(Role \o text, K) = One("text" \in K)
      BY <1>1, <1>4, <3>1 DEF One
    <3>3. Adds(When(Flush, Role \o text), K) = Adds(Role \o text, K)
      BY <1>5, <2>1
    <3>4. Adds(call, K) = One("call" \in K)
      BY <1>1
    <3>5. Adds(When(Flush, Role \o text) \o call, K)
            = Adds(When(Flush, Role \o text), K) + Adds(call, K)
      BY <1>6
    <3> QED
      BY <2>1, <3>2, <3>3, <3>4, <3>5
  <2>2. CASE ~Flush
    BY <1>1, <1>5, <1>6, <2>2 DEF One
  <2> QED
    BY <2>1, <2>2
<1> QED
  BY <1>6, <1>7 DEF text, call

(* What each step needs of the sums.                                         *)
LEMMA OutGrows ==
  ASSUME out \in Seq(Frames), OfRound(out), NEW s, Piece(s), out' = out \o s, UNCHANGED tries
  PROVE  /\ out' \in Seq(Frames) /\ OfRound(out)'
         /\ \A K : Count(K)' = Count(K) + Adds(s, K) /\ Count(K) \in Nat /\ Adds(s, K) \in Nat
<1>1. Piece(out) /\ Piece(s)
  BY DEF Piece
<1>2. Piece(out \o s) /\ \A K : Adds(out \o s, K) = Adds(out, K) + Adds(s, K)
  BY <1>1, AddsJoined
<1>3. out' \in Seq(Frames)
  BY <1>2 DEF Piece
<1>4. OfRound(out)'
  BY <1>2 DEF Piece, OfRound
<1>5. ASSUME NEW K
      PROVE  Count(K)' = Count(K) + Adds(s, K) /\ Count(K) \in Nat /\ Adds(s, K) \in Nat
  <2>1. Count(K) = Adds(out, K) /\ Count(K) \in Nat
    BY CountAdds
  <2>2. Count(K)' = Adds(out', K)
    <3>1. {i \in DOMAIN out' : out'[i].kind \in K} = {i \in DOMAIN out' : out'[i] \in OfKind(K)}
      BY <1>3 DEF OfKind
    <3> QED
      BY <3>1 DEF Count, Adds, Amount
  <2>3. Adds(s, K) \in Nat
    BY AddsType
  <2> QED
    BY <1>2, <2>1, <2>2, <2>3
<1> QED
  BY <1>3, <1>4, <1>5

LEMMA OutStays ==
  ASSUME UNCHANGED out
  PROVE  \A K : Count(K)' = Count(K)
  BY DEF Count

LEMMA TimesIs == \A s, v : Times(s, v) = Amount(s, {v})
  BY DEF Times, Amount

LEMMA LeftType ==
  ASSUME coming \in Seq(Said)
  PROVE  \A v : Left(v) \in Nat
  BY TimesIs, AmountType DEF Left

LEMMA NothingLeft ==
  ASSUME coming = <<>>
  PROVE  \A v : Left(v) = 0
  BY TimesIs, AmountOfFew DEF Left

LEMMA OneLess ==
  ASSUME coming \in Seq(Said), coming # <<>>, coming' = Tail(coming)
  PROVE  /\ coming' \in Seq(Said)
         /\ \A v : Left(v) = Left(v)' + One(v = Head(coming)) /\ Left(v)' \in Nat
<1>1. coming' \in Seq(Said)
  OBVIOUS
<1>2. ASSUME NEW v
      PROVE  Left(v) = Left(v)' + One(v = Head(coming)) /\ Left(v)' \in Nat
  <2>1. Amount(coming, {v}) = Amount(Tail(coming), {v}) + (IF Head(coming) \in {v} THEN 1 ELSE 0)
    BY AmountOfTail
  <2>2. Amount(coming', {v}) \in Nat
    BY <1>1, AmountType
  <2> QED
    BY <2>1, <2>2, TimesIs DEF Left, One
<1> QED
  BY <1>1, <1>2

LEMMA TimesJoined ==
  ASSUME NEW s \in Seq(Said), NEW t \in Seq(Said)
  PROVE  /\ s \o t \in Seq(Said)
         /\ \A v : Times(s \o t, v) = Times(s, v) + Times(t, v)
         /\ \A v : Times(s, v) \in Nat /\ Times(t, v) \in Nat
<1>1. \A v : Amount(s \o t, {v}) = Amount(s, {v}) + Amount(t, {v})
  BY AmountJoined
<1>2. \A v : Amount(s, {v}) \in Nat /\ Amount(t, {v}) \in Nat
  BY AmountType
<1>3. s \o t \in Seq(Said)
  OBVIOUS
<1> QED
  BY <1>1, <1>2, <1>3, TimesIs, Zenon

LEMMA TimesOfFew ==
  ASSUME NEW c \in BOOLEAN, NEW x \in Said
  PROVE  /\ When(c, <<x>>) \in Seq(Said)
         /\ \A v : Times(When(c, <<x>>), v) = IF c THEN One(v = x) ELSE 0
<1>1. \A v : Amount(<<x>>, {v}) = One(v = x)
  <2>1. \A v : Amount(<<x>>, {v}) = IF x \in {v} THEN 1 ELSE 0
    BY AmountOfFew
  <2> QED
    BY <2>1 DEF One
<1>2. \A v : Amount(<<>>, {v}) = 0
  BY AmountOfFew
<1>3. \A v : Times(<<x>>, v) = One(v = x) /\ Times(<<>>, v) = 0
  BY <1>1, <1>2, TimesIs, Zenon
<1>4. <<x>> \in Seq(Said) /\ <<>> \in Seq(Said)
  OBVIOUS
<1>5. CASE c
  BY <1>3, <1>4, <1>5 DEF When
<1>6. CASE ~c
  BY <1>3, <1>4, <1>6 DEF When
<1> QED
  BY <1>5, <1>6

LEMMA AnswersTyped ==
  ASSUME NEW a \in Answers
  PROVE  /\ a.thought \in BOOLEAN /\ a.text \in Texts /\ a.callsFirst \in BOOLEAN
         /\ a.calls \in Seq(Said) /\ Known(a) \in Nat
         /\ Times(a.calls, "text") = 0 /\ Times(a.calls, "thought") = 0
<1>1. /\ a.thought \in BOOLEAN /\ a.text \in Texts /\ a.callsFirst \in BOOLEAN
      /\ a.calls \in {<<>>, <<"known">>, <<"known", "known">>, <<"foreign">>, <<"known", "foreign">>}
  BY DEF Answers
<1>2. /\ <<>> \in Seq(Said) /\ <<"known">> \in Seq(Said) /\ <<"known", "known">> \in Seq(Said)
      /\ <<"foreign">> \in Seq(Said) /\ <<"known", "foreign">> \in Seq(Said)
  BY DEF Said
<1>3. a.calls \in Seq(Said)
  BY <1>1, <1>2
<1>4. \A i \in DOMAIN a.calls : a.calls[i] \in {"known", "foreign"}
  BY <1>1
<1>5. /\ \A i \in DOMAIN a.calls : a.calls[i] \notin {"text"}
      /\ \A i \in DOMAIN a.calls : a.calls[i] \notin {"thought"}
  BY <1>4
<1>6. Amount(a.calls, {"text"}) = 0 /\ Amount(a.calls, {"thought"}) = 0
  BY <1>3, <1>5, AmountType
<1>7. Amount(a.calls, {"known"}) \in Nat
  BY <1>3, AmountType
<1> QED
  BY <1>1, <1>3, <1>6, <1>7, TimesIs DEF Known

LEMMA NoAnswerTyped == NoAnswer \in Answers
  BY DEF NoAnswer, Answers, Texts

(* The events of a round are what the upstream says, each once.              *)
LEMMA EventsCount ==
  ASSUME NEW a \in Answers
  PROVE  /\ Events(a) \in Seq(Said)
         /\ Times(Events(a), "text") = One(a.text # "none")
         /\ Times(Events(a), "thought") = One(a.thought)
         /\ Times(Events(a), "known") = Known(a)
<1> DEFINE thought == When(a.thought, <<"thought">>)
           text == When(a.text # "none", <<"text">>)
           calls == a.calls
           after == IF a.callsFirst THEN calls \o text ELSE text \o calls
<1>1. /\ thought \in Seq(Said)
      /\ \A v : Times(thought, v) = IF a.thought THEN One(v = "thought") ELSE 0
  BY AnswersTyped, TimesOfFew DEF Said
<1>2. /\ text \in Seq(Said)
      /\ \A v : Times(text, v) = IF a.text # "none" THEN One(v = "text") ELSE 0
  <2>1. (a.text # "none") \in BOOLEAN /\ "text" \in Said
    BY DEF Said
  <2> QED
    BY <2>1, TimesOfFew
<1>3. /\ calls \in Seq(Said) /\ Times(calls, "text") = 0 /\ Times(calls, "thought") = 0
      /\ Times(calls, "known") = Known(a) /\ Known(a) \in Nat
  BY AnswersTyped DEF Known
<1>4. Events(a) = thought \o after
  BY DEF Events
<1>5. a.callsFirst \in BOOLEAN
  BY AnswersTyped
<1> HIDE DEF thought, text, calls
<1>6. after \in Seq(Said) /\ \A v : Times(after, v) = Times(calls, v) + Times(text, v)
  <2>1. /\ calls \o text \in Seq(Said)
        /\ \A v : Times(calls \o text, v) = Times(calls, v) + Times(text, v)
        /\ \A v : Times(text, v) \in Nat /\ Times(calls, v) \in Nat
    BY <1>2, <1>3, TimesJoined
  <2>2. /\ text \o calls \in Seq(Said)
        /\ \A v : Times(text \o calls, v) = Times(text, v) + Times(calls, v)
    BY <1>2, <1>3, TimesJoined
  <2>3. \A v : Times(text, v) + Times(calls, v) = Times(calls, v) + Times(text, v)
    BY <2>1
  <2>4. CASE a.callsFirst
    BY <2>1, <2>4
  <2>5. CASE ~a.callsFirst
    BY <2>2, <2>3, <2>5, Zenon
  <2> QED
    BY <2>4, <2>5
<1> HIDE DEF after
<1>7. /\ thought \o after \in Seq(Said)
      /\ \A v : Times(thought \o after, v) = Times(thought, v) + Times(after, v)
  BY <1>1, <1>6, TimesJoined
<1> QED
  BY <1>1, <1>2, <1>3, <1>4, <1>6, <1>7 DEF One

(* The sums the invariant speaks of.                                         *)
LEMMA QuietSums ==
  /\ Quiet({"thought"}) /\ Quiet({"call"}) /\ Quiet({"text", "guarded"})
  /\ Quiet({"tool_calls"}) /\ Quiet({"error"}) /\ Quiet(Contents)
  BY KindsFacts DEF Quiet

(* A content item of one of three kinds is a content item.                   *)
LEMMA SumsOfContents ==
  ASSUME out \in Seq(Frames), Count(Contents) = 0
  PROVE  Count({"thought"}) = 0 /\ Count({"call"}) = 0 /\ Count({"text", "guarded"}) = 0
<1>1. \A K : Count(K) = 0 <=> \A i \in DOMAIN out : out[i].kind \notin K
  BY CountZero
<1> QED
  BY <1>1, KindsFacts

LEMMA ChatInvInit == ChatInit => ChatInv
<1> SUFFICES ASSUME ChatInit PROVE ChatInv
  OBVIOUS
<1>1. ChatTypeOK
  BY NoAnswerTyped DEF ChatInit, ChatTypeOK, NothingKept, Texts, NoAnswer
<1>2. \A K : Count(K) = 0
  BY <1>1, CountZero DEF ChatInit, ChatTypeOK
<1> QED
  BY <1>1, <1>2 DEF ChatInit, ChatInv

(* Where only the turn, the account or the corrections change.               *)
LEMMA ChatWaits ==
  ASSUME ChatInv, turn # "over",
         turn' \in {"pick", "round"}, Count(Contents) = 0,
         tries' \in [picks : Nat, rounds : Nat, empty : Nat], tries'.rounds = tries.rounds,
         UNCHANGED <<ask, answer, coming, got, out, outcome>>
  PROVE  ChatInv'
<1>1. \A K : Count(K)' = Count(K)
  BY OutStays
<1>2. ChatTypeOK'
  BY DEF ChatTypeOK, ChatInv
<1> QED
  BY <1>1, <1>2 DEF ChatInv

LEMMA ChatEnds ==
  ASSUME ChatInv, turn # "over", NEW s, Piece(s),
         NEW result \in {"ok", "error", "body", "gone"}, Over(result, s),
         result = "error" => Adds(s, {"error"}) > 0,
         result = "ok" => Count({"error"})' = 0 /\ ChatDelivers'
  PROVE  ChatInv'
<1>1. /\ out' \in Seq(Frames) /\ OfRound(out)'
      /\ \A K : Count(K)' = Count(K) + Adds(s, K) /\ Count(K) \in Nat /\ Adds(s, K) \in Nat
  BY OutGrows DEF ChatInv, ChatTypeOK, OfRound, Over
<1>2. ChatTypeOK'
  BY <1>1 DEF ChatTypeOK, ChatInv, Over
<1>3. result = "error" => Count({"error"})' > 0
  BY <1>1
<1> QED
  BY <1>1, <1>2, <1>3 DEF ChatInv, OfRound, Over

LEMMA ChatBreaks ==
  ASSUME ChatInv, turn # "over", FailWith \/ Over("body", <<>>) \/ Over("gone", <<>>)
  PROVE  ChatInv'
<1>1. tries.rounds \in Nat
  BY DEF ChatInv, ChatTypeOK
<1>2. CASE Over("error", Broken)
  <2>1. Piece(Broken) /\ Adds(Broken, {"error"}) = 1
    BY <1>1, BrokenAdds DEF One
  <2> QED
    BY <1>2, <2>1, ChatEnds
<1>3. CASE Over("body", <<>>) \/ Over("gone", <<>>)
  BY <1>3, AddsNothing, ChatEnds
<1> QED
  BY <1>2, <1>3 DEF FailWith

LEMMA PickKeeps == ASSUME ChatInv, Pick \/ PickFails \/ RoundFails PROVE ChatInv'
<1>1. CASE Pick
  <2>1. /\ tries' \in [picks : Nat, rounds : Nat, empty : Nat] /\ tries'.rounds = tries.rounds
    BY <1>1 DEF Pick, ChatInv, ChatTypeOK
  <2> QED
    BY <1>1, <2>1, ChatWaits DEF Pick, ChatInv
<1>2. CASE PickFails
  BY <1>2, ChatBreaks DEF PickFails
<1>3. CASE RoundFails
  <2>1. CASE FailWith \/ Over("gone", <<>>)
    BY <1>3, <2>1, ChatBreaks DEF RoundFails
  <2>2. CASE turn' = "pick" /\ UNCHANGED <<ask, tries, answer, coming, got, extra, out, outcome>>
    BY <1>3, <2>2, ChatWaits DEF RoundFails, ChatInv, ChatTypeOK
  <2> QED
    BY <1>3, <2>1, <2>2 DEF RoundFails
<1> QED
  BY <1>1, <1>2, <1>3

LEMMA RoundAnswersKeeps == ASSUME ChatInv, RoundAnswers PROVE ChatInv'
<1>1. PICK a \in Answers : answer' = a /\ coming' = Events(a)
  BY DEF RoundAnswers
<1>2. /\ Events(a) \in Seq(Said)
      /\ Times(Events(a), "text") = One(a.text # "none")
      /\ Times(Events(a), "thought") = One(a.thought)
      /\ Times(Events(a), "known") = Known(a)
      /\ Known(a) \in Nat
  BY EventsCount, AnswersTyped
<1>3. ChatTypeOK'
  <2>1. tries' \in [picks : Nat, rounds : Nat, empty : Nat]
    BY DEF RoundAnswers, ChatInv, ChatTypeOK
  <2>2. got' \in [text : Texts, called : BOOLEAN, blocked : BOOLEAN, said : BOOLEAN, sent : BOOLEAN]
    BY DEF RoundAnswers, NothingKept, Texts
  <2>3. coming' \in Seq(Said) /\ answer' \in Answers
    BY <1>1, <1>2
  <2> QED
    BY <2>1, <2>2, <2>3 DEF RoundAnswers, ChatInv, ChatTypeOK
<1>4. \A K : Count(K)' = Count(K)
  BY OutStays DEF RoundAnswers
<1>5. Count(Contents) = 0 /\ Count({"thought"}) = 0 /\ Count({"call"}) = 0
      /\ Count({"text", "guarded"}) = 0
  BY SumsOfContents DEF RoundAnswers, ChatInv, ChatTypeOK
<1>6. Left("text")' = One(a.text # "none") /\ Left("thought")' = One(a.thought)
      /\ Left("known")' = Known(answer)'
  BY <1>1, <1>2 DEF Left, Known
<1>7. NothingLost'
  BY <1>1, <1>2, <1>4, <1>5, <1>6 DEF RoundAnswers, NothingLost, NothingKept, One, Known
<1>8. \A i \in DOMAIN out' : ~IsContent(out'[i])
  BY <1>5, CountZero DEF RoundAnswers, ChatInv, ChatTypeOK, IsContent
<1> QED
  BY <1>3, <1>4, <1>7, <1>8 DEF RoundAnswers, ChatInv, IsContent

(* One event of the round: what every one of them keeps.                     *)
LEMMA TakenKeeps ==
  ASSUME ChatInv, turn = "events", coming # <<>>, NEW keep, NEW frames, Piece(frames),
         keep \in [text : Texts, called : BOOLEAN, blocked : BOOLEAN, said : BOOLEAN, sent : BOOLEAN],
         Taken(keep, frames),
         Adds(frames, {"tool_calls"}) = 0, Adds(frames, {"error"}) = 0, NothingLost'
  PROVE  ChatInv'
<1> DEFINE s == IF ask.stream THEN frames ELSE <<>>
<1>1. Piece(s) /\ \A K : Adds(s, K) = IF ask.stream THEN Adds(frames, K) ELSE 0
  BY AddsNothing
<1>2. out' = out \o s
  BY DEF Taken, ChatInv, ChatTypeOK
<1> HIDE DEF s
<1>3. /\ out' \in Seq(Frames) /\ OfRound(out)'
      /\ \A K : Count(K)' = Count(K) + Adds(s, K) /\ Count(K) \in Nat /\ Adds(s, K) \in Nat
  BY <1>1, <1>2, OutGrows DEF ChatInv, ChatTypeOK, OfRound, Taken
<1>4. coming' \in Seq(Said)
  BY OneLess DEF Taken, ChatInv, ChatTypeOK
<1>5. ChatTypeOK'
  BY <1>3, <1>4 DEF ChatTypeOK, ChatInv, Taken
<1>6. Count({"tool_calls"})' = 0 /\ Count({"error"})' = 0
  BY <1>1, <1>3 DEF ChatInv
<1>7. ~ask.stream => out' = <<>>
  BY DEF ChatInv, Taken
<1> QED
  BY <1>3, <1>5, <1>6, <1>7 DEF ChatInv, OfRound, Taken

(* ... and what it does to the sums of the round.                            *)
LEMMA TakenCounts ==
  ASSUME ChatInv, turn = "events", coming # <<>>, NEW keep, NEW frames, Piece(frames),
         Taken(keep, frames)
  PROVE  /\ \A K : /\ Count(K)' = Count(K) + (IF ask.stream THEN Adds(frames, K) ELSE 0)
                   /\ Count(K) \in Nat /\ Adds(frames, K) \in Nat
         /\ \A v : Left(v) = Left(v)' + One(v = Head(coming)) /\ Left(v)' \in Nat
         /\ ~ask.stream => \A K : Count(K) = 0
         /\ Known(answer) \in Nat /\ UNCHANGED Known(answer)
<1> DEFINE s == IF ask.stream THEN frames ELSE <<>>
<1>1. Piece(s) /\ \A K : Adds(s, K) = IF ask.stream THEN Adds(frames, K) ELSE 0
  BY AddsNothing
<1>2. out' = out \o s
  BY DEF Taken, ChatInv, ChatTypeOK
<1> HIDE DEF s
<1>3. \A K : Count(K)' = Count(K) + Adds(s, K) /\ Count(K) \in Nat
  BY <1>1, <1>2, OutGrows DEF ChatInv, ChatTypeOK, OfRound, Taken
<1>4. \A v : Left(v) = Left(v)' + One(v = Head(coming)) /\ Left(v)' \in Nat
  BY OneLess DEF Taken, ChatInv, ChatTypeOK
<1>5. ~ask.stream => \A K : Count(K) = 0
  BY CountZero DEF ChatInv, ChatTypeOK
<1>6. Known(answer) \in Nat /\ UNCHANGED Known(answer)
  BY AnswersTyped DEF ChatInv, ChatTypeOK, Taken, Known
<1>7. \A K : Adds(frames, K) \in Nat
  BY AddsType
<1> QED
  BY <1>1, <1>3, <1>4, <1>5, <1>6, <1>7

LEMMA ThoughtKeeps == ASSUME ChatInv, Thought PROVE ChatInv'
<1> DEFINE keep == Told(TRUE, [got EXCEPT !.sent = ask.stream])
           frames == <<Item("thought")>>
<1>1. /\ coming # <<>> /\ Head(coming) = "thought" /\ turn = "events"
      /\ Taken(keep, frames)
  BY DEF Thought, Taken
<1>2. Piece(frames) /\ \A K : Adds(frames, K) = One("thought" \in K)
  BY AddsOne, KindsFacts DEF ChatInv, ChatTypeOK
<1>3. /\ keep \in [text : Texts, called : BOOLEAN, blocked : BOOLEAN, said : BOOLEAN, sent : BOOLEAN]
      /\ keep.text = got.text /\ keep.called = got.called /\ keep.blocked = got.blocked
      /\ keep.said = TRUE /\ keep.sent = ask.stream
  BY DEF Told, ChatInv, ChatTypeOK, Asks
<1> HIDE DEF keep, frames
<1>4. /\ \A K : /\ Count(K)' = Count(K) + (IF ask.stream THEN Adds(frames, K) ELSE 0)
                /\ Count(K) \in Nat /\ Adds(frames, K) \in Nat
      /\ \A v : Left(v) = Left(v)' + One(v = Head(coming)) /\ Left(v)' \in Nat
      /\ ~ask.stream => \A K : Count(K) = 0
      /\ Known(answer) \in Nat /\ UNCHANGED Known(answer)
  BY <1>1, <1>2, TakenCounts
<1>5. /\ Left("thought") = Left("thought")' + 1 /\ Left("thought")' \in Nat
      /\ Left("text")' = Left("text") /\ Left("known")' = Left("known")
      /\ Left("text")' \in Nat /\ Left("known")' \in Nat
  BY <1>1, <1>4 DEF One
<1>6. /\ Adds(frames, {"thought"}) = 1 /\ Adds(frames, {"call"}) = 0
      /\ Adds(frames, {"text", "guarded"}) = 0 /\ Adds(frames, {"tool_calls"}) = 0
      /\ Adds(frames, {"error"}) = 0 /\ Adds(frames, Contents) = 1
  BY <1>2, KindsFacts DEF One
<1>7. /\ NothingLost /\ got' = keep /\ UNCHANGED <<ask, answer>>
  BY <1>1 DEF Taken, ChatInv
<1>8. Count(Contents)' > 0 <=> ask.stream
  BY <1>4, <1>6
<1>9. ask.stream =>
        /\ Count({"thought"})' + Left("thought")' = One(answer.thought)
        /\ Count({"call"})' + Left("known")' = Known(answer)
  BY <1>4, <1>5, <1>6, <1>7 DEF NothingLost
<1>10. ~ask.stream => answer.thought
  BY <1>5, <1>7 DEF NothingLost, One
<1>11. NothingLost'
  BY <1>3, <1>4, <1>5, <1>6, <1>7, <1>8, <1>9, <1>10 DEF NothingLost, One
<1> QED
  BY <1>1, <1>2, <1>3, <1>6, <1>11, TakenKeeps

GotType == [text : Texts, called : BOOLEAN, blocked : BOOLEAN, said : BOOLEAN, sent : BOOLEAN]

LEMMA TextKeeps == ASSUME ChatInv, Text PROVE ChatInv'
<1> DEFINE keep == Told(TRUE, [got EXCEPT !.text = answer.text])
<1>1. /\ coming # <<>> /\ Head(coming) = "text" /\ turn = "events"
      /\ Taken(keep, <<>>)
  BY DEF Text, Taken
<1>2. Piece(<<>>) /\ \A K : Adds(<<>>, K) = 0
  BY AddsNothing
<1>3. /\ keep \in GotType
      /\ keep.text = answer.text /\ keep.called = got.called /\ keep.blocked = got.blocked
      /\ keep.said = TRUE /\ keep.sent = got.sent
  <2>1. got \in GotType /\ answer.text \in Texts
    BY AnswersTyped DEF ChatInv, ChatTypeOK, GotType
  <2> QED
    BY <2>1 DEF Told, GotType
<1> HIDE DEF keep
<1>4. /\ \A K : /\ Count(K)' = Count(K) + (IF ask.stream THEN Adds(<<>>, K) ELSE 0)
                /\ Count(K) \in Nat /\ Adds(<<>>, K) \in Nat
      /\ \A v : Left(v) = Left(v)' + One(v = Head(coming)) /\ Left(v)' \in Nat
      /\ ~ask.stream => \A K : Count(K) = 0
      /\ Known(answer) \in Nat /\ UNCHANGED Known(answer)
  BY <1>1, <1>2, TakenCounts
<1>5. /\ Left("text") = Left("text")' + 1 /\ Left("text")' \in Nat
      /\ Left("thought")' = Left("thought") /\ Left("known")' = Left("known")
      /\ Left("thought")' \in Nat /\ Left("known")' \in Nat
  BY <1>1, <1>4 DEF One
<1>6. \A K : Count(K)' = Count(K)
  BY <1>2, <1>4
<1>7. /\ NothingLost /\ got' = keep /\ UNCHANGED <<ask, answer>>
  BY <1>1 DEF Taken, ChatInv
<1>8. /\ One(got.text # "none") = 0 /\ Count({"text", "guarded"}) = 0 /\ Left("text")' = 0
      /\ One(answer.text # "none") = 1 /\ answer.text # "none"
  <2>1. One(got.text # "none") \in {0, 1} /\ One(answer.text # "none") \in {0, 1}
    BY DEF One
  <2>2. Left("text") + One(got.text # "none") + Count({"text", "guarded"})
          = One(answer.text # "none")
    BY <1>7 DEF NothingLost
  <2>3. Count({"text", "guarded"}) \in Nat
    BY <1>4
  <2>4. One(answer.text # "none") = 1
    BY <1>5, <2>1, <2>2, <2>3
  <2> QED
    BY <1>5, <2>1, <2>2, <2>3, <2>4 DEF One
<1>9. NothingLost'
  BY <1>3, <1>4, <1>5, <1>6, <1>7, <1>8 DEF NothingLost
<1> QED
  BY <1>1, <1>2, <1>3, <1>9, TakenKeeps DEF GotType

LEMMA ForeignCallKeeps == ASSUME ChatInv, ForeignCall PROVE ChatInv'
<1> DEFINE keep == [got EXCEPT !.blocked = TRUE]
<1>1. /\ coming # <<>> /\ Head(coming) = "foreign" /\ turn = "events"
      /\ Taken(keep, <<>>)
  BY DEF ForeignCall, Taken
<1>2. Piece(<<>>) /\ \A K : Adds(<<>>, K) = 0
  BY AddsNothing
<1>3. /\ keep \in GotType
      /\ keep.text = got.text /\ keep.called = got.called
      /\ keep.said = got.said /\ keep.sent = got.sent
  BY DEF ChatInv, ChatTypeOK, GotType
<1> HIDE DEF keep
<1>4. /\ \A K : /\ Count(K)' = Count(K) + (IF ask.stream THEN Adds(<<>>, K) ELSE 0)
                /\ Count(K) \in Nat /\ Adds(<<>>, K) \in Nat
      /\ \A v : Left(v) = Left(v)' + One(v = Head(coming)) /\ Left(v)' \in Nat
      /\ Known(answer) \in Nat /\ UNCHANGED Known(answer)
  BY <1>1, <1>2, TakenCounts
<1>5. /\ Left("text") = Left("text")' /\ Left("thought")' = Left("thought")
      /\ Left("known")' = Left("known")
  BY <1>1, <1>4 DEF One
<1>6. \A K : Count(K)' = Count(K)
  BY <1>2, <1>4
<1>7. /\ NothingLost /\ got' = keep /\ UNCHANGED <<ask, answer>>
  BY <1>1 DEF Taken, ChatInv
<1>8. NothingLost'
  BY <1>3, <1>4, <1>5, <1>6, <1>7 DEF NothingLost
<1> QED
  BY <1>1, <1>2, <1>3, <1>8, TakenKeeps DEF GotType

LEMMA KnownCallKeeps == ASSUME ChatInv, KnownCall PROVE ChatInv'
<1> DEFINE keep == Told(TRUE, [got EXCEPT !.called = TRUE, !.sent = ask.stream,
                                          !.text = IF Flush THEN "none" ELSE @])
           frames == When(Flush, Role \o <<Item("text")>>) \o <<Item("call")>>
<1>1. /\ coming # <<>> /\ Head(coming) = "known" /\ turn = "events"
      /\ Taken(keep, frames)
  BY DEF KnownCall, Taken, Flush
<1>2. /\ Piece(frames)
      /\ \A K : Quiet(K) =>
           Adds(frames, K) = (IF Flush THEN One("text" \in K) ELSE 0) + One("call" \in K)
  BY CallAdds DEF ChatInv, ChatTypeOK
<1>3. /\ keep \in GotType
      /\ keep.text = (IF Flush THEN "none" ELSE got.text) /\ keep.called = TRUE
      /\ keep.said = TRUE /\ keep.sent = ask.stream
  <2>1. got \in GotType /\ ask.stream \in BOOLEAN /\ "none" \in Texts
    BY DEF ChatInv, ChatTypeOK, GotType, Asks, Texts
  <2> QED
    BY <2>1 DEF Told, GotType
<1> HIDE DEF keep, frames
<1>4. /\ \A K : /\ Count(K)' = Count(K) + (IF ask.stream THEN Adds(frames, K) ELSE 0)
                /\ Count(K) \in Nat /\ Adds(frames, K) \in Nat
      /\ \A v : Left(v) = Left(v)' + One(v = Head(coming)) /\ Left(v)' \in Nat
      /\ ~ask.stream => \A K : Count(K) = 0
      /\ Known(answer) \in Nat /\ UNCHANGED Known(answer)
  BY <1>1, <1>2, TakenCounts
<1>5. /\ Left("text") = Left("text")' /\ Left("thought")' = Left("thought")
      /\ Left("known") = Left("known")' + 1 /\ Left("known")' \in Nat
      /\ Left("text")' \in Nat /\ Left("thought")' \in Nat
  BY <1>1, <1>4 DEF One
<1>6. /\ Adds(frames, {"thought"}) = 0 /\ Adds(frames, {"call"}) = 1
      /\ Adds(frames, {"text", "guarded"}) = (IF Flush THEN 1 ELSE 0)
      /\ Adds(frames, {"tool_calls"}) = 0 /\ Adds(frames, {"error"}) = 0
      /\ Adds(frames, Contents) = (IF Flush THEN 1 ELSE 0) + 1
  BY <1>2, QuietSums, KindsFacts DEF One
<1>7. /\ NothingLost /\ got' = keep /\ UNCHANGED <<ask, answer>>
  BY <1>1 DEF Taken, ChatInv
<1>8. Count(Contents)' > 0 <=> ask.stream
  BY <1>4, <1>6
<1>9. ask.stream =>
        /\ Count({"thought"})' + Left("thought")' = One(answer.thought)
        /\ Count({"call"})' + Left("known")' = Known(answer)
  BY <1>4, <1>5, <1>6, <1>7 DEF NothingLost
<1>10. Left("text")' + One(got'.text # "none") + Count({"text", "guarded"})'
          = One(answer.text # "none")
  <2>1. CASE Flush
    <3>1. One(got.text # "none") = 1 /\ One(got'.text # "none") = 0
      BY <1>3, <1>7, <2>1 DEF Flush, One
    <3>2. Count({"text", "guarded"})' = Count({"text", "guarded"}) + 1
      BY <1>4, <1>6, <2>1 DEF Flush
    <3>3. Count({"text", "guarded"}) \in Nat
      BY <1>4
    <3>4. Left("text") + One(got.text # "none") + Count({"text", "guarded"})
            = One(answer.text # "none")
      BY <1>7 DEF NothingLost
    <3> QED
      BY <1>5, <1>7, <3>1, <3>2, <3>3, <3>4
  <2>2. CASE ~Flush
    BY <1>3, <1>4, <1>5, <1>6, <1>7, <2>2 DEF NothingLost
  <2> QED
    BY <2>1, <2>2
<1>11. NothingLost'
  BY <1>3, <1>4, <1>5, <1>6, <1>7, <1>8, <1>9, <1>10 DEF NothingLost, Flush
<1> QED
  BY <1>1, <1>2, <1>3, <1>6, <1>11, TakenKeeps DEF GotType

LEMMA RoundEndsKeeps == ASSUME ChatInv, RoundEnds PROVE ChatInv'
<1>1. /\ \A K : Count(K)' = Count(K)
      /\ \A v : Left(v)' = Left(v)
      /\ Known(answer)' = Known(answer)
  BY OutStays DEF RoundEnds, Left, Known
<1>2. ChatTypeOK'
  BY DEF RoundEnds, ChatInv, ChatTypeOK
<1>3. NothingLost'
  BY <1>1 DEF RoundEnds, ChatInv, NothingLost
<1> QED
  BY <1>1, <1>2, <1>3 DEF RoundEnds, ChatInv

LEMMA AgainKeeps == ASSUME ChatInv, Reinforce \/ Salvage \/ RetryEmpty \/ GiveUpEmpty PROVE ChatInv'
<1>1. NothingLost /\ turn = "judge"
  BY DEF ChatInv, Reinforce, Salvage, RetryEmpty, GiveUpEmpty
<1>2. Count(Contents) \in Nat
  BY CountAdds DEF ChatInv, ChatTypeOK
<1>3. CASE Reinforce \/ Salvage
  <2>1. Count(Contents) = 0
    BY <1>1, <1>2, <1>3 DEF NothingLost, Reinforce, Salvage, Reinforces, Salvages, Unseen
  <2> QED
    BY <1>1, <1>3, <2>1, ChatWaits DEF Reinforce, Salvage, Again, ChatInv, ChatTypeOK
<1>4. CASE RetryEmpty
  <2>1. Count(Contents) = 0
    BY <1>1, <1>2, <1>4 DEF NothingLost, RetryEmpty, Empty
  <2>2. tries' \in [picks : Nat, rounds : Nat, empty : Nat] /\ tries'.rounds = tries.rounds
    BY <1>4 DEF RetryEmpty, ChatInv, ChatTypeOK
  <2> QED
    BY <1>1, <1>4, <2>1, <2>2, ChatWaits DEF RetryEmpty
<1>5. CASE GiveUpEmpty
  BY <1>1, <1>5, ChatBreaks DEF GiveUpEmpty
<1> QED
  BY <1>3, <1>4, <1>5

LEMMA FinishKeeps == ASSUME ChatInv, Finish PROVE ChatInv'
<1> DEFINE text == {"text", "guarded"}
<1>1. /\ turn = "judge" /\ ~Empty /\ NothingLost /\ coming = <<>> /\ ChatTypeOK
      /\ Count({"tool_calls"}) = 0 /\ Count({"error"}) = 0 /\ (~ask.stream => out = <<>>)
  BY DEF Finish, ChatInv
<1>2. /\ tries.rounds \in Nat /\ got.blocked \in BOOLEAN /\ got.called \in BOOLEAN
      /\ answer.thought \in BOOLEAN /\ Known(answer) \in Nat
  BY <1>1, AnswersTyped DEF ChatTypeOK
<1>3. Left("text") = 0 /\ Left("thought") = 0 /\ Left("known") = 0
  BY <1>1, NothingLeft
<1>4. /\ \A K : Count(K) \in Nat
      /\ ~ask.stream => \A K : Count(K) = 0
  BY <1>1, CountAdds, CountZero DEF ChatTypeOK
<1>5. /\ One(got.text # "none") + Count(text) = One(answer.text # "none")
      /\ got.called <=> Known(answer) > 0
      /\ ask.stream => /\ Count({"thought"}) = One(answer.thought)
                       /\ Count({"call"}) = Known(answer)
  BY <1>1, <1>2, <1>3, <1>4 DEF NothingLost, One
<1>6. One(got.text # "none") \in Nat /\ One(answer.thought) \in Nat
  BY DEF One
<1>7. ReasonKind = IF got.called THEN "tool_calls" ELSE "stop"
  BY DEF ReasonKind
<1>8. CASE ask.stream
  <2> DEFINE h == ~ask.gate /\ Hit(got.text)
  <2>1. Over("ok", StreamTail)
    BY <1>8 DEF Finish
  <2>2. /\ Piece(StreamTail)
        /\ \A K : Quiet(K) =>
             Adds(StreamTail, K) =
               (IF got.text # "none" THEN One(KeptKind(h) \in K) ELSE 0)
                 + (IF got.blocked THEN One("note" \in K) ELSE 0)
                 + One(ReasonKind \in K)
    BY <1>2, StreamTailAdds
  <2> HIDE DEF h
  <2>3. /\ Adds(StreamTail, {"thought"}) = 0 /\ Adds(StreamTail, {"call"}) = 0
        /\ Adds(StreamTail, text) = One(got.text # "none")
        /\ Adds(StreamTail, {"tool_calls"}) = One(got.called)
        /\ Adds(StreamTail, {"error"}) = 0
    BY <1>7, <2>2, QuietSums DEF One, KeptKind
  <2>4. \A K : Count(K)' = Count(K) + Adds(StreamTail, K)
    BY <1>1, <2>1, <2>2, OutGrows DEF ChatInv, ChatTypeOK, OfRound, Over
  <2>5. Count({"error"})' = 0 /\ Count({"tool_calls"})' = One(got.called)
        /\ Count({"thought"})' = One(answer.thought) /\ Count({"call"})' = Known(answer)
        /\ Count(text)' = One(answer.text # "none")
    <3>1. One(got.called) \in Nat
      BY DEF One
    <3>2. Count({"error"})' = 0 /\ Count({"tool_calls"})' = One(got.called)
      BY <1>1, <2>3, <2>4, <3>1
    <3>3. Count({"thought"})' = One(answer.thought) /\ Count({"call"})' = Known(answer)
      BY <1>2, <1>5, <1>6, <1>8, <2>3, <2>4
    <3>4. Count(text)' = Count(text) + One(got.text # "none") /\ Count(text) \in Nat
      BY <1>4, <2>3, <2>4
    <3>5. Count(text)' = One(answer.text # "none")
      BY <1>5, <1>6, <3>4
    <3> QED
      BY <3>2, <3>3, <3>5
  <2>6. Known(answer)' = Known(answer) /\ UNCHANGED answer
    BY <2>1 DEF Over, Known
  <2>7. ChatDelivers'
    BY <1>5, <2>5, <2>6 DEF ChatDelivers, One
  <2> QED
    BY <1>1, <2>1, <2>2, <2>5, <2>7, ChatEnds
<1>9. CASE ~ask.stream
  <2>1. Over("ok", JSONReply)
    BY <1>9 DEF Finish
  <2>2. /\ Piece(JSONReply)
        /\ \A K : Adds(JSONReply, K) =
             (IF answer.thought THEN One("thought" \in K) ELSE 0)
               + (IF Caught THEN One("guarded" \in K)
                  ELSE (IF got.text # "none" THEN One(KeptKind(Hit(got.text)) \in K) ELSE 0)
                         + (IF got.blocked THEN One("note" \in K) ELSE 0))
               + (IF "call" \in K THEN Known(answer) ELSE 0)
               + One(ReasonKind \in K)
    BY <1>2, JSONReplyAdds
  <2>3. KeptKind(Hit(got.text)) \in text
    BY DEF KeptKind
  <2>4. /\ Adds(JSONReply, {"thought"}) = One(answer.thought)
        /\ Adds(JSONReply, {"call"}) = Known(answer)
        /\ Adds(JSONReply, text) = IF Caught THEN 1 ELSE One(got.text # "none")
        /\ Adds(JSONReply, {"tool_calls"}) = One(got.called)
        /\ Adds(JSONReply, {"error"}) = 0
    BY <1>2, <1>7, <2>2, <2>3 DEF One, KeptKind
  <2>5. \A K : Count(K)' = Count(K) + Adds(JSONReply, K)
    BY <1>1, <2>1, <2>2, OutGrows DEF ChatInv, ChatTypeOK, OfRound, Over
  <2>6. Count({"error"})' = 0 /\ Count({"tool_calls"})' = One(got.called)
        /\ Count({"thought"})' = One(answer.thought) /\ Count({"call"})' = Known(answer)
    <3>1. One(got.called) \in Nat
      BY DEF One
    <3>2. Count({"error"})' = 0 /\ Count({"tool_calls"})' = One(got.called)
      BY <1>1, <2>4, <2>5, <3>1
    <3>3. Count({"thought"}) = 0 /\ Count({"call"}) = 0
      BY <1>4, <1>9
    <3>4. Count({"thought"})' = One(answer.thought) /\ Count({"call"})' = Known(answer)
      BY <1>2, <1>6, <2>4, <2>5, <3>3
    <3> QED
      BY <3>2, <3>4
  <2>7. answer.text # "none" => Count(text)' = 1
    BY <1>4, <1>5, <1>9, <2>4, <2>5 DEF One
  <2>8. Known(answer)' = Known(answer) /\ UNCHANGED answer
    BY <2>1 DEF Over, Known
  <2>9. ChatDelivers'
    BY <1>5, <2>6, <2>7, <2>8 DEF ChatDelivers, One
  <2> QED
    BY <1>1, <2>1, <2>2, <2>6, <2>9, ChatEnds
<1> QED
  BY <1>8, <1>9

LEMMA ChatInvStep == ChatInv /\ [ChatNext]_chatVars => ChatInv'
<1> SUFFICES ASSUME ChatInv, [ChatNext]_chatVars PROVE ChatInv'
  OBVIOUS
<1>1. CASE ChatNext
  BY <1>1, PickKeeps, RoundAnswersKeeps, ThoughtKeeps, TextKeeps, KnownCallKeeps,
     ForeignCallKeeps, RoundEndsKeeps, AgainKeeps, FinishKeeps DEF ChatNext
<1>2. CASE UNCHANGED chatVars
  BY <1>2 DEF chatVars, ChatInv, ChatTypeOK, NothingLost, Left, Known, Count, ChatDelivers
<1> QED
  BY <1>1, <1>2

(* /v1/responses follows from the counts.                                    *)
LEMMA ChatInvDelivers == ChatInv => ChatMessage
<1> SUFFICES ASSUME ChatInv PROVE ChatMessage
  OBVIOUS
<1> DEFINE n == Len(out)
<1>1. n \in Nat /\ DOMAIN out = 1..n
  BY DEF ChatInv, ChatTypeOK
<1> HIDE DEF n
<1>2. /\ \A K : Count(K) = 0 <=> \A i \in DOMAIN out : out[i].kind \notin K
      /\ \A K : Count(K) \in Nat
  BY CountZero, CountAdds DEF ChatInv, ChatTypeOK
<1>3. Read(n, "failure") # {} <=> Count({"error"}) > 0
  BY <1>1, <1>2 DEF Read, ReadFrame
<1>4. HasMessage(n) <=> Count({"text", "guarded", "note"}) > 0
  BY <1>1, <1>2 DEF HasMessage, Read, ReadFrame
<1>5. CallsRead(n) = Count({"call"})
  <2>1. Read(n, "call") = {i \in DOMAIN out : out[i].kind \in {"call"}}
    BY <1>1 DEF Read, ReadFrame
  <2> QED
    BY <2>1 DEF CallsRead, Count
<1>6. Len(Closed) = CallsRead(n) + (IF HasMessage(n) THEN 1 ELSE 0)
  <2> DEFINE message == HasMessage(n)
             calls == [i \in 1..CallsRead(n) |-> FcOutputIndex(message, i - 1)]
  <2>1. CallsRead(n) \in Nat
    BY <1>2, <1>5
  <2>2. calls \in Seq(Nat) /\ Len(calls) = CallsRead(n)
    BY <2>1 DEF FcOutputIndex
  <2>3. When(message, <<0>>) \in Seq(Nat) /\ Len(When(message, <<0>>)) = IF message THEN 1 ELSE 0
    BY DEF When
  <2>4. Closed = When(message, <<0>>) \o calls
    BY DEF Closed, n
  <2> HIDE DEF calls, message
  <2>5. Len(When(message, <<0>>) \o calls) = Len(When(message, <<0>>)) + Len(calls)
    BY <2>2, <2>3
  <2>6. Len(Closed) = CallsRead(n) + (IF message THEN 1 ELSE 0)
    BY <2>1, <2>2, <2>3, <2>4, <2>5
  <2> QED
    BY <2>6 DEF message
<1>7. ResponsesAgree
  <2>1. outcome = "error" => ResponsesEnd = "response.failed"
    BY <1>3 DEF ChatInv, ResponsesEnd, n
  <2>2. outcome = "ok" => ResponsesEnd = "response.completed"
    BY <1>2, <1>3 DEF ChatInv, ResponsesEnd, n
  <2>3. outcome = "ok" => Count({"call"}) = Known(answer)
    BY DEF ChatInv, ChatDelivers
  <2> QED
    BY <1>2, <1>4, <1>5, <1>6, <2>1, <2>2, <2>3 DEF ResponsesAgree
<1>8. ChatDelivers
  BY DEF ChatInv, ChatDelivers
<1> QED
  BY <1>7, <1>8 DEF ChatMessage

(* Whatever the upstream says, in however many rounds, with whichever        *)
(* accounts and corrections: a chat reply that is complete has all that the  *)
(* last round said, each thing once, and /v1/responses makes the same of it. *)
THEOREM ChatSaysAll == ChatSpec => []ChatMessage
<1>1. ChatInit => ChatInv
  BY ChatInvInit
<1>2. ChatInv /\ [ChatNext]_chatVars => ChatInv'
  BY ChatInvStep
<1>3. ChatInv => ChatMessage
  BY ChatInvDelivers
<1> QED
  BY <1>1, <1>2, <1>3, PTL DEF ChatSpec

(* What follows stays of the same round, and comes after.                    *)
LEMMA ChatShowsMore ==
  ASSUME ChatInv, NEW s, Piece(s), out' = out \o s, UNCHANGED tries
  PROVE  Chat!ShowsMore
<1>1. out \in Seq(Frames) /\ s \in Seq(Frames) /\ OfRound(out) /\ OfRound(s)
  BY DEF ChatInv, ChatTypeOK, OfRound, Piece
<1>2. out' \in Seq(Frames) /\ OfRound(out)'
  BY <1>1, OutGrows
<1>3. /\ DOMAIN out' = 1..(Len(out) + Len(s)) /\ DOMAIN out = 1..Len(out)
      /\ Len(out) \in Nat /\ Len(s) \in Nat
      /\ \A i \in 1..Len(out) : out'[i] = out[i]
  BY <1>1
<1>4. /\ \A i \in DOMAIN Shown : i \in 1..Len(out) /\ IsContent(out[i]) /\ Shown[i] = out[i].round
      /\ \A i \in 1..Len(out) : IsContent(out[i]) => i \in DOMAIN Shown
  BY <1>3 DEF Shown
<1>5. /\ \A i \in DOMAIN Shown' : /\ i \in DOMAIN out' /\ IsContent(out'[i])
                                  /\ Shown'[i] = out'[i].round
      /\ \A i \in DOMAIN out' : IsContent(out'[i]) => i \in DOMAIN Shown'
  BY DEF Shown, IsContent
<1>6. \A i \in DOMAIN Shown : i \in DOMAIN Shown' /\ Shown'[i] = Shown[i]
  BY <1>3, <1>4, <1>5
<1>7. \A i \in DOMAIN Shown, j \in DOMAIN Shown' : j \notin DOMAIN Shown => i < j
  BY <1>3, <1>4, <1>5
<1>8. \A i, j \in DOMAIN Shown' : Shown'[i] = Shown'[j]
  BY <1>2, <1>5 DEF OfRound
<1> QED
  BY <1>6, <1>7, <1>8 DEF Chat!ShowsMore

LEMMA FinishShows == ASSUME ChatInv, Finish PROVE Count(Contents)' > 0
<1>1. /\ ~Empty /\ NothingLost /\ coming = <<>> /\ ChatTypeOK /\ (~ask.stream => out = <<>>)
  BY DEF Finish, ChatInv
<1>2. /\ tries.rounds \in Nat /\ got.blocked \in BOOLEAN /\ got.called \in BOOLEAN
      /\ answer.thought \in BOOLEAN /\ Known(answer) \in Nat
  BY <1>1, AnswersTyped DEF ChatTypeOK
<1>3. Left("known") = 0
  BY <1>1, NothingLeft
<1>4. \A K : Count(K) \in Nat
  BY <1>1, CountAdds DEF ChatTypeOK
<1>5. \/ got.blocked \/ got.text # "none" \/ Count(Contents) > 0
      \/ ~ask.stream /\ (answer.thought \/ Known(answer) > 0)
  BY <1>1, <1>2, <1>3 DEF NothingLost, Empty
<1>6. \A h : KeptKind(h) \in Contents
  BY KindsFacts DEF KeptKind
<1>7. ReasonKind \notin Contents
  BY KindsFacts DEF ReasonKind
<1>8. CASE ask.stream
  <2> DEFINE h == ~ask.gate /\ Hit(got.text)
  <2>1. Over("ok", StreamTail)
    BY <1>8 DEF Finish
  <2>2. /\ Piece(StreamTail)
        /\ \A K : Quiet(K) =>
             Adds(StreamTail, K) =
               (IF got.text # "none" THEN One(KeptKind(h) \in K) ELSE 0)
                 + (IF got.blocked THEN One("note" \in K) ELSE 0)
                 + One(ReasonKind \in K)
    BY <1>2, StreamTailAdds
  <2> HIDE DEF h
  <2>3. Adds(StreamTail, Contents) = (IF got.text # "none" THEN 1 ELSE 0)
                                       + (IF got.blocked THEN 1 ELSE 0)
    <3>1. One(KeptKind(h) \in Contents) = 1 /\ One("note" \in Contents) = 1
          /\ One(ReasonKind \in Contents) = 0
      BY <1>6, <1>7, KindsFacts DEF One
    <3> QED
      BY <2>2, <3>1, QuietSums
  <2>4. Count(Contents)' = Count(Contents) + Adds(StreamTail, Contents)
    BY <1>1, <2>1, <2>2, OutGrows DEF ChatInv, ChatTypeOK, OfRound, Over
  <2> QED
    BY <1>4, <1>5, <1>8, <2>3, <2>4
<1>9. CASE ~ask.stream
  <2>1. Over("ok", JSONReply)
    BY <1>9 DEF Finish
  <2>2. /\ Piece(JSONReply)
        /\ \A K : Adds(JSONReply, K) =
             (IF answer.thought THEN One("thought" \in K) ELSE 0)
               + (IF Caught THEN One("guarded" \in K)
                  ELSE (IF got.text # "none" THEN One(KeptKind(Hit(got.text)) \in K) ELSE 0)
                         + (IF got.blocked THEN One("note" \in K) ELSE 0))
               + (IF "call" \in K THEN Known(answer) ELSE 0)
               + One(ReasonKind \in K)
    BY <1>2, JSONReplyAdds
  <2>3. Adds(JSONReply, Contents) =
          (IF answer.thought THEN 1 ELSE 0)
            + (IF Caught THEN 1
               ELSE (IF got.text # "none" THEN 1 ELSE 0) + (IF got.blocked THEN 1 ELSE 0))
            + Known(answer)
    <3>1. /\ One(KeptKind(Hit(got.text)) \in Contents) = 1 /\ One("note" \in Contents) = 1
          /\ One(ReasonKind \in Contents) = 0 /\ One("thought" \in Contents) = 1
          /\ One("guarded" \in Contents) = 1 /\ "call" \in Contents
      BY <1>6, <1>7, KindsFacts DEF One
    <3> QED
      BY <1>2, <2>2, <3>1
  <2>4. Count(Contents)' = Count(Contents) + Adds(JSONReply, Contents)
    BY <1>1, <2>1, <2>2, OutGrows DEF ChatInv, ChatTypeOK, OfRound, Over
  <2>5. Count(Contents) = 0
    BY <1>1, <1>9, CountZero DEF ChatTypeOK
  <2> QED
    BY <1>2, <1>5, <1>9, <2>3, <2>4, <2>5
<1> QED
  BY <1>8, <1>9

(* A frame that shows nothing leaves what is shown.                          *)
LEMMA SilentFrames ==
  ASSUME ChatInv, NEW s, Piece(s), out' = out \o s, Adds(s, Contents) = 0
  PROVE  UNCHANGED Shown
<1>1. out \in Seq(Frames) /\ s \in Seq(Frames)
  BY DEF ChatInv, ChatTypeOK, Piece
<1>2. \A j \in DOMAIN s : ~IsContent(s[j])
  <2>1. \A j \in DOMAIN s : s[j] \notin OfKind(Contents)
    BY <1>1, AmountType DEF Adds
  <2> QED
    BY <1>1, <2>1 DEF OfKind, IsContent
<1>3. ASSUME NEW X, NEW u \in Seq(X), NEW v \in Seq(X)
      PROVE  /\ u \o v \in Seq(X)
             /\ Len(u) \in Nat /\ Len(v) \in Nat
             /\ DOMAIN (u \o v) = 1..(Len(u) + Len(v))
             /\ DOMAIN u = 1..Len(u) /\ DOMAIN v = 1..Len(v)
             /\ \A i \in 1..Len(u) : (u \o v)[i] = u[i]
             /\ \A j \in 1..Len(v) : (u \o v)[Len(u) + j] = v[j]
             /\ \A i \in 1..(Len(u) + Len(v)) :
                  i \in 1..Len(u) \/ \E j \in 1..Len(v) : i = Len(u) + j
  BY PlacesOfJoined
<1>4. /\ DOMAIN out' = 1..(Len(out) + Len(s)) /\ DOMAIN out = 1..Len(out)
      /\ Len(out) \in Nat /\ Len(s) \in Nat
      /\ \A i \in 1..Len(out) : out'[i] = out[i]
      /\ \A j \in 1..Len(s) : out'[Len(out) + j] = s[j]
      /\ \A i \in 1..(Len(out) + Len(s)) :
           i \in 1..Len(out) \/ \E j \in 1..Len(s) : i = Len(out) + j
      /\ DOMAIN s = 1..Len(s)
  BY <1>1, <1>3
<1>5. {j \in DOMAIN out' : IsContent(out'[j])} = {j \in DOMAIN out : IsContent(out[j])}
  <2>1. ASSUME NEW i \in DOMAIN out', IsContent(out'[i]) PROVE i \in DOMAIN out /\ IsContent(out[i])
    <3>1. CASE i \in 1..Len(out)
      BY <1>4, <2>1, <3>1
    <3>2. CASE \E j \in 1..Len(s) : i = Len(out) + j
      BY <1>2, <1>4, <2>1, <3>2
    <3> QED
      BY <1>4, <3>1, <3>2
  <2>2. ASSUME NEW i \in DOMAIN out, IsContent(out[i]) PROVE i \in DOMAIN out' /\ IsContent(out'[i])
    BY <1>4, <2>2
  <2> QED
    BY <2>1, <2>2
<1>6. \A i \in {j \in DOMAIN out : IsContent(out[j])} : out'[i].round = out[i].round
  BY <1>4
<1> DEFINE P == {j \in DOMAIN out : IsContent(out[j])}
<1>7. Shown = [i \in P |-> out[i].round] /\ Shown' = [i \in P |-> out'[i].round]
  BY <1>5 DEF Shown, IsContent
<1> QED
  BY <1>6, <1>7

ChatStatus == CASE outcome = "open" -> "open" [] outcome = "ok" -> "complete"
                [] outcome = "gone" -> "gone" [] OTHER -> "failed"

LEMMA ChatStutters ==
  ASSUME UNCHANGED Shown, UNCHANGED outcome
  PROVE  UNCHANGED Chat!replyVars
  BY DEF Chat!replyVars

LEMMA ChatEndShown ==
  ASSUME ChatInv, turn # "over", FailWith \/ Over("body", <<>>) \/ Over("gone", <<>>)
  PROVE  Chat!ReplyNext
<1>1. tries.rounds \in Nat /\ outcome = "open"
  BY DEF ChatInv, ChatTypeOK
<1>2. /\ Piece(Broken) /\ Adds(Broken, Contents) = 0
      /\ Piece(<<>>) /\ Adds(<<>>, Contents) = 0
  BY <1>1, BrokenAdds, AddsNothing, KindsFacts DEF One
<1>3. UNCHANGED Shown /\ outcome' \in {"error", "body", "gone"}
  BY <1>2, SilentFrames DEF FailWith, Over
<1> QED
  BY <1>1, <1>3 DEF Chat!ReplyNext, Chat!BreakOff

LEMMA ChatStepShown == ChatInv /\ [ChatNext]_chatVars => [Chat!ReplyNext]_(Chat!replyVars)
<1> SUFFICES ASSUME ChatInv, [ChatNext]_chatVars PROVE [Chat!ReplyNext]_(Chat!replyVars)
  OBVIOUS
<1>1. ASSUME UNCHANGED <<out, outcome>> PROVE UNCHANGED Chat!replyVars
  <2>1. UNCHANGED Shown
    BY <1>1 DEF Shown, IsContent
  <2> QED
    BY <1>1, <2>1, ChatStutters
<1>2. CASE Pick \/ RoundAnswers \/ RoundEnds \/ Reinforce \/ Salvage \/ RetryEmpty
  BY <1>1, <1>2 DEF Pick, RoundAnswers, RoundEnds, Reinforce, Salvage, Again, RetryEmpty
<1>3. CASE PickFails \/ RoundFails \/ GiveUpEmpty
  <2>1. CASE RoundFails /\ UNCHANGED <<out, outcome>>
    BY <1>1, <2>1
  <2>2. CASE turn # "over" /\ (FailWith \/ Over("body", <<>>) \/ Over("gone", <<>>))
    BY <2>2, ChatEndShown
  <2> QED
    BY <1>3, <2>1, <2>2 DEF PickFails, RoundFails, GiveUpEmpty
<1>4. CASE Thought \/ Text \/ KnownCall \/ ForeignCall
  <2>1. tries.rounds \in Nat
    BY DEF ChatInv, ChatTypeOK
  <2>2. /\ Piece(<<Item("thought")>>) /\ Piece(<<>>)
        /\ Piece(When(Flush, Role \o <<Item("text")>>) \o <<Item("call")>>)
    BY <2>1, KindsFacts, AddsOne, AddsNothing, CallAdds
  <2>3. \E keep, frames : Piece(frames) /\ Taken(keep, frames)
    BY <1>4, <2>2 DEF Thought, Text, KnownCall, ForeignCall, Flush
  <2>4. PICK keep, frames : Piece(frames) /\ Taken(keep, frames)
    BY <2>3
  <2>5. outcome = "open" /\ UNCHANGED <<tries, outcome>>
    BY <2>4 DEF Taken, ChatInv
  <2>6. CASE ask.stream
    <3>1. Chat!ShowsMore
      BY <2>4, <2>5, <2>6, ChatShowsMore DEF Taken
    <3> QED
      BY <2>5, <3>1 DEF Chat!ReplyNext, Chat!Show
  <2>7. CASE ~ask.stream
    BY <1>1, <2>4, <2>5, <2>7 DEF Taken
  <2> QED
    BY <2>6, <2>7
<1>5. CASE Finish
  <2>1. /\ tries.rounds \in Nat /\ got.blocked \in BOOLEAN /\ answer.thought \in BOOLEAN
        /\ Known(answer) \in Nat /\ outcome = "open" /\ turn = "judge"
    BY <1>5, AnswersTyped DEF Finish, ChatInv, ChatTypeOK
  <2>2. Piece(StreamTail) /\ Piece(JSONReply)
    BY <2>1, StreamTailAdds, JSONReplyAdds
  <2>3. /\ \E s : Piece(s) /\ out' = out \o s
        /\ UNCHANGED tries /\ outcome' = "ok"
    BY <1>5, <2>2 DEF Finish, Over
  <2>4. Chat!ShowsMore
    BY <2>3, ChatShowsMore
  <2>5. DOMAIN Shown' # {}
    <3>1. Count(Contents)' > 0
      BY <1>5, FinishShows
    <3>2. {i \in DOMAIN out' : out'[i].kind \in Contents} # {}
      <4>1. SUFFICES ASSUME {i \in DOMAIN out' : out'[i].kind \in Contents} = {} PROVE FALSE
        OBVIOUS
      <4>2. Count(Contents)' = 0
        BY <4>1, FS_EmptySet DEF Count
      <4> QED
        BY <3>1, <4>2
    <3> QED
      BY <3>2 DEF Shown, IsContent
  <2> QED
    BY <2>1, <2>3, <2>4, <2>5 DEF Chat!ReplyNext, Chat!Complete
<1>6. CASE UNCHANGED chatVars
  BY <1>1, <1>6 DEF chatVars
<1> QED
  BY <1>2, <1>3, <1>4, <1>5, <1>6 DEF ChatNext

LEMMA ChatInitShown == ChatInit => Chat!ReplyInit
<1> SUFFICES ASSUME ChatInit PROVE Chat!ReplyInit
  OBVIOUS
<1>1. out = <<>> /\ outcome = "open"
  BY DEF ChatInit
<1>2. {j \in DOMAIN out : IsContent(out[j])} = {}
  BY <1>1
<1>3. Shown = Chat!NothingShown
  BY <1>2 DEF Shown, Chat!NothingShown
<1> QED
  BY <1>1, <1>3 DEF Chat!ReplyInit

(* The refinement: however the rounds go, the client of the chat endpoint    *)
(* sees a Reply, made of one round, extended only at its end, and complete   *)
(* only when it has shown something.                                         *)
THEOREM ChatIsReply == ChatSpec => ChatReplies
<1>1. ChatInit => ChatInv /\ Chat!ReplyInit
  BY ChatInvInit, ChatInitShown
<1>2. ChatInv /\ [ChatNext]_chatVars => ChatInv'
  BY ChatInvStep
<1>3. ChatInv /\ [ChatNext]_chatVars => [Chat!ReplyNext]_(Chat!replyVars)
  BY ChatStepShown
<1> QED
  BY <1>1, <1>2, <1>3, PTL DEF ChatSpec, ChatReplies, Chat!ReplySpec

-----------------------------------------------------------------------------
(* The reply of the Claude handler (ClaudeStream).                           *)

BlockTypes == {"thinking", "text", "tool_use"}
WireKinds == {"message_start", "ping", "start", "delta", "stop", "end_turn", "tool_use",
              "message_stop", "error", "block"}
Wired == [kind : WireKinds, index : Nat, type : BlockTypes \cup {"none"}, round : Nat]
Visible == {"start", "delta", "block"}
States == [started : Nat, type : BlockTypes \cup {"none"}]

ClaudeTypeOK ==
  /\ query \in Queries /\ stage \in {"pick", "asks", "events", "over"}
  /\ serving \in [picks : Nat, rounds : Nat]
  /\ said \in Sayings /\ rest \in Seq(Said)
  /\ heard \in [thought : BOOLEAN, text : BOOLEAN, called : BOOLEAN, blocked : BOOLEAN]
  /\ block \in States /\ wire \in Seq(Wired)
  /\ fate \in {"open", "ok", "error", "body", "panic", "gone"}
  /\ pulse \in {"off", "waits", "writes"}

OfKinds(K) == {x \in Wired : x.kind \in K}
OfType(t) == {x \in Wired : x.kind \in {"start", "block"} /\ x.type = t}

(* s is what a client has of a message that goes on, with the block b open.  *)
Goes(s, b) ==
  /\ s \in Seq(Wired) /\ b \in States
  /\ \A i \in DOMAIN s : Fits(s, i)
  /\ Amount(s, OfKinds({"message_start"})) > 0
  /\ Amount(s, OfKinds({"end_turn", "tool_use"})) = 0
  /\ Amount(s, OfKinds({"message_stop", "error"})) = 0
  /\ Amount(s, OfKinds({"start"})) = b.started
  /\ Amount(s, OfKinds({"stop"})) + One(b.type # "none") = b.started
  /\ b.type # "none" => \E j \in DOMAIN s : /\ s[j].kind = "start"
                                            /\ s[j].index = b.started - 1 /\ s[j].type = b.type
  /\ \A j \in DOMAIN s : s[j].kind = "start" /\ s[j].type = "thinking" => s[j].index = 0

VisibleOf(s) == \A i \in DOMAIN s : s[i].kind \in Visible => s[i].round = serving.rounds

Coming(v) == Times(rest, v)

(* What the handler has noted of the round.                                  *)
NotedRight ==
  /\ Coming("known") <= KnownCalls /\ (heard.called <=> Coming("known") < KnownCalls)
  /\ Coming("text") + One(heard.text) = One(said.text # "none")
  /\ Coming("thought") <= One(said.thought)
  /\ Coming("thought") > 0 => rest[1] = "thought" /\ heard = NotHeard /\ block = NoBlock
  /\ KnownCalls = Len(said.calls) => ~heard.blocked /\ Coming("foreign") = 0
  /\ heard.thought => query.mode = "plain" /\ (said.thought \/ NeedThinking)
  /\ query.mode = "plain" /\ said.thought /\ Coming("thought") = 0 => heard.thought
  /\ NeedThinking /\ (heard.text \/ heard.called) => heard.thought

(* What it has sent.                                                         *)
SentRight ==
  /\ Having("thinking") = One(heard.thought)
  /\ Having("tool_use") + Coming("known") = KnownCalls
  /\ Having("text") > 0 => heard.text /\ query.mode = "plain"
  /\ query.mode = "plain" /\ heard.text => Having("text") > 0
  /\ NeedThinking /\ block.started > 0 => heard.thought
  /\ heard.called => block.started > 0

ClaudeInv ==
  /\ ClaudeTypeOK
  /\ stage = "over" <=> fate # "open"
  /\ serving.picks = 0 => wire = <<>> /\ pulse = "off" /\ stage \in {"pick", "over"}
  /\ ~query.stream => pulse = "off" /\ (stage # "over" => wire = <<>>)
  /\ query.stream /\ stage = "over" => \A i \in DOMAIN wire : Fits(wire, i)
  /\ query.stream /\ serving.picks > 0 /\ stage # "over" =>
       Goes(wire, IF stage = "events" THEN block ELSE NoBlock)
  /\ stage \in {"pick", "asks"} => \A i \in DOMAIN wire : wire[i].kind \notin Visible
  /\ VisibleOf(wire)
  /\ stage = "events" => NotedRight /\ (query.stream => SentRight)
  /\ fate = "ok" => ClaudeDelivers

LEMMA AmountAppended ==
  ASSUME NEW X, NEW s \in Seq(X), NEW x \in X, NEW V
  PROVE  /\ Amount(Append(s, x), V) = Amount(s, V) + One(x \in V)
         /\ Amount(s, V) \in Nat /\ Append(s, x) \in Seq(X)
<1>1. Append(s, x) = s \o <<x>> /\ <<x>> \in Seq(X) /\ Append(s, x) \in Seq(X)
  OBVIOUS
<1>2. Amount(s \o <<x>>, V) = Amount(s, V) + Amount(<<x>>, V)
  BY <1>1, AmountJoined
<1>3. Amount(<<x>>, V) = One(x \in V)
  BY AmountOfFew DEF One
<1>4. Amount(s, V) \in Nat
  BY AmountType
<1> QED
  BY <1>1, <1>2, <1>3, <1>4

(* Earlier events stay what they were when another one is sent.              *)
LEMMA FitsKept ==
  ASSUME NEW s \in Seq(Wired), NEW x \in Wired, NEW i \in DOMAIN s
  PROVE  Fits(Append(s, x), i) <=> Fits(s, i)
<1> DEFINE t == Append(s, x)
<1>1. /\ DOMAIN s = 1..Len(s) /\ Len(s) \in Nat /\ DOMAIN t = 1..(Len(s) + 1)
      /\ \A j \in 1..Len(s) : t[j] = s[j]
  OBVIOUS
<1> HIDE DEF t
<1>2. t[i] = s[i] /\ \A j \in 1..(i - 1) : t[j] = s[j]
  BY <1>1
<1>3. \A K : Earlier(t, i, K) = Earlier(s, i, K)
  BY <1>2 DEF Earlier
<1>4. /\ Begun(t, i) = Begun(s, i) /\ Ended(t, i) = Ended(s, i)
      /\ Running(t, i) = Running(s, i) /\ Reasoned(t, i) = Reasoned(s, i)
  BY <1>3 DEF Begun, Ended, Running, Reasoned
<1>5. \A j \in Earlier(s, i, {"start"}) : t[j] = s[j]
  BY <1>2 DEF Earlier
<1>6. OfTheOpen(t, i) <=> OfTheOpen(s, i)
  BY <1>2, <1>3, <1>4, <1>5 DEF OfTheOpen
<1>7. Between(t, i) <=> Between(s, i)
  BY <1>4 DEF Between
<1>8. Fits(t, i) <=> Fits(s, i)
  BY <1>2, <1>3, <1>4, <1>6, <1>7 DEF Fits
<1> QED
  BY <1>8 DEF t

(* What the client has seen when the next event arrives.                     *)
Sees(s, x, t, n) ==
  /\ t[n] = x /\ n \in DOMAIN t /\ DOMAIN t = DOMAIN s \cup {n} /\ n \notin DOMAIN s
  /\ Begun(t, n) = Amount(s, OfKinds({"start"}))
  /\ Ended(t, n) = Amount(s, OfKinds({"stop"}))
  /\ Running(t, n) <=> /\ Amount(s, OfKinds({"message_start"})) > 0
                       /\ Amount(s, OfKinds({"message_stop", "error"})) = 0
  /\ Earlier(t, n, {"message_start"}) = {} <=> Amount(s, OfKinds({"message_start"})) = 0
  /\ Reasoned(t, n) <=> Amount(s, OfKinds({"end_turn", "tool_use"})) # 0
  /\ \A j \in DOMAIN s : t[j] = s[j]
  /\ \A j \in DOMAIN s : s[j].kind = "start" => j \in Earlier(t, n, {"start"})

LEMMA NextSees ==
  ASSUME NEW s \in Seq(Wired), NEW x \in Wired
  PROVE  Sees(s, x, Append(s, x), Len(s) + 1)
<1> DEFINE t == Append(s, x)
           n == Len(s) + 1
<1>1. /\ DOMAIN s = 1..Len(s) /\ Len(s) \in Nat /\ DOMAIN t = 1..(Len(s) + 1)
      /\ \A j \in 1..Len(s) : t[j] = s[j]
      /\ t[n] = x
  OBVIOUS
<1> HIDE DEF t
<1>2. \A K : Earlier(t, n, K) = {j \in DOMAIN s : s[j] \in OfKinds(K)}
  <2>1. TAKE K
  <2>2. \A j \in DOMAIN s : t[j].kind \in K <=> s[j] \in OfKinds(K)
    BY <1>1 DEF OfKinds
  <2>3. 1..(n - 1) = DOMAIN s
    BY <1>1
  <2> QED
    BY <2>2, <2>3 DEF Earlier
<1>3. \A K : Cardinality(Earlier(t, n, K)) = Amount(s, OfKinds(K))
  BY <1>2 DEF Amount
<1>4. \A K : Amount(s, OfKinds(K)) \in Nat
             /\ (Amount(s, OfKinds(K)) = 0 <=> Earlier(t, n, K) = {})
  <2>1. TAKE K
  <2>2. /\ Amount(s, OfKinds(K)) \in Nat
        /\ Amount(s, OfKinds(K)) = 0 <=> \A i \in DOMAIN s : s[i] \notin OfKinds(K)
    BY AmountType
  <2> QED
    BY <1>2, <2>2
<1>5. Running(t, n) <=> /\ Amount(s, OfKinds({"message_start"})) > 0
                        /\ Amount(s, OfKinds({"message_stop", "error"})) = 0
  BY <1>4 DEF Running
<1>6. /\ Begun(t, n) = Amount(s, OfKinds({"start"}))
      /\ Ended(t, n) = Amount(s, OfKinds({"stop"}))
      /\ Reasoned(t, n) <=> Amount(s, OfKinds({"end_turn", "tool_use"})) # 0
  BY <1>3, <1>4 DEF Begun, Ended, Reasoned
<1>7. \A j \in DOMAIN s : s[j].kind = "start" => j \in Earlier(t, n, {"start"})
  BY <1>2 DEF OfKinds
<1>8. n \in DOMAIN t /\ DOMAIN t = DOMAIN s \cup {n} /\ n \notin DOMAIN s
  BY <1>1
<1> QED
  BY <1>1, <1>4, <1>5, <1>6, <1>7, <1>8 DEF Sees, t

LEMMA KindsCount ==
  ASSUME NEW s \in Seq(Wired), NEW x \in Wired
  PROVE  \A K : /\ Amount(Append(s, x), OfKinds(K)) = Amount(s, OfKinds(K)) + One(x.kind \in K)
                /\ Amount(s, OfKinds(K)) \in Nat
<1>1. \A K : x \in OfKinds(K) <=> x.kind \in K
  BY DEF OfKinds
<1>2. \A K : /\ Amount(Append(s, x), OfKinds(K)) = Amount(s, OfKinds(K)) + One(x \in OfKinds(K))
             /\ Amount(s, OfKinds(K)) \in Nat
  BY AmountAppended
<1>3. \A K : One(x \in OfKinds(K)) = One(x.kind \in K)
  BY <1>1 DEF One
<1> QED
  BY <1>2, <1>3, Zenon

(* The event is not one that begins or ends the message.                     *)
LEMMA GoesOn ==
  ASSUME NEW s, NEW b, Goes(s, b), NEW x \in Wired, NEW c \in States,
         x.kind \in {"ping", "start", "delta", "stop"},
         Fits(Append(s, x), Len(s) + 1),
         b.started + One(x.kind = "start") = c.started,
         One(b.type # "none") + One(x.kind = "start") = One(c.type # "none") + One(x.kind = "stop"),
         c.type # "none" => \/ b.type = c.type /\ b.started = c.started
                            \/ x.kind = "start" /\ x.index = c.started - 1 /\ x.type = c.type,
         x.kind = "start" /\ x.type = "thinking" => x.index = 0
  PROVE  Goes(Append(s, x), c)
<1> DEFINE t == Append(s, x)
           n == Len(s) + 1
<1>1. s \in Seq(Wired) /\ b \in States /\ t \in Seq(Wired)
  BY DEF Goes
<1>2. /\ t[n] = x /\ n \in DOMAIN t /\ DOMAIN t = DOMAIN s \cup {n} /\ n \notin DOMAIN s
      /\ \A j \in DOMAIN s : t[j] = s[j]
  BY <1>1, NextSees DEF Sees
<1>3. \A i \in DOMAIN s : Fits(t, i) <=> Fits(s, i)
  BY <1>1, FitsKept
<1>4. \A K : Amount(t, OfKinds(K)) = Amount(s, OfKinds(K)) + One(x.kind \in K)
             /\ Amount(s, OfKinds(K)) \in Nat
  BY <1>1, KindsCount
<1>5. Fits(t, n)
  OBVIOUS
<1> HIDE DEF t, n
<1>6. \A i \in DOMAIN t : Fits(t, i)
  BY <1>2, <1>3, <1>5 DEF Goes
<1>7. /\ Amount(t, OfKinds({"message_start"})) > 0
      /\ Amount(t, OfKinds({"end_turn", "tool_use"})) = 0
      /\ Amount(t, OfKinds({"message_stop", "error"})) = 0
  <2>1. /\ One(x.kind \in {"message_start"}) = 0 /\ One(x.kind \in {"end_turn", "tool_use"}) = 0
        /\ One(x.kind \in {"message_stop", "error"}) = 0
    BY DEF One
  <2> QED
    BY <1>4, <2>1 DEF Goes
<1>8. Amount(t, OfKinds({"start"})) = c.started
  <2>1. One(x.kind \in {"start"}) = One(x.kind = "start")
    BY DEF One
  <2> QED
    BY <1>4, <2>1 DEF Goes
<1>9. Amount(t, OfKinds({"stop"})) + One(c.type # "none") = c.started
  <2>1. One(x.kind \in {"stop"}) = One(x.kind = "stop")
    BY DEF One
  <2>2. /\ One(x.kind = "stop") \in Nat /\ One(b.type # "none") \in Nat
        /\ One(c.type # "none") \in Nat /\ One(x.kind = "start") \in Nat
    BY DEF One
  <2>3. /\ Amount(s, OfKinds({"stop"})) + One(b.type # "none") = b.started
        /\ Amount(s, OfKinds({"stop"})) \in Nat /\ b.started \in Nat
    BY <1>1, <1>4 DEF Goes, States
  <2>4. Amount(t, OfKinds({"stop"})) = Amount(s, OfKinds({"stop"})) + One(x.kind = "stop")
    BY <1>4, <2>1
  <2> QED
    BY <2>2, <2>3, <2>4
<1>10. c.type # "none" =>
         \E j \in DOMAIN t : t[j].kind = "start" /\ t[j].index = c.started - 1 /\ t[j].type = c.type
  <2>1. CASE x.kind = "start" /\ x.index = c.started - 1 /\ x.type = c.type
    BY <1>2, <2>1
  <2>2. CASE c.type # "none" /\ b.type = c.type /\ b.started = c.started
    <3>1. PICK j \in DOMAIN s : s[j].kind = "start" /\ s[j].index = b.started - 1 /\ s[j].type = b.type
      BY <2>2 DEF Goes
    <3> QED
      BY <1>2, <2>2, <3>1
  <2> QED
    BY <2>1, <2>2
<1>11. \A j \in DOMAIN t : t[j].kind = "start" /\ t[j].type = "thinking" => t[j].index = 0
  BY <1>2 DEF Goes
<1>12. t \in Seq(Wired)
  BY <1>1 DEF t
<1> QED
  BY <1>6, <1>7, <1>8, <1>9, <1>10, <1>11, <1>12 DEF Goes, t

LEMMA EventFields ==
  ASSUME serving.rounds \in Nat
  PROVE  /\ \A k \in WireKinds, i \in Nat, t \in BlockTypes :
              /\ Event(k, i, t) \in Wired /\ Event(k, i, t).kind = k /\ Event(k, i, t).index = i
              /\ Event(k, i, t).type = t /\ Event(k, i, t).round = serving.rounds
         /\ \A k \in WireKinds : Signal(k) \in Wired /\ Signal(k).kind = k
  BY DEF Event, Signal, Wired

LEMMA PingGoes ==
  ASSUME NEW s, NEW b, Goes(s, b), serving.rounds \in Nat
  PROVE  Goes(Append(s, Signal("ping")), b)
<1> DEFINE x == Signal("ping")
<1>1. x \in Wired /\ x.kind = "ping" /\ b \in States /\ s \in Seq(Wired)
  BY EventFields DEF Goes, WireKinds
<1> HIDE DEF x
<1>2. Append(s, x)[Len(s) + 1] = x
  BY <1>1
<1>3. Fits(Append(s, x), Len(s) + 1)
  BY <1>1, <1>2 DEF Fits
<1>4. b.started + One(x.kind = "start") = b.started
      /\ One(b.type # "none") + One(x.kind = "start") = One(b.type # "none") + One(x.kind = "stop")
  BY <1>1 DEF One, States
<1>5. Goes(Append(s, x), b)
  BY <1>1, <1>3, <1>4, GoesOn
<1> QED
  BY <1>5 DEF x

LEMMA StartGoes ==
  ASSUME NEW s, NEW b, Goes(s, b), serving.rounds \in Nat, b.type = "none",
         NEW t \in BlockTypes, t = "thinking" => b.started = 0
  PROVE  Goes(Append(s, Event("start", b.started, t)), [started |-> b.started + 1, type |-> t])
<1> DEFINE x == Event("start", b.started, t)
           c == [started |-> b.started + 1, type |-> t]
<1>1. b \in States /\ s \in Seq(Wired) /\ b.started \in Nat
  BY DEF Goes, States
<1>2. x \in Wired /\ x.kind = "start" /\ x.index = b.started /\ x.type = t
  BY <1>1, EventFields DEF WireKinds
<1>3. c \in States /\ c.started = b.started + 1 /\ c.type = t /\ t # "none"
  BY <1>1 DEF States, BlockTypes
<1> HIDE DEF x, c
<1> DEFINE u == Append(s, x)
           n == Len(s) + 1
<1>0. u = Append(s, x) /\ n = Len(s) + 1
  OBVIOUS
<1> HIDE DEF u, n
<1>4. /\ u[n] = x
      /\ Begun(u, n) = Amount(s, OfKinds({"start"}))
      /\ Ended(u, n) = Amount(s, OfKinds({"stop"}))
      /\ Running(u, n) <=> /\ Amount(s, OfKinds({"message_start"})) > 0
                           /\ Amount(s, OfKinds({"message_stop", "error"})) = 0
      /\ Reasoned(u, n) <=> Amount(s, OfKinds({"end_turn", "tool_use"})) # 0
  BY <1>1, <1>2, NextSees DEF Sees, u, n
<1>5. Amount(s, OfKinds({"stop"})) = b.started /\ Amount(s, OfKinds({"start"})) = b.started
  <2>1. Amount(s, OfKinds({"stop"})) \in Nat /\ One(b.type # "none") = 0
    BY <1>1, AmountType DEF One
  <2> QED
    BY <2>1 DEF Goes
<1>6. Fits(u, n)
  BY <1>2, <1>4, <1>5 DEF Fits, Between, Goes
<1>7. /\ b.started + One(x.kind = "start") = c.started
      /\ One(b.type # "none") + One(x.kind = "start") = One(c.type # "none") + One(x.kind = "stop")
      /\ x.index = c.started - 1
  BY <1>1, <1>2, <1>3 DEF One
<1>8. /\ x.kind = "start" /\ x.type = "thinking" => x.index = 0
      /\ x.kind \in {"ping", "start", "delta", "stop"} /\ x.type = c.type
      /\ Fits(Append(s, x), Len(s) + 1)
  BY <1>0, <1>2, <1>3, <1>6
<1>9. Goes(Append(s, x), c)
  BY <1>2, <1>3, <1>7, <1>8, GoesOn
<1> QED
  BY <1>9 DEF x, c

(* A delta, or the stop, of the open block.                                  *)
LEMMA OpenBlockTakes ==
  ASSUME NEW s, NEW b, Goes(s, b), serving.rounds \in Nat, b.type # "none",
         NEW k \in {"delta", "stop"}
  PROVE  /\ b.started - 1 \in Nat /\ b.type \in BlockTypes
         /\ Event(k, b.started - 1, b.type) \in Wired
         /\ Fits(Append(s, Event(k, b.started - 1, b.type)), Len(s) + 1)
<1>1. b \in States /\ s \in Seq(Wired) /\ b.started \in Nat /\ b.type \in BlockTypes
  BY DEF Goes, States
<1>2. Amount(s, OfKinds({"stop"})) + 1 = b.started /\ Amount(s, OfKinds({"start"})) = b.started
      /\ Amount(s, OfKinds({"stop"})) \in Nat
  <2>1. Amount(s, OfKinds({"stop"})) \in Nat /\ One(b.type # "none") = 1
    BY <1>1, AmountType DEF One
  <2> QED
    BY <2>1 DEF Goes
<1>3. b.started - 1 \in Nat
  BY <1>1, <1>2
<1> DEFINE x == Event(k, b.started - 1, b.type)
<1>4. x \in Wired /\ x.kind = k /\ x.index = b.started - 1 /\ x.type = b.type
  BY <1>1, <1>3, EventFields DEF WireKinds
<1> HIDE DEF x
<1> DEFINE u == Append(s, x)
           n == Len(s) + 1
<1>0. u = Append(s, x) /\ n = Len(s) + 1
  OBVIOUS
<1> HIDE DEF u, n
<1>5. /\ u[n] = x
      /\ Begun(u, n) = Amount(s, OfKinds({"start"}))
      /\ Ended(u, n) = Amount(s, OfKinds({"stop"}))
      /\ Running(u, n) <=> /\ Amount(s, OfKinds({"message_start"})) > 0
                           /\ Amount(s, OfKinds({"message_stop", "error"})) = 0
      /\ \A j \in DOMAIN s : u[j] = s[j]
      /\ \A j \in DOMAIN s : s[j].kind = "start" => j \in Earlier(u, n, {"start"})
  BY <1>1, <1>4, NextSees DEF Sees, u, n
<1>6. PICK j \in DOMAIN s : s[j].kind = "start" /\ s[j].index = b.started - 1 /\ s[j].type = b.type
  BY DEF Goes
<1>7. OfTheOpen(u, n)
  <2>1. Running(u, n)
    BY <1>5 DEF Goes
  <2>2. Begun(u, n) = Ended(u, n) + 1 /\ u[n].index = Begun(u, n) - 1
    BY <1>2, <1>4, <1>5
  <2>3. j \in Earlier(u, n, {"start"}) /\ u[j].index = u[n].index /\ u[j].type = u[n].type
    BY <1>4, <1>5, <1>6
  <2> QED
    BY <2>1, <2>2, <2>3 DEF OfTheOpen
<1>8. Fits(u, n)
  BY <1>4, <1>5, <1>7 DEF Fits
<1> QED
  BY <1>1, <1>3, <1>4, <1>8 DEF x, u, n

LEMMA DeltaGoes ==
  ASSUME NEW s, NEW b, Goes(s, b), serving.rounds \in Nat, b.type # "none"
  PROVE  Goes(Append(s, Event("delta", b.started - 1, b.type)), b)
<1> DEFINE x == Event("delta", b.started - 1, b.type)
<1>1. /\ b.started - 1 \in Nat /\ b.type \in BlockTypes /\ x \in Wired
      /\ Fits(Append(s, x), Len(s) + 1)
  BY OpenBlockTakes
<1>2. x.kind = "delta" /\ b \in States /\ b.started \in Nat
  BY <1>1, EventFields DEF WireKinds, Goes, States
<1> HIDE DEF x
<1>3. b.started + One(x.kind = "start") = b.started
      /\ One(b.type # "none") + One(x.kind = "start") = One(b.type # "none") + One(x.kind = "stop")
  BY <1>2 DEF One
<1>4. Goes(Append(s, x), b)
  BY <1>1, <1>2, <1>3, GoesOn
<1> QED
  BY <1>4 DEF x

LEMMA StopGoes ==
  ASSUME NEW s, NEW b, Goes(s, b), serving.rounds \in Nat, b.type # "none"
  PROVE  Goes(Append(s, Event("stop", b.started - 1, b.type)), [b EXCEPT !.type = "none"])
<1> DEFINE x == Event("stop", b.started - 1, b.type)
           c == [b EXCEPT !.type = "none"]
<1>1. /\ b.started - 1 \in Nat /\ b.type \in BlockTypes /\ x \in Wired
      /\ Fits(Append(s, x), Len(s) + 1)
  BY OpenBlockTakes
<1>2. x.kind = "stop" /\ b \in States /\ b.started \in Nat
  BY <1>1, EventFields DEF WireKinds, Goes, States
<1>3. c \in States /\ c.started = b.started /\ c.type = "none"
  BY <1>2 DEF States
<1> HIDE DEF x, c
<1>4. b.started + One(x.kind = "start") = c.started
      /\ One(b.type # "none") + One(x.kind = "start") = One(c.type # "none") + One(x.kind = "stop")
  BY <1>2, <1>3 DEF One
<1>5. Goes(Append(s, x), c)
  BY <1>1, <1>2, <1>3, <1>4, GoesOn
<1> QED
  BY <1>5 DEF x, c

(* What a handler emits, e, after w.                                         *)
Emissions == [events : Seq(Wired), block : States]
Good(w, e) ==
  /\ w \in Seq(Wired) /\ e \in Emissions
  /\ Goes(w \o e.events, e.block) /\ VisibleOf(e.events)
Typed(e, t) == Amount(e.events, OfType(t))

LEMMA Emits ==
  ASSUME NEW w, NEW e, Good(w, e), NEW x \in Wired, NEW c \in States,
         Goes(Append(w \o e.events, x), c), x.kind \in Visible => x.round = serving.rounds,
         NEW f \in Emissions, f.events = Append(e.events, x), f.block = c
  PROVE  /\ Good(w, f)
         /\ \A t : /\ Typed(f, t) = Typed(e, t) + One(x.kind \in {"start", "block"} /\ x.type = t)
                   /\ Typed(e, t) \in Nat
<1>1. e.events \in Seq(Wired) /\ w \in Seq(Wired)
  BY DEF Good, Emissions
<1>2. w \o f.events = Append(w \o e.events, x)
  BY <1>1
<1>3. VisibleOf(f.events)
  <2>1. /\ DOMAIN f.events = 1..(Len(e.events) + 1) /\ DOMAIN e.events = 1..Len(e.events)
        /\ Len(e.events) \in Nat
        /\ \A i \in 1..Len(e.events) : f.events[i] = e.events[i]
        /\ f.events[Len(e.events) + 1] = x
    BY <1>1
  <2>2. ASSUME NEW i \in DOMAIN f.events, f.events[i].kind \in Visible
        PROVE  f.events[i].round = serving.rounds
    <3>1. CASE i \in 1..Len(e.events)
      BY <2>1, <2>2, <3>1 DEF Good, VisibleOf
    <3>2. CASE i = Len(e.events) + 1
      BY <2>1, <2>2, <3>2
    <3> QED
      BY <2>1, <3>1, <3>2
  <2> QED
    BY <2>2 DEF VisibleOf
<1>4. \A t : x \in OfType(t) <=> x.kind \in {"start", "block"} /\ x.type = t
  BY DEF OfType
<1>5. \A t : /\ Amount(Append(e.events, x), OfType(t)) = Amount(e.events, OfType(t)) + One(x \in OfType(t))
             /\ Amount(e.events, OfType(t)) \in Nat
  BY <1>1, AmountAppended
<1>6. \A t : One(x \in OfType(t)) = One(x.kind \in {"start", "block"} /\ x.type = t)
  BY <1>4 DEF One
<1>7. Good(w, f)
  BY <1>1, <1>2, <1>3 DEF Good
<1>8. \A t : /\ Typed(f, t) = Typed(e, t) + One(x.kind \in {"start", "block"} /\ x.type = t)
             /\ Typed(e, t) \in Nat
  <2>1. \A t : Typed(f, t) = Amount(Append(e.events, x), OfType(t))
    BY DEF Typed
  <2> QED
    BY <1>5, <1>6, <2>1 DEF Typed
<1> QED
  BY <1>7, <1>8

LEMMA ShutIsGood ==
  ASSUME NEW w, NEW e, Good(w, e), serving.rounds \in Nat
  PROVE  /\ Good(w, ShutBlock(e)) /\ ShutBlock(e).block.type = "none"
         /\ ShutBlock(e).block.started = e.block.started
         /\ \A t : Typed(ShutBlock(e), t) = Typed(e, t) /\ Typed(e, t) \in Nat
<1>1. /\ e \in Emissions /\ Goes(w \o e.events, e.block) /\ e.events \in Seq(Wired)
      /\ e.block \in States
  BY DEF Good, Emissions
<1>2. CASE e.block.type = "none"
  <2>1. ShutBlock(e) = e
    BY <1>2 DEF ShutBlock
  <2>2. \A t : Typed(e, t) \in Nat
    BY <1>1, AmountType DEF Typed
  <2> QED
    BY <1>2, <2>1, <2>2
<1>3. CASE e.block.type # "none"
  <2> DEFINE x == Event("stop", e.block.started - 1, e.block.type)
             f == ShutBlock(e)
             c == [e.block EXCEPT !.type = "none"]
  <2>1. f = [events |-> Append(e.events, x), block |-> c]
    BY <1>3 DEF ShutBlock
  <2>2. x \in Wired /\ x.kind = "stop"
    <3>1. e.block.started - 1 \in Nat /\ e.block.type \in BlockTypes
      BY <1>1, <1>3, OpenBlockTakes
    <3> QED
      BY <3>1, EventFields DEF WireKinds
  <2>3. Goes(Append(w \o e.events, x), c)
    BY <1>1, <1>3, StopGoes
  <2>4. c \in States /\ c.type = "none" /\ c.started = e.block.started
    BY <1>1 DEF States
  <2> HIDE DEF x, c, f
  <2>5. f \in Emissions /\ f.events = Append(e.events, x) /\ f.block = c
    BY <1>1, <2>1, <2>2, <2>4 DEF Emissions
  <2>6. x.kind \notin Visible /\ \A t : One(x.kind \in {"start", "block"} /\ x.type = t) = 0
    BY <2>2 DEF Visible, One
  <2>7. /\ Good(w, f)
        /\ \A t : /\ Typed(f, t) = Typed(e, t) + One(x.kind \in {"start", "block"} /\ x.type = t)
                  /\ Typed(e, t) \in Nat
    BY <2>2, <2>3, <2>4, <2>5, <2>6, Emits
  <2>8. \A t : Typed(f, t) = Typed(e, t) /\ Typed(e, t) \in Nat
    BY <2>6, <2>7
  <2> QED
    BY <2>4, <2>5, <2>7, <2>8 DEF f
<1> QED
  BY <1>2, <1>3

LEMMA OpenIsGood ==
  ASSUME NEW w, NEW e, Good(w, e), serving.rounds \in Nat, NEW t \in BlockTypes,
         t = "thinking" => e.block.started = 0
  PROVE  /\ Good(w, OpenBlock(e, t)) /\ OpenBlock(e, t).block.type = t
         /\ OpenBlock(e, t).block.started > 0
         /\ \A u : /\ Typed(OpenBlock(e, t), u) = Typed(e, u) + One(u = t /\ e.block.type # t)
                   /\ Typed(e, u) \in Nat
<1>1. /\ e \in Emissions /\ Goes(w \o e.events, e.block) /\ e.events \in Seq(Wired)
      /\ e.block \in States /\ e.block.started \in Nat /\ t # "none"
  BY DEF Good, Emissions, States, BlockTypes
<1>2. \A u : Typed(e, u) \in Nat
  BY <1>1, AmountType DEF Typed
<1>3. CASE e.block.type = t
  <2>1. OpenBlock(e, t) = e
    BY <1>3 DEF OpenBlock
  <2>2. \A u : One(u = t /\ e.block.type # t) = 0
    BY <1>3 DEF One
  <2>3. e.block.started > 0
    <3>1. Amount(w \o e.events, OfKinds({"stop"})) + 1 = e.block.started
      BY <1>1, <1>3 DEF Goes, One
    <3>2. Amount(w \o e.events, OfKinds({"stop"})) \in Nat
      BY <1>1, AmountType DEF Goes
    <3> QED
      BY <1>1, <3>1, <3>2
  <2> QED
    BY <1>2, <1>3, <2>1, <2>2, <2>3
<1>4. CASE e.block.type # t
  <2> DEFINE c == ShutBlock(e)
             x == Event("start", c.block.started, t)
             b == [started |-> c.block.started + 1, type |-> t]
             f == OpenBlock(e, t)
  <2>1. /\ Good(w, c) /\ c.block.type = "none" /\ c.block.started = e.block.started
        /\ \A u : Typed(c, u) = Typed(e, u)
    BY ShutIsGood
  <2>2. f = [events |-> Append(c.events, x), block |-> b]
    BY <1>4 DEF OpenBlock
  <2> HIDE DEF c, f
  <2>3. /\ Goes(w \o c.events, c.block) /\ c.events \in Seq(Wired) /\ c.block \in States
        /\ c.block.started \in Nat
    BY <1>1, <2>1 DEF Good, Emissions
  <2>4. Goes(Append(w \o c.events, x), b)
    BY <2>1, <2>3, StartGoes
  <2>5. /\ x \in Wired /\ x.kind = "start" /\ x.type = t /\ x.round = serving.rounds
    BY <2>3, EventFields DEF WireKinds
  <2>6. b \in States /\ b.type = t /\ b.started > 0
    BY <2>3 DEF States, BlockTypes
  <2> HIDE DEF x, b
  <2>7. f \in Emissions /\ f.events = Append(c.events, x) /\ f.block = b
    BY <2>2, <2>3, <2>5, <2>6 DEF Emissions
  <2>8. /\ Good(w, f)
        /\ \A u : /\ Typed(f, u) = Typed(c, u) + One(x.kind \in {"start", "block"} /\ x.type = u)
                  /\ Typed(c, u) \in Nat
    BY <2>1, <2>4, <2>5, <2>6, <2>7, Emits
  <2>9. \A u : One(x.kind \in {"start", "block"} /\ x.type = u) = One(u = t /\ e.block.type # t)
    BY <1>4, <2>5 DEF One
  <2>10. \A u : Typed(f, u) = Typed(e, u) + One(u = t /\ e.block.type # t)
    BY <2>1, <2>8, <2>9
  <2> QED
    BY <1>2, <2>6, <2>7, <2>8, <2>10 DEF f
<1> QED
  BY <1>3, <1>4

LEMMA DeltaIsGood ==
  ASSUME NEW w, NEW e, Good(w, e), serving.rounds \in Nat, NEW t \in BlockTypes,
         t = "thinking" => e.block.started = 0
  PROVE  /\ Good(w, Delta(e, t)) /\ Delta(e, t).block.type = t
         /\ Delta(e, t).block.started > 0
         /\ \A u : /\ Typed(Delta(e, t), u) = Typed(e, u) + One(u = t /\ e.block.type # t)
                   /\ Typed(e, u) \in Nat
<1> DEFINE o == OpenBlock(e, t)
           x == Event("delta", o.block.started - 1, t)
           f == Delta(e, t)
<1>1. /\ Good(w, o) /\ o.block.type = t /\ o.block.started > 0
      /\ \A u : /\ Typed(o, u) = Typed(e, u) + One(u = t /\ e.block.type # t)
                /\ Typed(e, u) \in Nat
  BY OpenIsGood
<1>2. f = [o EXCEPT !.events = Append(@, x)]
  BY DEF Delta
<1> HIDE DEF o, f
<1>3. /\ Goes(w \o o.events, o.block) /\ o.events \in Seq(Wired) /\ o.block \in States
      /\ o \in Emissions
  BY <1>1 DEF Good, Emissions
<1>4. t # "none"
  BY DEF BlockTypes
<1>5. Goes(Append(w \o o.events, x), o.block)
  BY <1>1, <1>3, <1>4, DeltaGoes
<1>6. x \in Wired /\ x.kind = "delta" /\ x.round = serving.rounds
  <2>1. o.block.started - 1 \in Nat
    BY <1>1, <1>3 DEF States
  <2> QED
    BY <2>1, EventFields DEF WireKinds
<1> HIDE DEF x
<1>7. f \in Emissions /\ f.events = Append(o.events, x) /\ f.block = o.block
  <2>1. Append(o.events, x) \in Seq(Wired)
    BY <1>3, <1>6
  <2> DEFINE y == Append(o.events, x)
  <2>2. f = [o EXCEPT !.events = y]
    BY <1>2
  <2> HIDE DEF y
  <2>3. y \in Seq(Wired)
    BY <2>1 DEF y
  <2>4. f \in Emissions /\ f.events = y /\ f.block = o.block
    BY <1>3, <2>2, <2>3 DEF Emissions
  <2> QED
    BY <2>4 DEF y
<1>8. /\ Good(w, f)
      /\ \A u : /\ Typed(f, u) = Typed(o, u) + One(x.kind \in {"start", "block"} /\ x.type = u)
                /\ Typed(o, u) \in Nat
  BY <1>1, <1>3, <1>5, <1>6, <1>7, Emits
<1>9. \A u : One(x.kind \in {"start", "block"} /\ x.type = u) = 0
  BY <1>6 DEF One
<1>10. \A u : Typed(f, u) = Typed(o, u)
  <2>1. TAKE u
  <2>2. /\ Typed(f, u) = Typed(o, u) + One(x.kind \in {"start", "block"} /\ x.type = u)
        /\ Typed(o, u) \in Nat
    BY <1>8
  <2>3. One(x.kind \in {"start", "block"} /\ x.type = u) = 0
    BY <1>9
  <2> QED
    BY <2>2, <2>3
<1> QED
  BY <1>1, <1>7, <1>8, <1>10 DEF f

LEMMA WholeIsGood ==
  ASSUME NEW w, NEW e, Good(w, e), serving.rounds \in Nat
  PROVE  /\ Good(w, Whole(e, "text")) /\ Whole(e, "text").block.type = "none"
         /\ Whole(e, "text").block.started > 0
         /\ \A u : /\ Typed(Whole(e, "text"), u) = Typed(e, u) + One(u = "text")
                   /\ Typed(e, u) \in Nat
<1> DEFINE a == ShutBlock(e)
           b == Delta(a, "text")
<1>1. /\ Good(w, a) /\ a.block.type = "none"
      /\ \A u : Typed(a, u) = Typed(e, u) /\ Typed(e, u) \in Nat
  BY ShutIsGood
<1> HIDE DEF a
<1>2. /\ Good(w, b) /\ b.block.started > 0
      /\ \A u : Typed(b, u) = Typed(a, u) + One(u = "text" /\ a.block.type # "text")
  BY <1>1, DeltaIsGood DEF BlockTypes
<1> HIDE DEF b
<1>3. /\ Good(w, ShutBlock(b)) /\ ShutBlock(b).block.type = "none"
      /\ ShutBlock(b).block.started = b.block.started
      /\ \A u : Typed(ShutBlock(b), u) = Typed(b, u)
  BY <1>2, ShutIsGood
<1>4. \A u : One(u = "text" /\ a.block.type # "text") = One(u = "text")
  BY <1>1 DEF One
<1> QED
  BY <1>1, <1>2, <1>3, <1>4 DEF Whole, a, b

LEMMA HavingIs ==
  ASSUME wire \in Seq(Wired)
  PROVE  \A t : Having(t) = Amount(wire, OfType(t)) /\ Having(t) \in Nat
<1>1. ASSUME NEW t PROVE Having(t) = Amount(wire, OfType(t))
  <2>1. {i \in Blocks : wire[i].type = t} = {i \in DOMAIN wire : wire[i] \in OfType(t)}
    BY DEF Blocks, OfType
  <2> QED
    BY <2>1 DEF Having, Amount
<1>2. \A t : Amount(wire, OfType(t)) \in Nat
  BY AmountType
<1> QED
  BY <1>1, <1>2

(* The open block is one of the message.                                     *)
LEMMA OpenIsThere ==
  ASSUME NEW s, NEW b, Goes(s, b), b.type # "none"
  PROVE  Amount(s, OfType(b.type)) > 0 /\ b.started > 0
<1>1. s \in Seq(Wired) /\ b.started \in Nat
  BY DEF Goes, States
<1>2. PICK j \in DOMAIN s : s[j].kind = "start" /\ s[j].index = b.started - 1 /\ s[j].type = b.type
  BY DEF Goes
<1>3. s[j] \in OfType(b.type)
  BY <1>1, <1>2 DEF OfType
<1>4. /\ Amount(s, OfType(b.type)) \in Nat
      /\ Amount(s, OfType(b.type)) = 0 <=> \A i \in DOMAIN s : s[i] \notin OfType(b.type)
  BY <1>1, AmountType
<1>5. b.started > 0
  <2>1. s[j] \in Wired
    BY <1>1
  <2>2. s[j].index \in Nat
    BY <2>1 DEF Wired
  <2> QED
    BY <1>1, <1>2, <2>2
<1> QED
  BY <1>3, <1>4, <1>5

LEMMA NowIsGood ==
  ASSUME ClaudeInv, stage = "events", query.stream
  PROVE  Good(wire, Now) /\ Now.block = block /\ \A t : Typed(Now, t) = 0
<1>1. Goes(wire, block) /\ wire \in Seq(Wired) /\ block \in States
  BY DEF ClaudeInv, ClaudeTypeOK
<1>2. Now.events = <<>> /\ Now.block = block /\ Now \in Emissions
  BY <1>1 DEF Now, Emissions
<1>3. wire \o <<>> = wire
  BY <1>1
<1>4. VisibleOf(<<>>)
  BY DEF VisibleOf
<1>5. \A t : Typed(Now, t) = 0
  BY <1>2, AmountOfFew DEF Typed
<1> QED
  BY <1>1, <1>2, <1>3, <1>4, <1>5 DEF Good

LEMMA SyntheticIsGood ==
  ASSUME NEW w, NEW e, Good(w, e), serving.rounds \in Nat,
         NeedThinking /\ e.block.started > 0 => heard.thought
  PROVE  /\ Good(w, Synthetic(e))
         /\ \A t : /\ Typed(Synthetic(e), t)
                        = Typed(e, t) + One(t = "thinking" /\ NeedThinking /\ ~heard.thought)
                   /\ Typed(e, t) \in Nat
         /\ e.block.started > 0 => Synthetic(e).block.started > 0
         /\ NeedThinking /\ ~heard.thought => Synthetic(e).block.started > 0
         /\ ~(NeedThinking /\ ~heard.thought) => Synthetic(e) = e
<1>1. e \in Emissions /\ Goes(w \o e.events, e.block) /\ e.block.started \in Nat
  BY DEF Good, Emissions, States
<1>2. \A t : Typed(e, t) \in Nat
  BY <1>1, AmountType DEF Typed, Emissions
<1>3. CASE ~NeedThinking \/ heard.thought
  <2>1. Synthetic(e) = e
    BY <1>3 DEF Synthetic
  <2>2. \A t : One(t = "thinking" /\ NeedThinking /\ ~heard.thought) = 0
    BY <1>3 DEF One
  <2> QED
    BY <1>2, <1>3, <2>1, <2>2
<1>4. CASE NeedThinking /\ ~heard.thought
  <2>1. e.block.started = 0 /\ e.block.type = "none"
    BY <1>1, <1>4, OpenIsThere
  <2>2. "thinking" \in BlockTypes
    BY DEF BlockTypes
  <2>3. \A t : One(t = "thinking" /\ e.block.type # "thinking")
                 = One(t = "thinking" /\ NeedThinking /\ ~heard.thought)
    BY <1>4, <2>1 DEF One
  <2>4. CASE query.thinking = "omitted"
    <3>1. Synthetic(e) = OpenBlock(e, "thinking")
      BY <1>4, <2>4 DEF Synthetic
    <3>2. /\ Good(w, OpenBlock(e, "thinking")) /\ OpenBlock(e, "thinking").block.started > 0
          /\ \A u : Typed(OpenBlock(e, "thinking"), u)
                      = Typed(e, u) + One(u = "thinking" /\ e.block.type # "thinking")
      BY <2>1, <2>2, OpenIsGood
    <3> QED
      BY <1>2, <1>4, <2>3, <3>1, <3>2
  <2>5. CASE query.thinking # "omitted"
    <3> DEFINE d == Delta(e, "thinking")
    <3>1. Synthetic(e) = ShutBlock(d)
      BY <1>4, <2>5 DEF Synthetic
    <3>2. /\ Good(w, d) /\ d.block.started > 0
          /\ \A u : Typed(d, u) = Typed(e, u) + One(u = "thinking" /\ e.block.type # "thinking")
      BY <2>1, <2>2, DeltaIsGood
    <3> HIDE DEF d
    <3>3. /\ Good(w, ShutBlock(d)) /\ ShutBlock(d).block.started = d.block.started
          /\ \A t : Typed(ShutBlock(d), t) = Typed(d, t)
      BY <3>2, ShutIsGood
    <3> QED
      BY <1>2, <1>4, <2>3, <3>1, <3>2, <3>3
  <2> QED
    BY <2>4, <2>5
<1> QED
  BY <1>3, <1>4

LEMMA SayingsTyped ==
  ASSUME NEW a \in Sayings
  PROVE  /\ a.thought \in BOOLEAN /\ a.callsFirst \in BOOLEAN
         /\ a.calls \in Seq(Said) /\ Times(a.calls, "known") \in Nat
         /\ Times(a.calls, "text") = 0 /\ Times(a.calls, "thought") = 0
         /\ Times(a.calls, "known") = Len(a.calls) => Times(a.calls, "foreign") = 0
<1>1. /\ a.thought \in BOOLEAN /\ a.callsFirst \in BOOLEAN
      /\ a.calls \in {<<>>, <<"known">>, <<"known", "known">>, <<"foreign">>, <<"known", "foreign">>}
  BY DEF Sayings
<1>2. /\ <<>> \in Seq(Said) /\ <<"known">> \in Seq(Said) /\ <<"known", "known">> \in Seq(Said)
      /\ <<"foreign">> \in Seq(Said) /\ <<"known", "foreign">> \in Seq(Said)
      /\ "foreign" \in Said
  BY DEF Said
<1>3. a.calls \in Seq(Said)
  BY <1>1, <1>2
<1>4. \A i \in DOMAIN a.calls : a.calls[i] \in {"known", "foreign"}
  BY <1>1
<1>5. /\ \A i \in DOMAIN a.calls : a.calls[i] \notin {"text"}
      /\ \A i \in DOMAIN a.calls : a.calls[i] \notin {"thought"}
  BY <1>4
<1>6. Amount(a.calls, {"text"}) = 0 /\ Amount(a.calls, {"thought"}) = 0
  BY <1>3, <1>5, AmountType
<1>7. Amount(a.calls, {"known"}) \in Nat
  BY <1>3, AmountType
<1>8. Amount(a.calls, {"known"}) = Len(a.calls) => Amount(a.calls, {"foreign"}) = 0
  <2>1. CASE a.calls \in {<<>>, <<"known">>, <<"known", "known">>}
    <3>1. \A i \in DOMAIN a.calls : a.calls[i] \notin {"foreign"}
      BY <2>1
    <3> QED
      BY <1>3, <3>1, AmountType
  <2>2. CASE a.calls = <<"foreign">>
    <3>1. \A i \in DOMAIN a.calls : a.calls[i] \notin {"known"}
      BY <2>2
    <3>2. Amount(a.calls, {"known"}) = 0 /\ Len(a.calls) = 1
      BY <1>3, <2>2, <3>1, AmountType
    <3> QED
      BY <3>2
  <2>3. CASE a.calls = <<"known", "foreign">>
    <3>1. a.calls = Append(<<"known">>, "foreign") /\ Len(a.calls) = 2
      BY <2>3
    <3>2. Amount(Append(<<"known">>, "foreign"), {"known"})
            = Amount(<<"known">>, {"known"}) + One("foreign" \in {"known"})
      <4> DEFINE s == <<"known">>
      <4>1. s \in Seq(Said) /\ "foreign" \in Said
        BY <1>2
      <4> HIDE DEF s
      <4>2. \A V : Amount(Append(s, "foreign"), V) = Amount(s, V) + One("foreign" \in V)
        BY <4>1, AmountAppended
      <4> QED
        BY <4>2 DEF s
    <3>3. Amount(<<"known">>, {"known"}) = (IF "known" \in {"known"} THEN 1 ELSE 0)
      BY AmountOfFew
    <3>4. One("foreign" \in {"known"}) = 0
      BY DEF One
    <3> QED
      BY <3>1, <3>2, <3>3, <3>4
  <2> QED
    BY <1>1, <2>1, <2>2, <2>3
<1> QED
  BY <1>1, <1>3, <1>6, <1>7, <1>8, TimesIs, Zenon

(* The events of a round are what the upstream says, each once, and what it  *)
(* thinks comes first.                                                       *)
LEMMA SaidCount ==
  ASSUME NEW a \in Sayings
  PROVE  /\ EventsOf(a) \in Seq(Said)
         /\ Times(EventsOf(a), "text") = One(a.text # "none")
         /\ Times(EventsOf(a), "thought") = One(a.thought)
         /\ Times(EventsOf(a), "known") = Times(a.calls, "known")
         /\ Times(EventsOf(a), "foreign") = Times(a.calls, "foreign")
         /\ a.thought => EventsOf(a)[1] = "thought"
<1> DEFINE thought == When(a.thought, <<"thought">>)
           text == When(a.text # "none", <<"text">>)
           calls == a.calls
           after == IF a.callsFirst THEN calls \o text ELSE text \o calls
<1>1. /\ thought \in Seq(Said)
      /\ \A v : Times(thought, v) = IF a.thought THEN One(v = "thought") ELSE 0
  BY SayingsTyped, TimesOfFew DEF Said
<1>2. /\ text \in Seq(Said)
      /\ \A v : Times(text, v) = IF a.text # "none" THEN One(v = "text") ELSE 0
  <2>1. (a.text # "none") \in BOOLEAN /\ "text" \in Said
    BY DEF Said
  <2> QED
    BY <2>1, TimesOfFew
<1>3. /\ calls \in Seq(Said) /\ Times(calls, "text") = 0 /\ Times(calls, "thought") = 0
      /\ Times(calls, "known") \in Nat /\ Times(calls, "foreign") \in Nat
  <2>1. /\ calls \in Seq(Said) /\ Times(calls, "text") = 0 /\ Times(calls, "thought") = 0
        /\ Times(calls, "known") \in Nat
    BY SayingsTyped
  <2>2. Amount(calls, {"foreign"}) \in Nat
    BY <2>1, AmountType
  <2> QED
    BY <2>1, <2>2, TimesIs
<1>4. EventsOf(a) = thought \o after
  BY DEF EventsOf, When, Provided
<1>5. a.callsFirst \in BOOLEAN
  BY SayingsTyped
<1>9. a.thought => thought = <<"thought">>
  BY DEF When
<1> HIDE DEF thought, text, calls
<1>6. after \in Seq(Said) /\ \A v : Times(after, v) = Times(calls, v) + Times(text, v)
  <2>1. /\ calls \o text \in Seq(Said)
        /\ \A v : Times(calls \o text, v) = Times(calls, v) + Times(text, v)
        /\ \A v : Times(text, v) \in Nat /\ Times(calls, v) \in Nat
    BY <1>2, <1>3, TimesJoined
  <2>2. /\ text \o calls \in Seq(Said)
        /\ \A v : Times(text \o calls, v) = Times(text, v) + Times(calls, v)
    BY <1>2, <1>3, TimesJoined
  <2>3. \A v : Times(text, v) + Times(calls, v) = Times(calls, v) + Times(text, v)
    BY <2>1
  <2>4. CASE a.callsFirst
    BY <2>1, <2>4
  <2>5. CASE ~a.callsFirst
    BY <2>2, <2>3, <2>5, Zenon
  <2> QED
    BY <2>4, <2>5
<1> HIDE DEF after
<1>7. /\ thought \o after \in Seq(Said)
      /\ \A v : Times(thought \o after, v) = Times(thought, v) + Times(after, v)
  BY <1>1, <1>6, TimesJoined
<1>8. a.thought => EventsOf(a)[1] = "thought"
  <2>1. (<<"thought">> \o after)[1] = "thought"
    BY <1>6
  <2> QED
    BY <1>4, <1>9, <2>1
<1>10. /\ Times(thought, "text") = 0 /\ Times(thought, "known") = 0
       /\ Times(thought, "foreign") = 0 /\ Times(thought, "thought") = One(a.thought)
  BY <1>1 DEF One
<1>11. /\ Times(text, "text") = One(a.text # "none") /\ Times(text, "known") = 0
       /\ Times(text, "foreign") = 0 /\ Times(text, "thought") = 0
  BY <1>2 DEF One
<1>12. \A v : Times(EventsOf(a), v) = Times(thought, v) + (Times(calls, v) + Times(text, v))
  BY <1>4, <1>6, <1>7
<1>13. One(a.thought) \in Nat /\ One(a.text # "none") \in Nat
  BY DEF One
<1>14. /\ Times(EventsOf(a), "text") = One(a.text # "none")
       /\ Times(EventsOf(a), "thought") = One(a.thought)
       /\ Times(EventsOf(a), "known") = Times(calls, "known")
       /\ Times(EventsOf(a), "foreign") = Times(calls, "foreign")
  BY <1>3, <1>10, <1>11, <1>12, <1>13
<1> QED
  BY <1>4, <1>7, <1>8, <1>14 DEF calls

LEMMA ComingIsLess ==
  ASSUME rest \in Seq(Said), rest # <<>>, rest' = Tail(rest)
  PROVE  /\ rest' \in Seq(Said) /\ Head(rest) = rest[1]
         /\ \A v : Coming(v) = Coming(v)' + One(v = Head(rest)) /\ Coming(v)' \in Nat
<1>1. rest' \in Seq(Said) /\ Head(rest) = rest[1]
  OBVIOUS
<1>2. ASSUME NEW v
      PROVE  Coming(v) = Coming(v)' + One(v = Head(rest)) /\ Coming(v)' \in Nat
  <2>1. Amount(rest, {v}) = Amount(Tail(rest), {v}) + (IF Head(rest) \in {v} THEN 1 ELSE 0)
    BY AmountOfTail
  <2>2. Amount(rest', {v}) \in Nat
    BY <1>1, AmountType
  <2> QED
    BY <2>1, <2>2, TimesIs DEF Coming, One
<1> QED
  BY <1>1, <1>2

LEMMA KnownCallsType ==
  ASSUME ClaudeTypeOK
  PROVE  KnownCalls \in Nat /\ KnownCalls = Times(said.calls, "known")
<1>1. KnownCalls = Times(said.calls, "known")
  BY DEF KnownCalls, Times
<1> QED
  BY <1>1, SayingsTyped DEF ClaudeTypeOK

LEMMA VisibleJoined ==
  ASSUME NEW s \in Seq(Wired), NEW t \in Seq(Wired), VisibleOf(s), VisibleOf(t)
  PROVE  VisibleOf(s \o t)
<1>1. /\ DOMAIN (s \o t) = 1..(Len(s) + Len(t))
      /\ DOMAIN s = 1..Len(s) /\ DOMAIN t = 1..Len(t)
      /\ \A i \in 1..Len(s) : (s \o t)[i] = s[i]
      /\ \A j \in 1..Len(t) : (s \o t)[Len(s) + j] = t[j]
      /\ \A i \in 1..(Len(s) + Len(t)) :
           i \in 1..Len(s) \/ \E j \in 1..Len(t) : i = Len(s) + j
  BY PlacesOfJoined
<1>2. ASSUME NEW i \in DOMAIN (s \o t), (s \o t)[i].kind \in Visible
      PROVE  (s \o t)[i].round = serving.rounds
  <2>1. CASE i \in 1..Len(s)
    BY <1>1, <1>2, <2>1 DEF VisibleOf
  <2>2. CASE \E j \in 1..Len(t) : i = Len(s) + j
    <3>1. PICK j \in 1..Len(t) : i = Len(s) + j
      BY <2>2
    <3>2. (s \o t)[i] = t[j] /\ j \in DOMAIN t
      BY <1>1, <3>1
    <3> QED
      BY <1>2, <3>2 DEF VisibleOf
  <2> QED
    BY <1>1, <2>1, <2>2
<1> QED
  BY <1>2 DEF VisibleOf

Notes == [thought : BOOLEAN, text : BOOLEAN, called : BOOLEAN, blocked : BOOLEAN]

(* What was sent stays, and more comes after it.                             *)
Lengthens == \E s \in Seq(Wired) : wire' = wire \o s

(* One event of the round: what every one of them keeps.                     *)
LEMMA HandlesKeeps ==
  ASSUME ClaudeInv, NEW event, NEW e, NEW note \in Notes, Handles(event, e, note),
         query.stream => Good(wire, e) /\ SentRight', NotedRight'
  PROVE  ClaudeInv' /\ (query.stream => Lengthens)
<1>1. /\ stage = "events" /\ rest # <<>> /\ rest' = Tail(rest) /\ heard' = note
      /\ query.stream => wire' = wire \o e.events /\ block' = e.block
      /\ ~query.stream => UNCHANGED <<wire, block>>
      /\ UNCHANGED <<query, stage, serving, said, fate, pulse>>
  BY DEF Handles
<1>2. wire' \in Seq(Wired) /\ block' \in States /\ VisibleOf(wire)'
  <2>1. wire \in Seq(Wired) /\ block \in States /\ VisibleOf(wire)
    BY DEF ClaudeInv, ClaudeTypeOK
  <2>2. CASE query.stream
    <3>1. e.events \in Seq(Wired) /\ e.block \in States /\ VisibleOf(e.events)
      BY <2>2 DEF Good, Emissions
    <3>2. VisibleOf(wire \o e.events) /\ wire \o e.events \in Seq(Wired)
      BY <2>1, <3>1, VisibleJoined
    <3> QED
      BY <1>1, <2>2, <3>1, <3>2 DEF VisibleOf
  <2>3. CASE ~query.stream
    BY <1>1, <2>1, <2>3 DEF VisibleOf
  <2> QED
    BY <2>2, <2>3
<1>3. rest' \in Seq(Said)
  BY <1>1, ComingIsLess DEF ClaudeInv, ClaudeTypeOK
<1>4. ClaudeTypeOK'
  BY <1>1, <1>2, <1>3 DEF ClaudeInv, ClaudeTypeOK, Notes
<1>5. query.stream => Goes(wire', block')
  BY <1>1 DEF Good
<1>6. fate = "open"
  BY <1>1 DEF ClaudeInv
<1>7. query.stream => Lengthens
  <2>1. query.stream => e.events \in Seq(Wired)
    BY DEF Good, Emissions
  <2> QED
    BY <1>1, <2>1 DEF Lengthens
<1>8. ClaudeInv'
  BY <1>1, <1>2, <1>4, <1>5, <1>6 DEF ClaudeInv
<1> QED
  BY <1>7, <1>8

(* ... and what it adds.                                                     *)
LEMMA HandlesCounts ==
  ASSUME ClaudeInv, NEW event, NEW e, NEW note, Handles(event, e, note),
         query.stream => Good(wire, e)
  PROVE  /\ query.stream => \A t : /\ Having(t)' = Having(t) + Typed(e, t)
                                   /\ Having(t) \in Nat /\ Typed(e, t) \in Nat
         /\ \A v : Coming(v) = Coming(v)' + One(v = event) /\ Coming(v)' \in Nat
         /\ KnownCalls \in Nat /\ UNCHANGED KnownCalls
         /\ event # "thought" => Coming("thought") = 0
<1>1. /\ stage = "events" /\ rest # <<>> /\ rest' = Tail(rest) /\ Head(rest) = event
      /\ query.stream => wire' = wire \o e.events
      /\ UNCHANGED <<query, said>>
  BY DEF Handles
<1>2. wire \in Seq(Wired) /\ rest \in Seq(Said) /\ ClaudeTypeOK
  BY DEF ClaudeInv, ClaudeTypeOK
<1>3. ASSUME query.stream
      PROVE  \A t : /\ Having(t)' = Having(t) + Typed(e, t)
                    /\ Having(t) \in Nat /\ Typed(e, t) \in Nat
  <2>1. e.events \in Seq(Wired) /\ wire' \in Seq(Wired)
    <3>1. e.events \in Seq(Wired)
      BY <1>3 DEF Good, Emissions
    <3>2. wire \o e.events \in Seq(Wired)
      BY <1>2, <3>1
    <3> QED
      BY <1>1, <1>3, <3>1, <3>2
  <2>2. \A t : Having(t) = Amount(wire, OfType(t)) /\ Having(t) \in Nat
    BY <1>2, HavingIs
  <2>3. \A t : Having(t)' = Amount(wire', OfType(t))
    <3>1. TAKE t
    <3>2. {i \in Blocks : wire[i].type = t}' = {i \in DOMAIN wire' : wire'[i] \in OfType(t)}
      BY <2>1 DEF Blocks, OfType
    <3> QED
      BY <3>2 DEF Having, Amount
  <2>4. \A t : /\ Amount(wire \o e.events, OfType(t)) = Amount(wire, OfType(t)) + Amount(e.events, OfType(t))
               /\ Amount(e.events, OfType(t)) \in Nat
    BY <1>2, <2>1, AmountJoined, AmountType
  <2> QED
    BY <1>1, <1>3, <2>2, <2>3, <2>4 DEF Typed
<1>4. /\ Head(rest) = rest[1]
      /\ \A v : Coming(v) = Coming(v)' + One(v = Head(rest)) /\ Coming(v)' \in Nat
  BY <1>1, <1>2, ComingIsLess
<1>5. KnownCalls \in Nat /\ UNCHANGED KnownCalls
  BY <1>1, <1>2, KnownCallsType DEF KnownCalls
<1>6. event # "thought" => Coming("thought") = 0
  <2>1. Coming("thought") > 0 => rest[1] = "thought"
    BY <1>1 DEF ClaudeInv, NotedRight
  <2>2. Coming("thought") \in Nat
    BY <1>4 DEF One
  <2> QED
    BY <1>1, <1>4, <2>1, <2>2
<1> QED
  BY <1>1, <1>3, <1>4, <1>5, <1>6

LEMMA ThinkKeeps ==
  ASSUME ClaudeInv, Think PROVE ClaudeInv' /\ (query.stream => Lengthens)
<1> DEFINE plain == query.mode = "plain"
           e == IF plain THEN ShutBlock(Delta(Now, "thinking")) ELSE Now
           note == [heard EXCEPT !.thought = plain]
<1>1. Handles("thought", e, note) /\ stage = "events"
  BY DEF Think, Handles
<1>2. /\ heard \in Notes /\ query.mode \in {"plain", "json", "numbered"}
      /\ ClaudeTypeOK /\ serving.rounds \in Nat /\ said \in Sayings /\ said.thought \in BOOLEAN
  BY SayingsTyped DEF ClaudeInv, ClaudeTypeOK, Notes, Queries
<1>3. /\ note \in Notes /\ note.thought = plain /\ note.text = heard.text
      /\ note.called = heard.called /\ note.blocked = heard.blocked
  BY <1>2 DEF Notes
<1>4. \A v : Coming(v) = Coming(v)' + One(v = "thought") /\ Coming(v)' \in Nat
  <2>1. /\ rest # <<>> /\ rest' = Tail(rest) /\ rest \in Seq(Said) /\ Head(rest) = "thought"
    BY <1>1 DEF Handles, ClaudeInv, ClaudeTypeOK
  <2> QED
    BY <2>1, ComingIsLess
<1>5. /\ heard = NotHeard /\ block = NoBlock /\ said.thought /\ Coming("thought")' = 0
      /\ Coming("text")' = Coming("text") /\ Coming("known")' = Coming("known")
      /\ Coming("foreign")' = Coming("foreign")
  <2>1. Coming("thought") = Coming("thought")' + 1 /\ Coming("thought")' \in Nat
    BY <1>4 DEF One
  <2>2. NotedRight
    BY <1>1 DEF ClaudeInv
  <2>3. heard = NotHeard /\ block = NoBlock /\ said.thought /\ Coming("thought")' = 0
    BY <2>1, <2>2 DEF NotedRight, One
  <2> QED
    BY <1>4, <2>3 DEF One
<1>6. query.stream =>
        /\ Good(wire, e)
        /\ \A t : Typed(e, t) = One(t = "thinking" /\ plain)
        /\ plain => e.block.started > 0
  <2> SUFFICES ASSUME query.stream
               PROVE  /\ Good(wire, e)
                      /\ \A t : Typed(e, t) = One(t = "thinking" /\ plain)
                      /\ plain => e.block.started > 0
    OBVIOUS
  <2>1. Good(wire, Now) /\ Now.block = NoBlock /\ \A t : Typed(Now, t) = 0
    BY <1>1, <1>5, NowIsGood
  <2>2. CASE plain
    <3> DEFINE d == Delta(Now, "thinking")
    <3>1. /\ Good(wire, d) /\ d.block.started > 0
          /\ \A u : Typed(d, u) = Typed(Now, u) + One(u = "thinking" /\ Now.block.type # "thinking")
      <4>1. "thinking" \in BlockTypes /\ Now.block.started = 0
        BY <2>1 DEF BlockTypes, NoBlock
      <4> QED
        BY <1>2, <2>1, <4>1, DeltaIsGood
    <3>2. \A u : Typed(d, u) = One(u = "thinking" /\ plain)
      <4>1. \A u : One(u = "thinking" /\ Now.block.type # "thinking") = One(u = "thinking" /\ plain)
        BY <2>1, <2>2 DEF One, NoBlock
      <4>2. \A u : One(u = "thinking" /\ plain) \in Nat
        BY DEF One
      <4>3. TAKE u
      <4>4. Typed(d, u) = Typed(Now, u) + One(u = "thinking" /\ Now.block.type # "thinking")
        BY <3>1
      <4>5. Typed(Now, u) = 0
        BY <2>1
      <4>6. /\ One(u = "thinking" /\ Now.block.type # "thinking") = One(u = "thinking" /\ plain)
            /\ One(u = "thinking" /\ plain) \in Nat
        BY <4>1, <4>2
      <4> QED
        BY <4>4, <4>5, <4>6
    <3> HIDE DEF d
    <3>3. /\ Good(wire, ShutBlock(d)) /\ ShutBlock(d).block.started = d.block.started
          /\ \A t : Typed(ShutBlock(d), t) = Typed(d, t)
      BY <1>2, <3>1, ShutIsGood
    <3> QED
      BY <2>2, <3>1, <3>2, <3>3 DEF d
  <2>3. CASE ~plain
    BY <2>1, <2>3 DEF One
  <2> QED
    BY <2>2, <2>3
<1>7. UNCHANGED <<query, said>> /\ heard' = note
  BY <1>1 DEF Handles
<1> HIDE DEF e, note
<1>8. /\ query.stream => \A t : /\ Having(t)' = Having(t) + Typed(e, t)
                                /\ Having(t) \in Nat /\ Typed(e, t) \in Nat
      /\ KnownCalls \in Nat /\ UNCHANGED KnownCalls
  BY <1>1, <1>6, HandlesCounts
<1>9. NotedRight'
  <2>1. NotedRight
    BY <1>1 DEF ClaudeInv
  <2>2. /\ heard'.text = heard.text /\ heard'.called = heard.called
        /\ heard'.blocked = heard.blocked /\ heard'.thought = plain
        /\ heard.text = FALSE /\ heard.called = FALSE
    BY <1>3, <1>5, <1>7 DEF NotHeard
  <2>3. /\ Coming("known")' <= KnownCalls'
        /\ heard'.called <=> Coming("known")' < KnownCalls'
        /\ Coming("text")' + One(heard'.text) = One(said'.text # "none")
        /\ KnownCalls' = Len(said'.calls) => ~heard'.blocked /\ Coming("foreign")' = 0
    BY <1>5, <1>7, <1>8, <2>1, <2>2 DEF NotedRight
  <2>4. Coming("thought")' <= One(said'.thought) /\ ~(Coming("thought")' > 0)
    BY <1>5 DEF One
  <2>5. heard'.thought => query'.mode = "plain" /\ (said'.thought \/ NeedThinking')
    BY <1>5, <1>7, <2>2
  <2>6. query'.mode = "plain" => heard'.thought
    BY <1>7, <2>2
  <2>7. NeedThinking' /\ (heard'.text \/ heard'.called) => heard'.thought
    BY <2>2
  <2> QED
    BY <2>3, <2>4, <2>5, <2>6, <2>7 DEF NotedRight
<1>10. ASSUME query.stream PROVE SentRight'
  <2>1. SentRight
    BY <1>1, <1>10 DEF ClaudeInv
  <2>2. /\ Having("thinking")' = Having("thinking") + One(plain)
        /\ Having("text")' = Having("text") /\ Having("tool_use")' = Having("tool_use")
    <3>1. /\ Typed(e, "thinking") = One(plain) /\ Typed(e, "text") = 0 /\ Typed(e, "tool_use") = 0
      BY <1>6, <1>10 DEF One
    <3> QED
      BY <1>8, <1>10, <3>1
  <2>3. Having("thinking") = 0 /\ ~heard.text /\ ~heard.called
    BY <1>5, <2>1 DEF SentRight, NotHeard, One
  <2>4. NeedThinking' => note.thought
    BY <1>3, <1>7 DEF NeedThinking
  <2>5. Having("thinking")' = One(note.thought)
    <3>1. One(plain) \in Nat /\ One(note.thought) = One(plain)
      BY <1>3 DEF One
    <3> QED
      BY <2>2, <2>3, <3>1
  <2> QED
    BY <1>3, <1>5, <1>7, <1>8, <2>1, <2>2, <2>3, <2>4, <2>5 DEF SentRight
<1> QED
  BY <1>1, <1>3, <1>6, <1>9, <1>10, HandlesKeeps

LEMMA SyntheticNow ==
  ASSUME ClaudeInv, stage = "events", query.stream
  PROVE  /\ Good(wire, Synthetic(Now))
         /\ \A t : Typed(Synthetic(Now), t) = One(t = "thinking" /\ NeedThinking /\ ~heard.thought)
         /\ block.started > 0 => Synthetic(Now).block.started > 0
         /\ NeedThinking /\ ~heard.thought => Synthetic(Now).block.started > 0
         /\ ~(NeedThinking /\ ~heard.thought) => Synthetic(Now) = Now /\ Now.block = block
         /\ Synthetic(Now).block.started \in Nat
<1>1. Good(wire, Now) /\ Now.block = block /\ \A t : Typed(Now, t) = 0
  BY NowIsGood
<1>2. NeedThinking /\ block.started > 0 => heard.thought
  BY DEF ClaudeInv, SentRight
<1>3. serving.rounds \in Nat
  BY DEF ClaudeInv, ClaudeTypeOK
<1>4. /\ Good(wire, Synthetic(Now))
      /\ \A t : Typed(Synthetic(Now), t)
                  = Typed(Now, t) + One(t = "thinking" /\ NeedThinking /\ ~heard.thought)
      /\ Now.block.started > 0 => Synthetic(Now).block.started > 0
      /\ NeedThinking /\ ~heard.thought => Synthetic(Now).block.started > 0
      /\ ~(NeedThinking /\ ~heard.thought) => Synthetic(Now) = Now
  BY <1>1, <1>2, <1>3, SyntheticIsGood
<1>5. \A t : Typed(Synthetic(Now), t) = One(t = "thinking" /\ NeedThinking /\ ~heard.thought)
  <2>1. TAKE t
  <2>2. Typed(Now, t) = 0 /\ One(t = "thinking" /\ NeedThinking /\ ~heard.thought) \in Nat
    BY <1>1 DEF One
  <2> QED
    BY <1>4, <2>2
<1>6. Synthetic(Now).block.started \in Nat
  BY <1>4 DEF Good, Emissions, States
<1> QED
  BY <1>1, <1>4, <1>5, <1>6

LEMMA ThinkingNoted ==
  ASSUME heard.thought \in BOOLEAN, NEW note, note.thought = (heard.thought \/ NeedThinking)
  PROVE  One(heard.thought) + One(NeedThinking /\ ~heard.thought) = One(note.thought)
<1>1. CASE heard.thought
  <2>1. note.thought
    BY <1>1
  <2>2. One(note.thought) = 1 /\ One(heard.thought) = 1 /\ One(NeedThinking /\ ~heard.thought) = 0
    BY <1>1, <2>1, Zenon DEF One
  <2> QED
    BY <2>2
<1>2. CASE ~heard.thought /\ NeedThinking
  <2>1. note.thought
    BY <1>2
  <2>2. One(note.thought) = 1 /\ One(heard.thought) = 0 /\ One(NeedThinking /\ ~heard.thought) = 1
    BY <1>2, <2>1, Zenon DEF One
  <2> QED
    BY <2>2
<1>3. CASE ~heard.thought /\ ~NeedThinking
  <2>1. ~note.thought
    BY <1>3
  <2>2. One(note.thought) = 0 /\ One(heard.thought) = 0 /\ One(NeedThinking /\ ~heard.thought) = 0
    BY <1>3, <2>1, Zenon DEF One
  <2> QED
    BY <2>2
<1> QED
  BY <1>1, <1>2, <1>3

LEMMA SayKeeps ==
  ASSUME ClaudeInv, Say PROVE ClaudeInv' /\ (query.stream => Lengthens)
<1> DEFINE plain == query.mode = "plain"
           s == Synthetic(Now)
           e == IF plain THEN Delta(s, "text") ELSE s
           note == [heard EXCEPT !.text = TRUE, !.thought = @ \/ NeedThinking]
<1>1. Handles("text", e, note) /\ stage = "events" /\ UNCHANGED <<query, said>> /\ heard' = note
      /\ (query.stream => wire' = wire \o e.events /\ block' = e.block)
  BY DEF Say, Handles
<1>2. /\ heard \in Notes /\ ClaudeTypeOK /\ serving.rounds \in Nat /\ NotedRight
      /\ said.thought \in BOOLEAN
  BY <1>1, SayingsTyped DEF ClaudeInv, ClaudeTypeOK, Notes
<1>3. /\ note \in Notes /\ note.thought = (heard.thought \/ NeedThinking) /\ note.text = TRUE
      /\ note.called = heard.called /\ note.blocked = heard.blocked
      /\ heard.thought \in BOOLEAN
  BY <1>2 DEF Notes, NeedThinking
<1>4. query.stream =>
        /\ Good(wire, e)
        /\ Typed(e, "thinking") = One(NeedThinking /\ ~heard.thought) /\ Typed(e, "tool_use") = 0
        /\ plain => e.block.started > 0 /\ e.block.type = "text"
        /\ ~plain => e.block = block /\ Typed(e, "text") = 0
  <2> SUFFICES ASSUME query.stream
               PROVE  /\ Good(wire, e)
                      /\ Typed(e, "thinking") = One(NeedThinking /\ ~heard.thought)
                      /\ Typed(e, "tool_use") = 0
                      /\ plain => e.block.started > 0 /\ e.block.type = "text"
                      /\ ~plain => e.block = block /\ Typed(e, "text") = 0
    OBVIOUS
  <2>1. /\ Good(wire, s)
        /\ \A t : Typed(s, t) = One(t = "thinking" /\ NeedThinking /\ ~heard.thought)
        /\ ~(NeedThinking /\ ~heard.thought) => s = Now /\ Now.block = block
    BY <1>1, SyntheticNow
  <2> HIDE DEF s
  <2>2. /\ Typed(s, "thinking") = One(NeedThinking /\ ~heard.thought)
        /\ Typed(s, "tool_use") = 0 /\ Typed(s, "text") = 0
    BY <2>1 DEF One
  <2>3. CASE plain
    <3>1. /\ Good(wire, Delta(s, "text")) /\ Delta(s, "text").block.type = "text"
          /\ Delta(s, "text").block.started > 0
          /\ \A u : Typed(Delta(s, "text"), u) = Typed(s, u) + One(u = "text" /\ s.block.type # "text")
      <4>1. "text" \in BlockTypes /\ ("text" = "thinking" => s.block.started = 0)
        BY DEF BlockTypes
      <4> QED
        BY <1>2, <2>1, <4>1, DeltaIsGood
    <3>2. /\ Typed(Delta(s, "text"), "thinking") = Typed(s, "thinking")
          /\ Typed(Delta(s, "text"), "tool_use") = Typed(s, "tool_use")
      <4>1. One("thinking" = "text" /\ s.block.type # "text") = 0
            /\ One("tool_use" = "text" /\ s.block.type # "text") = 0
        BY DEF One
      <4>2. Typed(s, "thinking") \in Nat /\ Typed(s, "tool_use") \in Nat
        BY <2>2 DEF One
      <4>3. /\ Typed(Delta(s, "text"), "thinking")
                 = Typed(s, "thinking") + One("thinking" = "text" /\ s.block.type # "text")
            /\ Typed(Delta(s, "text"), "tool_use")
                 = Typed(s, "tool_use") + One("tool_use" = "text" /\ s.block.type # "text")
        BY <3>1
      <4> QED
        BY <4>1, <4>2, <4>3
    <3> QED
      BY <2>2, <2>3, <3>1, <3>2
  <2>4. CASE ~plain
    <3>1. s = Now /\ Now.block = block
      BY <2>1, <2>4 DEF NeedThinking
    <3> QED
      BY <2>1, <2>2, <2>4, <3>1
  <2> QED
    BY <2>3, <2>4
<1> HIDE DEF e, note
<1>5. /\ query.stream => \A t : /\ Having(t)' = Having(t) + Typed(e, t)
                                /\ Having(t) \in Nat /\ Typed(e, t) \in Nat
      /\ \A v : Coming(v) = Coming(v)' + One(v = "text") /\ Coming(v)' \in Nat
      /\ KnownCalls \in Nat /\ UNCHANGED KnownCalls
      /\ Coming("thought") = 0
  BY <1>1, <1>4, HandlesCounts
<1>6. /\ Coming("text") = Coming("text")' + 1 /\ Coming("known")' = Coming("known")
      /\ Coming("foreign")' = Coming("foreign") /\ Coming("thought")' = 0
      /\ Coming("text")' \in Nat
  BY <1>5 DEF One
<1>7. ~heard.text /\ Coming("text")' = 0 /\ One(said.text # "none") = 1
  <2>1. One(heard.text) \in {0, 1} /\ One(said.text # "none") \in {0, 1}
    BY DEF One
  <2>2. One(heard.text) = 0 /\ Coming("text")' = 0 /\ One(said.text # "none") = 1
    BY <1>2, <1>6, <2>1 DEF NotedRight
  <2> QED
    BY <2>2 DEF One
<1>8. NotedRight'
  <2>1. /\ Coming("known")' <= KnownCalls'
        /\ heard'.called <=> Coming("known")' < KnownCalls'
        /\ KnownCalls' = Len(said'.calls) => ~heard'.blocked /\ Coming("foreign")' = 0
    BY <1>1, <1>2, <1>3, <1>5, <1>6 DEF NotedRight
  <2>2. Coming("text")' + One(heard'.text) = One(said'.text # "none")
    BY <1>1, <1>3, <1>7 DEF One
  <2>3. Coming("thought")' <= One(said'.thought) /\ ~(Coming("thought")' > 0)
    BY <1>6 DEF One
  <2>4. heard'.thought => query'.mode = "plain" /\ (said'.thought \/ NeedThinking')
    BY <1>1, <1>2, <1>3 DEF NotedRight, NeedThinking
  <2>5. query'.mode = "plain" /\ said'.thought => heard'.thought
    BY <1>1, <1>2, <1>3, <1>5 DEF NotedRight
  <2>6. NeedThinking' => heard'.thought
    BY <1>1, <1>3 DEF NeedThinking
  <2> QED
    BY <2>1, <2>2, <2>3, <2>4, <2>5, <2>6 DEF NotedRight
<1>9. ASSUME query.stream PROVE SentRight'
  <2>1. SentRight
    BY <1>1, <1>9 DEF ClaudeInv
  <2>2. Having("thinking")' = One(heard'.thought)
    <3>1. Having("thinking")' = One(heard.thought) + One(NeedThinking /\ ~heard.thought)
      BY <1>4, <1>5, <1>9, <2>1 DEF SentRight
    <3>2. One(heard.thought) + One(NeedThinking /\ ~heard.thought) = One(heard'.thought)
      BY <1>1, <1>3, ThinkingNoted
    <3> QED
      BY <3>1, <3>2
  <2>3. Having("tool_use")' + Coming("known")' = KnownCalls'
    <3>1. Having("tool_use")' = Having("tool_use")
      BY <1>4, <1>5, <1>9
    <3> QED
      BY <1>5, <1>6, <2>1, <3>1 DEF SentRight
  <2>4. plain => Having("text")' > 0 /\ block'.started > 0
    <3>1. SUFFICES ASSUME plain PROVE Having("text")' > 0 /\ block'.started > 0
      OBVIOUS
    <3>2. Goes(wire', block') /\ block'.type = "text" /\ block'.started > 0
      BY <1>1, <1>4, <1>9, <3>1 DEF Good
    <3>3. Amount(wire', OfType("text")) > 0
      BY <3>2, OpenIsThere
    <3>4. wire' \in Seq(Wired)
      BY <3>2 DEF Goes
    <3>5. {i \in Blocks : wire[i].type = "text"}' = {i \in DOMAIN wire' : wire'[i] \in OfType("text")}
      BY <3>4 DEF Blocks, OfType
    <3> QED
      BY <3>2, <3>3, <3>5 DEF Having, Amount
  <2>5. ~plain => Having("text")' = 0 /\ block' = block
    <3>1. ~plain => Having("text") = 0
      BY <1>5, <1>9, <2>1 DEF SentRight
    <3>2. Having("text")' = Having("text") + Typed(e, "text")
      BY <1>5, <1>9
    <3>3. ~plain => Typed(e, "text") = 0 /\ e.block = block
      BY <1>4, <1>9
    <3> QED
      BY <1>1, <1>9, <3>1, <3>2, <3>3
  <2>6. NeedThinking' => heard'.thought
    BY <1>1, <1>3 DEF NeedThinking
  <2>7. heard'.called => block'.started > 0
    BY <1>1, <1>3, <2>1, <2>4, <2>5 DEF SentRight
  <2> QED
    BY <1>1, <1>3, <2>2, <2>3, <2>4, <2>5, <2>6, <2>7 DEF SentRight
<1> QED
  BY <1>1, <1>3, <1>4, <1>8, <1>9, HandlesKeeps

LEMMA CallToolKeeps ==
  ASSUME ClaudeInv, CallTool PROVE ClaudeInv' /\ (query.stream => Lengthens)
<1> DEFINE s == Synthetic(Now)
           h == ShutBlock(s)
           e == Delta(h, "tool_use")
           note == [heard EXCEPT !.called = TRUE, !.thought = @ \/ NeedThinking]
<1>1. Handles("known", e, note) /\ stage = "events" /\ UNCHANGED <<query, said>> /\ heard' = note
      /\ (query.stream => wire' = wire \o e.events /\ block' = e.block)
  BY DEF CallTool, Handles
<1>2. /\ heard \in Notes /\ ClaudeTypeOK /\ serving.rounds \in Nat /\ NotedRight
      /\ said.thought \in BOOLEAN
  BY <1>1, SayingsTyped DEF ClaudeInv, ClaudeTypeOK, Notes
<1>3. /\ note \in Notes /\ note.thought = (heard.thought \/ NeedThinking) /\ note.called = TRUE
      /\ note.text = heard.text /\ note.blocked = heard.blocked
      /\ heard.thought \in BOOLEAN
  BY <1>2 DEF Notes, NeedThinking
<1>4. query.stream =>
        /\ Good(wire, e)
        /\ Typed(e, "thinking") = One(NeedThinking /\ ~heard.thought) /\ Typed(e, "tool_use") = 1
        /\ Typed(e, "text") = 0 /\ e.block.started > 0
  <2> SUFFICES ASSUME query.stream
               PROVE  /\ Good(wire, e)
                      /\ Typed(e, "thinking") = One(NeedThinking /\ ~heard.thought)
                      /\ Typed(e, "tool_use") = 1
                      /\ Typed(e, "text") = 0 /\ e.block.started > 0
    OBVIOUS
  <2>1. /\ Good(wire, s)
        /\ \A t : Typed(s, t) = One(t = "thinking" /\ NeedThinking /\ ~heard.thought)
    BY <1>1, SyntheticNow
  <2> HIDE DEF s
  <2>2. /\ Good(wire, h) /\ h.block.type = "none"
        /\ \A t : Typed(h, t) = Typed(s, t)
    BY <1>2, <2>1, ShutIsGood
  <2> HIDE DEF h
  <2>3. "tool_use" \in BlockTypes /\ ("tool_use" = "thinking" => h.block.started = 0)
    BY DEF BlockTypes
  <2>4. /\ Good(wire, e) /\ e.block.started > 0
        /\ \A u : Typed(e, u) = Typed(h, u) + One(u = "tool_use" /\ h.block.type # "tool_use")
    BY <1>2, <2>2, <2>3, DeltaIsGood
  <2>5. /\ Typed(h, "thinking") = One(NeedThinking /\ ~heard.thought)
        /\ Typed(h, "tool_use") = 0 /\ Typed(h, "text") = 0
    BY <2>1, <2>2 DEF One
  <2>6. /\ One("thinking" = "tool_use" /\ h.block.type # "tool_use") = 0
        /\ One("text" = "tool_use" /\ h.block.type # "tool_use") = 0
        /\ One("tool_use" = "tool_use" /\ h.block.type # "tool_use") = 1
        /\ One(NeedThinking /\ ~heard.thought) \in Nat
    BY <2>2 DEF One
  <2> HIDE DEF e
  <2>7. /\ Typed(e, "thinking") = Typed(h, "thinking") + One("thinking" = "tool_use" /\ h.block.type # "tool_use")
        /\ Typed(e, "text") = Typed(h, "text") + One("text" = "tool_use" /\ h.block.type # "tool_use")
        /\ Typed(e, "tool_use") = Typed(h, "tool_use") + One("tool_use" = "tool_use" /\ h.block.type # "tool_use")
    BY <2>4
  <2> QED
    BY <2>4, <2>5, <2>6, <2>7
<1> HIDE DEF e, note
<1>5. /\ query.stream => \A t : /\ Having(t)' = Having(t) + Typed(e, t)
                                /\ Having(t) \in Nat /\ Typed(e, t) \in Nat
      /\ \A v : Coming(v) = Coming(v)' + One(v = "known") /\ Coming(v)' \in Nat
      /\ KnownCalls \in Nat /\ UNCHANGED KnownCalls
      /\ Coming("thought") = 0
  BY <1>1, <1>4, HandlesCounts
<1>6. /\ Coming("known") = Coming("known")' + 1 /\ Coming("text")' = Coming("text")
      /\ Coming("foreign")' = Coming("foreign") /\ Coming("thought")' = 0
      /\ Coming("known")' \in Nat
  BY <1>5 DEF One
<1>7. NotedRight'
  <2>1. /\ Coming("known")' < KnownCalls' /\ heard'.called
        /\ KnownCalls' = Len(said'.calls) => ~heard'.blocked /\ Coming("foreign")' = 0
        /\ Coming("text")' + One(heard'.text) = One(said'.text # "none")
    BY <1>1, <1>2, <1>3, <1>5, <1>6 DEF NotedRight
  <2>2. Coming("known")' <= KnownCalls' /\ (heard'.called <=> Coming("known")' < KnownCalls')
    BY <1>5, <1>6, <2>1
  <2>3. Coming("thought")' <= One(said'.thought) /\ ~(Coming("thought")' > 0)
    BY <1>6 DEF One
  <2>4. heard'.thought => query'.mode = "plain" /\ (said'.thought \/ NeedThinking')
    BY <1>1, <1>2, <1>3 DEF NotedRight, NeedThinking
  <2>5. query'.mode = "plain" /\ said'.thought => heard'.thought
    BY <1>1, <1>2, <1>3, <1>5 DEF NotedRight
  <2>6. NeedThinking' => heard'.thought
    BY <1>1, <1>3 DEF NeedThinking
  <2> QED
    BY <2>1, <2>2, <2>3, <2>4, <2>5, <2>6 DEF NotedRight
<1>8. ASSUME query.stream PROVE SentRight'
  <2>1. SentRight
    BY <1>1, <1>8 DEF ClaudeInv
  <2>2. Having("thinking")' = One(heard'.thought)
    <3>1. Having("thinking")' = One(heard.thought) + One(NeedThinking /\ ~heard.thought)
      BY <1>4, <1>5, <1>8, <2>1 DEF SentRight
    <3>2. One(heard.thought) + One(NeedThinking /\ ~heard.thought) = One(heard'.thought)
      BY <1>1, <1>3, ThinkingNoted
    <3> QED
      BY <3>1, <3>2
  <2>3. Having("tool_use")' + Coming("known")' = KnownCalls'
    <3>1. Having("tool_use")' = Having("tool_use") + 1 /\ Having("tool_use") \in Nat
      BY <1>4, <1>5, <1>8
    <3> QED
      BY <1>5, <1>6, <2>1, <3>1 DEF SentRight
  <2>4. Having("text")' = Having("text")
    <3>1. Having("text")' = Having("text") + Typed(e, "text") /\ Having("text") \in Nat
      BY <1>5, <1>8
    <3> QED
      BY <1>4, <1>8, <3>1
  <2>5. NeedThinking' => heard'.thought
    BY <1>1, <1>3 DEF NeedThinking
  <2>6. block'.started > 0
    BY <1>1, <1>4, <1>8
  <2> QED
    BY <1>1, <1>3, <2>1, <2>2, <2>3, <2>4, <2>5, <2>6 DEF SentRight
<1> QED
  BY <1>1, <1>3, <1>4, <1>7, <1>8, HandlesKeeps

LEMMA WithholdKeeps ==
  ASSUME ClaudeInv, Withhold PROVE ClaudeInv' /\ (query.stream => Lengthens)
<1> DEFINE note == [heard EXCEPT !.blocked = TRUE]
<1>1. Handles("foreign", Now, note) /\ stage = "events" /\ UNCHANGED <<query, said>> /\ heard' = note
      /\ (query.stream => wire' = wire \o Now.events /\ block' = Now.block)
  BY DEF Withhold, Handles
<1>2. /\ heard \in Notes /\ ClaudeTypeOK /\ NotedRight
  BY <1>1 DEF ClaudeInv, ClaudeTypeOK, Notes
<1>3. /\ note \in Notes /\ note.thought = heard.thought /\ note.called = heard.called
      /\ note.text = heard.text /\ note.blocked = TRUE
  BY <1>2 DEF Notes
<1> HIDE DEF note
<1>4. query.stream => Good(wire, Now) /\ Now.block = block /\ \A t : Typed(Now, t) = 0
  BY <1>1, NowIsGood
<1>5. /\ query.stream => \A t : /\ Having(t)' = Having(t) + Typed(Now, t)
                                /\ Having(t) \in Nat /\ Typed(Now, t) \in Nat
      /\ \A v : Coming(v) = Coming(v)' + One(v = "foreign") /\ Coming(v)' \in Nat
      /\ KnownCalls \in Nat /\ UNCHANGED KnownCalls
      /\ Coming("thought") = 0
  BY <1>1, <1>4, HandlesCounts
<1>6. /\ Coming("known") = Coming("known")' /\ Coming("text")' = Coming("text")
      /\ Coming("foreign") = Coming("foreign")' + 1 /\ Coming("thought")' = 0
      /\ Coming("foreign")' \in Nat
  BY <1>5 DEF One
<1>7. NotedRight'
  <2>1. KnownCalls' # Len(said'.calls)
    BY <1>1, <1>2, <1>5, <1>6 DEF NotedRight
  <2>2. /\ Coming("known")' <= KnownCalls' /\ (heard'.called <=> Coming("known")' < KnownCalls')
        /\ Coming("text")' + One(heard'.text) = One(said'.text # "none")
    BY <1>1, <1>2, <1>3, <1>5, <1>6 DEF NotedRight
  <2>3. Coming("thought")' <= One(said'.thought) /\ ~(Coming("thought")' > 0)
    BY <1>6 DEF One
  <2>4. /\ heard'.thought => query'.mode = "plain" /\ (said'.thought \/ NeedThinking')
        /\ query'.mode = "plain" /\ said'.thought => heard'.thought
        /\ NeedThinking' /\ (heard'.text \/ heard'.called) => heard'.thought
    BY <1>1, <1>2, <1>3, <1>5 DEF NotedRight, NeedThinking
  <2> QED
    BY <2>1, <2>2, <2>3, <2>4 DEF NotedRight
<1>8. ASSUME query.stream PROVE SentRight'
  <2>1. SentRight
    BY <1>1, <1>8 DEF ClaudeInv
  <2>2. \A t : Having(t)' = Having(t)
    <3>1. TAKE t
    <3>2. Having(t)' = Having(t) + Typed(Now, t) /\ Having(t) \in Nat /\ Typed(Now, t) = 0
      BY <1>4, <1>5, <1>8
    <3> QED
      BY <3>2
  <2>3. block' = block
    BY <1>1, <1>4, <1>8
  <2> QED
    BY <1>1, <1>3, <1>5, <1>6, <2>1, <2>2, <2>3 DEF SentRight, NeedThinking
<1> QED
  BY <1>1, <1>3, <1>4, <1>7, <1>8, HandlesKeeps

(* An event that is not of a block.                                          *)
LEMMA SignalSilent ==
  ASSUME wire \in Seq(Wired), NEW x \in Wired, x.kind \notin Visible, wire' = Append(wire, x)
  PROVE  /\ wire' \in Seq(Wired) /\ Len(wire) \in Nat
         /\ DOMAIN wire = 1..Len(wire) /\ DOMAIN wire' = 1..(Len(wire) + 1)
         /\ \A i \in DOMAIN wire : wire'[i] = wire[i]
         /\ wire'[Len(wire) + 1] = x
         /\ Blocks' = Blocks /\ \A i \in Blocks : wire'[i] = wire[i]
         /\ \A t : Having(t)' = Having(t)
         /\ \A k : Noted(k)' <=> Noted(k) \/ x.kind = k
         /\ VisibleOf(wire) /\ UNCHANGED serving => VisibleOf(wire)'
         /\ UNCHANGED ShownByClaude
<1>1. /\ wire' \in Seq(Wired) /\ Len(wire) \in Nat
      /\ DOMAIN wire = 1..Len(wire) /\ DOMAIN wire' = 1..(Len(wire) + 1)
      /\ \A i \in DOMAIN wire : wire'[i] = wire[i]
      /\ wire'[Len(wire) + 1] = x
  OBVIOUS
<1>2. \A i \in DOMAIN wire' : wire'[i].kind \in Visible => i \in DOMAIN wire
  BY <1>1
<1>3. \A i \in DOMAIN wire : i \in DOMAIN wire'
  BY <1>1
<1>4. Blocks' = Blocks /\ \A i \in Blocks : wire'[i] = wire[i]
  BY <1>1, <1>2, <1>3 DEF Blocks, Visible
<1>5. \A t : Having(t)' = Having(t)
  <2>1. TAKE t
  <2>2. {i \in Blocks : wire[i].type = t}' = {i \in Blocks : wire[i].type = t}
    BY <1>4
  <2> QED
    BY <2>2 DEF Having
<1>6. \A k : Noted(k)' <=> Noted(k) \/ x.kind = k
  BY <1>1, <1>3 DEF Noted
<1>7. VisibleOf(wire) /\ UNCHANGED serving => VisibleOf(wire)'
  BY <1>1, <1>2 DEF VisibleOf
<1>8. UNCHANGED ShownByClaude
  <2> DEFINE P == {j \in DOMAIN wire : wire[j].kind \in {"start", "delta", "block"}}
  <2>1. P' = P /\ \A i \in P : wire'[i].round = wire[i].round
    BY <1>1, <1>2, <1>3 DEF Visible
  <2>2. ShownByClaude = [i \in P |-> wire[i].round] /\ ShownByClaude' = [i \in P' |-> wire'[i].round]
    BY DEF ShownByClaude
  <2> QED
    BY <2>1, <2>2
<1> QED
  BY <1>1, <1>4, <1>5, <1>6, <1>7, <1>8

LEMMA FitsGrows ==
  ASSUME NEW s \in Seq(Wired), NEW x \in Wired, \A i \in DOMAIN s : Fits(s, i),
         Fits(Append(s, x), Len(s) + 1)
  PROVE  \A i \in DOMAIN Append(s, x) : Fits(Append(s, x), i)
<1>1. DOMAIN Append(s, x) = DOMAIN s \cup {Len(s) + 1}
  OBVIOUS
<1>2. \A i \in DOMAIN s : Fits(Append(s, x), i) <=> Fits(s, i)
  BY FitsKept
<1> QED
  BY <1>1, <1>2

LEMMA PingFits ==
  ASSUME NEW s \in Seq(Wired), \A i \in DOMAIN s : Fits(s, i), serving.rounds \in Nat
  PROVE  \A i \in DOMAIN Append(s, Signal("ping")) : Fits(Append(s, Signal("ping")), i)
<1>1. Signal("ping") \in Wired /\ Signal("ping").kind = "ping"
  BY EventFields DEF WireKinds
<1>2. Append(s, Signal("ping"))[Len(s) + 1] = Signal("ping")
  BY <1>1
<1>3. Fits(Append(s, Signal("ping")), Len(s) + 1)
  BY <1>1, <1>2 DEF Fits
<1> QED
  BY <1>1, <1>3, FitsGrows

LEMMA TwoAppended ==
  ASSUME NEW W, NEW u \in W, NEW v \in W
  PROVE  /\ Append(<<u>>, v) = <<u, v>>
         /\ \A s \in Seq(W) : s \o <<u, v>> = Append(Append(s, u), v)
<1>1. Append(<<u>>, v) = <<u, v>>
  <2> DEFINE a == Append(<<u>>, v)
             b == <<u, v>>
  <2>1. a \in Seq(W) /\ b \in Seq(W) /\ Len(a) = 2 /\ Len(b) = 2
    OBVIOUS
  <2>2. \A i \in 1..2 : a[i] = b[i]
    OBVIOUS
  <2> HIDE DEF a, b
  <2>3. a = b
    BY <2>1, <2>2, SeqEqual
  <2> QED
    BY <2>3 DEF a, b
<1>2. ASSUME NEW s \in Seq(W)
      PROVE  s \o <<u, v>> = Append(Append(s, u), v)
  <2> DEFINE a == s \o <<u, v>>
             b == Append(Append(s, u), v)
  <2>1. a \in Seq(W) /\ b \in Seq(W) /\ Len(a) = Len(s) + 2 /\ Len(b) = Len(s) + 2 /\ Len(s) \in Nat
    OBVIOUS
  <2>2. \A i \in 1..(Len(s) + 2) : a[i] = b[i]
    OBVIOUS
  <2> HIDE DEF a, b
  <2>3. a = b
    BY <2>1, <2>2, SeqEqual
  <2> QED
    BY <2>3 DEF a, b
<1> QED
  BY <1>1, <1>2

LEMMA MessageBegins ==
  ASSUME serving.rounds \in Nat
  PROVE  Goes(<<Signal("message_start"), Signal("ping")>>, NoBlock)
<1> DEFINE x == Signal("message_start")
           s == <<x>>
<1>1. x \in Wired /\ x.kind = "message_start"
  BY EventFields DEF WireKinds
<1> HIDE DEF x
<1>2. s \in Seq(Wired) /\ DOMAIN s = {1} /\ s[1] = x
  BY <1>1
<1>3. Fits(s, 1)
  <2>1. Earlier(s, 1, {"message_start"}) = {}
    BY DEF Earlier
  <2> QED
    BY <1>1, <1>2, <2>1 DEF Fits
<1>4. \A K : Amount(s, OfKinds(K)) = One(x.kind \in K)
  <2>1. \A K : Amount(s, OfKinds(K)) = IF x \in OfKinds(K) THEN 1 ELSE 0
    BY AmountOfFew
  <2>2. \A K : x \in OfKinds(K) <=> x.kind \in K
    BY <1>1 DEF OfKinds
  <2> QED
    BY <2>1, <2>2, Zenon DEF One
<1>5. /\ Amount(s, OfKinds({"message_start"})) = 1
      /\ Amount(s, OfKinds({"end_turn", "tool_use"})) = 0
      /\ Amount(s, OfKinds({"message_stop", "error"})) = 0
      /\ Amount(s, OfKinds({"start"})) = 0 /\ Amount(s, OfKinds({"stop"})) = 0
  BY <1>1, <1>4 DEF One
<1>6. NoBlock \in States /\ NoBlock.started = 0 /\ NoBlock.type = "none"
  BY DEF NoBlock, States
<1>7. Goes(s, NoBlock)
  BY <1>1, <1>2, <1>3, <1>5, <1>6 DEF Goes, One
<1>8. Append(s, Signal("ping")) = <<x, Signal("ping")>>
  <2>1. Signal("ping") \in Wired
    BY EventFields DEF WireKinds
  <2> QED
    BY <1>1, <2>1, TwoAppended
<1> HIDE DEF s
<1>9. Goes(Append(s, Signal("ping")), NoBlock)
  BY <1>7, PingGoes
<1> QED
  BY <1>8, <1>9 DEF x

LEMMA ClaudeInvInit == ClaudeInit => ClaudeInv
<1> SUFFICES ASSUME ClaudeInit PROVE ClaudeInv
  OBVIOUS
<1>1. NothingSaid \in Sayings /\ NotHeard \in Notes /\ NoBlock \in States
  BY DEF NothingSaid, Sayings, NotHeard, Notes, NoBlock, States
<1>2. ClaudeTypeOK
  BY <1>1 DEF ClaudeInit, ClaudeTypeOK, Notes
<1> QED
  BY <1>2 DEF ClaudeInit, ClaudeInv, VisibleOf

(* Where only the turn or the account changes.                               *)
LEMMA ClaudeWaits ==
  ASSUME ClaudeInv, stage # "over", stage' \in {"pick", "asks"},
         serving' \in [picks : Nat, rounds : Nat], serving'.rounds = serving.rounds,
         serving'.picks > 0 \/ (stage' = "pick" /\ UNCHANGED serving),
         wire' \in Seq(Wired), pulse' \in {"off", "waits", "writes"},
         wire' # <<>> => query.stream, pulse' # "off" => query.stream,
         query.stream /\ serving'.picks > 0 => Goes(wire', NoBlock),
         serving'.picks = 0 => UNCHANGED <<wire, pulse>>,
         \A i \in DOMAIN wire' : wire'[i].kind \notin Visible,
         UNCHANGED <<query, said, rest, heard, block, fate>>
  PROVE  ClaudeInv'
<1>1. ClaudeTypeOK'
  BY DEF ClaudeInv, ClaudeTypeOK
<1>2. VisibleOf(wire)'
  BY DEF VisibleOf
<1>3. serving'.picks = 0 => wire' = <<>> /\ pulse' = "off" /\ stage' = "pick"
  BY DEF ClaudeInv, ClaudeTypeOK
<1>4. fate' = "open"
  BY DEF ClaudeInv
<1> QED
  BY <1>1, <1>2, <1>3, <1>4 DEF ClaudeInv

LEMMA ClaudeEnds ==
  ASSUME ClaudeInv, stage # "over", NEW s \in Seq(Wired), VisibleOf(s),
         NEW result \in {"ok", "error", "body", "panic", "gone"}, Ends(result, s),
         query.stream => \A i \in DOMAIN wire' : Fits(wire', i),
         result = "ok" => ClaudeDelivers',
         serving.picks = 0 => s = <<>>
  PROVE  ClaudeInv'
<1>1. wire \in Seq(Wired) /\ VisibleOf(wire)
  BY DEF ClaudeInv, ClaudeTypeOK
<1>2. wire \o s \in Seq(Wired) /\ VisibleOf(wire \o s)
  BY <1>1, VisibleJoined
<1>3. wire' \in Seq(Wired) /\ VisibleOf(wire)'
  BY <1>2 DEF Ends, VisibleOf
<1>4. ClaudeTypeOK'
  BY <1>3 DEF Ends, ClaudeInv, ClaudeTypeOK
<1>5. serving.picks = 0 => wire' = <<>>
  BY DEF Ends, ClaudeInv
<1> QED
  BY <1>3, <1>4, <1>5 DEF Ends, ClaudeInv

LEMMA PickForClaudeKeeps == ASSUME ClaudeInv, PickForClaude PROVE ClaudeInv'
<1>1. /\ stage = "pick" /\ stage' = "asks" /\ UNCHANGED <<query, said, rest, heard, block, fate>>
      /\ serving' = [serving EXCEPT !.picks = @ + 1]
      /\ serving \in [picks : Nat, rounds : Nat] /\ wire \in Seq(Wired)
      /\ pulse \in {"off", "waits", "writes"}
  BY DEF PickForClaude, ClaudeInv, ClaudeTypeOK
<1>2. /\ serving' \in [picks : Nat, rounds : Nat] /\ serving'.rounds = serving.rounds
      /\ serving'.picks > 0
  BY <1>1
<1>3. CASE query.stream /\ serving.picks = 0
  <2> DEFINE x == Signal("message_start")
             y == Signal("ping")
  <2>1. x \in Wired /\ y \in Wired /\ x.kind = "message_start" /\ y.kind = "ping"
    BY EventFields, <1>1 DEF WireKinds
  <2>2. wire = <<>> /\ pulse' = "waits" /\ wire' = wire \o <<x, y>>
    BY <1>3 DEF ClaudeInv, PickForClaude, Provided
  <2>3. wire' = <<x, y>> /\ <<x, y>> \in Seq(Wired)
    BY <2>1, <2>2
  <2>4. Goes(wire', NoBlock)
    BY <1>1, <2>3, MessageBegins
  <2>5. \A i \in DOMAIN wire' : wire'[i].kind \notin Visible
    BY <2>1, <2>3 DEF Visible
  <2> QED
    BY <1>1, <1>2, <1>3, <2>2, <2>3, <2>4, <2>5, ClaudeWaits
<1>4. CASE ~(query.stream /\ serving.picks = 0)
  <2>1. wire' = wire /\ pulse' = pulse
    <3>1. wire' = wire \o <<>> /\ pulse' = pulse
      BY <1>4 DEF PickForClaude, Provided
    <3> QED
      BY <1>1, <3>1
  <2>2. \A i \in DOMAIN wire : wire[i].kind \notin Visible
    BY <1>1 DEF ClaudeInv
  <2>3. (wire # <<>> => query.stream) /\ (pulse # "off" => query.stream)
    BY <1>1 DEF ClaudeInv
  <2>4. query.stream => Goes(wire, NoBlock)
    <3>1. query.stream => serving.picks > 0
      BY <1>1, <1>4
    <3> QED
      BY <1>1, <3>1 DEF ClaudeInv
  <2> QED
    BY <1>1, <1>2, <2>1, <2>2, <2>3, <2>4, ClaudeWaits
<1> QED
  BY <1>3, <1>4

LEMMA FitsSoFar ==
  ASSUME ClaudeInv, query.stream
  PROVE  \A i \in DOMAIN wire : Fits(wire, i)
<1>1. serving.picks \in Nat /\ wire \in Seq(Wired)
  BY DEF ClaudeInv, ClaudeTypeOK
<1>2. CASE stage = "over"
  BY <1>2 DEF ClaudeInv
<1>3. CASE stage # "over" /\ serving.picks > 0
  BY <1>3 DEF ClaudeInv, Goes
<1>4. CASE serving.picks = 0
  <2>1. wire = <<>>
    BY <1>4 DEF ClaudeInv
  <2> QED
    BY <2>1
<1> QED
  BY <1>1, <1>2, <1>3, <1>4

LEMMA ClaudeEndsBare ==
  ASSUME ClaudeInv, stage # "over",
         NEW result \in {"body", "panic", "gone"}, Ends(result, <<>>)
  PROVE  ClaudeInv'
<1>1. <<>> \in Seq(Wired) /\ VisibleOf(<<>>) /\ wire \in Seq(Wired)
  BY DEF VisibleOf, ClaudeInv, ClaudeTypeOK
<1>2. wire' = wire
  BY <1>1 DEF Ends
<1>3. query.stream => \A i \in DOMAIN wire' : Fits(wire', i)
  BY <1>2, FitsSoFar
<1> QED
  BY <1>1, <1>3, ClaudeEnds

LEMMA PickFailsForClaudeKeeps == ASSUME ClaudeInv, PickFailsForClaude PROVE ClaudeInv'
<1>1. stage # "over" /\ (Ends("panic", <<>>) \/ Ends("body", <<>>))
  BY DEF PickFailsForClaude
<1> QED
  BY <1>1, ClaudeEndsBare

LEMMA ErrorIsTold ==
  ASSUME ClaudeInv, stage = "asks", query.stream, Ends("error", <<Signal("error")>>)
  PROVE  ClaudeInv'
<1> DEFINE x == Signal("error")
           t == Append(wire, x)
           n == Len(wire) + 1
<1>1. x \in Wired /\ x.kind = "error" /\ wire \in Seq(Wired) /\ serving.picks > 0
  <2>1. serving.rounds \in Nat /\ wire \in Seq(Wired) /\ serving.picks \in Nat /\ serving.picks # 0
    BY DEF ClaudeInv, ClaudeTypeOK
  <2> QED
    BY <2>1, EventFields DEF WireKinds
<1>2. Goes(wire, NoBlock)
  BY <1>1 DEF ClaudeInv
<1> HIDE DEF x
<1>3. wire' = t /\ <<x>> \in Seq(Wired)
  BY <1>1 DEF Ends, x
<1>4. /\ t[n] = x
      /\ Begun(t, n) = Amount(wire, OfKinds({"start"}))
      /\ Ended(t, n) = Amount(wire, OfKinds({"stop"}))
      /\ Running(t, n) <=> /\ Amount(wire, OfKinds({"message_start"})) > 0
                           /\ Amount(wire, OfKinds({"message_stop", "error"})) = 0
  BY <1>1, NextSees DEF Sees
<1>5. Amount(wire, OfKinds({"start"})) = 0 /\ Amount(wire, OfKinds({"stop"})) = 0
  <2>1. NoBlock.started = 0 /\ One(NoBlock.type # "none") = 0
    BY DEF NoBlock, One
  <2>2. Amount(wire, OfKinds({"stop"})) \in Nat
    BY <1>1, AmountType
  <2> QED
    BY <1>2, <2>1, <2>2 DEF Goes
<1>6. Fits(t, n)
  BY <1>1, <1>2, <1>4, <1>5 DEF Fits, Between, Goes
<1>7. \A i \in DOMAIN t : Fits(t, i)
  BY <1>1, <1>2, <1>6, FitsGrows DEF Goes
<1>8. VisibleOf(<<x>>)
  BY <1>1 DEF VisibleOf, Visible
<1>9. Ends("error", <<x>>) /\ \A i \in DOMAIN wire' : Fits(wire', i)
  BY <1>3, <1>7 DEF x
<1>10. "error" \in {"ok", "error", "body", "panic", "gone"} /\ "error" # "ok"
       /\ (serving.picks = 0 => <<x>> = <<>>) /\ stage # "over"
  BY <1>1
<1> HIDE DEF t
<1> QED
  BY <1>3, <1>8, <1>9, <1>10, ClaudeEnds

LEMMA ClaudeRoundFailsKeeps == ASSUME ClaudeInv, ClaudeRoundFails PROVE ClaudeInv'
<1>1. stage = "asks"
  BY DEF ClaudeRoundFails
<1>2. CASE stage' = "pick" /\ UNCHANGED <<query, serving, said, rest, heard, block, wire, fate, pulse>>
  BY <1>1, <1>2, ClaudeWaits DEF ClaudeInv, ClaudeTypeOK
<1>3. CASE query.stream /\ Ends("error", <<Signal("error")>>)
  BY <1>1, <1>3, ErrorIsTold
<1>4. CASE Ends("body", <<>>) \/ Ends("gone", <<>>)
  BY <1>1, <1>4, ClaudeEndsBare
<1> QED
  BY <1>2, <1>3, <1>4 DEF ClaudeRoundFails

LEMMA AskAnotherKeeps == ASSUME ClaudeInv, AskAnother PROVE ClaudeInv'
<1>1. /\ stage = "events" /\ stage' = "asks" /\ ~query.stream
      /\ serving \in [picks : Nat, rounds : Nat]
      /\ serving' = [serving EXCEPT !.picks = @ + 1]
      /\ UNCHANGED <<query, said, rest, heard, block, wire, fate, pulse>>
      /\ wire = <<>> /\ pulse = "off"
  BY DEF AskAnother, ClaudeInv, ClaudeTypeOK
<1>2. /\ serving' \in [picks : Nat, rounds : Nat] /\ serving'.rounds = serving.rounds
      /\ serving'.picks > 0
  BY <1>1
<1> QED
  BY <1>1, <1>2, ClaudeWaits

LEMMA ClaudeRoundKeeps == ASSUME ClaudeInv, ClaudeRound PROVE ClaudeInv'
<1>1. PICK a \in Sayings : said' = a /\ rest' = EventsOf(a)
  BY DEF ClaudeRound
<1>2. /\ stage = "asks" /\ stage' = "events" /\ heard' = NotHeard /\ block' = NoBlock
      /\ serving' = [serving EXCEPT !.rounds = @ + 1]
      /\ UNCHANGED <<query, wire, fate, pulse>>
      /\ serving \in [picks : Nat, rounds : Nat] /\ serving.picks # 0 /\ wire \in Seq(Wired)
      /\ fate = "open"
  BY DEF ClaudeRound, ClaudeInv, ClaudeTypeOK
<1>3. /\ rest' \in Seq(Said)
      /\ Coming("text")' = One(a.text # "none")
      /\ Coming("thought")' = One(a.thought)
      /\ Coming("known")' = Times(a.calls, "known")
      /\ Coming("foreign")' = Times(a.calls, "foreign")
      /\ a.thought => rest'[1] = "thought"
  BY <1>1, SaidCount DEF Coming
<1>4. KnownCalls' = Times(a.calls, "known") /\ KnownCalls' \in Nat
      /\ (KnownCalls' = Len(a.calls) => Coming("foreign")' = 0)
  <2>1. KnownCalls' = Times(a.calls, "known")
    BY <1>1 DEF KnownCalls, Times
  <2> QED
    BY <1>3, <2>1, SayingsTyped
<1>5. /\ serving' \in [picks : Nat, rounds : Nat] /\ serving'.picks = serving.picks
  BY <1>2
<1>6. NotHeard \in Notes /\ NoBlock \in States
  BY DEF NotHeard, Notes, NoBlock, States
<1>7. ClaudeTypeOK'
  BY <1>1, <1>2, <1>3, <1>5, <1>6 DEF ClaudeInv, ClaudeTypeOK, Notes
<1>8. \A i \in DOMAIN wire : wire[i].kind \notin Visible
  BY <1>2 DEF ClaudeInv
<1>9. VisibleOf(wire)'
  BY <1>2, <1>8 DEF VisibleOf
<1>10. NotedRight'
  <2>1. heard'.thought = FALSE /\ heard'.text = FALSE /\ heard'.called = FALSE /\ heard'.blocked = FALSE
    BY <1>2 DEF NotHeard
  <2>2. /\ Coming("known")' <= KnownCalls' /\ ~(Coming("known")' < KnownCalls')
        /\ KnownCalls' = Len(said'.calls) => Coming("foreign")' = 0
    BY <1>1, <1>3, <1>4
  <2>3. Coming("text")' + One(heard'.text) = One(said'.text # "none")
    BY <1>1, <1>3, <2>1 DEF One
  <2>4. Coming("thought")' <= One(said'.thought) /\ (Coming("thought")' > 0 => rest'[1] = "thought")
        /\ (said'.thought => Coming("thought")' # 0)
    BY <1>1, <1>3 DEF One
  <2> QED
    BY <1>2, <2>1, <2>2, <2>3, <2>4 DEF NotedRight
<1>11. SentRight'
  <2>1. \A t : Having(t)' = 0
    <3>1. TAKE t
    <3>2. {i \in Blocks : wire[i].type = t}' = {}
      BY <1>2, <1>8 DEF Blocks, Visible
    <3> QED
      BY <3>2, FS_EmptySet DEF Having
  <2>2. heard'.thought = FALSE /\ heard'.text = FALSE /\ heard'.called = FALSE /\ block'.started = 0
    BY <1>2 DEF NotHeard, NoBlock
  <2> QED
    BY <1>3, <1>4, <2>1, <2>2 DEF SentRight, One
<1>12. query.stream => Goes(wire, NoBlock)
  BY <1>2 DEF ClaudeInv
<1> QED
  BY <1>2, <1>5, <1>7, <1>9, <1>10, <1>11, <1>12 DEF ClaudeInv

(* The heartbeat.                                                            *)
LEMMA PulseTurns ==
  ASSUME ClaudeInv, pulse # "off", pulse' \in {"off", "waits", "writes"},
         UNCHANGED <<query, stage, serving, said, rest, heard, block, wire, fate>>
  PROVE  ClaudeInv'
<1>1. query.stream /\ serving.picks # 0
  BY DEF ClaudeInv
<1>2. ClaudeTypeOK'
  BY DEF ClaudeInv, ClaudeTypeOK
<1>3. UNCHANGED <<KnownCalls>> /\ \A t : Having(t)' = Having(t)
  BY DEF KnownCalls, Having, Blocks
<1>4. (NotedRight => NotedRight') /\ (SentRight => SentRight') /\ (ClaudeDelivers => ClaudeDelivers')
  BY <1>3 DEF NotedRight, SentRight, ClaudeDelivers, Coming, NeedThinking, Blocks, Noted
<1>5. (\A v : Coming(v)' = Coming(v)) /\ (VisibleOf(wire) => VisibleOf(wire)')
  BY DEF Coming, VisibleOf
<1> QED
  BY <1>1, <1>2, <1>4, <1>5 DEF ClaudeInv

LEMMA DeliversStill ==
  ASSUME ClaudeDelivers, UNCHANGED <<query, said, fate>>, Blocks' = Blocks,
         \A i \in Blocks : wire'[i] = wire[i], \A t : Having(t)' = Having(t),
         Noted("tool_use")' <=> Noted("tool_use")
  PROVE  ClaudeDelivers'
<1>1. UNCHANGED <<KnownCalls, NeedThinking>>
  BY DEF KnownCalls, NeedThinking
<1> QED
  BY <1>1 DEF ClaudeDelivers

LEMMA PulseWritesKeeps == ASSUME ClaudeInv, PulseWrites PROVE ClaudeInv'
<1> DEFINE x == Signal("ping")
<1>1. /\ pulse = "writes" /\ pulse' = "waits" /\ wire' = Append(wire, x)
      /\ UNCHANGED <<query, stage, serving, said, rest, heard, block, fate>>
      /\ wire \in Seq(Wired) /\ serving.rounds \in Nat /\ query.stream /\ serving.picks # 0
  BY DEF PulseWrites, ClaudeInv, ClaudeTypeOK
<1>2. x \in Wired /\ x.kind = "ping" /\ x.kind \notin Visible
  BY <1>1, EventFields DEF WireKinds, Visible
<1> HIDE DEF x
<1>3. /\ wire' \in Seq(Wired) /\ Len(wire) \in Nat
      /\ DOMAIN wire = 1..Len(wire) /\ DOMAIN wire' = 1..(Len(wire) + 1)
      /\ \A i \in DOMAIN wire : wire'[i] = wire[i]
      /\ wire'[Len(wire) + 1] = x
      /\ Blocks' = Blocks /\ \A i \in Blocks : wire'[i] = wire[i]
      /\ \A t : Having(t)' = Having(t)
      /\ \A k : Noted(k)' <=> Noted(k) \/ x.kind = k
      /\ VisibleOf(wire) /\ UNCHANGED serving => VisibleOf(wire)'
  BY <1>1, <1>2, SignalSilent
<1>4. ClaudeTypeOK'
  BY <1>1, <1>3 DEF ClaudeInv, ClaudeTypeOK
<1>5. \A b : Goes(wire, b) => Goes(wire', b)
  BY <1>1, PingGoes DEF x
<1>6. \A i \in DOMAIN wire' : Fits(wire', i)
  BY <1>1, FitsSoFar, PingFits DEF x
<1>7. KnownCalls' = KnownCalls /\ NeedThinking' = NeedThinking /\ \A v : Coming(v)' = Coming(v)
  BY <1>1 DEF KnownCalls, NeedThinking, Coming
<1>8. (NotedRight => NotedRight') /\ (SentRight => SentRight')
  BY <1>1, <1>3, <1>7 DEF NotedRight, SentRight
<1>9. fate = "ok" => ClaudeDelivers'
  BY <1>1, <1>2, <1>3, DeliversStill DEF ClaudeInv
<1>10. stage \in {"pick", "asks"} => \A i \in DOMAIN wire' : wire'[i].kind \notin Visible
  BY <1>2, <1>3 DEF ClaudeInv
<1> QED
  BY <1>1, <1>3, <1>4, <1>5, <1>6, <1>8, <1>9, <1>10 DEF ClaudeInv

LEMMA ConclusionIsGood ==
  ASSUME ClaudeInv, stage = "events", query.stream
  PROVE  /\ Good(wire, Conclusion) /\ Conclusion.block.type = "none"
         /\ Conclusion.block.started > 0
         /\ Typed(Conclusion, "thinking") = One(NeedThinking /\ ~heard.thought)
         /\ Typed(Conclusion, "tool_use") = 0 /\ Typed(Conclusion, "text") \in Nat
         /\ \/ query.mode = "json" \/ (query.mode = "numbered" /\ heard.text) \/ heard.blocked
            => Typed(Conclusion, "text") > 0
         /\ heard.called /\ ~heard.blocked /\ query.mode # "json" /\ ~heard.text
            => Typed(Conclusion, "text") = 0
<1> DEFINE s == Synthetic(Now)
           h == ShutBlock(s)
           wanted == \/ query.mode = "json"
                     \/ query.mode = "numbered" /\ heard.text
                     \/ h.block.started = 0
           h2 == IF wanted THEN Whole(h, "text") ELSE h
           c == IF heard.blocked THEN Whole(h2, "text") ELSE h2
<1>0. Conclusion = c
  BY DEF Conclusion
<1>1. /\ Good(wire, s)
      /\ \A t : Typed(s, t) = One(t = "thinking" /\ NeedThinking /\ ~heard.thought)
      /\ block.started > 0 => s.block.started > 0
      /\ s.block.started \in Nat
  BY SyntheticNow
<1>2. serving.rounds \in Nat /\ (heard.called => block.started > 0)
  BY DEF ClaudeInv, ClaudeTypeOK, SentRight
<1> HIDE DEF s
<1>3. /\ Good(wire, h) /\ h.block.type = "none" /\ h.block.started = s.block.started
      /\ \A t : Typed(h, t) = Typed(s, t)
  BY <1>1, <1>2, ShutIsGood
<1> HIDE DEF h
<1>4. /\ Typed(h, "thinking") = One(NeedThinking /\ ~heard.thought)
      /\ Typed(h, "tool_use") = 0 /\ Typed(h, "text") = 0
      /\ One(NeedThinking /\ ~heard.thought) \in Nat
      /\ h.block.started \in Nat /\ (heard.called => h.block.started > 0)
  BY <1>1, <1>2, <1>3 DEF One
<1>5. One("thinking" = "text") = 0 /\ One("tool_use" = "text") = 0 /\ One("text" = "text") = 1
  BY DEF One
<1>6. /\ Good(wire, h2) /\ h2.block.type = "none" /\ h2.block.started > 0
      /\ Typed(h2, "thinking") = Typed(h, "thinking") /\ Typed(h2, "tool_use") = 0
      /\ Typed(h2, "text") = One(wanted)
  <2>1. CASE wanted
    <3> HIDE DEF wanted
    <3>1. /\ Good(wire, Whole(h, "text")) /\ Whole(h, "text").block.type = "none"
          /\ Whole(h, "text").block.started > 0
          /\ \A u : /\ Typed(Whole(h, "text"), u) = Typed(h, u) + One(u = "text")
                    /\ Typed(h, u) \in Nat
      <4>1. Good(wire, h) /\ serving.rounds \in Nat
        BY <1>2, <1>3
      <4> QED
        BY <4>1, WholeIsGood, Zenon
    <3>2. h2 = Whole(h, "text") /\ One(wanted) = 1
      BY <2>1 DEF One
    <3> HIDE DEF h2
    <3>3. /\ Typed(h2, "thinking") = Typed(h, "thinking") + One("thinking" = "text")
          /\ Typed(h2, "tool_use") = Typed(h, "tool_use") + One("tool_use" = "text")
          /\ Typed(h2, "text") = Typed(h, "text") + One("text" = "text")
      BY <3>1, <3>2
    <3>4. Typed(h, "thinking") \in Nat
      BY <1>4
    <3> QED
      BY <1>4, <1>5, <3>1, <3>2, <3>3, <3>4
  <2>2. CASE ~wanted
    <3>1. h2 = h /\ One(wanted) = 0 /\ h.block.started # 0
      BY <2>2 DEF One
    <3> HIDE DEF wanted, h2
    <3> QED
      BY <1>3, <1>4, <3>1
  <2> QED
    BY <2>1, <2>2
<1> HIDE DEF h2
<1>7. /\ Good(wire, c) /\ c.block.type = "none" /\ c.block.started > 0
      /\ Typed(c, "thinking") = Typed(h, "thinking") /\ Typed(c, "tool_use") = 0
      /\ Typed(c, "text") = One(wanted) + One(heard.blocked)
  <2>1. CASE heard.blocked
    <3>1. /\ Good(wire, Whole(h2, "text")) /\ Whole(h2, "text").block.type = "none"
          /\ Whole(h2, "text").block.started > 0
          /\ \A u : Typed(Whole(h2, "text"), u) = Typed(h2, u) + One(u = "text")
      BY <1>2, <1>6, WholeIsGood
    <3>2. c = Whole(h2, "text") /\ One(heard.blocked) = 1
      BY <2>1 DEF One
    <3> HIDE DEF wanted, c
    <3>3. /\ Typed(c, "thinking") = Typed(h2, "thinking") + One("thinking" = "text")
          /\ Typed(c, "tool_use") = Typed(h2, "tool_use") + One("tool_use" = "text")
          /\ Typed(c, "text") = Typed(h2, "text") + One("text" = "text")
      BY <3>1, <3>2
    <3>4. Typed(h, "thinking") \in Nat
      BY <1>4
    <3> QED
      BY <1>4, <1>5, <1>6, <3>1, <3>2, <3>3, <3>4
  <2>2. CASE ~heard.blocked
    <3>1. c = h2 /\ One(heard.blocked) = 0
      BY <2>2 DEF One
    <3>2. One(wanted) \in Nat
      BY DEF One
    <3> HIDE DEF wanted, c
    <3> QED
      BY <1>6, <3>1, <3>2
  <2> QED
    BY <2>1, <2>2
<1> HIDE DEF c
<1>8. One(wanted) \in Nat /\ One(heard.blocked) \in Nat
  BY DEF One
<1>9. query.mode = "json" \/ (query.mode = "numbered" /\ heard.text) \/ heard.blocked
        => One(wanted) + One(heard.blocked) > 0
  BY DEF One
<1>10. heard.called /\ ~heard.blocked /\ query.mode # "json" /\ ~heard.text
        => One(wanted) + One(heard.blocked) = 0
  BY <1>4 DEF One
<1> HIDE DEF wanted
<1> QED
  BY <1>0, <1>4, <1>7, <1>8, <1>9, <1>10

LEMMA ThinkingFirst ==
  ASSUME NEW s, NEW b, Goes(s, b)
  PROVE  /\ \A i \in DOMAIN s : s[i].kind # "block"
         /\ \A i, j \in DOMAIN s : s[i].kind = "start" /\ s[j].kind = "start"
                                     /\ s[i].type = "thinking" => i <= j
<1>1. /\ s \in Seq(Wired) /\ \A i \in DOMAIN s : Fits(s, i)
      /\ \A j \in DOMAIN s : s[j].kind = "start" /\ s[j].type = "thinking" => s[j].index = 0
  BY DEF Goes
<1>2. DOMAIN s = 1..Len(s) /\ Len(s) \in Nat
  BY <1>1
<1>3. \A i \in DOMAIN s : s[i].kind # "block"
  BY <1>1 DEF Fits
<1>4. ASSUME NEW i \in DOMAIN s, NEW j \in DOMAIN s, s[i].kind = "start", s[j].kind = "start",
             s[i].type = "thinking", ~(i <= j)
      PROVE  FALSE
  <2>1. s[i].index = 0 /\ s[i].index = Begun(s, i)
    BY <1>1, <1>4 DEF Fits
  <2>2. i \in Nat /\ j \in 1..(i - 1) /\ i - 1 \in Nat
    BY <1>2, <1>4
  <2>3. Earlier(s, i, {"start"}) \in SUBSET (1..(i - 1))
    BY DEF Earlier
  <2>4. Earlier(s, i, {"start"}) = {}
    BY <2>1, <2>2, <2>3, SetsOfPlaces DEF Begun
  <2>5. j \in Earlier(s, i, {"start"})
    BY <1>4, <2>2 DEF Earlier
  <2> QED
    BY <2>4, <2>5
<1> QED
  BY <1>3, <1>4

LEMMA MessageEnds ==
  ASSUME NEW s, NEW b, Goes(s, b), b.type = "none", NEW x \in Wired, NEW z \in Wired,
         x.kind \in {"end_turn", "tool_use"}, z.kind = "message_stop"
  PROVE  \A i \in DOMAIN Append(Append(s, x), z) : Fits(Append(Append(s, x), z), i)
<1> DEFINE t == Append(s, x)
           n == Len(s) + 1
           u == Append(t, z)
           m == Len(t) + 1
<1>1. s \in Seq(Wired) /\ t \in Seq(Wired) /\ b \in States
  BY DEF Goes
<1>2. /\ t[n] = x
      /\ Begun(t, n) = Amount(s, OfKinds({"start"}))
      /\ Ended(t, n) = Amount(s, OfKinds({"stop"}))
      /\ Running(t, n) <=> /\ Amount(s, OfKinds({"message_start"})) > 0
                           /\ Amount(s, OfKinds({"message_stop", "error"})) = 0
      /\ Reasoned(t, n) <=> Amount(s, OfKinds({"end_turn", "tool_use"})) # 0
  BY <1>1, NextSees DEF Sees
<1>3. Amount(s, OfKinds({"start"})) = Amount(s, OfKinds({"stop"}))
  <2>1. Amount(s, OfKinds({"stop"})) \in Nat /\ One(b.type # "none") = 0
    BY <1>1, AmountType DEF One
  <2> QED
    BY <2>1 DEF Goes
<1>4. \A K : /\ Amount(t, OfKinds(K)) = Amount(s, OfKinds(K)) + One(x.kind \in K)
             /\ Amount(s, OfKinds(K)) \in Nat
  BY <1>1, KindsCount
<1> HIDE DEF t, n
<1>5. Fits(t, n)
  BY <1>2, <1>3 DEF Fits, Between, Goes
<1>6. \A i \in DOMAIN t : Fits(t, i)
  <2>1. \A i \in DOMAIN s : Fits(s, i)
    BY DEF Goes
  <2> QED
    BY <1>1, <1>5, <2>1, FitsGrows DEF t, n
<1>7. /\ u[m] = z
      /\ Running(u, m) <=> /\ Amount(t, OfKinds({"message_start"})) > 0
                           /\ Amount(t, OfKinds({"message_stop", "error"})) = 0
      /\ Reasoned(u, m) <=> Amount(t, OfKinds({"end_turn", "tool_use"})) # 0
  BY <1>1, NextSees DEF Sees
<1>8. /\ Amount(t, OfKinds({"message_start"})) > 0
      /\ Amount(t, OfKinds({"message_stop", "error"})) = 0
      /\ Amount(t, OfKinds({"end_turn", "tool_use"})) # 0
  <2>1. /\ One(x.kind \in {"message_start"}) = 0 /\ One(x.kind \in {"message_stop", "error"}) = 0
        /\ One(x.kind \in {"end_turn", "tool_use"}) = 1
    BY DEF One
  <2> QED
    BY <1>4, <2>1 DEF Goes
<1>9. Fits(u, m)
  BY <1>7, <1>8 DEF Fits
<1>10. \A i \in DOMAIN u : Fits(u, i)
  BY <1>1, <1>6, <1>9, FitsGrows
<1> QED
  BY <1>10 DEF u, t

(* What a client makes of s does not change by its stop reason and its end.  *)
LEMMA TwoMore ==
  ASSUME NEW s \in Seq(Wired), NEW x \in Wired, NEW z \in Wired,
         x.kind \notin Visible, z.kind \notin Visible
  PROVE  /\ Append(Append(s, x), z) \in Seq(Wired)
         /\ DOMAIN Append(Append(s, x), z) = DOMAIN s \cup {Len(s) + 1, Len(s) + 2}
         /\ \A i \in DOMAIN s : Append(Append(s, x), z)[i] = s[i]
         /\ Append(Append(s, x), z)[Len(s) + 1] = x
         /\ Append(Append(s, x), z)[Len(s) + 2] = z
         /\ \A t : Amount(Append(Append(s, x), z), OfType(t)) = Amount(s, OfType(t))
<1> DEFINE a == Append(s, x)
           b == Append(a, z)
<1>1. /\ a \in Seq(Wired) /\ b \in Seq(Wired) /\ Len(a) = Len(s) + 1 /\ Len(s) \in Nat
      /\ DOMAIN s = 1..Len(s) /\ DOMAIN a = 1..(Len(s) + 1) /\ DOMAIN b = 1..(Len(s) + 2)
      /\ \A i \in 1..Len(s) : a[i] = s[i]
      /\ \A i \in 1..(Len(s) + 1) : b[i] = a[i]
      /\ a[Len(s) + 1] = x /\ b[Len(s) + 2] = z
  OBVIOUS
<1> HIDE DEF a
<1>2. \A t : x \notin OfType(t) /\ z \notin OfType(t)
  BY DEF OfType, Visible
<1>3. \A t : One(x \in OfType(t)) = 0 /\ One(z \in OfType(t)) = 0
  BY <1>2 DEF One
<1>4. \A V : /\ Amount(Append(s, x), V) = Amount(s, V) + One(x \in V)
             /\ Amount(s, V) \in Nat
  BY AmountAppended
<1>5. \A V : Amount(Append(a, z), V) = Amount(a, V) + One(z \in V)
  BY <1>1, AmountAppended
<1>6. \A t : Amount(b, OfType(t)) = Amount(s, OfType(t))
  <2>1. TAKE t
  <2>2. Amount(a, OfType(t)) = Amount(s, OfType(t)) + 0 /\ Amount(s, OfType(t)) \in Nat
    BY <1>3, <1>4 DEF a
  <2>3. Amount(b, OfType(t)) = Amount(a, OfType(t)) + 0
    BY <1>3, <1>5
  <2> QED
    BY <2>2, <2>3
<1> HIDE DEF b
<1>7. DOMAIN b = DOMAIN s \cup {Len(s) + 1, Len(s) + 2}
  BY <1>1
<1>8. (\A i \in DOMAIN s : b[i] = s[i]) /\ b[Len(s) + 1] = x /\ b[Len(s) + 2] = z
  BY <1>1
<1> QED
  BY <1>1, <1>6, <1>7, <1>8 DEF a, b

LEMMA ConcludeStream ==
  ASSUME ClaudeInv, Conclude, query.stream
  PROVE  ClaudeInv' /\ Lengthens /\ DOMAIN ShownByClaude' # {}
<1> DEFINE x == Signal(StopReason)
           z == Signal("message_stop")
           c == Conclusion
           s == wire \o c.events
           t == Append(Append(s, x), z)
<1>1. /\ stage = "events" /\ rest = <<>> /\ Ends("ok", c.events \o <<x, z>>)
      /\ wire \in Seq(Wired) /\ serving.rounds \in Nat /\ serving.picks # 0
      /\ said \in Sayings /\ heard \in Notes /\ NotedRight /\ SentRight /\ ClaudeTypeOK
      /\ query.mode \in {"plain", "json", "numbered"}
  BY DEF Conclude, ClaudeInv, ClaudeTypeOK, Notes, Queries
<1>2. /\ Good(wire, c) /\ c.block.type = "none" /\ c.block.started > 0
      /\ Typed(c, "thinking") = One(NeedThinking /\ ~heard.thought)
      /\ Typed(c, "tool_use") = 0 /\ Typed(c, "text") \in Nat
      /\ query.mode = "json" \/ (query.mode = "numbered" /\ heard.text) \/ heard.blocked
         => Typed(c, "text") > 0
      /\ heard.called /\ ~heard.blocked /\ query.mode # "json" /\ ~heard.text
         => Typed(c, "text") = 0
  BY <1>1, ConclusionIsGood
<1>3. /\ x \in Wired /\ z \in Wired /\ x.kind = StopReason /\ z.kind = "message_stop"
      /\ StopReason \in {"end_turn", "tool_use"} /\ (StopReason = "tool_use" <=> heard.called)
      /\ x.kind \notin Visible /\ z.kind \notin Visible
  BY <1>1, EventFields DEF WireKinds, StopReason, Visible
<1> HIDE DEF x, z, c
<1>4. /\ c.events \in Seq(Wired) /\ Goes(s, c.block) /\ VisibleOf(c.events)
      /\ s \in Seq(Wired)
  BY <1>1, <1>2 DEF Good, Emissions, Goes
<1> DEFINE f == c.events \o <<x, z>>
<1>5. f \in Seq(Wired) /\ VisibleOf(f)
  <2>1. <<x, z>> \in Seq(Wired) /\ VisibleOf(<<x, z>>)
    BY <1>3 DEF VisibleOf
  <2>2. f \in Seq(Wired)
    BY <1>4, <2>1
  <2> QED
    BY <1>4, <2>1, <2>2, VisibleJoined
<1>6. wire' = t
  <2>1. wire \o (c.events \o <<x, z>>) = s \o <<x, z>>
    <3> DEFINE p == <<x, z>>
    <3>1. p \in Seq(Wired)
      BY <1>3
    <3> DEFINE q == c.events
    <3>2. q \in Seq(Wired) /\ wire \in Seq(Wired)
      BY <1>1, <1>4
    <3> HIDE DEF p, q
    <3>3. wire \o (q \o p) = (wire \o q) \o p
      BY <3>1, <3>2, ConcatAssociative
    <3> QED
      BY <3>3 DEF p, q, s
  <2>2. s \o <<x, z>> = t
    BY <1>3, <1>4, TwoAppended
  <2> QED
    BY <1>1, <2>1, <2>2 DEF Ends
<1> HIDE DEF s
<1>7. /\ t \in Seq(Wired)
      /\ DOMAIN t = DOMAIN s \cup {Len(s) + 1, Len(s) + 2}
      /\ \A i \in DOMAIN s : t[i] = s[i]
      /\ t[Len(s) + 1] = x /\ t[Len(s) + 2] = z
      /\ \A u : Amount(t, OfType(u)) = Amount(s, OfType(u))
  BY <1>3, <1>4, TwoMore
<1>8. \A i \in DOMAIN t : Fits(t, i)
  BY <1>2, <1>3, <1>4, MessageEnds
<1> HIDE DEF t, f
<1>9. \A u : Having(u)' = Having(u) + Typed(c, u) /\ Having(u) \in Nat
  <2>1. \A u : Having(u) = Amount(wire, OfType(u)) /\ Having(u) \in Nat
    BY <1>1, HavingIs
  <2>2. \A u : Having(u)' = Amount(wire', OfType(u))
    <3>1. TAKE u
    <3>2. wire' \in Seq(Wired)
      BY <1>6, <1>7
    <3>3. {i \in Blocks : wire[i].type = u}' = {i \in DOMAIN wire' : wire'[i] \in OfType(u)}
      BY <3>2 DEF Blocks, OfType
    <3> QED
      BY <3>3 DEF Having, Amount
  <2>3. \A u : Amount(s, OfType(u)) = Amount(wire, OfType(u)) + Amount(c.events, OfType(u))
    BY <1>1, <1>4, AmountJoined DEF s
  <2> QED
    BY <1>6, <1>7, <2>1, <2>2, <2>3 DEF Typed
<1>10. /\ Coming("known") = 0 /\ Coming("text") = 0 /\ Coming("thought") = 0
       /\ KnownCalls \in Nat /\ UNCHANGED KnownCalls
  <2>1. \A v : Amount(<<>>, {v}) = 0
    BY AmountOfFew
  <2> QED
    BY <1>1, <2>1, TimesIs, KnownCallsType DEF Coming, Ends, KnownCalls
<1>11. /\ UNCHANGED <<query, said>> /\ (NeedThinking' <=> NeedThinking)
  BY <1>1 DEF Ends, NeedThinking
<1>12. Having("thinking")'
         = (IF query.mode = "plain" /\ (said.thought \/ NeedThinking) THEN 1 ELSE 0)
  <2>1. Having("thinking")' = One(heard.thought) + One(NeedThinking /\ ~heard.thought)
    BY <1>1, <1>2, <1>9 DEF SentRight
  <2>2. heard.thought \/ NeedThinking <=> query.mode = "plain" /\ (said.thought \/ NeedThinking)
    BY <1>1, <1>10 DEF NotedRight, NeedThinking
  <2>3. heard.thought \in BOOLEAN
    BY <1>1 DEF Notes
  <2>4. One(heard.thought) + One(NeedThinking /\ ~heard.thought)
          = IF heard.thought \/ NeedThinking THEN 1 ELSE 0
    BY <2>3 DEF One
  <2> QED
    BY <2>1, <2>2, <2>4
<1>13. Having("tool_use")' = KnownCalls
  <2>1. Having("tool_use")' = Having("tool_use") + 0 /\ Having("tool_use") + 0 = KnownCalls
    BY <1>1, <1>2, <1>9, <1>10 DEF SentRight
  <2> QED
    BY <2>1
<1>14. Having("text")' = Having("text") + Typed(c, "text") /\ Having("text") \in Nat
  BY <1>9
<1>15. (heard.text <=> said.text # "none") /\ (heard.called <=> KnownCalls > 0)
  <2>1. 0 + One(heard.text) = One(said.text # "none")
    BY <1>1, <1>10 DEF NotedRight
  <2>2. heard.text <=> said.text # "none"
    BY <2>1 DEF One
  <2> QED
    BY <1>1, <1>10, <2>2 DEF NotedRight
<1>16. said.text # "none" => Having("text")' > 0
  <2>1. CASE query.mode = "plain"
    BY <1>1, <1>2, <1>14, <1>15, <2>1 DEF SentRight
  <2>2. CASE query.mode # "plain"
    BY <1>1, <1>2, <1>14, <1>15, <2>2
  <2> QED
    BY <2>1, <2>2
<1>17. said.text = "none" /\ KnownCalls = Len(said.calls) /\ KnownCalls > 0 /\ query.mode # "json"
         => Having("text")' = 0
  <2> SUFFICES ASSUME said.text = "none", KnownCalls = Len(said.calls), KnownCalls > 0,
                      query.mode # "json"
               PROVE  Having("text")' = 0
    OBVIOUS
  <2>1. ~heard.text /\ heard.called /\ ~heard.blocked
    BY <1>1, <1>15 DEF NotedRight
  <2>2. ~(Having("text") > 0)
    BY <1>1, <2>1 DEF SentRight
  <2> QED
    BY <1>2, <1>14, <2>1, <2>2
<1>18. Noted("tool_use")' <=> KnownCalls > 0
  <2>1. \A i \in DOMAIN s : s[i].kind # "tool_use"
    <3>1. Amount(s, OfKinds({"end_turn", "tool_use"})) = 0
      BY <1>4 DEF Goes
    <3>2. \A i \in DOMAIN s : s[i] \notin OfKinds({"end_turn", "tool_use"})
      BY <1>4, <3>1, AmountType
    <3>3. \A i \in DOMAIN s : s[i] \in Wired
      BY <1>4
    <3> QED
      BY <3>2, <3>3 DEF OfKinds
  <2> QED
    BY <1>3, <1>6, <1>7, <1>15, <2>1 DEF Noted
<1>19. \A i, j \in Blocks' : wire'[i].type = "thinking" => i <= j
  <2>1. /\ \A i \in DOMAIN s : s[i].kind # "block"
        /\ \A i, j \in DOMAIN s : s[i].kind = "start" /\ s[j].kind = "start"
                                    /\ s[i].type = "thinking" => i <= j
    BY <1>4, ThinkingFirst
  <2>2. \A i \in Blocks' : i \in DOMAIN s /\ s[i].kind = "start" /\ wire'[i] = s[i]
    BY <1>3, <1>6, <1>7, <2>1 DEF Blocks, Visible
  <2> QED
    BY <2>1, <2>2
<1>20. ClaudeDelivers'
  BY <1>11, <1>10, <1>12, <1>13, <1>16, <1>17, <1>18, <1>19 DEF ClaudeDelivers
<1>21. Ends("ok", f)
  BY <1>1 DEF f
<1>22. \A i \in DOMAIN wire' : Fits(wire', i)
  BY <1>6, <1>8
<1>23. ClaudeInv'
  BY <1>1, <1>5, <1>20, <1>21, <1>22, ClaudeEnds
<1>24. Lengthens
  BY <1>5, <1>21 DEF Lengthens, Ends
<1>25. DOMAIN ShownByClaude' # {}
  <2>1. Amount(s, OfKinds({"start"})) # 0
    BY <1>2, <1>4 DEF Goes
  <2>2. PICK i \in DOMAIN s : s[i] \in OfKinds({"start"})
    BY <1>4, <2>1, AmountType
  <2>3. i \in DOMAIN wire' /\ wire'[i].kind = "start"
    BY <1>6, <1>7, <2>2 DEF OfKinds
  <2> QED
    BY <2>3 DEF ShownByClaude
<1> QED
  BY <1>23, <1>24, <1>25

LEMMA ManyOf ==
  ASSUME NEW n \in Nat, NEW x, NEW V
  PROVE  Amount([i \in 1..n |-> x], V) = IF x \in V THEN n ELSE 0
<1> DEFINE s == [i \in 1..n |-> x]
<1>1. DOMAIN s = 1..n /\ \A i \in 1..n : s[i] = x
  OBVIOUS
<1> HIDE DEF s
<1>2. CASE x \in V
  <2>1. {i \in DOMAIN s : s[i] \in V} = 1..n
    BY <1>1, <1>2
  <2>2. Cardinality(1..n) = n
    <3>1. Cardinality(1..n) = IF 1 > n THEN 0 ELSE n - 1 + 1
      BY FS_Interval
    <3> QED
      BY <3>1
  <2> QED
    BY <1>2, <2>1, <2>2 DEF Amount, s
<1>3. CASE x \notin V
  <2>1. {i \in DOMAIN s : s[i] \in V} = {}
    BY <1>1, <1>3
  <2> QED
    BY <1>3, <2>1, FS_EmptySet DEF Amount, s
<1> QED
  BY <1>2, <1>3

LEMMA ProvidedCounts ==
  ASSUME NEW c \in BOOLEAN, NEW x \in BlockTypes
  PROVE  /\ Provided(c, <<x>>) \in Seq(BlockTypes) /\ Len(Provided(c, <<x>>)) <= 1
         /\ \A V : Amount(Provided(c, <<x>>), V) = IF c THEN One(x \in V) ELSE 0
<1>1. \A V : Amount(<<x>>, V) = One(x \in V)
  <2>1. \A V : Amount(<<x>>, V) = IF x \in V THEN 1 ELSE 0
    BY AmountOfFew
  <2> QED
    BY <2>1 DEF One
<1>2. \A V : Amount(<<>>, V) = 0
  BY AmountOfFew
<1>3. CASE c
  BY <1>1, <1>3 DEF Provided
<1>4. CASE ~c
  BY <1>2, <1>4 DEF Provided
<1> QED
  BY <1>3, <1>4

LEMMA OnlyFirst ==
  ASSUME NEW W, NEW s \in Seq(W), NEW t \in Seq(W), NEW v, Len(s) <= 1,
         \A j \in DOMAIN t : t[j] # v
  PROVE  \A i \in DOMAIN (s \o t) : (s \o t)[i] = v => i = 1
<1>1. /\ Len(s) \in Nat /\ Len(t) \in Nat
      /\ DOMAIN (s \o t) = 1..(Len(s) + Len(t))
      /\ DOMAIN s = 1..Len(s) /\ DOMAIN t = 1..Len(t)
      /\ \A j \in 1..Len(t) : (s \o t)[Len(s) + j] = t[j]
      /\ \A i \in 1..(Len(s) + Len(t)) :
           i \in 1..Len(s) \/ \E j \in 1..Len(t) : i = Len(s) + j
  BY PlacesOfJoined
<1>2. ASSUME NEW i \in DOMAIN (s \o t), (s \o t)[i] = v
      PROVE  i = 1
  <2>1. CASE i \in 1..Len(s)
    BY <1>1, <2>1
  <2>2. CASE \E j \in 1..Len(t) : i = Len(s) + j
    <3>1. PICK j \in 1..Len(t) : i = Len(s) + j
      BY <2>2
    <3>2. (s \o t)[i] = t[j] /\ j \in DOMAIN t
      BY <1>1, <3>1
    <3> QED
      BY <1>2, <3>2
  <2> QED
    BY <1>1, <2>1, <2>2
<1> QED
  BY <1>2

(* The content blocks of a message that is not streamed.                     *)
MessageBlocks ==
  LET thinking == query.mode = "plain" /\ (said.thought \/ NeedThinking)
      text     == said.text # "none" \/ heard.blocked \/ query.mode = "json"
      types    == Provided(thinking, <<"thinking">>) \o Provided(text, <<"text">>)
                    \o [i \in 1..KnownCalls |-> "tool_use"]
  IN IF types = <<>> THEN <<"text">> ELSE types

LEMMA BlocksOfMessage ==
  ASSUME ClaudeTypeOK
  PROVE  /\ MessageBlocks \in Seq(BlockTypes) /\ MessageBlocks # <<>>
         /\ Amount(MessageBlocks, {"thinking"})
              = (IF query.mode = "plain" /\ (said.thought \/ NeedThinking) THEN 1 ELSE 0)
         /\ Amount(MessageBlocks, {"tool_use"}) = KnownCalls
         /\ said.text # "none" => Amount(MessageBlocks, {"text"}) > 0
         /\ said.text = "none" /\ ~heard.blocked /\ KnownCalls > 0 /\ query.mode # "json"
              => Amount(MessageBlocks, {"text"}) = 0
         /\ \A i \in DOMAIN MessageBlocks : MessageBlocks[i] = "thinking" => i = 1
<1> DEFINE thinking == query.mode = "plain" /\ (said.thought \/ NeedThinking)
           text == said.text # "none" \/ heard.blocked \/ query.mode = "json"
           T == Provided(thinking, <<"thinking">>)
           X == Provided(text, <<"text">>)
           C == [i \in 1..KnownCalls |-> "tool_use"]
           types == T \o X \o C
           blocks == IF types = <<>> THEN <<"text">> ELSE types
<1>0. MessageBlocks = blocks
  BY DEF MessageBlocks
<1>1. "thinking" \in BlockTypes /\ "text" \in BlockTypes /\ "tool_use" \in BlockTypes
      /\ thinking \in BOOLEAN /\ text \in BOOLEAN /\ KnownCalls \in Nat
  BY KnownCallsType DEF BlockTypes
<1>2. /\ T \in Seq(BlockTypes) /\ Len(T) <= 1
      /\ \A V : Amount(T, V) = IF thinking THEN One("thinking" \in V) ELSE 0
  BY <1>1, ProvidedCounts
<1>3. /\ X \in Seq(BlockTypes)
      /\ \A V : Amount(X, V) = IF text THEN One("text" \in V) ELSE 0
  BY <1>1, ProvidedCounts
<1>4. C \in Seq(BlockTypes) /\ \A V : Amount(C, V) = IF "tool_use" \in V THEN KnownCalls ELSE 0
  <2>1. C \in [1..KnownCalls -> BlockTypes]
    BY <1>1
  <2>2. C \in Seq(BlockTypes)
    BY <1>1, <2>1
  <2>3. \A V : Amount(C, V) = IF "tool_use" \in V THEN KnownCalls ELSE 0
    BY <1>1, ManyOf
  <2> QED
    BY <2>2, <2>3
<1>5. /\ Amount(T, {"thinking"}) = IF thinking THEN 1 ELSE 0
      /\ Amount(T, {"text"}) = 0 /\ Amount(T, {"tool_use"}) = 0
  BY <1>2 DEF One
<1>6. /\ Amount(X, {"thinking"}) = 0 /\ Amount(X, {"tool_use"}) = 0
      /\ Amount(X, {"text"}) = IF text THEN 1 ELSE 0
  BY <1>3 DEF One
<1>7. /\ Amount(C, {"thinking"}) = 0 /\ Amount(C, {"text"}) = 0
      /\ Amount(C, {"tool_use"}) = KnownCalls
  BY <1>4
<1> HIDE DEF T, X, C
<1>8. /\ X \o C \in Seq(BlockTypes) /\ types \in Seq(BlockTypes) /\ types = T \o (X \o C)
      /\ T \o X \in Seq(BlockTypes)
  <2>1. X \o C \in Seq(BlockTypes) /\ T \o X \in Seq(BlockTypes)
    BY <1>2, <1>3, <1>4
  <2>2. (T \o X) \o C \in Seq(BlockTypes)
    BY <1>4, <2>1
  <2>3. (T \o X) \o C = T \o (X \o C)
    <3>1. T \in Seq(BlockTypes) /\ X \in Seq(BlockTypes) /\ C \in Seq(BlockTypes)
      BY <1>2, <1>3, <1>4
    <3> QED
      BY <3>1, ConcatAssociative
  <2> QED
    BY <2>1, <2>2, <2>3
<1>9. \A V : Amount(types, V) = Amount(T, V) + Amount(X \o C, V)
             /\ Amount(X \o C, V) = Amount(X, V) + Amount(C, V)
  <2>1. \A V : Amount(X \o C, V) = Amount(X, V) + Amount(C, V)
    <3>1. X \in Seq(BlockTypes) /\ C \in Seq(BlockTypes)
      BY <1>3, <1>4
    <3> QED
      BY <3>1, AmountJoined
  <2>2. \A V : Amount(T \o (X \o C), V) = Amount(T, V) + Amount(X \o C, V)
    <3> DEFINE Y == X \o C
    <3>1. T \in Seq(BlockTypes) /\ Y \in Seq(BlockTypes)
      BY <1>2, <1>8
    <3> HIDE DEF Y
    <3>2. \A V : Amount(T \o Y, V) = Amount(T, V) + Amount(Y, V)
      BY <3>1, AmountJoined
    <3> QED
      BY <3>2 DEF Y
  <2>3. types = T \o (X \o C)
    BY <1>8
  <2> HIDE DEF types
  <2> QED
    BY <2>1, <2>2, <2>3
<1>10. \A i \in DOMAIN types : types[i] = "thinking" => i = 1
  <2>1. Amount(X \o C, {"thinking"}) = 0
    BY <1>6, <1>7, <1>9
  <2>2. \A j \in DOMAIN (X \o C) : (X \o C)[j] # "thinking"
    <3>1. \A j \in DOMAIN (X \o C) : (X \o C)[j] \notin {"thinking"}
      BY <1>8, <2>1, AmountType
    <3> QED
      BY <3>1
  <2> QED
    BY <1>2, <1>8, <2>2, OnlyFirst
<1>11. /\ Amount(types, {"thinking"}) = IF thinking THEN 1 ELSE 0
       /\ Amount(types, {"text"}) = IF text THEN 1 ELSE 0
       /\ Amount(types, {"tool_use"}) = KnownCalls
  <2>1. /\ Amount(types, {"thinking"}) = Amount(T, {"thinking"}) + (Amount(X, {"thinking"}) + Amount(C, {"thinking"}))
        /\ Amount(types, {"text"}) = Amount(T, {"text"}) + (Amount(X, {"text"}) + Amount(C, {"text"}))
        /\ Amount(types, {"tool_use"}) = Amount(T, {"tool_use"}) + (Amount(X, {"tool_use"}) + Amount(C, {"tool_use"}))
    BY <1>9
  <2> HIDE DEF types, thinking, text
  <2> QED
    BY <1>1, <1>5, <1>6, <1>7, <2>1
<1>12. CASE types = <<>>
  <2>1. blocks = <<"text">> /\ blocks \in Seq(BlockTypes)
    BY <1>1, <1>12
  <2>2. \A V : Amount(<<>>, V) = 0 /\ Amount(<<"text">>, V) = IF "text" \in V THEN 1 ELSE 0
    BY AmountOfFew
  <2>3. /\ Amount(blocks, {"thinking"}) = 0 /\ Amount(blocks, {"text"}) = 1
        /\ Amount(blocks, {"tool_use"}) = 0
    BY <2>1, <2>2
  <2>4. ~thinking /\ ~text /\ KnownCalls = 0
    BY <1>11, <1>12, <2>2
  <2>5. \A i \in DOMAIN blocks : blocks[i] # "thinking"
    <3>1. \A i \in DOMAIN <<"text">> : <<"text">>[i] # "thinking"
      OBVIOUS
    <3> HIDE DEF types, blocks
    <3> QED
      BY <2>1, <3>1
  <2> HIDE DEF types, blocks
  <2> QED
    BY <1>0, <2>1, <2>3, <2>4, <2>5
<1>13. CASE types # <<>>
  <2>1. blocks = types
    BY <1>13
  <2> HIDE DEF types, blocks
  <2> QED
    BY <1>0, <1>8, <1>10, <1>11, <1>13, <2>1
<1> QED
  BY <1>12, <1>13

LEMMA ConcludeMessage ==
  ASSUME ClaudeInv, Conclude, ~query.stream
  PROVE  ClaudeInv' /\ Lengthens /\ DOMAIN ShownByClaude' # {}
<1> DEFINE x == Signal(StopReason)
           b == MessageBlocks
           M == [i \in DOMAIN b |-> Event("block", i - 1, b[i])]
<1>1. /\ stage = "events" /\ rest = <<>> /\ Ends("ok", Message) /\ wire = <<>>
      /\ serving.rounds \in Nat /\ NotedRight /\ ClaudeTypeOK
      /\ serving.picks # 0
  BY DEF Conclude, ClaudeInv, ClaudeTypeOK
<1>2. Message = M \o <<x>>
  BY DEF Message, MessageBlocks
<1>3. /\ b \in Seq(BlockTypes) /\ b # <<>>
      /\ Amount(b, {"thinking"})
           = (IF query.mode = "plain" /\ (said.thought \/ NeedThinking) THEN 1 ELSE 0)
      /\ Amount(b, {"tool_use"}) = KnownCalls
      /\ said.text # "none" => Amount(b, {"text"}) > 0
      /\ said.text = "none" /\ ~heard.blocked /\ KnownCalls > 0 /\ query.mode # "json"
           => Amount(b, {"text"}) = 0
      /\ \A i \in DOMAIN b : b[i] = "thinking" => i = 1
  BY <1>1, BlocksOfMessage
<1>4. /\ x \in Wired /\ x.kind = StopReason
      /\ StopReason \in {"end_turn", "tool_use"} /\ (StopReason = "tool_use" <=> heard.called)
  BY <1>1, EventFields DEF WireKinds, StopReason
<1> HIDE DEF x, b
<1>5. /\ M \in Seq(Wired) /\ DOMAIN M = DOMAIN b /\ Len(M) = Len(b)
      /\ \A i \in DOMAIN b : /\ M[i].kind = "block" /\ M[i].type = b[i]
                             /\ M[i].round = serving.rounds
  <2>1. DOMAIN b = 1..Len(b) /\ Len(b) \in Nat /\ \A i \in DOMAIN b : b[i] \in BlockTypes /\ i - 1 \in Nat
    BY <1>3
  <2>2. \A i \in DOMAIN b : /\ Event("block", i - 1, b[i]) \in Wired
                            /\ Event("block", i - 1, b[i]).kind = "block"
                            /\ Event("block", i - 1, b[i]).type = b[i]
                            /\ Event("block", i - 1, b[i]).round = serving.rounds
    BY <1>1, <2>1, EventFields DEF WireKinds
  <2>3. M \in [1..Len(b) -> Wired]
    BY <2>1, <2>2
  <2>4. M \in Seq(Wired)
    BY <2>1, <2>3
  <2>5. Len(M) = Len(b)
    BY <2>1, <2>3
  <2> QED
    BY <2>1, <2>2, <2>4, <2>5
<1>6. DOMAIN b = 1..Len(b) /\ Len(b) \in Nat /\ 1 \in DOMAIN b
  BY <1>3
<1> HIDE DEF M
<1>7. wire' = Append(M, x) /\ <<x>> \in Seq(Wired) /\ wire' = Message /\ Message \in Seq(Wired)
  BY <1>1, <1>2, <1>4, <1>5 DEF Ends
<1>8. /\ DOMAIN wire' = 1..(Len(b) + 1) /\ wire'[Len(b) + 1] = x
      /\ \A i \in DOMAIN b : i \in DOMAIN wire' /\ wire'[i] = M[i]
  <2>1. M \in Seq(Wired) /\ x \in Wired /\ Len(M) = Len(b)
    BY <1>4, <1>5
  <2>2. /\ DOMAIN Append(M, x) = 1..(Len(M) + 1) /\ Append(M, x)[Len(M) + 1] = x
        /\ \A i \in 1..Len(M) : Append(M, x)[i] = M[i]
    BY <2>1
  <2> QED
    BY <1>6, <1>7, <2>1, <2>2
<1>9. Blocks' = DOMAIN b
  BY <1>4, <1>5, <1>6, <1>8 DEF Blocks
<1>10. \A t : Having(t)' = Amount(b, {t})
  <2>1. TAKE t
  <2>2. {i \in Blocks : wire[i].type = t}' = {i \in DOMAIN b : b[i] \in {t}}
    BY <1>5, <1>8, <1>9
  <2> QED
    BY <2>2 DEF Having, Amount
<1>11. /\ UNCHANGED <<query, said>> /\ (NeedThinking' <=> NeedThinking) /\ UNCHANGED KnownCalls
  BY <1>1 DEF Ends, NeedThinking, KnownCalls
<1>12. KnownCalls \in Nat /\ (heard.called <=> KnownCalls > 0)
  <2>1. Coming("known") = 0
    <3>1. Amount(<<>>, {"known"}) = 0
      BY AmountOfFew
    <3> QED
      BY <1>1, <3>1, TimesIs DEF Coming
  <2> QED
    BY <1>1, <2>1, KnownCallsType DEF NotedRight
<1>13. Noted("tool_use")' <=> KnownCalls > 0
  BY <1>4, <1>5, <1>6, <1>8, <1>12 DEF Noted
<1>14. \A i, j \in Blocks' : wire'[i].type = "thinking" => i <= j
  BY <1>3, <1>5, <1>6, <1>8, <1>9
<1>15. KnownCalls = Len(said.calls) => ~heard.blocked
  BY <1>1 DEF NotedRight
<1>16. ClaudeDelivers'
  BY <1>3, <1>10, <1>11, <1>13, <1>14, <1>15 DEF ClaudeDelivers
<1>17. VisibleOf(Message)
  <2>1. \A i \in DOMAIN wire' : wire'[i].kind \in Visible => wire'[i].round = serving.rounds
    BY <1>4, <1>5, <1>6, <1>8 DEF Visible
  <2> QED
    BY <1>7, <2>1 DEF VisibleOf
<1>18. ClaudeInv'
  BY <1>1, <1>7, <1>16, <1>17, ClaudeEnds
<1>19. DOMAIN ShownByClaude' # {}
  <2>1. 1 \in DOMAIN wire' /\ wire'[1].kind = "block"
    BY <1>5, <1>6, <1>8
  <2> QED
    BY <2>1 DEF ShownByClaude
<1>20. Lengthens
  BY <1>1, <1>7 DEF Lengthens, Ends
<1> QED
  BY <1>18, <1>19, <1>20

LEMMA ClaudeInvStep == ClaudeInv /\ [ClaudeNext]_claudeVars => ClaudeInv'
<1> SUFFICES ASSUME ClaudeInv, [ClaudeNext]_claudeVars PROVE ClaudeInv'
  OBVIOUS
<1>1. CASE PickForClaude \/ PickFailsForClaude \/ ClaudeRound \/ ClaudeRoundFails \/ AskAnother
  BY <1>1, PickForClaudeKeeps, PickFailsForClaudeKeeps, ClaudeRoundKeeps, ClaudeRoundFailsKeeps,
     AskAnotherKeeps
<1>2. CASE Think \/ Say \/ CallTool \/ Withhold
  BY <1>2, ThinkKeeps, SayKeeps, CallToolKeeps, WithholdKeeps
<1>3. CASE Conclude
  BY <1>3, ConcludeStream, ConcludeMessage
<1>4. CASE PulseDue \/ PulseStops
  BY <1>4, PulseTurns DEF PulseDue, PulseStops
<1>5. CASE PulseWrites
  BY <1>5, PulseWritesKeeps
<1>6. CASE UNCHANGED claudeVars
  <2>1. /\ UNCHANGED <<query, stage, serving, said, rest, heard, block, wire, fate, pulse>>
    BY <1>6 DEF claudeVars
  <2>2. ClaudeTypeOK'
    BY <2>1 DEF ClaudeInv, ClaudeTypeOK
  <2>3. UNCHANGED <<KnownCalls>> /\ \A t : Having(t)' = Having(t)
    BY <2>1 DEF KnownCalls, Having, Blocks
  <2>4. (NotedRight => NotedRight') /\ (SentRight => SentRight') /\ (ClaudeDelivers => ClaudeDelivers')
    BY <2>1, <2>3 DEF NotedRight, SentRight, ClaudeDelivers, Coming, NeedThinking, Blocks, Noted
  <2>5. VisibleOf(wire) => VisibleOf(wire)'
    BY <2>1 DEF VisibleOf
  <2> QED
    BY <2>1, <2>2, <2>4, <2>5 DEF ClaudeInv
<1> QED
  BY <1>1, <1>2, <1>3, <1>4, <1>5, <1>6 DEF ClaudeNext

LEMMA ClaudeInvDelivers == ClaudeInv => ClaudeMessage
<1> SUFFICES ASSUME ClaudeInv PROVE ClaudeMessage
  OBVIOUS
<1>1. BlocksFit
  BY FitsSoFar DEF BlocksFit
<1>2. ClaudeDelivers
  BY DEF ClaudeInv, ClaudeDelivers
<1> QED
  BY <1>1, <1>2 DEF ClaudeMessage

(* Whatever the upstream says, and whenever the heartbeat writes: the events *)
(* of a stream make well-formed blocks, and a complete message, streamed or  *)
(* not, has what the last round said, thinking first and every call once.    *)
THEOREM ClaudeSaysAll == ClaudeSpec => []ClaudeMessage
<1>1. ClaudeInit => ClaudeInv
  BY ClaudeInvInit
<1>2. ClaudeInv /\ [ClaudeNext]_claudeVars => ClaudeInv'
  BY ClaudeInvStep
<1>3. ClaudeInv => ClaudeMessage
  BY ClaudeInvDelivers
<1> QED
  BY <1>1, <1>2, <1>3, PTL DEF ClaudeSpec

LEMMA ClaudeShowsMore ==
  ASSUME ClaudeInv, ClaudeInv', Lengthens, UNCHANGED serving
  PROVE  Claude!ShowsMore
<1>1. PICK s \in Seq(Wired) : wire' = wire \o s
  BY DEF Lengthens
<1>2. wire \in Seq(Wired)
  BY DEF ClaudeInv, ClaudeTypeOK
<1>3. /\ DOMAIN wire' = 1..(Len(wire) + Len(s)) /\ DOMAIN wire = 1..Len(wire)
      /\ Len(wire) \in Nat /\ Len(s) \in Nat
      /\ \A i \in 1..Len(wire) : wire'[i] = wire[i]
  BY <1>1, <1>2
<1>4. /\ \A i \in DOMAIN ShownByClaude :
           i \in 1..Len(wire) /\ wire[i].kind \in Visible /\ ShownByClaude[i] = wire[i].round
      /\ \A i \in 1..Len(wire) : wire[i].kind \in Visible => i \in DOMAIN ShownByClaude
  BY <1>3 DEF ShownByClaude, Visible
<1>5. /\ \A i \in DOMAIN ShownByClaude' :
           i \in DOMAIN wire' /\ wire'[i].kind \in Visible /\ ShownByClaude'[i] = wire'[i].round
      /\ \A i \in DOMAIN wire' : wire'[i].kind \in Visible => i \in DOMAIN ShownByClaude'
  BY DEF ShownByClaude, Visible
<1>6. \A i \in DOMAIN ShownByClaude : i \in DOMAIN ShownByClaude' /\ ShownByClaude'[i] = ShownByClaude[i]
  BY <1>3, <1>4, <1>5
<1>7. \A i \in DOMAIN ShownByClaude, j \in DOMAIN ShownByClaude' : j \notin DOMAIN ShownByClaude => i < j
  BY <1>3, <1>4, <1>5
<1>8. \A i \in DOMAIN wire' : wire'[i].kind \in Visible => wire'[i].round = serving'.rounds
  BY DEF ClaudeInv, VisibleOf
<1>9. \A i, j \in DOMAIN ShownByClaude' : ShownByClaude'[i] = ShownByClaude'[j]
  BY <1>5, <1>8
<1> QED
  BY <1>6, <1>7, <1>9 DEF Claude!ShowsMore

LEMMA ClaudeStutters ==
  ASSUME UNCHANGED ShownByClaude, UNCHANGED fate
  PROVE  UNCHANGED Claude!replyVars
  BY DEF Claude!replyVars

LEMMA ClaudeBreaksOff ==
  ASSUME ClaudeInv, stage # "over",
         \/ Ends("error", <<Signal("error")>>)
         \/ Ends("body", <<>>) \/ Ends("panic", <<>>) \/ Ends("gone", <<>>)
  PROVE  Claude!ReplyNext
<1>1. fate = "open" /\ wire \in Seq(Wired) /\ serving.rounds \in Nat
  BY DEF ClaudeInv, ClaudeTypeOK
<1>2. UNCHANGED ShownByClaude
  <2>1. CASE Ends("error", <<Signal("error")>>)
    <3> DEFINE x == Signal("error")
    <3>1. x \in Wired /\ x.kind \notin Visible
      BY <1>1, EventFields DEF WireKinds, Visible
    <3> HIDE DEF x
    <3>2. wire' = wire \o <<x>>
      BY <2>1 DEF Ends, x
    <3>3. wire' = Append(wire, x)
      BY <1>1, <3>1, <3>2
    <3> QED
      BY <1>1, <3>1, <3>3, SignalSilent
  <2>2. CASE Ends("body", <<>>) \/ Ends("panic", <<>>) \/ Ends("gone", <<>>)
    <3>1. wire' = wire
      BY <1>1, <2>2 DEF Ends
    <3> QED
      BY <3>1 DEF ShownByClaude
  <2> QED
    BY <2>1, <2>2
<1>3. fate' \in {"error", "body", "panic", "gone"}
  BY DEF Ends
<1> QED
  BY <1>1, <1>2, <1>3 DEF Claude!ReplyNext, Claude!BreakOff

LEMMA ClaudeStepShown ==
  ClaudeInv /\ ClaudeInv' /\ [ClaudeNext]_claudeVars => [Claude!ReplyNext]_(Claude!replyVars)
<1> SUFFICES ASSUME ClaudeInv, ClaudeInv', [ClaudeNext]_claudeVars
             PROVE  [Claude!ReplyNext]_(Claude!replyVars)
  OBVIOUS
<1>1. ASSUME UNCHANGED <<wire, fate>> PROVE UNCHANGED Claude!replyVars
  <2>1. UNCHANGED ShownByClaude
    BY <1>1 DEF ShownByClaude
  <2> QED
    BY <1>1, <2>1, ClaudeStutters
<1>2. CASE ClaudeRound \/ AskAnother \/ PulseDue \/ PulseStops
  BY <1>1, <1>2 DEF ClaudeRound, AskAnother, PulseDue, PulseStops
<1>3. CASE PickForClaude
  <2>1. /\ \A i \in DOMAIN wire : wire[i].kind \notin Visible
        /\ \A i \in DOMAIN wire' : wire'[i].kind \notin Visible
    BY <1>3 DEF PickForClaude, ClaudeInv
  <2> DEFINE P == {j \in DOMAIN wire : wire[j].kind \in {"start", "delta", "block"}}
  <2>2. P = {} /\ P' = {}
    BY <2>1 DEF Visible
  <2>3. ShownByClaude = [i \in P |-> wire[i].round] /\ ShownByClaude' = [i \in P' |-> wire'[i].round]
    BY DEF ShownByClaude
  <2>4. UNCHANGED ShownByClaude
    BY <2>2, <2>3
  <2> QED
    BY <1>3, <2>4, ClaudeStutters DEF PickForClaude
<1>4. CASE PickFailsForClaude \/ ClaudeRoundFails
  <2>1. CASE ClaudeRoundFails /\ UNCHANGED <<wire, fate>>
    BY <1>1, <2>1
  <2>2. CASE /\ stage # "over"
             /\ \/ Ends("error", <<Signal("error")>>)
                \/ Ends("body", <<>>) \/ Ends("panic", <<>>) \/ Ends("gone", <<>>)
    BY <2>2, ClaudeBreaksOff
  <2> QED
    BY <1>4, <2>1, <2>2 DEF PickFailsForClaude, ClaudeRoundFails
<1>5. CASE Think \/ Say \/ CallTool \/ Withhold
  <2>1. query.stream => Lengthens
    BY <1>5, ThinkKeeps, SayKeeps, CallToolKeeps, WithholdKeeps
  <2>2. /\ UNCHANGED <<serving, fate>> /\ stage = "events" /\ (~query.stream => UNCHANGED wire)
    BY <1>5 DEF Think, Say, CallTool, Withhold, Handles
  <2>3. fate = "open"
    BY <2>2 DEF ClaudeInv
  <2>4. CASE query.stream
    BY <2>1, <2>2, <2>3, <2>4, ClaudeShowsMore DEF Claude!ReplyNext, Claude!Show
  <2>5. CASE ~query.stream
    BY <1>1, <2>2, <2>5
  <2> QED
    BY <2>4, <2>5
<1>6. CASE Conclude
  <2>1. Lengthens /\ DOMAIN ShownByClaude' # {}
    BY <1>6, ConcludeStream, ConcludeMessage
  <2>2. UNCHANGED serving /\ fate' = "ok" /\ fate = "open"
    BY <1>6 DEF Conclude, Ends, ClaudeInv
  <2> QED
    BY <2>1, <2>2, ClaudeShowsMore DEF Claude!ReplyNext, Claude!Complete
<1>7. CASE PulseWrites
  <2> DEFINE x == Signal("ping")
  <2>1. wire \in Seq(Wired) /\ serving.rounds \in Nat
    BY DEF ClaudeInv, ClaudeTypeOK
  <2>2. x \in Wired /\ x.kind \notin Visible
    BY <2>1, EventFields DEF WireKinds, Visible
  <2>3. wire' = Append(wire, x) /\ UNCHANGED fate
    BY <1>7 DEF PulseWrites
  <2> HIDE DEF x
  <2>4. UNCHANGED ShownByClaude
    BY <2>1, <2>2, <2>3, SignalSilent
  <2> QED
    BY <2>3, <2>4, ClaudeStutters
<1>8. CASE UNCHANGED claudeVars
  BY <1>1, <1>8 DEF claudeVars
<1> QED
  BY <1>2, <1>3, <1>4, <1>5, <1>6, <1>7, <1>8 DEF ClaudeNext

LEMMA ClaudeInitShown == ClaudeInit => Claude!ReplyInit
<1> SUFFICES ASSUME ClaudeInit PROVE Claude!ReplyInit
  OBVIOUS
<1>1. wire = <<>> /\ fate = "open"
  BY DEF ClaudeInit
<1>2. {j \in DOMAIN wire : wire[j].kind \in {"start", "delta", "block"}} = {}
  BY <1>1
<1>3. ShownByClaude = Claude!NothingShown
  BY <1>2 DEF ShownByClaude, Claude!NothingShown
<1> QED
  BY <1>1, <1>3 DEF Claude!ReplyInit

(* The same promise for /v1/messages: accounts tried in vain, and refusals   *)
(* offered to another account, stay invisible, and no ping disturbs it.      *)
THEOREM ClaudeIsReply == ClaudeSpec => ClaudeReplies
<1>1. ClaudeInit => ClaudeInv /\ Claude!ReplyInit
  BY ClaudeInvInit, ClaudeInitShown
<1>2. ClaudeInv /\ [ClaudeNext]_claudeVars => ClaudeInv'
  BY ClaudeInvStep
<1>3. ClaudeInv /\ ClaudeInv' /\ [ClaudeNext]_claudeVars => [Claude!ReplyNext]_(Claude!replyVars)
  BY ClaudeStepShown
<1> QED
  BY <1>1, <1>2, <1>3, PTL DEF ClaudeSpec, ClaudeReplies, Claude!ReplySpec

-----------------------------------------------------------------------------
(* The emulated prompt cache (PromptCache).                                  *)

(* Division rounds down monotonically.                                       *)
LEMMA RatioMono ==
  ASSUME NEW a \in Nat, NEW b \in Nat, a <= b, NEW c \in Nat \ {0}
  PROVE  a \div c \in Nat /\ a \div c <= b \div c
OBVIOUS

(* tokensFor gives a part of the whole, that grows with what it is of.       *)
LEMMA ScaledIsPart ==
  ASSUME NEW p, p.total \in Nat, NEW here \in Nat, NEW further \in Nat, here <= further,
         NEW whole \in Nat
  PROVE  /\ Scaled(p, here, whole) \in 0..p.total
         /\ Scaled(p, here, whole) <= Scaled(p, further, whole)
<1>1. CASE whole = 0
  BY <1>1 DEF Scaled, AtMost
<1>2. CASE whole # 0
  <2> DEFINE x == here * p.total
             y == further * p.total
  <2>1. x \in Nat /\ y \in Nat /\ x <= y
    OBVIOUS
  <2> HIDE DEF x, y
  <2>2. 2 * x + whole \in Nat /\ 2 * y + whole \in Nat /\ 2 * x + whole <= 2 * y + whole
        /\ 2 * whole \in Nat \ {0}
    BY <1>2, <2>1
  <2>3. Rounded(x, whole) \in Nat /\ Rounded(x, whole) <= Rounded(y, whole) /\ Rounded(y, whole) \in Nat
    <3>1. (2 * x + whole) \div (2 * whole) \in Nat
          /\ (2 * x + whole) \div (2 * whole) <= (2 * y + whole) \div (2 * whole)
      BY <2>2, RatioMono
    <3>2. (2 * y + whole) \div (2 * whole) \in Nat
      BY <2>2, RatioMono
    <3> QED
      BY <3>1, <3>2 DEF Rounded
  <2>4. /\ Scaled(p, here, whole) = AtMost(Rounded(x, whole), p.total)
        /\ Scaled(p, further, whole) = AtMost(Rounded(y, whole), p.total)
    BY <1>2 DEF Scaled, x, y
  <2> QED
    BY <2>3, <2>4 DEF AtMost
<1> QED
  BY <1>1, <1>2

(* scaleTokens gives a part of the tokens, all of them at the full ratio.    *)
LEMMA ShareIsPart ==
  ASSUME NEW t \in Nat, NEW percent \in 0..100
  PROVE  /\ Share(t, percent) \in 0..t
         /\ percent = 100 => Share(t, percent) = t
<1> DEFINE q == t * percent
<1>1. q \in Nat /\ q <= 100 * t /\ (percent = 100 => q = 100 * t)
  OBVIOUS
<1>2. Share(t, percent) = (2 * q + 100) \div 200
  BY DEF Share, Rounded
<1> HIDE DEF q
<1> QED
  BY <1>1, <1>2
-----------------------------------------------------------------------------
(* cumulativeTokens does not fall.                                           *)
LEMMA CumulativeTokens ==
  ASSUME NEW bs, NEW n \in Nat, \A i \in 1..n : bs[i].tokens \in Nat,
         NEW i \in 0..n, NEW k \in i..n
  PROVE  SumTo(bs, i) \in Nat /\ SumTo(bs, i) <= SumTo(bs, k)
<1> DEFINE f == [j \in 1..n |-> bs[j].tokens]
<1>1. ASSUME NEW m \in 0..n PROVE SumTo(bs, m) = SumOf(f, 1..m)
  <2> DEFINE S == 1..m
             raw(g) == g = [s \in SUBSET S |-> IF s = {} THEN 0
                              ELSE bs[OneOf(s)].tokens + g[s \ {OneOf(s)}]]
             c == CHOOSE g : raw(g)
  <2>1. S \in SUBSET (1..n) /\ IsFiniteSet(S)
    <3>1. IsFiniteSet(1..m)
      BY FS_Interval
    <3> QED
      BY <3>1
  <2>2. \A s \in SUBSET S : s # {} => f[OneOf(s)] = bs[OneOf(s)].tokens
    BY <2>1 DEF OneOf
  <2>3. \A g : raw(g) <=> SumTable(f, g, S)
    BY <2>2 DEF SumTable
  <2>4. \E g : raw(g)
    BY <2>1, <2>3, TableExists
  <2>5. SumTable(f, c, S)
    BY <2>3, <2>4
  <2>6. SumTo(bs, m) = c[S]
    BY DEF SumTo, MapThenSumSet, MapThenFoldSet, OneOf
  <2> QED
    BY <2>1, <2>5, <2>6, TableHasSums
<1>2. SumTo(bs, i) = SumOf(f, 1..i) /\ SumTo(bs, k) = SumOf(f, 1..k)
  BY <1>1
<1>3. IsFiniteSet(1..k) /\ 1..i \in SUBSET (1..k)
  <2> HIDE DEF f
  <2>1. k \in Nat /\ i \in Nat /\ i <= k
    OBVIOUS
  <2>2. IsFiniteSet(1..k)
    BY <2>1, FS_Interval
  <2>3. 1..i \in SUBSET (1..k)
    BY <2>1
  <2> QED
    BY <2>2, <2>3
<1>4. \A j \in 1..k : f[j] \in Nat
  OBVIOUS
<1> QED
  BY <1>2, <1>3, <1>4, SumOfPart

(* truncateCacheBlocks leaves blocks of the prompt, from the first.          *)
LEMMA BlocksConsidered ==
  ASSUME NEW p \in Prompts
  PROVE  /\ Len(Considered(p)) \in Nat /\ DOMAIN Considered(p) = 1..Len(Considered(p))
         /\ \A i \in 1..Len(Considered(p)) :
              i \in DOMAIN p.blocks /\ Considered(p)[i].tokens \in Nat
<1> DEFINE B == {p.blocks[i] : i \in DOMAIN p.blocks}
           n == Len(p.blocks)
<1>1. IsPrompt(p)
  BY PromptCacheAssumption
<1>2. /\ p.blocks \in Seq(B) /\ n \in Nat /\ DOMAIN p.blocks = 1..n /\ n > 0
      /\ \A i \in 1..n : p.blocks[i].tokens \in Nat /\ p.blocks[i] \in B
  BY <1>1 DEF IsPrompt
<1>3. CASE p.total > FastTokens
  <2> DEFINE fits == {i \in DOMAIN p.blocks : i = 1 \/ SumTo(p.blocks, i) <= PrefixTokens}
             m == Max(fits)
  <2>1. fits \in SUBSET (0..n) /\ 1 \in fits
    BY <1>2
  <2>2. m \in fits
    <3> HIDE DEF fits
    <3> QED
      BY <1>2, <2>1, MaxOfBounded
  <2>3. m \in 1..n
    BY <1>2, <2>2
  <2>4. Considered(p) = SubSeq(p.blocks, 1, m)
    BY <1>3 DEF Considered
  <2> HIDE DEF fits, m, B
  <2>5. \A i \in 1..m : p.blocks[i] \in B
    BY <1>2, <2>3
  <2>6. /\ SubSeq(p.blocks, 1, m) \in Seq(B) /\ Len(SubSeq(p.blocks, 1, m)) = m
        /\ \A i \in 1..m : SubSeq(p.blocks, 1, m)[i] = p.blocks[i]
    <3>1. /\ SubSeq(p.blocks, 1, m) \in Seq(B)
          /\ Len(SubSeq(p.blocks, 1, m)) = IF 1 <= m THEN m - 1 + 1 ELSE 0
          /\ \A i \in 1..(m - 1 + 1) : SubSeq(p.blocks, 1, m)[i] = p.blocks[1 + i - 1]
      BY <2>3, <2>5, SubSeqProperties
    <3> QED
      BY <2>3, <3>1
  <2>7. DOMAIN SubSeq(p.blocks, 1, m) = 1..m
    BY <2>6
  <2> QED
    BY <1>2, <2>3, <2>4, <2>6, <2>7
<1>4. CASE ~(p.total > FastTokens)
  <2>1. Considered(p) = p.blocks
    BY <1>4 DEF Considered
  <2> QED
    BY <1>2, <2>1
<1> QED
  BY <1>3, <1>4

(* A breakpoint has one of the two lifetimes.                                *)
LEMMA MarksGiven ==
  ASSUME NEW p \in Prompts, NEW policy \in Policies, NEW i \in DOMAIN Considered(p)
  PROVE  Marks(p, policy)[i] \in {0, Short, Long}
<1>1. i \in DOMAIN p.blocks
  BY BlocksConsidered
<1>2. p.marks[i] \in {0, Short, Long}
  BY <1>1, PromptCacheAssumption DEF IsPrompt
<1> QED
  BY <1>2 DEF Marks

(* What the proofs need of breakpoints: a lifetime, and tokens of the whole  *)
(* that do not fall from one to the next.                                    *)
ArePoints(P, total) ==
  /\ Len(P) \in Nat /\ DOMAIN P = 1..Len(P) /\ (P # <<>> => Len(P) > 0)
  /\ \A i \in 1..Len(P) : P[i].ttl \in 1..Long /\ P[i].tokens \in 0..total
  /\ \A i, k \in 1..Len(P) : i <= k => P[i].tokens <= P[k].tokens

(* The parts of Breakpoints.                                                 *)
MarkedTo(ms, i) == {0} \cup {j \in 1..i : ms[j] > 0}
BreakpointsAt(bs, ms) ==
  {i \in DOMAIN bs : Max(MarkedTo(ms, i)) > 0 /\ (ms[i] > 0 \/ bs[i].end)}
PointAt(p, bs, ms, A, i) ==
  [prefix |-> [j \in 1..i |-> bs[j].name], ttl |-> ms[Max(MarkedTo(ms, i))],
   tokens |-> Scaled(p, SumTo(bs, i), SumTo(bs, Max(A)))]
Nth(A, n) == CHOOSE i \in A : Cardinality({j \in A : j <= i}) = n

(* The breakpoints of every prompt, under every policy, are as asked.        *)
LEMMA PointsAre ==
  ASSUME NEW p \in Prompts, NEW policy \in Policies
  PROVE  ArePoints(Profile[<<p, policy>>], p.total)
<1> DEFINE bs == Considered(p)
           ms == Marks(p, policy)
           b  == Len(bs)
           bps == BreakpointsAt(bs, ms)
           N == Cardinality(bps)
           P == Profile[<<p, policy>>]
<1>1. /\ b \in Nat /\ DOMAIN bs = 1..b /\ p.total \in Nat
      /\ \A i \in 1..b : bs[i].tokens \in Nat /\ ms[i] \in {0, Short, Long}
  BY BlocksConsidered, MarksGiven, PromptCacheAssumption DEF IsPrompt
<1>2. bps \in SUBSET (1..b)
  BY <1>1 DEF BreakpointsAt
<1>3. P = [n \in 1..N |-> PointAt(p, bs, ms, bps, Nth(bps, n))]
  <2>1. P = Breakpoints(p, policy)
    BY DEF Profile
  <2>2. Breakpoints(p, policy) = [n \in 1..N |-> PointAt(p, bs, ms, bps, Nth(bps, n))]
    BY DEF Breakpoints, BreakpointsAt, MarkedTo, Nth, PointAt
  <2> QED
    BY <2>1, <2>2
<1>4. N \in Nat /\ \A n \in 1..N : Nth(bps, n) \in bps /\ Place(bps, Nth(bps, n)) = n
  <2>1. N \in Nat /\ \A n \in 1..N : \E i \in bps : Place(bps, i) = n
    <3> HIDE DEF bps
    <3> QED
      BY <1>1, <1>2, PlacesTaken
  <2> HIDE DEF bps
  <2> QED
    BY <2>1 DEF Place, Nth
<1>5. Len(P) = N /\ DOMAIN P = 1..N /\ (P # <<>> => N > 0)
  <2> HIDE DEF bps, N, bs, ms
  <2> QED
    BY <1>3, <1>4
<1>6. ASSUME NEW n \in 1..N PROVE P[n].ttl \in 1..Long
  <2> DEFINE i == Nth(bps, n)
             m == Max(MarkedTo(ms, i))
  <2>1. i \in 1..b /\ m > 0
    BY <1>2, <1>4 DEF BreakpointsAt
  <2>2. m \in MarkedTo(ms, i)
    <3>1. MarkedTo(ms, i) \in SUBSET (0..b) /\ MarkedTo(ms, i) # {}
      BY <1>1, <2>1 DEF MarkedTo
    <3> HIDE DEF i
    <3> QED
      BY <1>1, <3>1, MaxOfBounded
  <2>3. m \in 1..b /\ ms[m] > 0
    BY <1>1, <2>1, <2>2 DEF MarkedTo
  <2>4. ms[m] \in 1..Long
    BY <1>1, <2>3, PromptCacheAssumption
  <2>5. P[n].ttl = ms[m]
    <3> HIDE DEF bps, bs, ms
    <3> QED
      BY <1>3 DEF PointAt
  <2> QED
    BY <2>4, <2>5
<1>7. ASSUME NEW n \in 1..N, NEW k \in n..N
      PROVE  P[n].tokens \in 0..p.total /\ P[n].tokens <= P[k].tokens
  <2>1. n \in 1..N /\ k \in 1..N
    BY <1>4
  <2>2. Nth(bps, n) \in bps /\ Nth(bps, k) \in bps /\ Place(bps, Nth(bps, n)) = n /\ Place(bps, Nth(bps, k)) = k
    BY <1>4, <2>1
  <2>3. Nth(bps, n) \in 1..b /\ Nth(bps, k) \in 1..b
    BY <1>2, <2>2
  <2>4. Nth(bps, n) <= Nth(bps, k)
    <3>1. SUFFICES ASSUME Nth(bps, k) < Nth(bps, n) PROVE FALSE
      BY <2>3
    <3> HIDE DEF bps, N
    <3>2. Place(bps, Nth(bps, k)) < Place(bps, Nth(bps, n))
      BY <1>1, <1>2, <2>2, <3>1, PlacesRise
    <3> QED
      BY <1>4, <2>1, <2>2, <3>2
  <2>5. Max(bps) \in 0..b
    <3>1. bps \in SUBSET (0..b) /\ bps # {}
      BY <1>2, <2>2
    <3> HIDE DEF bps
    <3> QED
      BY <1>1, <3>1, MaxOfBounded
  <2> DEFINE x == SumTo(bs, Nth(bps, n))
             y == SumTo(bs, Nth(bps, k))
             w == SumTo(bs, Max(bps))
  <2> HIDE DEF bps, N, bs, ms
  <2>6. x \in Nat /\ y \in Nat /\ x <= y
    <3>1. Nth(bps, n) \in 0..b /\ Nth(bps, k) \in Nth(bps, n)..b /\ Nth(bps, k) \in 0..b /\ Nth(bps, k) \in Nth(bps, k)..b
      BY <1>1, <2>3, <2>4
    <3>2. x \in Nat /\ x <= y
      BY <1>1, <3>1, CumulativeTokens
    <3>3. y \in Nat
      BY <1>1, <3>1, CumulativeTokens
    <3> QED
      BY <3>2, <3>3
  <2>7. w \in Nat
    <3>1. Max(bps) \in Max(bps)..b
      BY <1>1, <2>5
    <3> QED
      BY <1>1, <2>5, <3>1, CumulativeTokens
  <2>8. P[n].tokens = Scaled(p, x, w) /\ P[k].tokens = Scaled(p, y, w)
    BY <1>3, <2>1 DEF PointAt
  <2> HIDE DEF x, y, w, P
  <2> QED
    BY <1>1, <2>6, <2>7, <2>8, ScaledIsPart
<1> HIDE DEF P, N
<1>8. /\ \A n \in 1..N : n \in n..N
      /\ \A n, k \in 1..N : n <= k => k \in n..N
  BY <1>4
<1>9. \A n \in 1..N : P[n].tokens \in 0..p.total
  BY <1>7, <1>8
<1>10. \A n, k \in 1..N : n <= k => P[n].tokens <= P[k].tokens
  BY <1>7, <1>8
<1>11. Len(P) \in Nat /\ DOMAIN P = 1..Len(P) /\ (P # <<>> => Len(P) > 0)
  BY <1>4, <1>5
<1>12. \A n \in 1..Len(P) : P[n].ttl \in 1..Long /\ P[n].tokens \in 0..p.total
  BY <1>5, <1>6, <1>9
<1>13. \A n, k \in 1..Len(P) : n <= k => P[n].tokens <= P[k].tokens
  BY <1>5, <1>10
<1>14. ArePoints(P, p.total)
  BY <1>11, <1>12, <1>13 DEF ArePoints
<1> QED
  BY <1>14 DEF P
-----------------------------------------------------------------------------
(* The parts of a usage make up the whole.                                   *)
MakesUp(u, total) ==
  /\ u.input \in Nat /\ u.read \in Nat /\ u.creation \in Nat
  /\ u.short \in Nat /\ u.long \in Nat
  /\ u.input + u.read + u.creation = total /\ u.short + u.long = u.creation

(* reserveUncachedTail keeps the whole, leaves some input, and takes all     *)
(* that is read only from a request of one token, which is not estimated.    *)
LEMMA ReservedIsWhole ==
  ASSUME NEW u, NEW total \in Nat \ {0}, MakesUp(u, total)
  PROVE  /\ MakesUp(Reserved(u, total), total) /\ Reserved(u, total).input > 0
         /\ Reserved(u, total).read <= u.read
         /\ u.read > 0 /\ total > 1 => Reserved(u, total).read > 0
         /\ total = 1 => Reserved(u, total).read + Reserved(u, total).creation = 0
<1> DEFINE tail == IF total < 16 THEN AtLeast(total \div 4, 1) ELSE 2
           need == AtLeast(tail - u.input, 0)
           made == AtMost(need, u.creation)
           read == AtMost(need - made, u.read)
           five == AtMost(made, u.short)
           r == Reserved(u, total)
<1>1. tail \in Nat /\ tail > 0 /\ tail <= total /\ (total > 1 => tail < total)
  BY DEF AtLeast
<1>2. need \in Nat /\ need >= tail - u.input /\ (need = 0 \/ need = tail - u.input)
  <2> HIDE DEF tail
  <2> QED
    BY <1>1 DEF AtLeast, MakesUp
<1>3. /\ made \in Nat /\ made <= need /\ made <= u.creation
      /\ made = need \/ made = u.creation
  <2> HIDE DEF need
  <2> QED
    BY <1>2 DEF AtMost, MakesUp
<1>4. /\ read \in Nat /\ read <= need - made /\ read <= u.read
      /\ read = need - made \/ read = u.read
  <2> HIDE DEF need, made
  <2> QED
    BY <1>2, <1>3 DEF AtMost, MakesUp
<1>5. /\ five \in Nat /\ five <= made /\ five <= u.short /\ (five = made \/ five = u.short)
  <2> HIDE DEF made
  <2> QED
    BY <1>3 DEF AtMost, MakesUp
<1>6. AtMost(made - five, u.long) = made - five
  <2> HIDE DEF made, five
  <2> QED
    BY <1>3, <1>5 DEF AtMost, MakesUp
<1>7. /\ r.input = u.input + made + read /\ r.read = u.read - read
      /\ r.creation = u.creation - made
      /\ r.short = u.short - five /\ r.long = u.long - (made - five)
  BY <1>6 DEF Reserved
<1> HIDE DEF tail, need, made, read, five, r
<1>8. MakesUp(r, total)
  BY <1>3, <1>4, <1>5, <1>7 DEF MakesUp
<1>9. r.input > 0
  BY <1>1, <1>2, <1>3, <1>4, <1>7 DEF MakesUp
<1>10. u.read > 0 /\ total > 1 => r.read > 0
  BY <1>1, <1>2, <1>3, <1>4, <1>7 DEF MakesUp
<1>11. total = 1 => r.read + r.creation = 0
  <2>1. /\ r.input \in Nat /\ r.read \in Nat /\ r.creation \in Nat
        /\ r.input + r.read + r.creation = total
    BY <1>8 DEF MakesUp
  <2> QED
    BY <1>9, <2>1
<1>12. r.read <= u.read
  BY <1>4, <1>7 DEF MakesUp
<1> QED
  BY <1>8, <1>9, <1>10, <1>11, <1>12 DEF r

(* The usage of a request makes up the whole; it reads something if a        *)
(* breakpoint that counts tokens was found, at the full ratio.               *)
LEMMA UsageIsWhole ==
  ASSUME NEW p \in Prompts, NEW policy \in Policies, NEW P, ArePoints(P, p.total), P # <<>>,
         NEW matched \in 0..Len(P)
  PROVE  LET u == UsageOf(p, policy, matched, P) IN
         /\ MakesUp(u, p.total) /\ u.input > 0
         /\ u.read > 0 => policy.force \/ matched # 0
         /\ policy.read = 100 /\ u.read + u.creation # 0
            /\ (IF policy.force THEN Last(P).tokens > 0
                ELSE matched # 0 /\ P[matched].tokens > 0)
            => u.read > 0
<1> DEFINE whole == Last(P).tokens
           read == IF policy.force THEN whole ELSE IF matched = 0 THEN 0 ELSE P[matched].tokens
           missing == IF policy.force THEN 0 ELSE AtLeast(whole - read, 0)
           made == Share(missing, policy.create)
           long == Last(P).ttl >= Long
           u == [read |-> Share(read, policy.read), creation |-> made,
                 short |-> IF long THEN 0 ELSE made, long |-> IF long THEN made ELSE 0]
           input == AtLeast(p.total - u.read - u.creation, 0)
           v == [input |-> input, read |-> u.read, creation |-> u.creation,
                 short |-> u.short, long |-> u.long]
<1>1. p.total \in Nat \ {0} /\ policy.create \in 0..100 /\ policy.read \in 0..100
  BY PromptCacheAssumption DEF IsPrompt, IsPolicy
<1>2. Len(P) \in 1..Len(P)
  BY DEF ArePoints
<1>3. whole \in 0..p.total
  BY <1>2 DEF ArePoints, Last
<1>4. read \in 0..whole
  <2>1. CASE policy.force
    BY <1>1, <1>3, <2>1
  <2>2. CASE ~policy.force /\ matched = 0
    BY <1>1, <1>3, <2>2
  <2>3. CASE ~policy.force /\ matched # 0
    <3>1. matched \in 1..Len(P) /\ matched <= Len(P)
      BY <1>2, <2>3
    <3>2. P[matched].tokens \in 0..p.total /\ P[matched].tokens <= P[Len(P)].tokens
      BY <1>2, <3>1 DEF ArePoints
    <3> QED
      BY <1>1, <1>3, <2>3, <3>2 DEF Last
  <2> QED
    BY <2>1, <2>2, <2>3
<1> HIDE DEF whole
<1>5. missing \in Nat /\ read + missing <= whole
  <2> HIDE DEF read
  <2> QED
    BY <1>1, <1>3, <1>4 DEF AtLeast
<1>6. /\ made \in 0..missing /\ u.read \in 0..read
      /\ policy.read = 100 => u.read = read
  <2>1. read \in Nat /\ missing \in Nat
    BY <1>1, <1>3, <1>4, <1>5
  <2> HIDE DEF read, missing
  <2>2. Share(missing, policy.create) \in 0..missing
    BY <1>1, <2>1, ShareIsPart
  <2>3. Share(read, policy.read) \in 0..read /\ (policy.read = 100 => Share(read, policy.read) = read)
    BY <1>1, <2>1, ShareIsPart
  <2> QED
    BY <2>2, <2>3
<1> HIDE DEF read, missing, made, long
<1>7. /\ u.creation = made /\ u.short \in Nat /\ u.long \in Nat /\ u.short + u.long = made
      /\ u.read + made <= p.total /\ u.read \in Nat /\ made \in Nat
  <2>1. u.creation = made /\ u.read \in Nat /\ made \in Nat /\ u.read + made <= p.total
    <3> DEFINE w == u.read
    <3>1. w \in 0..read
      BY <1>6
    <3> HIDE DEF w, u
    <3>2. w \in Nat /\ made \in Nat /\ w + made <= p.total
      BY <1>1, <1>3, <1>4, <1>5, <1>6, <3>1
    <3> QED
      BY <3>2 DEF u, w
  <2>2. u.short \in Nat /\ u.long \in Nat /\ u.short + u.long = made
    BY <2>1
  <2> QED
    BY <2>1, <2>2
<1> HIDE DEF u
<1>8. input = p.total - u.read - u.creation /\ input \in Nat
  BY <1>1, <1>7 DEF AtLeast
<1> HIDE DEF input
<1>9. MakesUp(v, p.total) /\ v.read = u.read
  <2>1. /\ v.input = input /\ v.read = u.read /\ v.creation = u.creation
        /\ v.short = u.short /\ v.long = u.long
    OBVIOUS
  <2>2. input + u.read + u.creation = p.total
    <3>1. \A t, a, c \in Nat : (t - a - c) + a + c = t
      OBVIOUS
    <3>2. p.total \in Nat /\ u.read \in Nat /\ u.creation \in Nat
      BY <1>1, <1>7
    <3> QED
      BY <1>8, <3>1, <3>2
  <2> HIDE DEF v
  <2> QED
    BY <1>7, <1>8, <2>1, <2>2 DEF MakesUp
<1>10. UsageOf(p, policy, matched, P) = Reserved(v, p.total)
  BY DEF UsageOf, v, u, input, long, made, missing, read, whole
<1> HIDE DEF v
<1> DEFINE r == Reserved(v, p.total)
<1>11. /\ MakesUp(r, p.total) /\ r.input > 0 /\ r.read <= v.read
       /\ v.read > 0 /\ p.total > 1 => r.read > 0
       /\ p.total = 1 => r.read + r.creation = 0
  BY <1>1, <1>9, ReservedIsWhole
<1> HIDE DEF r
<1>12. r.read > 0 => policy.force \/ matched # 0
  <2>1. SUFFICES ASSUME ~policy.force, matched = 0 PROVE ~(r.read > 0)
    OBVIOUS
  <2>2. read = 0
    BY <2>1 DEF read
  <2> QED
    BY <1>6, <1>9, <1>11, <2>2 DEF MakesUp
<1>13. ASSUME policy.read = 100, r.read + r.creation # 0,
              IF policy.force THEN Last(P).tokens > 0 ELSE matched # 0 /\ P[matched].tokens > 0
       PROVE  r.read > 0
  <2>1. read > 0
    BY <1>13 DEF read, whole
  <2>2. v.read > 0
    BY <1>6, <1>9, <1>13, <2>1
  <2>3. p.total > 1
    BY <1>1, <1>11, <1>13
  <2> QED
    BY <1>11, <2>2, <2>3
<1> QED
  BY <1>10, <1>11, <1>12, <1>13 DEF r
-----------------------------------------------------------------------------
(* What is remembered of a namespace against its history: nothing else, and  *)
(* for as long as the last answer said.                                      *)
TablesFit(e, a) ==
  /\ \A x \in DOMAIN e :
       /\ x \in DOMAIN a /\ e[x].left \in Nat /\ e[x].ttl \in Nat
       /\ a[x].ttl <= e[x].ttl
  /\ \A x \in DOMAIN a :
       /\ a[x].age \in Nat /\ a[x].ttl \in 0..Long
       /\ a[x].age < a[x].ttl => x \in DOMAIN e /\ e[x].left + a[x].age >= a[x].ttl

TablesTyped(e, a) ==
  /\ \A x \in DOMAIN e : e[x] \in [ttl : Nat, left : Nat]
  /\ \A x \in DOMAIN a : a[x] \in [age : Nat, ttl : 0..Long]

(* What a breakpoint has for a lifetime, found by its prefix.                *)
LEMMA TtlGiven ==
  ASSUME NEW P, NEW total, ArePoints(P, total), NEW x \in PrefixesOf(P)
  PROVE  TtlOf(P, x) \in 1..Long
<1> DEFINE i == CHOOSE i \in DOMAIN P : P[i].prefix = x
<1>1. i \in DOMAIN P
  BY DEF PrefixesOf
<1> HIDE DEF i
<1>2. P[i].ttl \in 1..Long
  BY <1>1 DEF ArePoints
<1> QED
  BY <1>2 DEF TtlOf, i

(* A request that succeeded is put into both ...                             *)
LEMMA CommitFits ==
  ASSUME NEW e, NEW a, TablesFit(e, a), NEW P, NEW total, ArePoints(P, total)
  PROVE  TablesFit(Put(e, P), Note(a, P))
<1> DEFINE f == Put(e, P)
           b == Note(a, P)
           X == PrefixesOf(P)
<1>1. /\ DOMAIN f = DOMAIN e \cup X /\ DOMAIN b = DOMAIN a \cup X
      /\ \A x \in X : f[x] = Renewed(e, x, TtlOf(P, x)) /\ b[x] = [age |-> 0, ttl |-> TtlOf(P, x)]
      /\ \A x \in DOMAIN e : x \notin X => f[x] = e[x]
      /\ \A x \in DOMAIN a : x \notin X => b[x] = a[x]
  BY DEF Put, Note
<1>2. \A x \in X : TtlOf(P, x) \in 1..Long
  BY TtlGiven
<1>3. Long \in Nat
  BY PromptCacheAssumption
<1> HIDE DEF f, b, X
<1>4. ASSUME NEW x \in X
      PROVE  /\ f[x].left \in Nat /\ f[x].ttl \in Nat
             /\ f[x].ttl >= TtlOf(P, x) /\ f[x].left >= TtlOf(P, x)
  <2> DEFINE t == TtlOf(P, x)
  <2>1. t \in Nat /\ f[x] = Renewed(e, x, t)
    BY <1>1, <1>2, <1>3
  <2> HIDE DEF t
  <2>2. CASE x \in DOMAIN e
    <3>1. f[x].ttl = AtLeast(e[x].ttl, t) /\ f[x].left = AtLeast(e[x].left, t)
      BY <2>1, <2>2 DEF Renewed, Remembered
    <3>2. e[x].ttl \in Nat /\ e[x].left \in Nat
      BY <2>2 DEF TablesFit
    <3> QED
      BY <2>1, <3>1, <3>2 DEF AtLeast, t
  <2>3. CASE x \notin DOMAIN e
    <3>1. f[x].ttl = t /\ f[x].left = t
      BY <2>1, <2>3 DEF Renewed
    <3> QED
      BY <2>1, <3>1 DEF t
  <2> QED
    BY <2>2, <2>3
<1>5. ASSUME NEW x \in X
      PROVE  b[x].age = 0 /\ b[x].ttl = TtlOf(P, x) /\ TtlOf(P, x) \in 0..Long
  <2>1. b[x] = [age |-> 0, ttl |-> TtlOf(P, x)] /\ TtlOf(P, x) \in 1..Long
    BY <1>1, <1>2
  <2> QED
    BY <1>3, <2>1
<1>6. ASSUME NEW x \in DOMAIN f
      PROVE  /\ x \in DOMAIN b /\ f[x].left \in Nat /\ f[x].ttl \in Nat
             /\ b[x].ttl <= f[x].ttl
  <2>1. CASE x \in X
    BY <1>1, <1>3, <1>4, <1>5, <2>1
  <2>2. CASE x \notin X
    <3>1. x \in DOMAIN e /\ f[x] = e[x]
      BY <1>1, <2>2
    <3>2. x \in DOMAIN a
      BY <3>1 DEF TablesFit
    <3>3. b[x] = a[x]
      BY <1>1, <2>2, <3>2
    <3> QED
      BY <1>1, <3>1, <3>2, <3>3 DEF TablesFit
  <2> QED
    BY <2>1, <2>2
<1>7. ASSUME NEW x \in DOMAIN b
      PROVE  /\ b[x].age \in Nat /\ b[x].ttl \in 0..Long
             /\ b[x].age < b[x].ttl => x \in DOMAIN f /\ f[x].left + b[x].age >= b[x].ttl
  <2>1. CASE x \in X
    BY <1>1, <1>3, <1>4, <1>5, <2>1
  <2>2. CASE x \notin X
    <3>1. x \in DOMAIN a /\ b[x] = a[x]
      BY <1>1, <2>2
    <3>2. /\ a[x].age \in Nat /\ a[x].ttl \in 0..Long
          /\ a[x].age < a[x].ttl => x \in DOMAIN e /\ e[x].left + a[x].age >= a[x].ttl
      BY <3>1 DEF TablesFit
    <3>3. x \in DOMAIN e => x \in DOMAIN f /\ f[x] = e[x]
      BY <1>1, <2>2
    <3> QED
      BY <3>1, <3>2, <3>3
  <2> QED
    BY <2>1, <2>2
<1>8. TablesFit(f, b)
  BY <1>6, <1>7 DEF TablesFit
<1> QED
  BY <1>8 DEF f, b

(* ... a hit prolongs what is remembered ...                                 *)
LEMMA HitFits ==
  ASSUME NEW e, NEW a, TablesFit(e, a), NEW x \in DOMAIN e
  PROVE  TablesFit([e EXCEPT ![x].left = e[x].ttl], a)
<1> DEFINE f == [e EXCEPT ![x].left = e[x].ttl]
           g == [e[x] EXCEPT !.left = e[x].ttl]
<1>1. DOMAIN f = DOMAIN e /\ f[x] = g /\ \A y \in DOMAIN e : y # x => f[y] = e[y]
  OBVIOUS
<1>2. x \in DOMAIN a /\ e[x].ttl \in Nat /\ a[x].ttl <= e[x].ttl
  BY DEF TablesFit
<1>3. a[x].age \in Nat /\ a[x].ttl \in Nat
  BY <1>2, PromptCacheAssumption DEF TablesFit
<1>4. g.left = e[x].ttl /\ g.ttl = e[x].ttl
  OBVIOUS
<1> HIDE DEF f, g
<1>5. ASSUME NEW y \in DOMAIN f
      PROVE  /\ y \in DOMAIN a /\ f[y].left \in Nat /\ f[y].ttl \in Nat /\ a[y].ttl <= f[y].ttl
  <2>1. CASE y = x
    BY <1>1, <1>2, <1>4, <2>1
  <2>2. CASE y # x
    BY <1>1, <2>2 DEF TablesFit
  <2> QED
    BY <2>1, <2>2
<1>6. ASSUME NEW y \in DOMAIN a
      PROVE  /\ a[y].age \in Nat /\ a[y].ttl \in 0..Long
             /\ a[y].age < a[y].ttl => y \in DOMAIN f /\ f[y].left + a[y].age >= a[y].ttl
  <2>1. CASE y = x
    <3>1. f[y].left = e[x].ttl /\ y \in DOMAIN f
      BY <1>1, <1>4, <2>1
    <3>2. e[x].ttl + a[x].age >= a[x].ttl
      BY <1>2, <1>3
    <3>3. a[y].age \in Nat /\ a[y].ttl \in 0..Long
      BY DEF TablesFit
    <3> QED
      BY <2>1, <3>1, <3>2, <3>3
  <2>2. CASE y # x
    <3>1. y \in DOMAIN e => y \in DOMAIN f /\ f[y] = e[y]
      BY <1>1, <2>2
    <3> QED
      BY <3>1 DEF TablesFit
  <2> QED
    BY <2>1, <2>2
<1>7. TablesFit(f, a)
  BY <1>5, <1>6 DEF TablesFit
<1> QED
  BY <1>7 DEF f

(* What Passes does to one namespace.                                        *)
Older(a) == [x \in DOMAIN a |-> [a[x] EXCEPT !.age = AtMost(@ + 1, Long)]]
Lessened(e) == [x \in {y \in DOMAIN e : e[y].left > 1} |-> [e[x] EXCEPT !.left = @ - 1]]

(* ... and as time passes, both grow older.                                  *)
LEMMA TimeFits ==
  ASSUME NEW e, NEW a, TablesFit(e, a), TablesTyped(e, a)
  PROVE  TablesFit(Lessened(e), Older(a))
<1> DEFINE f == Lessened(e)
           b == Older(a)
<1>1. /\ DOMAIN f = {y \in DOMAIN e : e[y].left > 1} /\ DOMAIN b = DOMAIN a
      /\ \A x \in DOMAIN f : f[x].left = e[x].left - 1 /\ f[x].ttl = e[x].ttl
      /\ \A x \in DOMAIN a : b[x].age = AtMost(a[x].age + 1, Long) /\ b[x].ttl = a[x].ttl
  BY DEF Lessened, Older, TablesTyped
<1>2. Long \in Nat
  BY PromptCacheAssumption
<1> HIDE DEF f, b
<1>3. ASSUME NEW x \in DOMAIN f
      PROVE  /\ x \in DOMAIN b /\ f[x].left \in Nat /\ f[x].ttl \in Nat /\ b[x].ttl <= f[x].ttl
  <2>1. x \in DOMAIN e /\ e[x].left > 1 /\ f[x].left = e[x].left - 1 /\ f[x].ttl = e[x].ttl
    BY <1>1
  <2>2. x \in DOMAIN a /\ e[x].left \in Nat /\ e[x].ttl \in Nat /\ a[x].ttl <= e[x].ttl
    BY <2>1 DEF TablesFit
  <2> QED
    BY <1>1, <2>1, <2>2
<1>4. ASSUME NEW x \in DOMAIN b
      PROVE  /\ b[x].age \in Nat /\ b[x].ttl \in 0..Long
             /\ b[x].age < b[x].ttl => x \in DOMAIN f /\ f[x].left + b[x].age >= b[x].ttl
  <2>1. /\ a[x].age \in Nat /\ a[x].ttl \in 0..Long /\ b[x].ttl = a[x].ttl
        /\ b[x].age = AtMost(a[x].age + 1, Long)
    BY <1>1 DEF TablesFit
  <2>2. b[x].age \in Nat
    BY <1>2, <2>1 DEF AtMost
  <2>3. ASSUME b[x].age < b[x].ttl
        PROVE  x \in DOMAIN f /\ f[x].left + b[x].age >= b[x].ttl
    <3>1. b[x].age = a[x].age + 1 /\ a[x].age < a[x].ttl
      BY <1>2, <2>1, <2>3 DEF AtMost
    <3>2. x \in DOMAIN e /\ e[x].left + a[x].age >= a[x].ttl
      BY <1>1, <3>1 DEF TablesFit
    <3>3. e[x].left \in Nat
      BY <3>2 DEF TablesFit
    <3>4. e[x].left > 1
      BY <1>2, <2>1, <2>3, <3>1, <3>2, <3>3
    <3>5. x \in DOMAIN f /\ f[x].left = e[x].left - 1
      BY <1>1, <3>2, <3>4
    <3> QED
      BY <1>2, <2>1, <3>1, <3>2, <3>3, <3>5
  <2> QED
    BY <2>1, <2>2, <2>3
<1>5. TablesFit(f, b)
  BY <1>3, <1>4 DEF TablesFit
<1> QED
  BY <1>5 DEF f, b

(* The same for the types.                                                   *)
LEMMA CommitTyped ==
  ASSUME NEW e, NEW a, TablesTyped(e, a), NEW P, NEW total, ArePoints(P, total)
  PROVE  TablesTyped(Put(e, P), Note(a, P))
<1>1. Long \in Nat
  BY PromptCacheAssumption
<1>2. ASSUME NEW x \in DOMAIN Put(e, P) PROVE Put(e, P)[x] \in [ttl : Nat, left : Nat]
  <2>1. CASE x \in PrefixesOf(P)
    <3>1. TtlOf(P, x) \in Nat
      BY <1>1, <2>1, TtlGiven
    <3>2. Put(e, P)[x] = Renewed(e, x, TtlOf(P, x))
      BY <2>1 DEF Put
    <3>3. x \in DOMAIN e => e[x].ttl \in Nat /\ e[x].left \in Nat
      BY DEF TablesTyped
    <3> QED
      BY <3>1, <3>2, <3>3 DEF Renewed, Remembered, AtLeast
  <2>2. CASE x \notin PrefixesOf(P)
    BY <2>2 DEF Put, TablesTyped
  <2> QED
    BY <2>1, <2>2
<1>3. ASSUME NEW x \in DOMAIN Note(a, P) PROVE Note(a, P)[x] \in [age : Nat, ttl : 0..Long]
  <2>1. CASE x \in PrefixesOf(P)
    <3>1. TtlOf(P, x) \in 0..Long
      BY <1>1, <2>1, TtlGiven
    <3>2. Note(a, P)[x] = [age |-> 0, ttl |-> TtlOf(P, x)]
      BY <2>1 DEF Note
    <3> QED
      BY <3>1, <3>2
  <2>2. CASE x \notin PrefixesOf(P)
    BY <2>2 DEF Note, TablesTyped
  <2> QED
    BY <2>1, <2>2
<1> QED
  BY <1>2, <1>3 DEF TablesTyped

LEMMA HitTyped ==
  ASSUME NEW e, NEW a, TablesTyped(e, a), NEW x \in DOMAIN e
  PROVE  TablesTyped([e EXCEPT ![x].left = e[x].ttl], a)
BY DEF TablesTyped

LEMMA TimeTyped ==
  ASSUME NEW e, NEW a, TablesTyped(e, a)
  PROVE  TablesTyped(Lessened(e), Older(a))
<1>1. Long \in Nat
  BY PromptCacheAssumption
<1>2. ASSUME NEW x \in DOMAIN Lessened(e) PROVE Lessened(e)[x] \in [ttl : Nat, left : Nat]
  <2>1. x \in DOMAIN e /\ e[x].left > 1 /\ e[x] \in [ttl : Nat, left : Nat]
    BY DEF Lessened, TablesTyped
  <2>2. Lessened(e)[x] = [e[x] EXCEPT !.left = e[x].left - 1]
    BY DEF Lessened
  <2> QED
    BY <2>1, <2>2
<1>3. ASSUME NEW x \in DOMAIN Older(a) PROVE Older(a)[x] \in [age : Nat, ttl : 0..Long]
  <2>1. x \in DOMAIN a /\ a[x] \in [age : Nat, ttl : 0..Long]
    BY DEF Older, TablesTyped
  <2>2. Older(a)[x] = [a[x] EXCEPT !.age = AtMost(a[x].age + 1, Long)]
    BY <2>1 DEF Older
  <2>3. AtMost(a[x].age + 1, Long) \in Nat
    BY <1>1, <2>1 DEF AtMost
  <2> QED
    BY <2>1, <2>2, <2>3
<1> QED
  BY <1>2, <1>3 DEF TablesTyped
-----------------------------------------------------------------------------
(* What a plan says of its request.                                          *)
Fair(x) ==
  /\ x.ns \in Namespaces /\ ArePoints(x.points, x.total)
  /\ MakesUp(x.usage, x.total) /\ x.usage.input > 0
  /\ x.usage.read > 0 => x.forced \/ x.known
  /\ x.fresh => x.usage.read > 0

(* What is remembered fits the history, and every plan is fair.              *)
UsageInv ==
  /\ DOMAIN entries = Namespaces /\ DOMAIN answered = Namespaces /\ DOMAIN plan = Askers
  /\ \A n \in Namespaces : TablesTyped(entries[n], answered[n]) /\ TablesFit(entries[n], answered[n])
  /\ \A q \in Planned : Fair(plan[q])

(* compute finds the latest breakpoint that is remembered.                   *)
LEMMA MatchedIs ==
  ASSUME NEW ns, NEW P, NEW total, ArePoints(P, total)
  PROVE  /\ Matched(ns, P) \in 0..Len(P)
         /\ Matched(ns, P) # 0 => P[Matched(ns, P)].prefix \in DOMAIN entries[ns]
         /\ \A i \in DOMAIN P :
              i > Len(P) - Lookback /\ P[i].prefix \in DOMAIN entries[ns] => i <= Matched(ns, P)
<1> DEFINE S == {0} \cup {i \in DOMAIN P :
                            i > Len(P) - Lookback /\ P[i].prefix \in DOMAIN entries[ns]}
<1>1. S \in SUBSET (0..Len(P)) /\ S # {} /\ Len(P) \in Nat
  BY DEF ArePoints
<1>2. Matched(ns, P) = Max(S)
  BY DEF Matched
<1> HIDE DEF S
<1>3. Max(S) \in S /\ \A i \in S : i <= Max(S)
  BY <1>1, MaxOfBounded
<1> QED
  BY <1>1, <1>2, <1>3 DEF S

(* Nothing is remembered and nothing planned ...                             *)
LEMMA UsageInit == CacheInit => UsageInv
<1> SUFFICES ASSUME CacheInit PROVE UsageInv
  OBVIOUS
<1>1. Planned = {}
  BY DEF CacheInit, Planned
<1>2. \A n \in Namespaces : entries[n] = <<>> /\ answered[n] = <<>>
  BY DEF CacheInit
<1>3. TablesTyped(<<>>, <<>>) /\ TablesFit(<<>>, <<>>)
  BY DEF TablesTyped, TablesFit
<1> QED
  BY <1>1, <1>2, <1>3 DEF UsageInv, CacheInit

(* ... and every step keeps what is remembered in line with the history.     *)
LEMMA PassesKeep == ASSUME UsageInv, Passes PROVE UsageInv'
<1>1. /\ entries' = [n \in Namespaces |-> Lessened(entries[n])]
      /\ answered' = [n \in Namespaces |-> Older(answered[n])] /\ plan' = plan
  BY DEF Passes, Lessened, Older
<1>2. \A n \in Namespaces : TablesTyped(entries'[n], answered'[n]) /\ TablesFit(entries'[n], answered'[n])
  BY <1>1, TimeFits, TimeTyped DEF UsageInv
<1>3. \A q \in Planned' : Fair(plan'[q])
  BY <1>1 DEF UsageInv, Planned
<1> QED
  BY <1>1, <1>2, <1>3 DEF UsageInv, Fair

LEMMA SucceedsKeeps == ASSUME UsageInv, NEW q \in Askers, Succeeds(q) PROVE UsageInv'
<1> DEFINE ns == plan[q].ns
           P == plan[q].points
<1>1. ns \in Namespaces /\ ArePoints(P, plan[q].total)
  BY DEF UsageInv, Planned, Fair, Succeeds
<1>2. /\ entries' = [entries EXCEPT ![ns] = Put(entries[ns], P)]
      /\ answered' = [answered EXCEPT ![ns] = Note(answered[ns], P)]
      /\ plan' = [plan EXCEPT ![q] = NoPlan]
  BY DEF Succeeds
<1> HIDE DEF ns, P
<1>3. ASSUME NEW n \in Namespaces
      PROVE  TablesTyped(entries'[n], answered'[n]) /\ TablesFit(entries'[n], answered'[n])
  <2>1. TablesTyped(entries[n], answered[n]) /\ TablesFit(entries[n], answered[n])
    BY DEF UsageInv
  <2>2. CASE n = ns
    <3>1. entries'[n] = Put(entries[n], P) /\ answered'[n] = Note(answered[n], P)
      BY <1>1, <1>2, <2>2 DEF UsageInv
    <3> QED
      BY <1>1, <2>1, <3>1, CommitFits, CommitTyped
  <2>3. CASE n # ns
    <3>1. entries'[n] = entries[n] /\ answered'[n] = answered[n]
      BY <1>2, <2>3 DEF UsageInv
    <3> QED
      BY <2>1, <3>1
  <2> QED
    BY <2>2, <2>3
<1>4. \A r \in Planned' : r \in Planned /\ plan'[r] = plan[r]
  BY <1>2 DEF Planned, UsageInv
<1>5. DOMAIN entries' = Namespaces /\ DOMAIN answered' = Namespaces /\ DOMAIN plan' = Askers
  BY <1>2 DEF UsageInv
<1>6. \A r \in Planned' : Fair(plan'[r])
  BY <1>4 DEF UsageInv
<1> QED
  BY <1>3, <1>5, <1>6 DEF UsageInv, Fair

LEMMA FailsKeeps == ASSUME UsageInv, NEW q \in Askers, Fails(q) PROVE UsageInv'
<1>1. UNCHANGED <<entries, answered>> /\ plan' = [plan EXCEPT ![q] = NoPlan]
  BY DEF Fails
<1>2. \A r \in Planned' : r \in Planned /\ plan'[r] = plan[r]
  BY <1>1 DEF Planned, UsageInv
<1>3. \A r \in Planned' : Fair(plan'[r])
  BY <1>2 DEF UsageInv
<1> QED
  BY <1>1, <1>3 DEF UsageInv, Fair

LEMMA EstimateKeeps ==
  ASSUME UsageInv, NEW q \in Askers, NEW ns \in Namespaces, NEW p \in Prompts,
         NEW policy \in Policies, Estimate(q, ns, p, policy)
  PROVE  UsageInv'
<1> DEFINE P == Profile[<<p, policy>>]
           m == Matched(ns, P)
           u == UsageOf(p, policy, m, P)
           sent(i) == P[i].prefix \in DOMAIN answered[ns]
           lasts(i) == LET a == answered[ns][P[i].prefix] IN a.age < a.ttl
           known == \E i \in DOMAIN P : sent(i)
           fresh == policy.read = 100 /\ \E i \in DOMAIN P :
                      /\ i > Len(P) - Lookback /\ P[i].tokens > 0
                      /\ sent(i) /\ lasts(i)
           x == [ns |-> ns, total |-> p.total, usage |-> u, points |-> P,
                 forced |-> policy.force, known |-> known, fresh |-> fresh]
<1>1. /\ P # <<>> /\ answered' = answered
      /\ entries' = IF m = 0 THEN entries ELSE Refreshed(ns, P[m].prefix)
      /\ plan' = IF u.read + u.creation = 0 THEN plan ELSE [plan EXCEPT ![q] = x]
  <2>1. PICK points \in {P} :
          LET matched == Matched(ns, points)
              usage   == UsageOf(p, policy, matched, points)
              there(i) == points[i].prefix \in DOMAIN answered[ns]
              younger(i) == LET b == answered[ns][points[i].prefix] IN b.age < b.ttl
          IN /\ points # <<>>
             /\ entries' = IF matched = 0 THEN entries
                           ELSE Refreshed(ns, points[matched].prefix)
             /\ plan' = IF usage.read + usage.creation = 0 THEN plan
                        ELSE [plan EXCEPT ![q] =
                          [ns |-> ns, total |-> p.total, usage |-> usage, points |-> points,
                           forced |-> policy.force,
                           known |-> \E i \in DOMAIN points : there(i),
                           fresh |-> policy.read = 100 /\ \E i \in DOMAIN points :
                             /\ i > Len(points) - Lookback /\ points[i].tokens > 0
                             /\ there(i) /\ younger(i)]]
             /\ answered' = answered
    BY DEF Estimate
  <2>2. points = P
    BY <2>1
  <2> QED
    BY <2>1, <2>2
<1>2. ArePoints(P, p.total)
  BY PointsAre
<1> HIDE DEF P
<1>3. /\ m \in 0..Len(P)
      /\ m # 0 => P[m].prefix \in DOMAIN entries[ns]
      /\ \A i \in DOMAIN P :
           i > Len(P) - Lookback /\ P[i].prefix \in DOMAIN entries[ns] => i <= m
  BY <1>2, MatchedIs
<1>4. TablesTyped(entries[ns], answered[ns]) /\ TablesFit(entries[ns], answered[ns])
  BY DEF UsageInv
<1> HIDE DEF m
<1>5. ASSUME NEW n \in Namespaces
      PROVE  TablesTyped(entries'[n], answered'[n]) /\ TablesFit(entries'[n], answered'[n])
  <2>1. TablesTyped(entries[n], answered[n]) /\ TablesFit(entries[n], answered[n])
    BY DEF UsageInv
  <2>2. CASE m # 0 /\ n = ns
    <3> DEFINE y == P[m].prefix
               e == entries[n]
    <3>1. entries'[n] = [e EXCEPT ![y].left = e[y].ttl] /\ y \in DOMAIN e
      BY <1>1, <1>3, <2>2 DEF Refreshed, UsageInv
    <3> HIDE DEF e, y
    <3>2. TablesTyped(e, answered[n]) /\ TablesFit(e, answered[n])
      BY <2>1 DEF e
    <3> QED
      BY <1>1, <3>1, <3>2, HitFits, HitTyped
  <2>3. CASE m = 0 \/ n # ns
    <3>1. entries'[n] = entries[n]
      BY <1>1, <2>3 DEF Refreshed, UsageInv
    <3> QED
      BY <1>1, <2>1, <3>1
  <2> QED
    BY <2>2, <2>3
<1>6. DOMAIN entries' = Namespaces /\ DOMAIN answered' = Namespaces /\ DOMAIN plan' = Askers
  BY <1>1 DEF Refreshed, UsageInv
<1>7. /\ MakesUp(u, p.total) /\ u.input > 0
      /\ u.read > 0 => policy.force \/ m # 0
      /\ policy.read = 100 /\ u.read + u.creation # 0
         /\ (IF policy.force THEN Last(P).tokens > 0 ELSE m # 0 /\ P[m].tokens > 0)
         => u.read > 0
  BY <1>1, <1>2, <1>3, UsageIsWhole
<1> HIDE DEF u
<1>8. u.read > 0 => policy.force \/ known
  <2>1. SUFFICES ASSUME m # 0 PROVE known
    BY <1>7
  <2>2. m \in DOMAIN P /\ P[m].prefix \in DOMAIN entries[ns]
    BY <1>2, <1>3, <2>1 DEF ArePoints
  <2>3. P[m].prefix \in DOMAIN answered[ns]
    BY <1>4, <2>2 DEF TablesFit
  <2> QED
    BY <2>2, <2>3
<1>9. ASSUME fresh, u.read + u.creation # 0 PROVE u.read > 0
  <2>1. PICK i \in DOMAIN P :
          i > Len(P) - Lookback /\ P[i].tokens > 0 /\ sent(i) /\ lasts(i)
    BY <1>9
  <2>2. P[i].prefix \in DOMAIN entries[ns]
    BY <1>4, <2>1 DEF TablesFit
  <2>3. i <= m /\ i \in 1..Len(P) /\ Len(P) \in Nat
    BY <1>2, <1>3, <2>1, <2>2 DEF ArePoints
  <2>4. m \in 1..Len(P) /\ m # 0 /\ i <= Len(P) /\ Len(P) \in 1..Len(P)
    BY <1>3, <2>3
  <2>5. P[i].tokens <= P[m].tokens /\ P[i].tokens <= P[Len(P)].tokens
    BY <1>2, <2>3, <2>4 DEF ArePoints
  <2>6. /\ P[i].tokens \in 0..p.total /\ P[m].tokens \in 0..p.total
        /\ P[Len(P)].tokens \in 0..p.total /\ p.total \in Nat
    BY <1>2, <2>3, <2>4, PromptCacheAssumption DEF ArePoints, IsPrompt
  <2>7. P[m].tokens > 0 /\ Last(P).tokens > 0
    BY <2>1, <2>5, <2>6 DEF Last
  <2>8. policy.read = 100
    BY <1>9
  <2> QED
    BY <1>7, <1>9, <2>4, <2>7, <2>8
<1> HIDE DEF known, fresh
<1>10. u.read + u.creation # 0 => Fair(x)
  <2>1. /\ x.ns = ns /\ x.total = p.total /\ x.usage = u /\ x.points = P
        /\ x.forced = policy.force /\ x.known = known /\ x.fresh = fresh
    OBVIOUS
  <2> HIDE DEF x
  <2> QED
    BY <1>2, <1>7, <1>8, <1>9, <2>1 DEF Fair
<1> HIDE DEF x
<1>11. ASSUME NEW r \in Planned' PROVE Fair(plan'[r])
  <2>1. CASE u.read + u.creation = 0 \/ r # q
    <3>1. plan'[r] = plan[r] /\ r \in Planned
      BY <1>1, <2>1 DEF UsageInv, Planned
    <3> QED
      BY <3>1 DEF UsageInv
  <2>2. CASE ~(u.read + u.creation = 0) /\ r = q
    <3>1. plan'[r] = x
      BY <1>1, <2>2 DEF UsageInv
    <3> QED
      BY <1>10, <2>2, <3>1
  <2> QED
    BY <2>1, <2>2
<1> QED
  BY <1>5, <1>6, <1>11 DEF UsageInv, Fair

LEMMA UsageNext == UsageInv /\ [CacheNext]_cacheVars => UsageInv'
<1> SUFFICES ASSUME UsageInv, [CacheNext]_cacheVars PROVE UsageInv'
  OBVIOUS
<1>1. CASE Passes
  BY <1>1, PassesKeep
<1>2. CASE \E q \in Askers : Succeeds(q) \/ Fails(q)
  BY <1>2, SucceedsKeeps, FailsKeeps
<1>3. CASE \E q \in Askers : \E ns \in Namespaces, p \in Prompts, policy \in Policies :
             Estimate(q, ns, p, policy)
  BY <1>3, EstimateKeeps
<1>4. CASE UNCHANGED cacheVars
  BY <1>4 DEF UsageInv, Fair, Planned, cacheVars
<1> QED
  BY <1>1, <1>2, <1>3, <1>4 DEF CacheNext

(* A plan that is fair is billed as it should be.                            *)
LEMMA FairIsSound == UsageInv => UsageSound
<1> SUFFICES ASSUME UsageInv, NEW q \in Planned
             PROVE  /\ LET u == plan[q].usage IN
                       /\ u.input + u.read + u.creation = plan[q].total
                       /\ u.short + u.long = u.creation
                       /\ u.input > 0 /\ u.read >= 0 /\ u.creation >= 0
                    /\ plan[q].usage.read > 0 => plan[q].forced \/ plan[q].known
                    /\ plan[q].fresh => plan[q].usage.read > 0
  BY DEF UsageSound, UsageAddsUp, ReadsWereAnswered, FreshIsRead
<1>1. Fair(plan[q])
  BY DEF UsageInv
<1>2. plan[q].usage.read >= 0 /\ plan[q].usage.creation >= 0
  BY <1>1 DEF Fair, MakesUp
<1> QED
  BY <1>1, <1>2 DEF Fair, MakesUp

(* cache.go:31: whatever the prompts, the policies and the namespaces, and   *)
(* in whatever order requests are estimated, succeed, fail or expire: the    *)
(* parts of a usage add up to the tokens of the request, only what was       *)
(* answered is read, and what was answered within its lifetime is read.      *)
THEOREM UsageIsSound == CacheSpec => []UsageSound
<1>1. UsageInv /\ [CacheNext]_cacheVars => UsageInv'
  BY UsageNext
<1> QED
  BY UsageInit, <1>1, FairIsSound, PTL DEF CacheSpec

-----------------------------------------------------------------------------
(* MCAdmission explores the parts side by side; each behaves as its module   *)
(* says.                                                                     *)

LEMMA RunIsGate == Init /\ [][Next]_vars => GateSpec
<1>1. Init => GateInit
  BY DEF Init
<1>2. [Next]_vars => [GateNext]_gateVars
  <2> SUFFICES ASSUME [Next]_vars PROVE GateNext \/ UNCHANGED gateVars
    BY Zenon
  <2>1. CASE UNCHANGED vars
    BY <2>1, Zenon DEF vars
  <2>2. CASE part = "gate" /\ Next
    BY <2>2, Zenon DEF Next, Gate, Breaker, Chatting, Messages, Cache, GateNext, HandlerStep
  <2>3. CASE part # "gate" /\ Next
    BY <2>3, Zenon DEF Next, Gate, Breaker, Chatting, Messages, Cache
  <2> QED
    BY <2>1, <2>2, <2>3
<1> QED
  BY <1>1, <1>2, PTL DEF GateSpec

LEMMA RunIsStorm == Init /\ [][Next]_vars => StormSpec
<1>1. Init => StormInit
  BY DEF Init
<1>2. [Next]_vars => [StormNext]_stormVars
  <2> SUFFICES ASSUME [Next]_vars PROVE StormNext \/ UNCHANGED stormVars
    BY Zenon
  <2>1. CASE UNCHANGED vars
    BY <2>1, Zenon DEF vars
  <2>2. CASE part = "breaker" /\ Next
    BY <2>2, Zenon DEF Next, Gate, Breaker, Chatting, Messages, Cache, StormNext
  <2>3. CASE part # "breaker" /\ Next
    BY <2>3, Zenon DEF Next, Gate, Breaker, Chatting, Messages, Cache
  <2> QED
    BY <2>1, <2>2, <2>3
<1> QED
  BY <1>1, <1>2, PTL DEF StormSpec

LEMMA RunIsChat == Init /\ [][Next]_vars => ChatSpec
<1>1. Init => ChatInit
  BY DEF Init
<1>2. [Next]_vars => [ChatNext]_chatVars
  <2> SUFFICES ASSUME [Next]_vars PROVE ChatNext \/ UNCHANGED chatVars
    BY Zenon
  <2>1. CASE UNCHANGED vars
    BY <2>1, Zenon DEF vars
  <2>2. CASE part = "chat" /\ Next
    BY <2>2, Zenon DEF Next, Gate, Breaker, Chatting, Messages, Cache, ChatNext
  <2>3. CASE part # "chat" /\ Next
    BY <2>3, Zenon DEF Next, Gate, Breaker, Chatting, Messages, Cache
  <2> QED
    BY <2>1, <2>2, <2>3
<1> QED
  BY <1>1, <1>2, PTL DEF ChatSpec

LEMMA RunIsClaude == Init /\ [][Next]_vars => ClaudeSpec
<1>1. Init => ClaudeInit
  BY DEF Init
<1>2. [Next]_vars => [ClaudeNext]_claudeVars
  <2> SUFFICES ASSUME [Next]_vars PROVE ClaudeNext \/ UNCHANGED claudeVars
    BY Zenon
  <2>1. CASE UNCHANGED vars
    BY <2>1, Zenon DEF vars
  <2>2. CASE part = "claude" /\ Next
    BY <2>2, Zenon DEF Next, Gate, Breaker, Chatting, Messages, Cache, ClaudeNext
  <2>3. CASE part # "claude" /\ Next
    BY <2>3, Zenon DEF Next, Gate, Breaker, Chatting, Messages, Cache
  <2> QED
    BY <2>1, <2>2, <2>3
<1> QED
  BY <1>1, <1>2, PTL DEF ClaudeSpec

LEMMA RunIsCache == Init /\ [][Next]_vars => CacheSpec
<1>1. Init => CacheInit
  BY DEF Init
<1>2. [Next]_vars => [CacheNext]_cacheVars
  <2> SUFFICES ASSUME [Next]_vars PROVE CacheNext \/ UNCHANGED cacheVars
    BY Zenon
  <2>1. CASE UNCHANGED vars
    BY <2>1, Zenon DEF vars
  <2>2. CASE part \in {"askers", "namespaces"} /\ Next
    BY <2>2, Zenon DEF Next, Gate, Breaker, Chatting, Messages, Cache, CacheNext
  <2>3. CASE part \notin {"askers", "namespaces"} /\ Next
    BY <2>3, Zenon DEF Next, Gate, Breaker, Chatting, Messages, Cache
  <2> QED
    BY <2>1, <2>2, <2>3
<1> QED
  BY <1>1, <1>2, PTL DEF CacheSpec

(* The properties of the run, whatever its constants: the entry gate gives   *)
(* no slot twice, the breaker counts what happened, the replies of both chat *)
(* handlers are complete and made of one round, and what is reported of the  *)
(* prompt cache adds up and was answered.                                    *)
THEOREM AdmissionIsSound ==
  Spec => /\ []GateSound /\ []RingExact
          /\ []ChatMessage /\ ChatReplies /\ []ClaudeMessage /\ ClaudeReplies
          /\ []UsageSound
<1>1. Spec => Init /\ [][Next]_vars
  BY PTL DEF Spec
<1>2. Spec => []GateSound /\ []RingExact
  BY <1>1, RunIsGate, RunIsStorm, GateIsSound, RingIsExact, PTL
<1>3. Spec => []ChatMessage /\ ChatReplies
  BY <1>1, RunIsChat, ChatSaysAll, ChatIsReply, PTL
<1>4. Spec => []ClaudeMessage /\ ClaudeReplies
  BY <1>1, RunIsClaude, ClaudeSaysAll, ClaudeIsReply, PTL
<1>5. Spec => []UsageSound
  BY <1>1, RunIsCache, UsageIsSound, PTL
<1> QED
  BY <1>2, <1>3, <1>4, <1>5, PTL
=============================================================================
