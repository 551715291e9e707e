----------------------- MODULE RawShredDecoderProofs -----------------------
EXTENDS RawShredDecoder, FunctionTheorems, FiniteSetTheorems,
        WellFoundedInduction, TLAPS

-----------------------------------------------------------------------------
(* Facts about sets of numbers and of shreds. *)

\* A nonempty set of naturals has a least element.
LEMMA LeastNatural ==
  ASSUME NEW S \in SUBSET Nat, S # {}
  PROVE  \E m \in S : \A k \in S : m <= k
<1>1. OpToRel(<, Nat) = {ss \in Nat \X Nat : ss[1] < ss[2]}
  BY Zenon DEF OpToRel
<1>2. PICK m \in S : \A k \in S : ~ (<<k, m>> \in OpToRel(<, Nat))
  BY NatLessThanWellFounded, WFMin, Zenon
<1>3. \A k \in S : ~ (<<k, m>> \in {ss \in Nat \X Nat : ss[1] < ss[2]})
  BY <1>1, <1>2, Zenon
<1>4. ASSUME NEW k \in S, k < m PROVE FALSE
  <2>1. <<k, m>> \in Nat \X Nat /\ <<k, m>>[1] < <<k, m>>[2]
    BY <1>4
  <2> QED
    BY <1>3, <2>1, Zenon
<1>5. \A k \in S : k \in Nat /\ m \in Nat
  OBVIOUS
<1> QED
  BY <1>4, <1>5

\* Indices are bounded, so a nonempty set of data shreds has one of highest
\* index: the CHOOSE of CursorAfter is well defined.
LEMMA HighestShred ==
  ASSUME NEW S \in SUBSET DataShred, S # {}
  PROVE  \E d \in S : \A e \in S : e.index <= d.index
<1> DEFINE Ups == {k \in Nat : \A e \in S : e.index <= k}
<1>1. MaxIndex \in Nat
  BY LimitAssumption
<1>2. \A e \in S : e.index \in 0 .. (MaxIndex - 1)
  BY DEF DataShred
<1>3. MaxIndex \in Ups
  BY <1>1, <1>2
<1>4. PICK m \in Ups : \A k \in Ups : m <= k
  BY <1>3, LeastNatural
<1>5. \E d \in S : d.index = m
  <2> SUFFICES ASSUME \A d \in S : d.index # m PROVE FALSE
    OBVIOUS
  <2>1. PICK d \in S : TRUE
    OBVIOUS
  <2>2. m > 0
    BY <1>2, <1>4, <2>1, <1>1
  <2>3. m - 1 \in Ups
    BY <1>2, <1>4, <2>2, <1>1
  <2> QED
    BY <1>4, <2>3
<1> QED
  BY <1>4, <1>5

LEMMA CursorAfterType ==
  ASSUME NEW S \in SUBSET DataShred, NEW n \in Nat
  PROVE  CursorAfter(S, n) \in Nat
<1>1. CASE S = {}
  BY <1>1 DEF CursorAfter
<1>2. CASE S # {}
  <2> DEFINE top == CHOOSE d \in S : \A e \in S : e.index <= d.index
  <2>1. top \in S
    BY <1>2, HighestShred
  <2>2. top.index \in Nat
    BY <2>1, LimitAssumption DEF DataShred
  <2>3. CursorAfter(S, n) = top.index + 1
    BY <1>2 DEF CursorAfter
  <2> QED
    BY <2>2, <2>3
<1> QED
  BY <1>1, <1>2

\* Splitting a finite set of shreds by slot.
LEMMA SplitBySlot ==
  ASSUME NEW X, IsFiniteSet(X), NEW S
  PROVE  /\ IsFiniteSet(OfSlots(X, S)) /\ IsFiniteSet(NotOfSlots(X, S))
         /\ Cardinality(OfSlots(X, S)) \in Nat
         /\ Cardinality(NotOfSlots(X, S)) \in Nat
         /\ Cardinality(X)
              = Cardinality(OfSlots(X, S)) + Cardinality(NotOfSlots(X, S))
<1>1. /\ OfSlots(X, S) \in SUBSET X /\ NotOfSlots(X, S) \in SUBSET X
      /\ NotOfSlots(X, S) = X \ OfSlots(X, S)
      /\ X \cap OfSlots(X, S) = OfSlots(X, S)
  BY DEF OfSlots, NotOfSlots
<1>2. IsFiniteSet(OfSlots(X, S)) /\ IsFiniteSet(NotOfSlots(X, S))
  BY <1>1, FS_Subset
<1>3. /\ Cardinality(X) \in Nat /\ Cardinality(OfSlots(X, S)) \in Nat
      /\ Cardinality(NotOfSlots(X, S)) \in Nat
  BY <1>2, FS_CardinalityType
<1>4. Cardinality(NotOfSlots(X, S)) = Cardinality(X) - Cardinality(OfSlots(X, S))
  BY <1>1, FS_Difference
<1> QED
  BY <1>2, <1>3, <1>4

\* Removing a part of a finite set.
LEMMA SplitByPart ==
  ASSUME NEW X, IsFiniteSet(X), NEW Y \in SUBSET X
  PROVE  /\ IsFiniteSet(Y) /\ IsFiniteSet(X \ Y)
         /\ Cardinality(Y) \in Nat /\ Cardinality(X \ Y) \in Nat
         /\ Cardinality(X) = Cardinality(Y) + Cardinality(X \ Y)
<1>1. IsFiniteSet(Y) /\ IsFiniteSet(X \ Y) /\ X \cap Y = Y
  BY FS_Subset
<1>2. Cardinality(X \ Y) = Cardinality(X) - Cardinality(Y)
  BY <1>1, FS_Difference
<1>3. Cardinality(X) \in Nat /\ Cardinality(Y) \in Nat /\ Cardinality(X \ Y) \in Nat
  BY <1>1, FS_CardinalityType
<1> QED
  BY <1>1, <1>2, <1>3

\* Joining two disjoint finite sets.
LEMMA JoinDisjoint ==
  ASSUME NEW X, IsFiniteSet(X), NEW Y, IsFiniteSet(Y), X \cap Y = {}
  PROVE  /\ IsFiniteSet(X \cup Y)
         /\ Cardinality(X) \in Nat /\ Cardinality(Y) \in Nat
         /\ Cardinality(X \cup Y) = Cardinality(X) + Cardinality(Y)
<1>1. Cardinality(X) \in Nat /\ Cardinality(Y) \in Nat
  BY FS_CardinalityType
<1>2. Cardinality(X \cap Y) = 0
  BY FS_EmptySet
<1>3. /\ IsFiniteSet(X \cup Y)
      /\ Cardinality(X \cup Y)
           = Cardinality(X) + Cardinality(Y) - Cardinality(X \cap Y)
  BY FS_Union
<1> QED
  BY <1>1, <1>2, <1>3

-----------------------------------------------------------------------------
(* The stages of push_packet. *)

LEMMA ShredKinds ==
  ASSUME NEW p \in Packet, Parses(p)
  PROVE  /\ p.shred \in DataShred \cup CodeShred
         /\ p.shred.slot \in Slot
         /\ p.shred.kind = "data" <=> p.shred \in DataShred
         /\ p.shred.kind = "code" <=> p.shred \in CodeShred
<1>1. p.shred \in DataShred \cup CodeShred
  BY PacketAssumption DEF Parses
<1> QED
  BY <1>1 DEF DataShred, CodeShred

\* Storing a shred adds exactly one shred to what the admission left.
LEMMA InsertFacts ==
  ASSUME TypeOK, NEW p \in Packet, Parses(p), Inserts(p.shred)
  PROVE  LET x == p.shred
             V == Victims(x.slot)
         IN /\ DataWith(x) \subseteq DataShred /\ IsFiniteSet(DataWith(x))
            /\ CodeWith(x) \subseteq CodeShred /\ IsFiniteSet(CodeWith(x))
            /\ Cardinality(DataWith(x)) \in Nat
            /\ Cardinality(CodeWith(x)) \in Nat
            /\ Cardinality(DataWith(x)) + Cardinality(CodeWith(x))
                 = Cardinality(NotOfSlots(data, V))
                     + Cardinality(NotOfSlots(code, V)) + 1
<1> DEFINE x == p.shred
           V == Victims(x.slot)
           D0 == NotOfSlots(data, V)
           C0 == NotOfSlots(code, V)
<1>1. /\ IsFiniteSet(D0) /\ Cardinality(D0) \in Nat
      /\ IsFiniteSet(C0) /\ Cardinality(C0) \in Nat
  BY SplitBySlot DEF TypeOK
<1>2. D0 \subseteq DataShred /\ C0 \subseteq CodeShred
  BY DEF TypeOK, NotOfSlots
<1>3. CASE x \in DataShred
  <2>1. x.kind = "data" /\ x.kind # "code"
    BY <1>3 DEF DataShred
  <2>2. x \notin D0
    BY <2>1 DEF Inserts, InsertsData, DataAt, NotOfSlots
  <2>3. DataWith(x) = D0 \cup {x} /\ CodeWith(x) = C0
    BY <2>1 DEF DataWith, CodeWith
  <2>4. /\ IsFiniteSet(D0 \cup {x})
        /\ Cardinality(D0 \cup {x}) = Cardinality(D0) + 1
    BY <1>1, <2>2, FS_AddElement
  <2> QED
    BY <1>1, <1>2, <1>3, <2>3, <2>4
<1>4. CASE x \in CodeShred
  <2>1. x.kind = "code" /\ x.kind # "data"
    BY <1>4 DEF CodeShred
  <2>2. x \notin C0
    BY <2>1 DEF Inserts, InsertsCode, CodingSet, NotOfSlots
  <2>3. DataWith(x) = D0 /\ CodeWith(x) = C0 \cup {x}
    BY <2>1 DEF DataWith, CodeWith
  <2>4. /\ IsFiniteSet(C0 \cup {x})
        /\ Cardinality(C0 \cup {x}) = Cardinality(C0) + 1
    BY <1>1, <2>2, FS_AddElement
  <2> QED
    BY <1>1, <1>2, <1>4, <2>3, <2>4
<1> QED
  BY <1>3, <1>4, ShredKinds

\* Recovery adds data shreds of the set's slot, at indices that were vacant.
LEMMA RestoredFacts ==
  ASSUME NEW D \in SUBSET DataShred, NEW P \in SUBSET CodeShred
  PROVE  /\ Restored(D, P) \subseteq DataShred
         /\ IsFiniteSet(Restored(D, P))
         /\ D \cap Restored(D, P) = {}
         /\ \A r \in Restored(D, P) :
              /\ Recovers(D, P)
              /\ r.slot = HeaderOf(P).slot
              /\ r.index >= next[HeaderOf(P).slot]
              /\ DataAt(D, r.slot, r.index) = {}
<1>1. CASE ~ Recovers(D, P)
  <2>1. Restored(D, P) = {}
    BY <1>1 DEF Restored
  <2> QED
    BY <2>1, FS_EmptySet
<1>2. CASE Recovers(D, P)
  <2> DEFINE h == HeaderOf(P)
             S == {r \in Original[h.root] :
                     r.index >= next[h.slot] /\ DataAt(D, h.slot, r.index) = {}}
             T == {[o EXCEPT !.sig = h.sig] : o \in S}
             f == [o \in S |-> [o EXCEPT !.sig = h.sig]]
  <2>1. h \in P
    BY <1>2 DEF Recovers, AttemptsRecovery, Recoverable, HeaderOf
  <2>2. /\ h.sig \in Sig /\ h.root \in DOMAIN Original
        /\ \A o \in Original[h.root] : o.slot = h.slot
    BY <1>2, <2>1 DEF Recovers, Reconstructs, CodeShred
  <2>3. S \subseteq DataShred /\ IsFiniteSet(S)
    <3>1. Original[h.root] \subseteq DataShred /\ IsFiniteSet(Original[h.root])
      BY <2>2, OriginalAssumption
    <3> QED
      BY <3>1, FS_Subset
  <2>4. Restored(D, P) = T
    BY <1>2 DEF Restored
  <2>5. \A o \in S : /\ [o EXCEPT !.sig = h.sig] \in DataShred
                     /\ [o EXCEPT !.sig = h.sig].slot = h.slot
                     /\ [o EXCEPT !.sig = h.sig].index = o.index
    BY <2>2, <2>3 DEF DataShred
  <2>6. IsFiniteSet(T)
    <3>1. f \in Surjection(S, T)
      BY DEF Surjection
    <3> QED
      BY <2>3, <3>1, FS_Surjection DEF ExistsSurjection
  <2>7. \A r \in T : /\ r.slot = h.slot /\ r.index >= next[h.slot]
                     /\ DataAt(D, r.slot, r.index) = {}
    BY <2>5
  <2>8. D \cap T = {}
    BY <2>7 DEF DataAt
  <2> QED
    BY <1>2, <2>4, <2>5, <2>6, <2>7, <2>8
<1> QED
  BY <1>1, <1>2

-----------------------------------------------------------------------------
(* Types and the counter. *)

CountInv == TypeOK /\ BufferedCount

\* remove_slot_state keeps the counter exact.
LEMMA RemovalCounts ==
  ASSUME CountInv, NEW V
  PROVE  /\ NotOfSlots(data, V) \subseteq DataShred
         /\ NotOfSlots(code, V) \subseteq CodeShred
         /\ IsFiniteSet(NotOfSlots(data, V)) /\ IsFiniteSet(NotOfSlots(code, V))
         /\ Held(data, code, V) \in Nat
         /\ buffered - Held(data, code, V)
              = Cardinality(NotOfSlots(data, V)) + Cardinality(NotOfSlots(code, V))
         /\ buffered - Held(data, code, V) \in Nat
<1>1. IsFiniteSet(data) /\ IsFiniteSet(code)
  BY DEF CountInv, TypeOK
<1>2. /\ NotOfSlots(data, V) \subseteq DataShred
      /\ NotOfSlots(code, V) \subseteq CodeShred
  BY DEF CountInv, TypeOK, NotOfSlots
<1> QED
  BY <1>1, <1>2, SplitBySlot DEF CountInv, BufferedCount, Held

LEMMA ResetType ==
  ASSUME NEW f \in [Slot -> Nat], NEW S
  PROVE  Reset(f, S) \in [Slot -> Nat]
BY DEF Reset

LEMMA InitCount == Init => CountInv
<1>1. IsFiniteSet({}) /\ Cardinality({}) = 0
  BY FS_EmptySet
<1> QED
  BY <1>1 DEF Init, CountInv, TypeOK, BufferedCount

LEMMA DropCount ==
  ASSUME CountInv, NEW p \in Packet, DropPacket(p)
  PROVE  CountInv'
BY DEF CountInv, TypeOK, BufferedCount, DropPacket

LEMMA RejectCount ==
  ASSUME CountInv, NEW p \in Packet, RejectShred(p)
  PROVE  CountInv'
<1> DEFINE V == Victims(p.shred.slot)
<1>1. /\ slots' = slots \ V /\ complete' = complete \ V
      /\ next' = Reset(next, V) /\ active' = Reset(active, V)
      /\ data' = NotOfSlots(data, V) /\ code' = NotOfSlots(code, V)
      /\ failed' \subseteq failed /\ misled' \subseteq misled
      /\ buffered' = buffered - Held(data, code, V)
      /\ out' = {} /\ watermark' = watermark
  BY DEF RejectShred
<1> HIDE DEF V
<1>2. next' \in [Slot -> Nat] /\ active' \in [Slot -> Nat]
  BY <1>1, ResetType DEF CountInv, TypeOK
<1> QED
  BY <1>1, <1>2, RemovalCounts DEF CountInv, TypeOK, BufferedCount

LEMMA EvictCount ==
  ASSUME CountInv, NEW now \in Time, EvictStaleSlots(now)
  PROVE  CountInv'
<1> DEFINE V == StaleSlots(now)
<1>1. /\ slots' = slots \ V /\ complete' = complete
      /\ next' = Reset(next, V) /\ active' = Reset(active, V)
      /\ data' = NotOfSlots(data, V) /\ code' = NotOfSlots(code, V)
      /\ failed' \subseteq failed /\ misled' \subseteq misled
      /\ buffered' = buffered - Held(data, code, V)
      /\ out' = {} /\ watermark' = watermark
  BY DEF EvictStaleSlots
<1>2. V \cap complete = {}
  BY DEF StaleSlots
<1> HIDE DEF V
<1>3. next' \in [Slot -> Nat] /\ active' \in [Slot -> Nat]
  BY <1>1, ResetType DEF CountInv, TypeOK
<1> QED
  BY <1>1, <1>2, <1>3, RemovalCounts DEF CountInv, TypeOK, BufferedCount

LEMMA StoreCount ==
  ASSUME CountInv, NEW p \in Packet, NEW now \in Time, StoreShred(p, now)
  PROVE  CountInv'
<1> DEFINE x == p.shred
           s == x.slot
           victims == Victims(s)
           D1 == DataWith(x)
           C1 == CodeWith(x)
           P == Peers(C1, x)
           restored == Restored(D1, P)
           D2 == D1 \cup restored
           C2 == IF DropsCodingSet(D1, P) THEN C1 \ P ELSE C1
           drains == restored # {} \/ DataAt(D2, s, next[s]) # {}
           closers == IF drains THEN TakenClosers(D2, s, next[s]) ELSE {}
           cursor == CursorAfter(closers, next[s])
           D3 == IF drains THEN Undrained(D2, s, closers, cursor) ELSE D2
           C3 == IF drains THEN StillUseful(C2, s, closers, cursor) ELSE C2
           batches == Batches(D2, s, next[s], closers)
           tracked == (slots \ victims) \cup {s}
           done == (complete \ victims) \cup (IF EndsSlot(closers) THEN {s} ELSE {})
           act == [Reset(active, victims) EXCEPT ![s] = now]
           evicted == Overflow(D3, C3, tracked \ done, act)
<1>1. /\ Arrives(p) /\ Inserts(x)
      /\ slots' = tracked \ evicted
      /\ complete' = done
      /\ next' = Reset([next EXCEPT ![s] = cursor], victims \cup evicted)
      /\ active' = Reset(act, evicted)
      /\ data' = NotOfSlots(D3, evicted)
      /\ code' = NotOfSlots(C3, evicted)
      /\ failed' = {k \in failed \cup NewlyFailed(D1, P) :
                      CodingSet(code', k[1], k[2]) # {}}
      /\ misled' \subseteq failed'
      /\ buffered' = buffered - Held(data, code, victims) + 1
                        + Cardinality(restored) - Cardinality(C1 \ C2)
                        - Cardinality(D2 \ D3) - Cardinality(C2 \ C3)
                        - Held(D3, C3, evicted)
      /\ watermark' = IF ForwardSlotWatermark /\ batches # {} /\ s > watermark
                      THEN s ELSE watermark
      /\ out' = batches
  BY DEF StoreShred
<1>2. Parses(p) /\ s \in Slot
  BY <1>1, ShredKinds DEF Arrives
<1>3. /\ D1 \subseteq DataShred /\ IsFiniteSet(D1)
      /\ C1 \subseteq CodeShred /\ IsFiniteSet(C1)
      /\ Cardinality(D1) \in Nat /\ Cardinality(C1) \in Nat
      /\ Cardinality(D1) + Cardinality(C1)
           = Cardinality(NotOfSlots(data, victims))
               + Cardinality(NotOfSlots(code, victims)) + 1
  BY <1>1, <1>2, InsertFacts DEF CountInv
<1>4. P \subseteq C1 /\ P \subseteq CodeShred
  BY <1>3 DEF Peers, CodingSet
<1>5. /\ restored \subseteq DataShred /\ IsFiniteSet(restored)
      /\ D1 \cap restored = {}
  BY <1>3, <1>4, RestoredFacts
<1>6. /\ D2 \subseteq DataShred /\ IsFiniteSet(D2)
      /\ Cardinality(restored) \in Nat
      /\ Cardinality(D2) = Cardinality(D1) + Cardinality(restored)
  BY <1>3, <1>5, JoinDisjoint
<1>7. C2 \subseteq C1
  OBVIOUS
<1>8. /\ C2 \subseteq CodeShred /\ IsFiniteSet(C2)
      /\ Cardinality(C2) \in Nat /\ Cardinality(C1 \ C2) \in Nat
      /\ Cardinality(C1) = Cardinality(C2) + Cardinality(C1 \ C2)
  BY <1>3, <1>7, SplitByPart
<1>9. closers \subseteq D2
  BY DEF TakenClosers, Closers
<1>10. D3 \subseteq D2 /\ C3 \subseteq C2
  BY DEF Undrained, StillUseful
<1>11. /\ IsFiniteSet(D3) /\ Cardinality(D3) \in Nat
       /\ Cardinality(D2 \ D3) \in Nat
       /\ Cardinality(D2) = Cardinality(D3) + Cardinality(D2 \ D3)
       /\ IsFiniteSet(C3) /\ Cardinality(C3) \in Nat
       /\ Cardinality(C2 \ C3) \in Nat
       /\ Cardinality(C2) = Cardinality(C3) + Cardinality(C2 \ C3)
  BY <1>6, <1>8, <1>10, SplitByPart
<1>12. /\ IsFiniteSet(data') /\ IsFiniteSet(code')
       /\ Cardinality(data') \in Nat /\ Cardinality(code') \in Nat
       /\ Held(D3, C3, evicted) \in Nat
       /\ Cardinality(D3) + Cardinality(C3)
            = Held(D3, C3, evicted) + Cardinality(data') + Cardinality(code')
  <2> HIDE DEF D3, C3, evicted
  <2> QED
    BY <1>1, <1>11, SplitBySlot DEF Held
<1>13. data' \subseteq DataShred /\ code' \subseteq CodeShred
  <2> HIDE DEF D3, C3, D2, C2, evicted
  <2> QED
    BY <1>1, <1>6, <1>8, <1>10 DEF NotOfSlots
<1>14. cursor \in Nat
  <2>1. next[s] \in Nat
    BY <1>2 DEF CountInv, TypeOK
  <2>2. closers \subseteq DataShred
    BY <1>6, <1>9
  <2> HIDE DEF closers
  <2> QED
    BY <2>1, <2>2, CursorAfterType
<1>15. evicted \subseteq tracked \ done
  BY DEF Overflow
<1>16. batches \subseteq [slot : {s}, shreds : SUBSET D2]
  BY DEF Batches, SegmentOf
<1>17. NewlyFailed(D1, P) \subseteq Slot \X Nat
  <2>1. P # {} => HeaderOf(P) \in CodeShred
    BY <1>4 DEF HeaderOf
  <2>2. AttemptsRecovery(D1, P) => P # {}
    BY DEF AttemptsRecovery, Recoverable
  <2> HIDE DEF P, D1
  <2> QED
    BY <2>1, <2>2 DEF NewlyFailed, CodeShred
<1>18. /\ buffered - Held(data, code, victims)
            = Cardinality(NotOfSlots(data, victims))
                + Cardinality(NotOfSlots(code, victims))
       /\ buffered - Held(data, code, victims) \in Nat
       /\ Held(data, code, victims) \in Nat
  BY RemovalCounts
<1> HIDE DEF D1, C1, P, restored, D2, C2, drains, closers, cursor, D3, C3,
             batches, victims, evicted
<1>19. buffered' = Cardinality(data') + Cardinality(code')
  BY <1>1, <1>3, <1>6, <1>8, <1>11, <1>12, <1>18 DEF CountInv, TypeOK
<1>20. buffered' \in Nat
  BY <1>12, <1>19
<1>21. slots' \subseteq Slot /\ complete' \subseteq slots'
  BY <1>1, <1>2, <1>15 DEF CountInv, TypeOK
<1>22. next' \in [Slot -> Nat]
  <2>1. [next EXCEPT ![s] = cursor] \in [Slot -> Nat]
    BY <1>14 DEF CountInv, TypeOK
  <2> QED
    BY <1>1, <2>1, ResetType
<1>23. active' \in [Slot -> Nat]
  <2>1. Reset(active, victims) \in [Slot -> Nat]
    BY ResetType DEF CountInv, TypeOK
  <2>2. act \in [Slot -> Nat]
    BY <2>1, TimeAssumption
  <2> QED
    BY <1>1, <2>2, ResetType
<1>24. failed' \subseteq Slot \X Nat /\ misled' \subseteq Slot \X Nat
  BY <1>1, <1>17 DEF CountInv, TypeOK
<1>25. watermark' \in Slot \cup {-1}
  BY <1>1, <1>2 DEF CountInv, TypeOK
<1>26. \A b \in out' : b.slot \in Slot /\ b.shreds \subseteq DataShred
  BY <1>1, <1>2, <1>6, <1>16
<1> QED
  BY <1>12, <1>13, <1>19, <1>20, <1>21, <1>22, <1>23, <1>24, <1>25, <1>26
     DEF CountInv, TypeOK, BufferedCount

LEMMA NextCount == CountInv /\ [Next]_vars => CountInv'
<1> SUFFICES ASSUME CountInv, [Next]_vars PROVE CountInv'
  OBVIOUS
<1>1. CASE UNCHANGED vars
  BY <1>1 DEF vars, CountInv, TypeOK, BufferedCount
<1>2. ASSUME NEW now \in Time, NEW p \in Packet, PushPacket(p, now)
      PROVE  CountInv'
  BY <1>2, DropCount, RejectCount, StoreCount DEF PushPacket
<1>3. ASSUME NEW now \in Time, EvictStaleSlots(now) PROVE CountInv'
  BY <1>3, EvictCount
<1> QED
  BY <1>1, <1>2, <1>3 DEF Next

\* Every variable keeps its type, and the counter of buffered shreds is exact:
\* the assertion in debug_assert_buffered_count never fires and no saturating
\* subtraction of the code saturates, for any traffic and any configuration.
THEOREM CountCorrect == Spec => [](TypeOK /\ BufferedCount)
<1>1. CountInv => TypeOK /\ BufferedCount
  BY DEF CountInv
<1> QED
  BY <1>1, InitCount, NextCount, PTL DEF Spec

-----------------------------------------------------------------------------
(* The cursor of a tracked slot only moves forward. *)

\* Every segment taken starts at or after the cursor.
LEMMA CursorAfterAdvances ==
  ASSUME NEW S \in SUBSET DataShred, NEW n \in Nat, \A d \in S : d.index >= n
  PROVE  CursorAfter(S, n) >= n
<1>1. CASE S = {}
  BY <1>1 DEF CursorAfter
<1>2. CASE S # {}
  <2> DEFINE top == CHOOSE d \in S : \A e \in S : e.index <= d.index
  <2>1. top \in S
    BY <1>2, HighestShred
  <2>2. top.index \in Nat /\ top.index >= n
    BY <2>1, LimitAssumption DEF DataShred
  <2>3. CursorAfter(S, n) = top.index + 1
    BY <1>2 DEF CursorAfter
  <2> QED
    BY <2>2, <2>3
<1> QED
  BY <1>1, <1>2

LEMMA StoreCursor ==
  ASSUME TypeOK, NEW p \in Packet, NEW now \in Time, StoreShred(p, now),
         NEW r \in slots \cap slots'
  PROVE  next'[r] >= next[r] /\ (r \in complete => r \in complete')
<1> DEFINE x == p.shred
           s == x.slot
           victims == Victims(s)
           D1 == DataWith(x)
           D2 == D1 \cup Restored(D1, Peers(CodeWith(x), x))
<1>1. PICK closers, evicted, drains :
        /\ Arrives(p) /\ Inserts(x)
        /\ closers = IF drains THEN TakenClosers(D2, s, next[s]) ELSE {}
        /\ slots' = ((slots \ victims) \cup {s}) \ evicted
        /\ complete \ victims \subseteq complete'
        /\ next' = Reset([next EXCEPT ![s] = CursorAfter(closers, next[s])],
                         victims \cup evicted)
  <2> DEFINE P == Peers(CodeWith(x), x)
             drains == Restored(D1, P) # {} \/ DataAt(D2, s, next[s]) # {}
             closers == IF drains THEN TakenClosers(D2, s, next[s]) ELSE {}
             cursor == CursorAfter(closers, next[s])
             C2 == IF DropsCodingSet(D1, P) THEN CodeWith(x) \ P ELSE CodeWith(x)
             D3 == IF drains THEN Undrained(D2, s, closers, cursor) ELSE D2
             C3 == IF drains THEN StillUseful(C2, s, closers, cursor) ELSE C2
             done == (complete \ victims) \cup (IF EndsSlot(closers) THEN {s} ELSE {})
             act == [Reset(active, victims) EXCEPT ![s] = now]
             evicted == Overflow(D3, C3, ((slots \ victims) \cup {s}) \ done, act)
  <2>1. /\ Arrives(p) /\ Inserts(x)
        /\ slots' = ((slots \ victims) \cup {s}) \ evicted
        /\ complete' = done
        /\ next' = Reset([next EXCEPT ![s] = cursor], victims \cup evicted)
    BY DEF StoreShred
  <2>2. complete \ victims \subseteq complete'
    BY <2>1
  <2>3. closers = IF drains THEN TakenClosers(D2, s, next[s]) ELSE {}
    OBVIOUS
  <2> HIDE DEF drains, closers, evicted, victims, D1, D2, x, s
  <2> QED
    BY <2>1, <2>2, <2>3, Zenon DEF cursor
<1>2. Parses(p) /\ s \in Slot /\ r \in Slot
  BY <1>1, ShredKinds DEF Arrives, TypeOK
<1>3. s \in slots => victims = {}
  BY DEF Victims
<1>4. r \notin victims /\ r \notin evicted
  BY <1>1, <1>3
<1>5. next'[r] = IF r = s THEN CursorAfter(closers, next[s]) ELSE next[r]
  <2> HIDE DEF victims
  <2>1. next'[r] = [next EXCEPT ![s] = CursorAfter(closers, next[s])][r]
    BY <1>1, <1>2, <1>4 DEF Reset
  <2> QED
    BY <1>2, <2>1 DEF TypeOK
<1>6. D2 \subseteq DataShred
  <2>1. D1 \subseteq DataShred /\ CodeWith(x) \subseteq CodeShred
    BY <1>1, <1>2, InsertFacts
  <2>2. Peers(CodeWith(x), x) \subseteq CodeShred
    BY <2>1 DEF Peers, CodingSet
  <2> QED
    BY <2>1, <2>2, RestoredFacts
<1>7. closers \subseteq DataShred /\ \A d \in closers : d.index >= next[s]
  <2> HIDE DEF D2, x
  <2> QED
    BY <1>1, <1>6 DEF TakenClosers, Closers
<1>8. next[r] \in Nat /\ next[s] \in Nat
  BY <1>2 DEF TypeOK
<1>9. CursorAfter(closers, next[s]) >= next[s]
  BY <1>7, <1>8, CursorAfterAdvances
<1> QED
  BY <1>1, <1>4, <1>5, <1>8, <1>9

\* While a slot stays tracked its cursor never moves back and completion is
\* permanent, for any traffic, any eviction order and any configuration.
THEOREM CursorNeverRewinds == Spec => CursorMonotone
<1>1. ASSUME TypeOK, [Next]_vars
      PROVE  [\A s \in slots \cap slots' :
                next'[s] >= next[s] /\ (s \in complete => s \in complete')]_vars
  <2>1. \A s \in slots : next[s] \in Nat
    BY <1>1 DEF TypeOK
  <2>2. ASSUME NEW p \in Packet, DropPacket(p), NEW s \in slots \cap slots'
        PROVE  next'[s] >= next[s] /\ (s \in complete => s \in complete')
    BY <2>1, <2>2 DEF DropPacket
  <2>3. ASSUME NEW p \in Packet, RejectShred(p), NEW s \in slots \cap slots'
        PROVE  next'[s] >= next[s] /\ (s \in complete => s \in complete')
    BY <1>1, <2>1, <2>3 DEF RejectShred, Reset, TypeOK
  <2>4. ASSUME NEW now \in Time, EvictStaleSlots(now), NEW s \in slots \cap slots'
        PROVE  next'[s] >= next[s] /\ (s \in complete => s \in complete')
    BY <1>1, <2>1, <2>4 DEF EvictStaleSlots, Reset, TypeOK
  <2>5. ASSUME NEW p \in Packet, NEW now \in Time, StoreShred(p, now),
               NEW s \in slots \cap slots'
        PROVE  next'[s] >= next[s] /\ (s \in complete => s \in complete')
    BY <1>1, <2>5, StoreCursor
  <2>6. CASE Next
    BY <2>6, <2>2, <2>3, <2>4, <2>5 DEF Next, PushPacket
  <2> QED
    BY <1>1, <2>6
<1>2. Spec => []TypeOK
  BY CountCorrect, PTL
<1> QED
  BY <1>1, <1>2, PTL DEF Spec, CursorMonotone
=============================================================================
