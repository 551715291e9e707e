------------------------ MODULE DecoderBufferProofs ------------------------
(* What the decoder holds between calls: nothing dead, nothing ready,      *)
(* nothing recoverable, nothing replaced, nothing beyond the limits.       *)
EXTENDS RawShredDecoderProofs

-----------------------------------------------------------------------------
(* The stages of StoreShred, named as in its LET.                          *)

Siblings(x) == Peers(CodeWith(x), x)
Back(x) == Restored(DataWith(x), Siblings(x))
D2(x) == DataWith(x) \cup Back(x)
C2(x) == IF DropsCodingSet(DataWith(x), Siblings(x))
         THEN CodeWith(x) \ Siblings(x) ELSE CodeWith(x)
Drains(x) == Back(x) # {} \/ DataAt(D2(x), x.slot, next[x.slot]) # {}
Ends(x) == IF Drains(x) THEN TakenClosers(D2(x), x.slot, next[x.slot]) ELSE {}
Cursor(x) == CursorAfter(Ends(x), next[x.slot])
D3(x) == IF Drains(x) THEN Undrained(D2(x), x.slot, Ends(x), Cursor(x)) ELSE D2(x)
C3(x) == IF Drains(x) THEN StillUseful(C2(x), x.slot, Ends(x), Cursor(x)) ELSE C2(x)
Tracked(x) == (slots \ Victims(x.slot)) \cup {x.slot}
Done(x) == (complete \ Victims(x.slot))
             \cup (IF EndsSlot(Ends(x)) THEN {x.slot} ELSE {})
Acts(x, now) == [Reset(active, Victims(x.slot)) EXCEPT ![x.slot] = now]
Evicted(x, now) == Overflow(D3(x), C3(x), Tracked(x) \ Done(x), Acts(x, now))

LEMMA StoreEffect ==
  ASSUME NEW p \in Packet, NEW now \in Time, StoreShred(p, now)
  PROVE  LET x == p.shred IN
         /\ Parses(p) /\ Arrives(p) /\ Inserts(x)
         /\ slots' = Tracked(x) \ Evicted(x, now)
         /\ complete' = Done(x)
         /\ next' = Reset([next EXCEPT ![x.slot] = Cursor(x)],
                          Victims(x.slot) \cup Evicted(x, now))
         /\ data' = NotOfSlots(D3(x), Evicted(x, now))
         /\ code' = NotOfSlots(C3(x), Evicted(x, now))
         /\ failed' = {k \in failed \cup NewlyFailed(DataWith(x), Siblings(x)) :
                         CodingSet(code', k[1], k[2]) # {}}
         /\ misled' = {k \in failed' :
                         \/ k \in misled
                         \/ /\ k \in NewlyFailed(DataWith(x), Siblings(x))
                            /\ Misnumbered(DataWith(x), k) # {}}
         /\ out' = Batches(D2(x), x.slot, next[x.slot], Ends(x))
         /\ watermark' = IF ForwardSlotWatermark /\ out' # {}
                              /\ x.slot > watermark
                         THEN x.slot ELSE watermark
BY Zenon DEF StoreShred, Arrives, Siblings, Back, D2, C2, Drains, Ends, Cursor,
       D3, C3, Tracked, Done, Acts, Evicted

\* The shred that is stored and its slot.
LEMMA ArrivalFacts ==
  ASSUME TypeOK, NEW p \in Packet, Parses(p), Arrives(p), Inserts(p.shred)
  PROVE  LET x == p.shred IN
         /\ x \in DataShred \cup CodeShred
         /\ x.slot \in Slot /\ x.slot \notin complete
         /\ Victims(x.slot) \subseteq slots /\ x.slot \notin Victims(x.slot)
         /\ next[x.slot] \in Nat
         /\ DataWith(x) \subseteq DataShred /\ CodeWith(x) \subseteq CodeShred
         /\ IsFiniteSet(DataWith(x)) /\ IsFiniteSet(CodeWith(x))
         /\ Siblings(x) \subseteq CodeWith(x)
         /\ \A c \in Siblings(x) : c.slot = x.slot /\ c.fec = x.fec
<1> DEFINE x == p.shred
<1>1. x \in DataShred \cup CodeShred /\ x.slot \in Slot
  BY ShredKinds
<1>2. x.slot \notin complete
  BY DEF Arrives
<1>3. Victims(x.slot) \subseteq slots /\ x.slot \notin Victims(x.slot)
  BY DEF Victims
<1>4. next[x.slot] \in Nat
  BY <1>1 DEF TypeOK
<1>5. /\ DataWith(x) \subseteq DataShred /\ CodeWith(x) \subseteq CodeShred
      /\ IsFiniteSet(DataWith(x)) /\ IsFiniteSet(CodeWith(x))
  BY InsertFacts
<1>6. /\ Siblings(x) \subseteq CodeWith(x)
      /\ \A c \in Siblings(x) : c.slot = x.slot /\ c.fec = x.fec
  BY DEF Siblings, Peers, CodingSet
<1> QED
  BY <1>1, <1>2, <1>3, <1>4, <1>5, <1>6

\* What recovery brings back belongs to the FEC set of the shred just stored,
\* one shred per index, at indices that were vacant.
LEMMA BackFacts ==
  ASSUME TypeOK, NEW p \in Packet, Parses(p), Arrives(p), Inserts(p.shred)
  PROVE  LET x == p.shred IN
         /\ Back(x) \subseteq DataShred /\ IsFiniteSet(Back(x))
         /\ D2(x) \subseteq DataShred /\ IsFiniteSet(D2(x))
         /\ \A r \in Back(x) :
              /\ r.slot = x.slot /\ r.fec = x.fec /\ r.index >= next[x.slot]
              /\ DataAt(DataWith(x), x.slot, r.index) = {}
         /\ \A q, r \in Back(x) : q.index = r.index => q = r
<1> DEFINE x == p.shred
           D == DataWith(x)
           P == Siblings(x)
           h == HeaderOf(P)
<1>1. /\ D \subseteq DataShred /\ P \subseteq CodeShred /\ IsFiniteSet(D)
      /\ \A c \in P : c.slot = x.slot /\ c.fec = x.fec
  BY ArrivalFacts
<1>2. /\ Back(x) \subseteq DataShred /\ IsFiniteSet(Back(x))
      /\ \A r \in Back(x) :
           /\ Recovers(D, P) /\ r.slot = h.slot /\ r.index >= next[h.slot]
           /\ DataAt(D, r.slot, r.index) = {}
  BY <1>1, RestoredFacts DEF Back
<1>3. D2(x) \subseteq DataShred /\ IsFiniteSet(D2(x))
  BY <1>1, <1>2, FS_Union DEF D2
<1>4. CASE ~ Recovers(D, P)
  BY <1>2, <1>3, <1>4
<1>5. CASE Recovers(D, P)
  <2>1. h \in P
    BY <1>5 DEF Recovers, AttemptsRecovery, Recoverable, HeaderOf
  <2>2. h.slot = x.slot /\ h.fec = x.fec /\ h \in CodeShred
    BY <1>1, <2>1
  <2>3. /\ h.root \in DOMAIN Original /\ h.sig \in Sig
        /\ \A o \in Original[h.root] : o \in DataShred /\ o.fec = h.fec
        /\ \A o, q \in Original[h.root] : o.index = q.index => o = q
    <3>1. /\ h.root \in DOMAIN Original
          /\ \A o \in Original[h.root] : o.fec = h.fec
      BY <1>5 DEF Recovers, Reconstructs
    <3> QED
      BY <2>2, <3>1, OriginalAssumption DEF CodeShred
  <2>4. \A r \in Back(x) : \E o \in Original[h.root] : r = [o EXCEPT !.sig = h.sig]
    <3>1. Back(x) = {[o EXCEPT !.sig = h.sig] :
                       o \in {r \in Original[h.root] :
                                r.index >= next[h.slot] /\ DataAt(D, h.slot, r.index) = {}}}
      BY <1>5 DEF Back, Restored
    <3> HIDE DEF h, D, x
    <3> QED
      BY <3>1
  <2>5. \A o \in Original[h.root] : /\ [o EXCEPT !.sig = h.sig].index = o.index
                                    /\ [o EXCEPT !.sig = h.sig].fec = o.fec
    BY <2>3 DEF DataShred
  <2> HIDE DEF h, D, P, x
  <2>6. \A r \in Back(x) : r.fec = h.fec
    BY <2>3, <2>4, <2>5
  <2>7. \A q, r \in Back(x) : q.index = r.index => q = r
    <3> SUFFICES ASSUME NEW q \in Back(x), NEW r \in Back(x), q.index = r.index
                 PROVE  q = r
      OBVIOUS
    <3>1. PICK o \in Original[h.root] : q = [o EXCEPT !.sig = h.sig]
      BY <2>4
    <3>2. PICK u \in Original[h.root] : r = [u EXCEPT !.sig = h.sig]
      BY <2>4
    <3>3. o.index = u.index
      BY <2>5, <3>1, <3>2
    <3>4. o = u
      BY <2>3, <3>3
    <3> QED
      BY <3>1, <3>2, <3>4
  <2> QED
    BY <1>2, <1>3, <2>2, <2>6, <2>7 DEF D, x
<1> QED
  BY <1>4, <1>5

\* Draining: the segments lie at or after the cursor, which only moves forward.
LEMMA DrainFacts ==
  ASSUME TypeOK, NEW p \in Packet, Parses(p), Arrives(p), Inserts(p.shred)
  PROVE  LET x == p.shred IN
         /\ Ends(x) \subseteq D2(x)
         /\ \A e \in Ends(x) : e.slot = x.slot /\ e.index >= next[x.slot]
         /\ Cursor(x) \in Nat /\ Cursor(x) >= next[x.slot]
         /\ ~ Drains(x) => Ends(x) = {} /\ Cursor(x) = next[x.slot]
         /\ D3(x) \subseteq D2(x) /\ C2(x) \subseteq CodeWith(x)
         /\ C3(x) \subseteq C2(x)
         /\ \A d \in D3(x) : d.slot = x.slot =>
              ~ EndsSlot(Ends(x)) /\ (Drains(x) => d.index >= Cursor(x))
         /\ \A c \in C3(x) : c.slot = x.slot =>
              ~ EndsSlot(Ends(x)) /\ (Drains(x) => c.fec >= Cursor(x))
<1> DEFINE x == p.shred
<1>1. D2(x) \subseteq DataShred
  BY BackFacts
<1>2. next[x.slot] \in Nat
  BY ArrivalFacts
<1>3. /\ Ends(x) \subseteq D2(x)
      /\ \A e \in Ends(x) : e.slot = x.slot /\ e.index >= next[x.slot]
  BY DEF Ends, TakenClosers, Closers
<1>4. Cursor(x) \in Nat /\ Cursor(x) >= next[x.slot]
  BY <1>1, <1>2, <1>3, CursorAfterType, CursorAfterAdvances DEF Cursor
<1>5. ~ Drains(x) => Ends(x) = {} /\ Cursor(x) = next[x.slot]
  BY DEF Ends, Cursor, CursorAfter
<1>6. D3(x) \subseteq D2(x) /\ C2(x) \subseteq CodeWith(x) /\ C3(x) \subseteq C2(x)
  BY DEF D3, C2, C3, Undrained, StillUseful
<1>7. ~ Drains(x) => ~ EndsSlot(Ends(x))
  BY <1>5 DEF EndsSlot
<1>8. \A d \in D3(x) : d.slot = x.slot =>
         ~ EndsSlot(Ends(x)) /\ (Drains(x) => d.index >= Cursor(x))
  BY <1>7 DEF D3, Undrained
<1>9. \A c \in C3(x) : c.slot = x.slot =>
         ~ EndsSlot(Ends(x)) /\ (Drains(x) => c.fec >= Cursor(x))
  BY <1>7 DEF C3, StillUseful
<1> HIDE DEF x
<1> QED
  BY <1>3, <1>4, <1>5, <1>6, <1>8, <1>9 DEF x

\* The cursors after the call.
LEMMA StoreNext ==
  ASSUME TypeOK, NEW p \in Packet, NEW now \in Time, StoreShred(p, now)
  PROVE  LET x == p.shred IN
         /\ \A t \in slots' : next'[t] = IF t = x.slot THEN Cursor(x) ELSE next[t]
         /\ \A t \in Slot \ slots' : t \in slots \cup {x.slot} => next'[t] = 0
         /\ \A t \in Slot \ (slots \cup {x.slot}) : next'[t] \in {0, next[t]}
<1> DEFINE x == p.shred
           gone == Victims(x.slot) \cup Evicted(x, now)
           moved == [next EXCEPT ![x.slot] = Cursor(x)]
<1>1. /\ Parses(p) /\ Arrives(p) /\ Inserts(x)
      /\ slots' = Tracked(x) \ Evicted(x, now) /\ next' = Reset(moved, gone)
  BY StoreEffect
<1>2. /\ x.slot \in Slot /\ Victims(x.slot) \subseteq slots
      /\ x.slot \notin Victims(x.slot)
  BY <1>1, ArrivalFacts
<1>3. slots' = ((slots \ Victims(x.slot)) \cup {x.slot}) \ Evicted(x, now)
  BY <1>1 DEF Tracked
<1>4. \A t \in Slot : next'[t] = IF t \in gone THEN 0 ELSE moved[t]
  BY <1>1, Zenon DEF Reset
<1>5. \A t \in Slot : moved[t] = IF t = x.slot THEN Cursor(x) ELSE next[t]
  BY <1>2 DEF TypeOK
<1>6. slots \subseteq Slot
  BY DEF TypeOK
<1> HIDE DEF x, moved
<1> QED
  BY <1>2, <1>3, <1>4, <1>5, <1>6 DEF x

-----------------------------------------------------------------------------
(* Every other step removes the state of whole slots, possibly of none.    *)

Removal(V) ==
  /\ slots' = slots \ V /\ complete' = complete \ V
  /\ next' = Reset(next, V)
  /\ data' = NotOfSlots(data, V) /\ code' = NotOfSlots(code, V)
  /\ failed' = {k \in failed : k[1] \notin V}
  /\ misled' = {k \in misled : k[1] \notin V}

\* A call that stores nothing hands out nothing.
LEMMA NextCases ==
  ASSUME TypeOK, Next
  PROVE  \/ \E V \in SUBSET slots : Removal(V) /\ out' = {} /\ watermark' = watermark
         \/ \E p \in Packet, now \in Time : StoreShred(p, now)
<1> DEFINE Quiet(V) == Removal(V) /\ out' = {} /\ watermark' = watermark
<1>1. ASSUME NEW p \in Packet, DropPacket(p) PROVE Quiet({}) /\ {} \subseteq slots
  <2>1. Reset(next, {}) = next
    BY DEF Reset, TypeOK
  <2> QED
    BY <1>1, <2>1 DEF DropPacket, Removal, NotOfSlots
<1>2. ASSUME NEW p \in Packet, RejectShred(p)
      PROVE  Quiet(Victims(p.shred.slot)) /\ Victims(p.shred.slot) \subseteq slots
  BY <1>2, Zenon DEF RejectShred, Removal, Victims
<1>3. ASSUME NEW now \in Time, EvictStaleSlots(now)
      PROVE  Quiet(StaleSlots(now)) /\ StaleSlots(now) \subseteq slots
  <2>1. StaleSlots(now) \subseteq slots /\ complete \ StaleSlots(now) = complete
    BY DEF StaleSlots
  <2> QED
    BY <1>3, <2>1 DEF EvictStaleSlots, Removal
<1> HIDE DEF Quiet
<1>4. \/ \E V \in SUBSET slots : Quiet(V)
      \/ \E p \in Packet, now \in Time : StoreShred(p, now)
  BY <1>1, <1>2, <1>3 DEF Next, PushPacket
<1> QED
  BY <1>4 DEF Quiet

LEMMA StepCases ==
  ASSUME TypeOK, [Next]_vars
  PROVE  \/ \E V \in SUBSET slots : Removal(V)
         \/ \E p \in Packet, now \in Time : StoreShred(p, now)
<1>1. CASE UNCHANGED vars
  <2>1. Reset(next, {}) = next
    BY DEF Reset, TypeOK
  <2>2. Removal({})
    BY <1>1, <2>1 DEF Removal, NotOfSlots, vars
  <2> QED
    BY <2>2
<1> QED
  BY <1>1, NextCases

-----------------------------------------------------------------------------
(* Nothing dead is held. *)

\* The buffers before draining: every shred is at or after the cursor of a slot
\* that is tracked and open, and no index is taken twice.
LEMMA StagesLive ==
  ASSUME TypeOK, HeldIsLive,
         NEW p \in Packet, Parses(p), Arrives(p), Inserts(p.shred)
  PROVE  LET x == p.shred IN
         /\ \A d \in D2(x) : /\ d.slot \in Tracked(x) /\ d.slot \notin complete
                             /\ d.index >= next[d.slot]
         /\ \A c \in CodeWith(x) : /\ c.slot \in Tracked(x) /\ c.slot \notin complete
                                   /\ c.fec >= next[c.slot]
         /\ \A d, e \in D2(x) : d.slot = e.slot /\ d.index = e.index => d = e
<1> DEFINE x == p.shred
           V == Victims(x.slot)
<1>1. /\ x \in DataShred \cup CodeShred /\ x.slot \notin complete
      /\ x.slot \in Tracked(x)
  BY ArrivalFacts DEF Tracked
<1>2. /\ x \in DataShred => x.kind = "data" /\ x.kind # "code"
      /\ x \in CodeShred => x.kind = "code" /\ x.kind # "data"
  BY DEF DataShred, CodeShred
<1>3. \A d \in DataWith(x) : \/ d \in data /\ d.slot \notin V
                             \/ d = x /\ x.kind = "data"
  <2> HIDE DEF x
  <2>1. CASE x.kind = "data"
    BY <2>1 DEF DataWith, NotOfSlots
  <2>2. CASE x.kind # "data"
    BY <2>2 DEF DataWith, NotOfSlots
  <2> QED
    BY <2>1, <2>2
<1>4. \A c \in CodeWith(x) : \/ c \in code /\ c.slot \notin V
                             \/ c = x /\ x.kind = "code"
  <2> HIDE DEF x
  <2>1. CASE x.kind = "code"
    BY <2>1 DEF CodeWith, NotOfSlots
  <2>2. CASE x.kind # "code"
    BY <2>2 DEF CodeWith, NotOfSlots
  <2> QED
    BY <2>1, <2>2
<1>5. x.kind = "data" => /\ x.index >= next[x.slot]
                         /\ DataAt(data, x.slot, x.index) = {}
  BY DEF Inserts, InsertsData
<1>6. x.kind = "code" => next[x.slot] <= x.fec
  BY DEF Inserts, InsertsCode
<1>7. \A d \in DataWith(x) : /\ d.slot \in Tracked(x) /\ d.slot \notin complete
                             /\ d.index >= next[d.slot]
  BY <1>1, <1>3, <1>5 DEF HeldIsLive, Tracked
<1>8. \A c \in CodeWith(x) : /\ c.slot \in Tracked(x) /\ c.slot \notin complete
                             /\ c.fec >= next[c.slot]
  <2> SUFFICES ASSUME NEW c \in CodeWith(x)
               PROVE  /\ c.slot \in Tracked(x) /\ c.slot \notin complete
                      /\ c.fec >= next[c.slot]
    OBVIOUS
  <2>1. CASE c \in code /\ c.slot \notin V
    BY <2>1 DEF HeldIsLive, Tracked
  <2>2. CASE c = x /\ x.kind = "code"
    <3>1. x.fec \in Nat /\ next[x.slot] \in Nat
      BY <1>1, <1>2, <2>2, ArrivalFacts DEF CodeShred
    <3> QED
      BY <1>1, <1>6, <2>2, <3>1
  <2> QED
    BY <1>4, <2>1, <2>2
<1>9. \A d, e \in DataWith(x) : d.slot = e.slot /\ d.index = e.index => d = e
  BY <1>3, <1>5 DEF HeldIsLive, DataAt
<1>10. /\ \A r \in Back(x) :
            /\ r.slot = x.slot /\ r.index >= next[x.slot]
            /\ DataAt(DataWith(x), x.slot, r.index) = {}
       /\ \A q, r \in Back(x) : q.index = r.index => q = r
  BY BackFacts
<1> HIDE DEF x, V
<1>11. \A d \in D2(x) : /\ d.slot \in Tracked(x) /\ d.slot \notin complete
                        /\ d.index >= next[d.slot]
  BY <1>1, <1>7, <1>10 DEF D2
<1>12. \A d, e \in D2(x) : d.slot = e.slot /\ d.index = e.index => d = e
  <2> SUFFICES ASSUME NEW d \in D2(x), NEW e \in D2(x),
                      d.slot = e.slot, d.index = e.index
               PROVE  d = e
    OBVIOUS
  <2>1. CASE d \in DataWith(x) /\ e \in DataWith(x)
    BY <1>9, <2>1
  <2>2. CASE d \in Back(x) /\ e \in Back(x)
    BY <1>10, <2>2
  <2>3. CASE d \in DataWith(x) /\ e \in Back(x)
    BY <1>10, <2>3 DEF DataAt
  <2>4. CASE d \in Back(x) /\ e \in DataWith(x)
    BY <1>10, <2>4 DEF DataAt
  <2> QED
    BY <2>1, <2>2, <2>3, <2>4 DEF D2
<1> QED
  BY <1>8, <1>11, <1>12 DEF x

LEMMA StoreLive ==
  ASSUME TypeOK, HeldIsLive,
         NEW p \in Packet, NEW now \in Time, StoreShred(p, now)
  PROVE  HeldIsLive'
<1> DEFINE x == p.shred
           E == Evicted(x, now)
<1>1. /\ Parses(p) /\ Arrives(p) /\ Inserts(x)
      /\ slots' = Tracked(x) \ E /\ complete' = Done(x)
      /\ data' = NotOfSlots(D3(x), E) /\ code' = NotOfSlots(C3(x), E)
      /\ failed' = {k \in failed \cup NewlyFailed(DataWith(x), Siblings(x)) :
                      CodingSet(code', k[1], k[2]) # {}}
  BY StoreEffect
<1>2. /\ \A d \in D2(x) : /\ d.slot \in Tracked(x) /\ d.slot \notin complete
                          /\ d.index >= next[d.slot]
      /\ \A c \in CodeWith(x) : /\ c.slot \in Tracked(x) /\ c.slot \notin complete
                                /\ c.fec >= next[c.slot]
      /\ \A d, e \in D2(x) : d.slot = e.slot /\ d.index = e.index => d = e
  BY <1>1, StagesLive
<1>3. /\ D3(x) \subseteq D2(x) /\ C3(x) \subseteq CodeWith(x)
      /\ ~ Drains(x) => Cursor(x) = next[x.slot]
      /\ \A d \in D3(x) : d.slot = x.slot =>
           ~ EndsSlot(Ends(x)) /\ (Drains(x) => d.index >= Cursor(x))
      /\ \A c \in C3(x) : c.slot = x.slot =>
           ~ EndsSlot(Ends(x)) /\ (Drains(x) => c.fec >= Cursor(x))
  BY <1>1, DrainFacts
<1>4. /\ \A t \in slots' : next'[t] = IF t = x.slot THEN Cursor(x) ELSE next[t]
      /\ \A t \in Slot \ slots' : t \in slots \cup {x.slot} => next'[t] = 0
      /\ \A t \in Slot \ (slots \cup {x.slot}) : next'[t] \in {0, next[t]}
  BY StoreNext
<1> HIDE DEF x, E
<1>5. \A d \in data' : d \in D3(x) /\ d.slot \in slots' /\ d.slot \notin complete'
  BY <1>1, <1>2, <1>3 DEF NotOfSlots, Done
<1>6. \A c \in code' : c \in C3(x) /\ c.slot \in slots' /\ c.slot \notin complete'
  BY <1>1, <1>2, <1>3 DEF NotOfSlots, Done
<1>7. \A d \in data' : d.index >= next'[d.slot]
  BY <1>2, <1>3, <1>4, <1>5
<1>8. \A c \in code' : c.fec >= next'[c.slot]
  BY <1>2, <1>3, <1>4, <1>6
<1>9. \A d, e \in data' : d.slot = e.slot /\ d.index = e.index => d = e
  BY <1>2, <1>3, <1>5
<1>10. \A k \in failed' : CodingSet(code', k[1], k[2]) # {}
  BY <1>1
<1>11. \A t \in Slot \ slots' : next'[t] = 0
  BY <1>4 DEF HeldIsLive
<1> QED
  BY <1>5, <1>6, <1>7, <1>8, <1>9, <1>10, <1>11 DEF HeldIsLive, CodingSet

LEMMA RemovalLive ==
  ASSUME TypeOK, HeldIsLive, NEW V \in SUBSET slots, Removal(V)
  PROVE  HeldIsLive'
<1>1. \A t \in Slot : next'[t] = IF t \in V THEN 0 ELSE next[t]
  BY DEF Reset, Removal
<1>2. \A d \in data' : d \in data /\ d.slot \notin V
  BY DEF NotOfSlots, Removal
<1>3. \A c \in code' : c \in code /\ c.slot \notin V
  BY DEF NotOfSlots, Removal
<1>4. \A t \in slots : t \in Slot
  BY DEF TypeOK
<1>5. \A d \in data' : d.slot \in slots' \ complete' /\ d.index >= next'[d.slot]
  BY <1>1, <1>2, <1>4 DEF HeldIsLive, Removal
<1>6. \A c \in code' : c.slot \in slots' \ complete' /\ c.fec >= next'[c.slot]
  BY <1>1, <1>3, <1>4 DEF HeldIsLive, Removal
<1>7. \A d, e \in data' : d.slot = e.slot /\ d.index = e.index => d = e
  BY <1>2 DEF HeldIsLive
<1>8. \A k \in failed' : CodingSet(code', k[1], k[2]) # {}
  BY DEF HeldIsLive, CodingSet, NotOfSlots, Removal
<1>9. \A t \in Slot \ slots' : next'[t] = 0
  BY <1>1 DEF HeldIsLive, Removal
<1> QED
  BY <1>5, <1>6, <1>7, <1>8, <1>9 DEF HeldIsLive

-----------------------------------------------------------------------------
(* Coding sets. *)

\* Two coding shreds of one FEC set belong together.
Alike(c, y) ==
  /\ c.numData = y.numData /\ c.numCoding = y.numCoding
  /\ c.head = y.head /\ c.root = y.root /\ c.sig = y.sig
  /\ c.position = y.position => c = y

\* Coding sets stay uniform when a shred is stored.
LEMMA WithUniform ==
  ASSUME TypeOK, CodingSetsUniform,
         NEW p \in Packet, Parses(p), Arrives(p), Inserts(p.shred),
         NEW c \in CodeWith(p.shred), NEW y \in CodeWith(p.shred),
         c.slot = y.slot, c.fec = y.fec
  PROVE  CodingHeaderValid(c) /\ Alike(c, y)
<1> DEFINE x == p.shred
<1>1. code \subseteq CodeShred /\ (x.kind = "code" => x \in CodeShred)
  BY ShredKinds DEF TypeOK
<1> HIDE DEF x
<1>2. \A b \in CodeWith(x) : b \in code \/ (b = x /\ x.kind = "code")
  <2>1. CASE x.kind = "code"
    BY <2>1 DEF CodeWith, NotOfSlots
  <2>2. CASE x.kind # "code"
    BY <2>2 DEF CodeWith, NotOfSlots
  <2> QED
    BY <2>1, <2>2
<1>3. x.kind = "code" =>
        /\ CodingHeaderValid(x)
        /\ \A z \in CodingSet(code, x.slot, x.fec) :
             SameCodingSet(x, z) /\ x.index # z.index /\ x.sig = z.sig
  BY DEF Inserts, InsertsCode, x
<1>4. ASSUME x.kind = "code", NEW z \in code, z.slot = x.slot, z.fec = x.fec
      PROVE  CodingHeaderValid(x) /\ Alike(x, z) /\ Alike(z, x)
  <2>1. SameCodingSet(x, z) /\ x.index # z.index /\ x.sig = z.sig
    BY <1>3, <1>4 DEF CodingSet
  <2>2. x.index - x.position = z.index - z.position
    BY <2>1 DEF SameCodingSet, FirstCodingIndex
  <2>3. /\ x.index \in Nat /\ x.position \in Nat
        /\ z.index \in Nat /\ z.position \in Nat
    BY <1>1, <1>4 DEF CodeShred
  <2>4. x.position # z.position
    BY <2>1, <2>2, <2>3
  <2> QED
    BY <1>3, <1>4, <2>1, <2>4 DEF SameCodingSet, Alike
<1>5. \A b, z \in code : b.slot = z.slot /\ b.fec = z.fec =>
         CodingHeaderValid(b) /\ Alike(b, z)
  BY Zenon DEF CodingSetsUniform, Alike
<1>6. CASE c \in code /\ y \in code
  BY <1>5, <1>6, Zenon
<1>7. CASE c = x /\ x.kind = "code" /\ y \in code
  BY <1>4, <1>7
<1>8. CASE c \in code /\ y = x /\ x.kind = "code"
  <2>1. CodingHeaderValid(c)
    BY <1>5, <1>8, Zenon
  <2> QED
    BY <1>4, <1>8, <2>1
<1>9. CASE c = x /\ y = x /\ x.kind = "code"
  BY <1>3, <1>9 DEF Alike
<1> QED
  BY <1>2, <1>6, <1>7, <1>8, <1>9 DEF x

LEMMA StoreUniform ==
  ASSUME TypeOK, CodingSetsUniform,
         NEW p \in Packet, NEW now \in Time, StoreShred(p, now)
  PROVE  CodingSetsUniform'
<1> DEFINE x == p.shred
<1>1. /\ Parses(p) /\ Arrives(p) /\ Inserts(x)
      /\ code' = NotOfSlots(C3(x), Evicted(x, now))
  BY StoreEffect
<1>2. C3(x) \subseteq CodeWith(x)
  BY <1>1, DrainFacts
<1>3. code' \subseteq CodeWith(x)
  BY <1>1, <1>2 DEF NotOfSlots
<1>4. \A c, y \in CodeWith(x) : c.slot = y.slot /\ c.fec = y.fec =>
         CodingHeaderValid(c) /\ Alike(c, y)
  BY <1>1, WithUniform
<1> QED
  BY <1>3, <1>4, Zenon DEF CodingSetsUniform, CodingHeaderValid, Alike

LEMMA RemovalUniform ==
  ASSUME CodingSetsUniform, NEW V, Removal(V)
  PROVE  CodingSetsUniform'
<1>1. code' \subseteq code
  BY DEF Removal, NotOfSlots
<1> QED
  BY <1>1 DEF CodingSetsUniform, CodingHeaderValid

-----------------------------------------------------------------------------
(* The invariant on which the rest is built. *)

LiveInv == CountInv /\ HeldIsLive /\ CodingSetsUniform

LEMMA InitLive == Init => LiveInv
<1> SUFFICES ASSUME Init PROVE LiveInv
  OBVIOUS
<1>1. HeldIsLive
  BY DEF Init, HeldIsLive
<1>2. CodingSetsUniform
  BY DEF Init, CodingSetsUniform
<1> QED
  BY <1>1, <1>2, InitCount DEF LiveInv

LEMMA NextLive == LiveInv /\ [Next]_vars => LiveInv'
<1> SUFFICES ASSUME LiveInv, [Next]_vars PROVE LiveInv'
  OBVIOUS
<1>1. CountInv /\ TypeOK /\ HeldIsLive /\ CodingSetsUniform
  BY DEF LiveInv, CountInv
<1>2. CountInv'
  BY <1>1, NextCount
<1>3. ASSUME NEW V \in SUBSET slots, Removal(V) PROVE (HeldIsLive /\ CodingSetsUniform)'
  BY <1>1, <1>3, RemovalLive, RemovalUniform
<1>4. ASSUME NEW p \in Packet, NEW now \in Time, StoreShred(p, now)
      PROVE  (HeldIsLive /\ CodingSetsUniform)'
  BY <1>1, <1>4, StoreLive, StoreUniform
<1> QED
  BY <1>1, <1>2, <1>3, <1>4, StepCases DEF LiveInv

LEMMA AlwaysLive == Spec => []LiveInv
BY InitLive, NextLive, PTL DEF Spec

\* Whatever was evicted, recovered, drained or rejected, nothing is held that
\* can no longer be used, and no index is held twice.
THEOREM NothingDeadIsHeld == Spec => []HeldIsLive
<1>1. LiveInv => HeldIsLive
  BY DEF LiveInv
<1> QED
  BY <1>1, AlwaysLive, PTL

\* The coding shreds held for one FEC set always belong together.
THEOREM CodingSetsAgree == Spec => []CodingSetsUniform
<1>1. LiveInv => CodingSetsUniform
  BY DEF LiveInv
<1> QED
  BY <1>1, AlwaysLive, PTL

-----------------------------------------------------------------------------
(* First shred wins. *)

\* Where the data shreds of the first stage come from.
LEMMA DataWithOrigin ==
  ASSUME NEW x, NEW d \in DataWith(x)
  PROVE  \/ d \in data /\ d.slot \notin Victims(x.slot)
         \/ d = x /\ x.kind = "data"
<1>1. CASE x.kind = "data"
  BY <1>1 DEF DataWith, NotOfSlots
<1>2. CASE x.kind # "data"
  BY <1>2 DEF DataWith, NotOfSlots
<1> QED
  BY <1>1, <1>2

LEMMA StoreFirstWins ==
  ASSUME TypeOK, HeldIsLive,
         NEW p \in Packet, NEW now \in Time, StoreShred(p, now),
         NEW d \in data, NEW e \in data', d.slot = e.slot, d.index = e.index
  PROVE  d = e
<1> DEFINE x == p.shred
<1>1. /\ Parses(p) /\ Arrives(p) /\ Inserts(x)
      /\ data' = NotOfSlots(D3(x), Evicted(x, now))
  BY StoreEffect
<1>2. D3(x) \subseteq D2(x)
  BY <1>1, DrainFacts
<1>3. e \in DataWith(x) \cup Back(x)
  BY <1>1, <1>2 DEF NotOfSlots, D2
<1>4. CASE e \in DataWith(x)
  <2>1. CASE e \in data
    BY <2>1 DEF HeldIsLive
  <2>2. CASE e = x /\ x.kind = "data"
    <3>1. DataAt(data, x.slot, x.index) = {}
      BY <1>1, <2>2 DEF Inserts, InsertsData
    <3> QED
      BY <2>2, <3>1 DEF DataAt
  <2> QED
    BY <1>4, <2>1, <2>2, DataWithOrigin
<1>5. CASE e \in Back(x)
  <2>1. /\ e.slot = x.slot /\ DataAt(DataWith(x), x.slot, e.index) = {}
        /\ x.slot \notin Victims(x.slot)
    BY <1>1, <1>5, BackFacts, ArrivalFacts
  <2>2. d \in DataWith(x)
    BY <2>1 DEF DataWith, NotOfSlots
  <2> QED
    BY <2>1, <2>2 DEF DataAt
<1> QED
  BY <1>3, <1>4, <1>5

\* The first data shred stored at an index stays until it is consumed or its
\* slot is removed: no later packet and no recovery ever replaces it.
THEOREM FirstShredIsKept == Spec => FirstShredWins
<1>1. ASSUME LiveInv, [Next]_vars
      PROVE  [\A d \in data, e \in data' :
                d.slot = e.slot /\ d.index = e.index => d = e]_vars
  <2>1. TypeOK /\ HeldIsLive
    BY <1>1 DEF LiveInv, CountInv
  <2>2. ASSUME NEW V \in SUBSET slots, Removal(V)
        PROVE  \A d \in data, e \in data' :
                 d.slot = e.slot /\ d.index = e.index => d = e
    BY <2>1, <2>2 DEF Removal, NotOfSlots, HeldIsLive
  <2>3. ASSUME NEW p \in Packet, NEW now \in Time, StoreShred(p, now)
        PROVE  \A d \in data, e \in data' :
                 d.slot = e.slot /\ d.index = e.index => d = e
    BY <2>1, <2>3, StoreFirstWins
  <2> QED
    BY <1>1, <2>1, <2>2, <2>3, StepCases
<1> QED
  BY <1>1, AlwaysLive, PTL DEF Spec, FirstShredWins

-----------------------------------------------------------------------------
(* No finished segment waits. *)

\* If no segment taken ends the slot then every closed segment is taken: a shred
\* that ends the slot would be taken at its first occurrence.
LEMMA AllClosersTaken ==
  ASSUME NEW D \in SUBSET DataShred, NEW s, NEW n \in Nat,
         ~ EndsSlot(TakenClosers(D, s, n))
  PROVE  TakenClosers(D, s, n) = Closers(D, s, n)
<1> DEFINE all == Closers(D, s, n)
           ending == {e.index : e \in {f \in all : f.last}}
<1>1. all \subseteq DataShred
  BY DEF Closers
<1>2. \A e \in all : e.index \in Nat
  BY <1>1, LimitAssumption DEF DataShred
<1>3. ASSUME ending # {} PROVE FALSE
  <2>1. ending \in SUBSET Nat
    BY <1>2
  <2>2. PICK m \in ending : \A k \in ending : m <= k
    BY <1>3, <2>1, LeastNatural
  <2>3. PICK e \in all : e.last /\ e.index = m
    BY <2>2
  <2>4. e \in TakenClosers(D, s, n)
    BY <2>2, <2>3 DEF TakenClosers
  <2> QED
    BY <2>3, <2>4 DEF EndsSlot
<1>4. \A e \in all : ~ e.last
  BY <1>3
<1> QED
  BY <1>4 DEF TakenClosers

\* After draining nothing is ready from the new cursor on.
LEMMA NothingReadyAfter ==
  ASSUME NEW D \in SUBSET DataShred, NEW s, NEW n \in Nat,
         NEW R \in SUBSET D,
         ~ EndsSlot(TakenClosers(D, s, n))
  PROVE  Closers(R, s, CursorAfter(TakenClosers(D, s, n), n)) = {}
<1> DEFINE all == Closers(D, s, n)
           m == CursorAfter(all, n)
<1>1. TakenClosers(D, s, n) = all
  BY AllClosersTaken
<1>2. all \subseteq DataShred
  BY DEF Closers
<1>3. m \in Nat
  BY <1>2, CursorAfterType
<1>4. ASSUME NEW d \in Closers(R, s, m) PROVE FALSE
  <2>1. /\ d \in D /\ d.slot = s /\ d.index >= m /\ d.complete
        /\ \A i \in m .. d.index : DataAt(R, s, i) # {}
    BY <1>4 DEF Closers
  <2>2. d.index \in Nat
    BY <2>1, LimitAssumption DEF DataShred
  <2>3. \A i \in m .. d.index : DataAt(D, s, i) # {}
    BY <2>1 DEF DataAt
  <2>4. CASE all = {}
    <3>1. m = n
      BY <2>4 DEF CursorAfter
    <3>2. d \in all
      BY <2>1, <2>3, <3>1 DEF Closers
    <3> QED
      BY <2>4, <3>2
  <2>5. CASE all # {}
    <3> DEFINE top == CHOOSE f \in all : \A e \in all : e.index <= f.index
    <3>1. top \in all /\ \A e \in all : e.index <= top.index
      BY <1>2, <2>5, HighestShred
    <3>2. m = top.index + 1
      BY <2>5 DEF CursorAfter
    <3>3. /\ top.index >= n /\ top.index \in Nat
          /\ \A i \in n .. top.index : DataAt(D, s, i) # {}
      <4> HIDE DEF top
      <4>1. top \in DataShred
        BY <1>2, <3>1
      <4>2. top.index \in Nat
        BY <4>1, LimitAssumption DEF DataShred
      <4> QED
        BY <3>1, <4>2 DEF Closers
    <3> HIDE DEF top, m
    <3>4. \A i \in n .. d.index : DataAt(D, s, i) # {}
      BY <2>2, <2>3, <3>2, <3>3
    <3>5. d.index >= n
      BY <2>1, <2>2, <3>2, <3>3
    <3>6. d \in all
      BY <2>1, <3>4, <3>5 DEF Closers
    <3> QED
      BY <2>1, <2>2, <3>1, <3>2, <3>3, <3>6
  <2> QED
    BY <2>4, <2>5
<1> QED
  BY <1>1, <1>4

LEMMA StoreReady ==
  ASSUME TypeOK, HeldIsLive, NothingReadyIsHeld,
         NEW p \in Packet, NEW now \in Time, StoreShred(p, now)
  PROVE  NothingReadyIsHeld'
<1> DEFINE x == p.shred
           E == Evicted(x, now)
<1>1. /\ Parses(p) /\ Arrives(p) /\ Inserts(x)
      /\ slots' = Tracked(x) \ E /\ complete' = Done(x)
      /\ data' = NotOfSlots(D3(x), E)
  BY StoreEffect
<1>2. /\ D3(x) \subseteq D2(x) /\ D2(x) \subseteq DataShred
      /\ next[x.slot] \in Nat
      /\ ~ Drains(x) => Cursor(x) = next[x.slot]
      /\ \A r \in Back(x) : r.slot = x.slot
  BY <1>1, DrainFacts, BackFacts, ArrivalFacts
<1>3. \A t \in slots' : next'[t] = IF t = x.slot THEN Cursor(x) ELSE next[t]
  BY StoreNext
<1>4. data' \subseteq D2(x)
  BY <1>1, <1>2 DEF NotOfSlots
<1>5. ASSUME x.slot \in slots' \ complete'
      PROVE  Closers(data', x.slot, Cursor(x)) = {}
  <2>1. ~ EndsSlot(Ends(x))
    BY <1>1, <1>5 DEF Done
  <2>2. CASE Drains(x)
    <3>1. Ends(x) = TakenClosers(D2(x), x.slot, next[x.slot])
      BY <2>2 DEF Ends
    <3> QED
      BY <1>2, <1>4, <2>1, <3>1, NothingReadyAfter DEF Cursor
  <2>3. CASE ~ Drains(x)
    <3>1. DataAt(D2(x), x.slot, next[x.slot]) = {}
      BY <2>3 DEF Drains
    <3>2. DataAt(data', x.slot, next[x.slot]) = {}
      BY <1>4, <3>1 DEF DataAt
    <3>3. \A d \in data' : d.index \in Nat
      BY <1>2, <1>4, LimitAssumption DEF DataShred
    <3> QED
      BY <1>2, <2>3, <3>2, <3>3 DEF Closers
  <2> QED
    BY <2>2, <2>3
<1>6. ASSUME NEW t \in slots' \ complete', t # x.slot
      PROVE  Closers(data', t, next[t]) = {}
  <2>1. t \in slots \ complete
    BY <1>1, <1>6 DEF Tracked, Done
  <2>2. Closers(data, t, next[t]) = {}
    BY <2>1 DEF NothingReadyIsHeld
  <2>3. \A d \in data' : d.slot = t => d \in data
    <3> SUFFICES ASSUME NEW d \in data', d.slot = t PROVE d \in data
      OBVIOUS
    <3>1. d \in DataWith(x)
      BY <1>2, <1>4, <1>6 DEF D2
    <3> QED
      BY <1>6, <3>1, DataWithOrigin
  <2>4. \A i : DataAt(data', t, i) # {} => DataAt(data, t, i) # {}
    BY <2>3 DEF DataAt
  <2> QED
    BY <2>2, <2>3, <2>4 DEF Closers
<1> HIDE DEF x
<1> QED
  BY <1>3, <1>5, <1>6 DEF NothingReadyIsHeld

LEMMA RemovalReady ==
  ASSUME TypeOK, NothingReadyIsHeld, NEW V \in SUBSET slots, Removal(V)
  PROVE  NothingReadyIsHeld'
<1> SUFFICES ASSUME NEW t \in slots' \ complete'
             PROVE  Closers(data', t, next'[t]) = {}
  BY DEF NothingReadyIsHeld
<1>1. t \in slots \ complete /\ t \notin V /\ t \in Slot
  BY DEF Removal, TypeOK
<1>2. next'[t] = next[t]
  BY <1>1 DEF Removal, Reset
<1>3. data' \subseteq data
  BY DEF Removal, NotOfSlots
<1>4. Closers(data, t, next[t]) = {}
  BY <1>1 DEF NothingReadyIsHeld
<1>5. \A i : DataAt(data', t, i) # {} => DataAt(data, t, i) # {}
  BY <1>3 DEF DataAt
<1> QED
  BY <1>2, <1>3, <1>4, <1>5 DEF Closers

\* A finished segment never waits in a buffer: the call that completes it, by a
\* packet or by a recovery, also takes it out.
THEOREM NothingReadyWaits == Spec => []NothingReadyIsHeld
<1>1. Init => NothingReadyIsHeld
  BY DEF Init, NothingReadyIsHeld
<1>2. ASSUME LiveInv, NothingReadyIsHeld, [Next]_vars PROVE NothingReadyIsHeld'
  <2>1. TypeOK /\ HeldIsLive
    BY <1>2 DEF LiveInv, CountInv
  <2> QED
    BY <1>2, <2>1, StepCases, RemovalReady, StoreReady
<1> QED
  BY <1>1, <1>2, AlwaysLive, PTL DEF Spec

-----------------------------------------------------------------------------
(* The limits. *)

\* admit_slot: what it keeps leaves room for one more slot, because it keeps
\* only slots that fewer than Capacity slots are at or above.
LEMMA AdmissionMakesRoom ==
  ASSUME slots \subseteq Nat, IsFiniteSet(slots), Cardinality(slots) <= Capacity,
         NEW s
  PROVE  LET T == (slots \ Victims(s)) \cup {s} IN
         IsFiniteSet(T) /\ Cardinality(T) <= Capacity
<1> DEFINE K == slots \ Victims(s)
<1>1. Capacity \in Nat /\ Capacity >= 1
  BY LimitAssumption DEF Capacity
<1>2. CASE s \in slots
  <2>1. K \cup {s} = slots
    BY <1>2 DEF Victims
  <2> QED
    BY <2>1
<1>3. CASE s \notin slots
  <2>1. IsFiniteSet(K) /\ s \notin K
    BY <1>3, FS_Subset
  <2>2. Cardinality(K) \in Nat /\ Cardinality(K \cup {s}) = Cardinality(K) + 1
        /\ IsFiniteSet(K \cup {s})
    BY <2>1, FS_AddElement, FS_CardinalityType
  <2>3. CASE K = {}
    <3>1. Cardinality(K) = 0
      BY <2>3, FS_EmptySet
    <3> QED
      BY <1>1, <2>2, <3>1
  <2>4. CASE K # {}
    <3>1. PICK m \in K : \A k \in K : m <= k
      BY <2>4, LeastNatural
    <3> DEFINE U == {u \in slots : u >= m}
    <3>2. m \notin Victims(s) /\ m \in slots
      BY <3>1
    <3>3. ~ (Cardinality(U) >= Capacity)
      BY <1>3, <3>2 DEF Victims
    <3>4. K \in SUBSET U
      BY <3>1
    <3>5. IsFiniteSet(U)
      BY FS_Subset
    <3>6. Cardinality(U) \in Nat /\ Cardinality(K) <= Cardinality(U)
      BY <3>4, <3>5, FS_Subset, FS_CardinalityType
    <3> HIDE DEF U, K
    <3> QED
      BY <1>1, <2>2, <3>3, <3>6 DEF K
  <2> QED
    BY <2>3, <2>4
<1> QED
  BY <1>2, <1>3

\* A nonempty set of slots has one that no other is older than.
LEMMA OldestSlot ==
  ASSUME NEW K \in SUBSET Nat, K # {}, NEW act, \A t \in K : act[t] \in Nat
  PROVE  \E o \in K : \A t \in K : ~ Older(t, o, act)
<1> DEFINE times == {act[t] : t \in K}
<1>1. PICK a \in times : \A b \in times : a <= b
  <2>1. times \in SUBSET Nat /\ times # {}
    OBVIOUS
  <2> QED
    BY <2>1, LeastNatural
<1> DEFINE T == {t \in K : act[t] = a}
<1>2. PICK o \in T : \A t \in T : o <= t
  <2>1. T \in SUBSET Nat /\ T # {}
    BY <1>1
  <2> QED
    BY <2>1, LeastNatural
<1>3. o \in K /\ act[o] = a
  BY <1>2
<1>4. ASSUME NEW t \in K PROVE ~ Older(t, o, act)
  <2>1. act[t] \in Nat /\ act[o] \in Nat /\ act[o] <= act[t] /\ t \in Nat /\ o \in Nat
    BY <1>1, <1>3
  <2>2. act[t] = act[o] => o <= t
    BY <1>2, <1>3
  <2> QED
    BY <2>1, <2>2 DEF Older
<1> QED
  BY <1>3, <1>4

\* enforce_buffer_limit: what survives fits, provided all that is held belongs
\* to slots the loop may evict.
LEMMA SurvivorsFit ==
  ASSUME NEW D, IsFiniteSet(D), NEW C, IsFiniteSet(C), NEW open \in SUBSET Nat,
         NEW act, \A t \in open : act[t] \in Nat,
         \A d \in D : d.slot \in open, \A c \in C : c.slot \in open
  PROVE  LET E == Overflow(D, C, open, act) IN
         Cardinality(NotOfSlots(D, E)) + Cardinality(NotOfSlots(C, E))
           <= MaxBufferedShreds
<1> DEFINE E == Overflow(D, C, open, act)
           K == open \ E
<1>1. MaxBufferedShreds \in Nat
  BY LimitAssumption
<1>2. NotOfSlots(D, E) = OfSlots(D, K) /\ NotOfSlots(C, E) = OfSlots(C, K)
  BY DEF NotOfSlots, OfSlots
<1>3. CASE K = {}
  <2>1. OfSlots(D, K) = {} /\ OfSlots(C, K) = {}
    BY <1>3 DEF OfSlots
  <2>2. Cardinality({}) = 0
    BY FS_EmptySet
  <2> HIDE DEF K, E
  <2> QED
    BY <1>1, <1>2, <2>1, <2>2 DEF E
<1>4. CASE K # {}
  <2>1. PICK o \in K : \A t \in K : ~ Older(t, o, act)
    <3>1. K \in SUBSET Nat /\ \A t \in K : act[t] \in Nat
      OBVIOUS
    <3> HIDE DEF K
    <3> QED
      BY <1>4, <3>1, OldestSlot
  <2> DEFINE W == {t \in open : ~ Older(t, o, act)}
  <2>2. ~ (Held(D, C, W) > MaxBufferedShreds)
    BY <2>1 DEF Overflow
  <2>3. OfSlots(D, K) \in SUBSET OfSlots(D, W) /\ OfSlots(C, K) \in SUBSET OfSlots(C, W)
    BY <2>1 DEF OfSlots
  <2>4. IsFiniteSet(OfSlots(D, W)) /\ IsFiniteSet(OfSlots(C, W))
    BY SplitBySlot
  <2>5. /\ Cardinality(OfSlots(D, K)) \in Nat /\ Cardinality(OfSlots(D, W)) \in Nat
        /\ Cardinality(OfSlots(D, K)) <= Cardinality(OfSlots(D, W))
        /\ Cardinality(OfSlots(C, K)) \in Nat /\ Cardinality(OfSlots(C, W)) \in Nat
        /\ Cardinality(OfSlots(C, K)) <= Cardinality(OfSlots(C, W))
    BY <2>3, <2>4, FS_Subset, FS_CardinalityType
  <2> HIDE DEF W, K, E
  <2> QED
    BY <1>1, <1>2, <2>2, <2>5 DEF Held, E
<1> QED
  BY <1>3, <1>4

LimitInv == WithinLimits /\ IsFiniteSet(slots)

LEMMA StoreLimits ==
  ASSUME CountInv, HeldIsLive, LimitInv, CountInv',
         NEW p \in Packet, NEW now \in Time, StoreShred(p, now)
  PROVE  LimitInv'
<1> DEFINE x == p.shred
           E == Evicted(x, now)
           open == Tracked(x) \ Done(x)
           act == Acts(x, now)
<1> TypeOK /\ WithinLimits /\ IsFiniteSet(slots)
  BY DEF CountInv, LimitInv
<1>1. /\ Parses(p) /\ Arrives(p) /\ Inserts(x)
      /\ slots' = Tracked(x) \ E
      /\ data' = NotOfSlots(D3(x), E) /\ code' = NotOfSlots(C3(x), E)
  BY StoreEffect
<1>2. x.slot \in Slot
  BY <1>1, ArrivalFacts
<1>3. Capacity \in Nat /\ slots \subseteq Nat /\ Slot \subseteq Nat
  BY LimitAssumption, SlotAssumption DEF Capacity, TypeOK
<1>4. IsFiniteSet(Tracked(x)) /\ Cardinality(Tracked(x)) <= Capacity
  <2> HIDE DEF x
  <2>1. Cardinality(slots) <= Capacity
    BY DEF WithinLimits
  <2> QED
    BY <1>3, <2>1, AdmissionMakesRoom DEF Tracked
<1>5. IsFiniteSet(slots') /\ Cardinality(slots') <= Capacity
  <2>1. slots' \in SUBSET Tracked(x)
    BY <1>1
  <2>2. /\ IsFiniteSet(slots') /\ Cardinality(slots') <= Cardinality(Tracked(x))
        /\ Cardinality(slots') \in Nat /\ Cardinality(Tracked(x)) \in Nat
    BY <1>4, <2>1, FS_Subset, FS_CardinalityType
  <2> QED
    BY <1>3, <1>4, <2>2
<1>6. IsFiniteSet(D3(x)) /\ IsFiniteSet(C3(x))
  <2>1. IsFiniteSet(D2(x)) /\ IsFiniteSet(CodeWith(x))
    BY <1>1, BackFacts, ArrivalFacts
  <2>2. D3(x) \subseteq D2(x) /\ C3(x) \subseteq CodeWith(x)
    BY <1>1, DrainFacts
  <2> QED
    BY <2>1, <2>2, FS_Subset
<1>7. (\A d \in D3(x) : d.slot \in open) /\ \A c \in C3(x) : c.slot \in open
  <2>1. /\ \A d \in D2(x) : d.slot \in Tracked(x) /\ d.slot \notin complete
        /\ \A c \in CodeWith(x) : c.slot \in Tracked(x) /\ c.slot \notin complete
    BY <1>1, StagesLive
  <2>2. /\ D3(x) \subseteq D2(x) /\ C3(x) \subseteq CodeWith(x)
        /\ \A d \in D3(x) : d.slot = x.slot => ~ EndsSlot(Ends(x))
        /\ \A c \in C3(x) : c.slot = x.slot => ~ EndsSlot(Ends(x))
    BY <1>1, DrainFacts
  <2> HIDE DEF x
  <2> QED
    BY <2>1, <2>2 DEF Done
<1>8. open \in SUBSET Nat /\ \A t \in open : act[t] \in Nat
  <2>1. open \subseteq Slot
    BY <1>2 DEF Tracked, TypeOK
  <2>2. Reset(active, Victims(x.slot)) \in [Slot -> Nat] /\ now \in Nat
    BY ResetType, TimeAssumption DEF TypeOK
  <2>3. \A t \in Slot : act[t] \in Nat
    BY <1>2, <2>2 DEF Acts
  <2> QED
    BY <1>3, <2>1, <2>3
<1>9. Cardinality(data') + Cardinality(code') <= MaxBufferedShreds
  <2> HIDE DEF open, act
  <2>1. E = Overflow(D3(x), C3(x), open, act)
    BY DEF Evicted, open, act
  <2> HIDE DEF E, x
  <2> QED
    BY <1>1, <1>6, <1>7, <1>8, <2>1, SurvivorsFit
<1>10. buffered' = Cardinality(data') + Cardinality(code')
  BY DEF CountInv, BufferedCount
<1> QED
  BY <1>5, <1>9, <1>10 DEF LimitInv, WithinLimits, Capacity

LEMMA RemovalLimits ==
  ASSUME CountInv, LimitInv, CountInv', NEW V \in SUBSET slots, Removal(V)
  PROVE  LimitInv'
<1>1. /\ slots' \in SUBSET slots /\ data' \in SUBSET data /\ code' \in SUBSET code
      /\ IsFiniteSet(slots) /\ IsFiniteSet(data) /\ IsFiniteSet(code)
  BY DEF Removal, NotOfSlots, LimitInv, CountInv, TypeOK
<1>2. /\ IsFiniteSet(slots') /\ Cardinality(slots') <= Cardinality(slots)
      /\ Cardinality(data') <= Cardinality(data)
      /\ Cardinality(code') <= Cardinality(code)
      /\ Cardinality(slots) \in Nat /\ Cardinality(slots') \in Nat
      /\ Cardinality(data) \in Nat /\ Cardinality(data') \in Nat
      /\ Cardinality(code) \in Nat /\ Cardinality(code') \in Nat
  BY <1>1, FS_Subset, FS_CardinalityType
<1>3. /\ buffered = Cardinality(data) + Cardinality(code)
      /\ buffered' = Cardinality(data') + Cardinality(code')
  BY DEF CountInv, BufferedCount
<1>4. Capacity \in Nat /\ MaxBufferedShreds \in Nat
  BY LimitAssumption DEF Capacity
<1>5. buffered <= MaxBufferedShreds /\ Cardinality(slots) <= Capacity
  BY DEF LimitInv, WithinLimits
<1>6. buffered' <= MaxBufferedShreds /\ Cardinality(slots') <= Capacity
  BY <1>2, <1>3, <1>4, <1>5
<1> QED
  BY <1>2, <1>6 DEF LimitInv, WithinLimits, Capacity

LEMMA AlwaysLimited == Spec => []LimitInv
<1>1. Init => LimitInv
  <2>1. Cardinality({}) = 0 /\ IsFiniteSet({})
    BY FS_EmptySet
  <2> QED
    BY <2>1, LimitAssumption DEF Init, LimitInv, WithinLimits, Capacity
<1>2. ASSUME LiveInv, LimitInv, [Next]_vars PROVE LimitInv'
  <2>1. CountInv /\ TypeOK /\ HeldIsLive
    BY <1>2 DEF LiveInv, CountInv
  <2>2. CountInv'
    BY <1>2, <2>1, NextCount
  <2> QED
    BY <1>2, <2>1, <2>2, StepCases, RemovalLimits, StoreLimits
<1> QED
  BY <1>1, <1>2, AlwaysLive, PTL DEF Spec

\* Between calls the decoder is within both limits: the buffers within
\* MAX_BUFFERED_SHREDS, the slot map within max_tracked_slots, whatever recovery
\* restored and however many slots a packet opened.
THEOREM StaysWithinLimits == Spec => []WithinLimits
<1>1. LimitInv => WithinLimits
  BY DEF LimitInv
<1> QED
  BY <1>1, AlwaysLimited, PTL

-----------------------------------------------------------------------------
(* Recovery. *)

LEMMA CodeWithOrigin ==
  ASSUME NEW x, NEW c \in CodeWith(x)
  PROVE  \/ c \in code /\ c.slot \notin Victims(x.slot)
         \/ c = x /\ x.kind = "code"
<1>1. CASE x.kind = "code"
  BY <1>1 DEF CodeWith, NotOfSlots
<1>2. CASE x.kind # "code"
  BY <1>2 DEF CodeWith, NotOfSlots
<1> QED
  BY <1>1, <1>2

\* As long as a coding set is kept, so are the data shreds from its first index
\* on: draining that passes one of them drops the coding set as well.
LEMMA SetSurvives ==
  ASSUME TypeOK, HeldIsLive,
         NEW p \in Packet, NEW now \in Time, StoreShred(p, now),
         NEW c \in code', NEW d \in D2(p.shred),
         d.slot = c.slot, d.index >= c.fec
  PROVE  d \in data'
<1> DEFINE x == p.shred
           E == Evicted(x, now)
<1>1. /\ Parses(p) /\ Arrives(p) /\ Inserts(x)
      /\ data' = NotOfSlots(D3(x), E) /\ code' = NotOfSlots(C3(x), E)
  BY StoreEffect
<1>2. c \in C3(x) /\ d.slot \notin E
  BY <1>1 DEF NotOfSlots
<1>3. /\ C3(x) \subseteq CodeShred /\ D2(x) \subseteq DataShred /\ Cursor(x) \in Nat
      /\ c.slot = x.slot => ~ EndsSlot(Ends(x)) /\ (Drains(x) => c.fec >= Cursor(x))
  BY <1>1, <1>2, ArrivalFacts, BackFacts, DrainFacts
<1>4. c.fec \in Nat /\ d.index \in Nat
  BY <1>2, <1>3, LimitAssumption DEF DataShred, CodeShred
<1>5. d \in D3(x)
  BY <1>3, <1>4 DEF D3, Undrained
<1> QED
  BY <1>1, <1>2, <1>5 DEF NotOfSlots

\* What the FEC set of another shred gains: nothing.
LEMMA OtherSetsGainNothing ==
  ASSUME TypeOK, HeldIsLive,
         NEW p \in Packet, NEW now \in Time, StoreShred(p, now),
         NEW s, NEW f, s # p.shred.slot \/ f # p.shred.fec
  PROVE  /\ \A d \in data' : d.slot = s /\ d.fec = f => d \in data
         /\ \A c \in code' : c.slot = s /\ c.fec = f => c \in code
<1> DEFINE x == p.shred
<1>1. /\ Parses(p) /\ Arrives(p) /\ Inserts(x)
      /\ data' = NotOfSlots(D3(x), Evicted(x, now))
      /\ code' = NotOfSlots(C3(x), Evicted(x, now))
  BY StoreEffect
<1>2. /\ D3(x) \subseteq D2(x) /\ C3(x) \subseteq CodeWith(x)
      /\ \A r \in Back(x) : r.slot = x.slot /\ r.fec = x.fec
  BY <1>1, DrainFacts, BackFacts
<1>3. data' \subseteq D2(x) /\ code' \subseteq CodeWith(x)
  BY <1>1, <1>2 DEF NotOfSlots
<1>4. ASSUME NEW d \in data', d.slot = s, d.fec = f PROVE d \in data
  <2>1. d \in DataWith(x)
    BY <1>2, <1>3, <1>4 DEF D2
  <2> QED
    BY <1>4, <2>1, DataWithOrigin
<1>5. ASSUME NEW c \in code', c.slot = s, c.fec = f PROVE c \in code
  BY <1>3, <1>5, CodeWithOrigin
<1> QED
  BY <1>4, <1>5

\* Fewer shreds are too few if more of them were.
LEMMA StillTooFew ==
  ASSUME NEW A, IsFiniteSet(A), NEW B \in SUBSET A,
         NEW C, IsFiniteSet(C), NEW G \in SUBSET C,
         NEW n \in Nat, Cardinality(A) + Cardinality(C) < n
  PROVE  Cardinality(B) + Cardinality(G) < n
<1>1. /\ IsFiniteSet(B) /\ Cardinality(B) <= Cardinality(A)
      /\ IsFiniteSet(G) /\ Cardinality(G) <= Cardinality(C)
  BY FS_Subset
<1>2. /\ Cardinality(A) \in Nat /\ Cardinality(B) \in Nat
      /\ Cardinality(C) \in Nat /\ Cardinality(G) \in Nat
  BY <1>1, FS_CardinalityType
<1> QED
  BY <1>1, <1>2

\* NoRecoveryPending, for one coding shred.
Settled(c) ==
  \/ <<c.slot, c.fec>> \in failed
  \/ Cardinality(SetData(data, c.slot, c.fec, c.numData))
       + Cardinality(CodingSet(code, c.slot, c.fec)) < c.numData
  \/ \A i \in c.fec .. (c.fec + c.numData - 1) : DataAt(data, c.slot, i) # {}

\* A set the call did not touch.
LEMMA OtherSetSettled ==
  ASSUME TypeOK, HeldIsLive, NoRecoveryPending,
         NEW p \in Packet, NEW now \in Time, StoreShred(p, now),
         NEW c \in code', c.slot # p.shred.slot \/ c.fec # p.shred.fec
  PROVE  Settled(c)'
<1> DEFINE x == p.shred
           A == SetData(data, c.slot, c.fec, c.numData)
           G == CodingSet(code, c.slot, c.fec)
<1>1. /\ \A d \in data' : d.slot = c.slot /\ d.fec = c.fec => d \in data
      /\ \A b \in code' : b.slot = c.slot /\ b.fec = c.fec => b \in code
  BY OtherSetsGainNothing
<1>2. c \in code /\ c \in CodeShred
  BY <1>1 DEF TypeOK
<1>3. c.fec \in Nat /\ c.numData \in Nat
  BY <1>2 DEF CodeShred
<1>4. /\ Parses(p) /\ Arrives(p) /\ Inserts(x)
      /\ code' = NotOfSlots(C3(x), Evicted(x, now))
      /\ failed' = {k \in failed \cup NewlyFailed(DataWith(x), Siblings(x)) :
                      CodingSet(code', k[1], k[2]) # {}}
  BY StoreEffect
<1>5. Settled(c)
  BY <1>2 DEF NoRecoveryPending, Settled
<1>6. CASE <<c.slot, c.fec>> \in failed
  <2>1. c \in CodingSet(code', c.slot, c.fec)
    BY DEF CodingSet
  <2>2. <<c.slot, c.fec>> \in failed'
    BY <1>4, <1>6, <2>1
  <2> QED
    BY <2>2 DEF Settled
<1>7. CASE Cardinality(A) + Cardinality(G) < c.numData
  <2> DEFINE B == SetData(data', c.slot, c.fec, c.numData)
             H == CodingSet(code', c.slot, c.fec)
  <2>1. IsFiniteSet(A) /\ IsFiniteSet(G)
    BY FS_Subset DEF TypeOK, SetData, CodingSet
  <2>2. B \in SUBSET A /\ H \in SUBSET G
    BY <1>1 DEF SetData, CodingSet
  <2>3. Cardinality(B) + Cardinality(H) < c.numData
    <3> HIDE DEF A, B, G, H
    <3> QED
      BY <1>3, <1>7, <2>1, <2>2, StillTooFew
  <2> QED
    BY <2>3 DEF Settled, SetData, CodingSet
<1>8. CASE \A i \in c.fec .. (c.fec + c.numData - 1) : DataAt(data, c.slot, i) # {}
  <2>1. ASSUME NEW i \in c.fec .. (c.fec + c.numData - 1)
        PROVE  DataAt(data', c.slot, i) # {}
    <3>1. PICK d \in data : d.slot = c.slot /\ d.index = i
      BY <1>8, <2>1 DEF DataAt
    <3>2. c \in CodeWith(x)
      BY <1>4, DrainFacts DEF NotOfSlots
    <3>3. c.slot \notin Victims(x.slot)
      <4>1. x.slot \notin Victims(x.slot)
        BY <1>4, ArrivalFacts
      <4> QED
        BY <3>2, <4>1, CodeWithOrigin
    <3>4. d \in D2(x)
      BY <3>1, <3>3 DEF D2, DataWith, NotOfSlots
    <3>5. d \in data'
      <4>1. d.index >= c.fec
        BY <1>3, <2>1, <3>1
      <4> QED
        BY <3>1, <3>4, <4>1, SetSurvives
    <3> QED
      BY <3>1, <3>5 DEF DataAt
  <2> QED
    BY <2>1 DEF Settled, DataAt
<1> QED
  BY <1>5, <1>6, <1>7, <1>8 DEF Settled

\* After a successful reconstruction every index of the set is filled.
LEMMA RecoveryFillsSet ==
  ASSUME TypeOK, HeldIsLive,
         NEW p \in Packet, Parses(p), Arrives(p), Inserts(p.shred),
         Recovers(DataWith(p.shred), Siblings(p.shred)),
         NEW h, h = HeaderOf(Siblings(p.shred)),
         NEW i \in h.fec .. (h.fec + h.numData - 1)
  PROVE  DataAt(D2(p.shred), p.shred.slot, i) # {}
<1> DEFINE x == p.shred
           D == DataWith(x)
           P == Siblings(x)
<1>1. h \in P
  BY DEF Recovers, AttemptsRecovery, Recoverable, HeaderOf
<1>2. /\ h \in CodeWith(x) /\ h \in CodeShred /\ h.slot = x.slot /\ h.fec = x.fec
      /\ next[x.slot] \in Nat
  BY <1>1, ArrivalFacts
<1>3. h.fec \in Nat /\ h.numData \in Nat /\ h.fec >= next[h.slot] /\ h.sig \in Sig
  BY <1>2, StagesLive DEF CodeShred
<1>4. /\ h.root \in DOMAIN Original
      /\ {o.index : o \in Original[h.root]} = h.fec .. (h.fec + h.numData - 1)
      /\ \A o \in Original[h.root] : o.slot = h.slot
  BY DEF Recovers, Reconstructs
<1>5. PICK o \in Original[h.root] : o.index = i
  BY <1>4
<1>6. o \in DataShred /\ o.slot = x.slot
  BY <1>2, <1>4, OriginalAssumption
<1>7. CASE DataAt(D, x.slot, i) # {}
  BY <1>7 DEF DataAt, D2
<1>8. CASE DataAt(D, x.slot, i) = {}
  <2> DEFINE r == [o EXCEPT !.sig = h.sig]
  <2>1. r.slot = x.slot /\ r.index = i
    BY <1>3, <1>5, <1>6 DEF DataShred
  <2>2. o.index >= next[h.slot] /\ DataAt(D, h.slot, o.index) = {}
    BY <1>2, <1>3, <1>5, <1>8
  <2>3. Back(x) = {[u EXCEPT !.sig = h.sig] :
                     u \in {v \in Original[h.root] :
                              v.index >= next[h.slot] /\ DataAt(D, h.slot, v.index) = {}}}
    BY DEF Back, Restored
  <2>4. r \in Back(x)
    <3> HIDE DEF D, x
    <3> QED
      BY <2>2, <2>3
  <2> HIDE DEF r
  <2> QED
    BY <2>1, <2>4 DEF D2, DataAt
<1> QED
  BY <1>7, <1>8

\* The set of the shred that was stored.
LEMMA OwnSetSettled ==
  ASSUME TypeOK, HeldIsLive, CodingSetsUniform,
         NEW p \in Packet, NEW now \in Time, StoreShred(p, now),
         NEW c \in code', c.slot = p.shred.slot, c.fec = p.shred.fec
  PROVE  Settled(c)'
<1> DEFINE x == p.shred
           D == DataWith(x)
           P == Siblings(x)
           h == HeaderOf(P)
           key == <<c.slot, c.fec>>
<1>1. /\ Parses(p) /\ Arrives(p) /\ Inserts(x)
      /\ data' = NotOfSlots(D3(x), Evicted(x, now))
      /\ code' = NotOfSlots(C3(x), Evicted(x, now))
      /\ failed' = {k \in failed \cup NewlyFailed(D, P) :
                      CodingSet(code', k[1], k[2]) # {}}
  BY StoreEffect
<1>2. /\ D3(x) \subseteq D2(x) /\ C3(x) \subseteq C2(x) /\ C2(x) \subseteq CodeWith(x)
      /\ IsFiniteSet(D) /\ IsFiniteSet(CodeWith(x)) /\ CodeWith(x) \subseteq CodeShred
  BY <1>1, DrainFacts, ArrivalFacts
<1>3. c \in C2(x) /\ c \in CodeWith(x) /\ data' \subseteq D2(x) /\ code' \subseteq CodeWith(x)
  BY <1>1, <1>2 DEF NotOfSlots
<1>4. c \in P
  BY <1>3 DEF Siblings, Peers, CodingSet
<1>5. h \in P
  BY <1>4 DEF HeaderOf
<1>6. h \in CodeWith(x) /\ h.slot = c.slot /\ h.fec = c.fec
  BY <1>1, <1>5, ArrivalFacts
<1>7. h.numData = c.numData /\ c.numData \in Nat /\ c.fec \in Nat
  BY <1>1, <1>2, <1>3, <1>6, WithUniform DEF Alike, CodeShred
<1>8. ~ DropsCodingSet(D, P)
  BY <1>3, <1>4 DEF C2
<1>9. ASSUME key \in failed \cup NewlyFailed(D, P) PROVE Settled(c)'
  <2>1. c \in CodingSet(code', c.slot, c.fec)
    BY DEF CodingSet
  <2>2. key \in failed'
    BY <1>1, <1>9, <2>1
  <2> QED
    BY <2>2 DEF Settled
<1>10. CASE key \notin failed /\ ~ EnoughShreds(D, P)
  <2> DEFINE A == SetData(D, c.slot, c.fec, c.numData)
             B == SetData(data', c.slot, c.fec, c.numData)
             H == CodingSet(code', c.slot, c.fec)
  <2>1. Back(x) = {}
    BY <1>10 DEF Back, Restored, Recovers, AttemptsRecovery
  <2>2. data' \subseteq D
    BY <1>3, <2>1 DEF D2
  <2>3. B \in SUBSET A /\ H \in SUBSET P
    BY <1>3, <2>2 DEF SetData, CodingSet, Siblings, Peers
  <2>4. IsFiniteSet(A) /\ IsFiniteSet(P)
    BY <1>2, FS_Subset DEF SetData, Siblings, Peers, CodingSet
  <2>5. Present(D, P) = A
    BY <1>6, <1>7 DEF Present
  <2>6. ~ (Cardinality(A) + Cardinality(P) >= c.numData)
    BY <1>7, <1>10, <2>5 DEF EnoughShreds
  <2>7. Cardinality(A) + Cardinality(P) < c.numData
    <3>1. Cardinality(A) \in Nat /\ Cardinality(P) \in Nat
      BY <2>4, FS_CardinalityType
    <3> HIDE DEF A, P
    <3> QED
      BY <1>7, <2>6, <3>1
  <2>8. Cardinality(B) + Cardinality(H) < c.numData
    <3> HIDE DEF A, B, H, P
    <3> QED
      BY <1>7, <2>3, <2>4, <2>7, StillTooFew
  <2> QED
    BY <2>8 DEF Settled, SetData, CodingSet
<1>11. CASE key \notin failed /\ EnoughShreds(D, P)
  <2>1. Recoverable(P)
    BY <1>4, <1>6, <1>11 DEF Recoverable
  <2>2. AttemptsRecovery(D, P)
    BY <1>8, <1>11, <2>1 DEF DropsCodingSet, AttemptsRecovery
  <2>3. CASE ~ Reconstructs(D, h)
    <3>1. key \in NewlyFailed(D, P)
      BY <1>6, <2>2, <2>3 DEF NewlyFailed
    <3> QED
      BY <1>9, <3>1
  <2>4. CASE Reconstructs(D, h)
    <3>1. Recovers(D, P)
      BY <2>2, <2>4 DEF Recovers
    <3>2. ASSUME NEW i \in c.fec .. (c.fec + c.numData - 1)
          PROVE  DataAt(data', c.slot, i) # {}
      <4>1. i \in h.fec .. (h.fec + h.numData - 1)
        BY <1>6, <1>7
      <4>2. DataAt(D2(x), x.slot, i) # {}
        BY <1>1, <3>1, <4>1, RecoveryFillsSet
      <4>3. PICK d \in D2(x) : d.slot = c.slot /\ d.index = i
        BY <4>2 DEF DataAt
      <4>4. d.index >= c.fec
        BY <1>7, <4>3
      <4>5. d \in data'
        BY <4>3, <4>4, SetSurvives
      <4> QED
        BY <4>3, <4>5 DEF DataAt
    <3> QED
      BY <3>2 DEF Settled, DataAt
  <2> QED
    BY <2>3, <2>4
<1> QED
  BY <1>9, <1>10, <1>11

LEMMA RemovalSettled ==
  ASSUME TypeOK, NoRecoveryPending, NEW V \in SUBSET slots, Removal(V)
  PROVE  NoRecoveryPending'
<1> SUFFICES ASSUME NEW c \in code' PROVE Settled(c)'
  BY DEF NoRecoveryPending, Settled
<1>1. c \in code /\ c.slot \notin V
  BY DEF Removal, NotOfSlots
<1>2. /\ SetData(data', c.slot, c.fec, c.numData) = SetData(data, c.slot, c.fec, c.numData)
      /\ CodingSet(code', c.slot, c.fec) = CodingSet(code, c.slot, c.fec)
      /\ \A i : DataAt(data', c.slot, i) = DataAt(data, c.slot, i)
  BY <1>1 DEF Removal, NotOfSlots, SetData, CodingSet, DataAt
<1>3. <<c.slot, c.fec>> \in failed => <<c.slot, c.fec>> \in failed'
  BY <1>1 DEF Removal
<1>4. Settled(c)
  BY <1>1 DEF NoRecoveryPending, Settled
<1>5. Settled(c)' <=>
        \/ <<c.slot, c.fec>> \in failed'
        \/ Cardinality(SetData(data', c.slot, c.fec, c.numData))
             + Cardinality(CodingSet(code', c.slot, c.fec)) < c.numData
        \/ \A i \in c.fec .. (c.fec + c.numData - 1) : DataAt(data', c.slot, i) # {}
  BY DEF Settled, SetData, CodingSet, DataAt
<1> QED
  BY <1>2, <1>3, <1>4, <1>5 DEF Settled

\* No possible recovery waits: the call that makes a coding set sufficient, be
\* it by a data or by a coding shred, also attempts its recovery.
THEOREM NoRecoveryWaits == Spec => []NoRecoveryPending
<1>1. Init => NoRecoveryPending
  BY DEF Init, NoRecoveryPending
<1>2. ASSUME LiveInv, NoRecoveryPending, [Next]_vars PROVE NoRecoveryPending'
  <2>1. TypeOK /\ HeldIsLive /\ CodingSetsUniform
    BY <1>2 DEF LiveInv, CountInv
  <2>2. ASSUME NEW p \in Packet, NEW now \in Time, StoreShred(p, now)
        PROVE  NoRecoveryPending'
    <3>1. ASSUME NEW c \in code' PROVE Settled(c)'
      BY <1>2, <2>1, <2>2, OtherSetSettled, OwnSetSettled
    <3> QED
      BY <3>1 DEF NoRecoveryPending, Settled
  <2> QED
    BY <1>2, <2>1, <2>2, StepCases, RemovalSettled
<1> QED
  BY <1>1, <1>2, AlwaysLive, PTL DEF Spec

-----------------------------------------------------------------------------
(* The sticky recovery_failed flag. *)

\* The data shreds that are not numbered before their FEC set.
Proper(D) == {d \in D : d.index >= d.fec}

\* The inductive form: the shreds numbered before the set, which may be delivered
\* and so leave it, are not what makes the suppressed attempt fail.
StickyInv ==
  \A c \in code :
    <<c.slot, c.fec>> \in failed \ misled =>
      ~ Reconstructs(Proper(data), c) \/ SizeOverlooked(c)

\* A set that reconstructs holds no shred numbered before it.
LEMMA ReconstructsProper ==
  ASSUME NEW D, NEW c, Reconstructs(D, c)
  PROVE  Reconstructs(Proper(D), c)
<1>1. SetData(Proper(D), c.slot, c.fec, c.numData)
        = SetData(D, c.slot, c.fec, c.numData)
  <2>1. \A d \in SetData(D, c.slot, c.fec, c.numData) : d.index >= c.fec
    BY DEF Reconstructs
  <2> QED
    BY <2>1 DEF SetData, Proper
<1> QED
  BY <1>1, Zenon DEF Reconstructs

LEMMA StickyInvSuffices == StickyInv => SuppressedRecoveryWouldFail
BY ReconstructsProper DEF StickyInv, SuppressedRecoveryWouldFail

\* Whatever part of a good set one looks at is good, unless it misses a shred
\* whose size is no size.
LEMMA PartReconstructs ==
  ASSUME NEW D, NEW E, NEW c, Reconstructs(E, c),
         \A o \in Original[c.root], d \in SetData(E, c.slot, c.fec, c.numData) :
           ~ (o.size < 0 /\ d.index = o.index),
         SetData(D, c.slot, c.fec, c.numData) \subseteq SetData(E, c.slot, c.fec, c.numData)
  PROVE  Reconstructs(D, c)
<1>1. c.root \in DOMAIN Original
  BY DEF Reconstructs
<1>2. \A o \in Original[c.root] : o.size >= 0
  <2> SUFFICES ASSUME NEW o \in Original[c.root], ~ (o.size >= 0) PROVE FALSE
    OBVIOUS
  <2>1. o.size \in Int
    BY <1>1, OriginalAssumption DEF DataShred
  <2>2. o.size < 0
    BY <2>1
  <2>3. \E d \in SetData(E, c.slot, c.fec, c.numData) : d.index = o.index
    BY Zenon DEF Reconstructs
  <2> QED
    BY <2>2, <2>3
<1> QED
  BY <1>2, Zenon DEF Reconstructs

\* Coding shreds that belong together are recovered, or not, together.
LEMMA AlikeReconstructs ==
  ASSUME NEW c, NEW y, Alike(c, y), c.slot = y.slot, c.fec = y.fec
  PROVE  /\ \A D : Reconstructs(D, c) => Reconstructs(D, y)
         /\ SizeOverlooked(y) => SizeOverlooked(c)
BY DEF Alike, Reconstructs, SizeOverlooked

LEMMA StoreSticky ==
  ASSUME TypeOK, HeldIsLive, CodingSetsUniform, StickyInv,
         NEW p \in Packet, NEW now \in Time, StoreShred(p, now)
  PROVE  StickyInv'
<1> DEFINE x == p.shred
           D == DataWith(x)
           P == Siblings(x)
           h == HeaderOf(P)
           Of(E, c) == SetData(E, c.slot, c.fec, c.numData)
<1> SUFFICES ASSUME NEW c \in code', <<c.slot, c.fec>> \in failed' \ misled',
                    Reconstructs(Proper(data'), c),
                    ~ (/\ c.root \in DOMAIN Original
                       /\ \E o \in Original[c.root], d \in Of(data', c) :
                            o.size < 0 /\ d.index = o.index)
             PROVE  FALSE
  BY DEF StickyInv, Reconstructs, SizeOverlooked, Proper, SetData
<1>1. /\ Parses(p) /\ Arrives(p) /\ Inserts(x)
      /\ code' = NotOfSlots(C3(x), Evicted(x, now))
      /\ failed' = {k \in failed \cup NewlyFailed(D, P) :
                      CodingSet(code', k[1], k[2]) # {}}
      /\ misled' = {k \in failed' :
                      \/ k \in misled
                      \/ k \in NewlyFailed(D, P) /\ Misnumbered(D, k) # {}}
  BY StoreEffect
<1>2. /\ C3(x) \subseteq CodeWith(x) /\ CodeWith(x) \subseteq CodeShred
      /\ x.slot \notin Victims(x.slot)
      /\ D2(x) \subseteq DataShred
  BY <1>1, DrainFacts, ArrivalFacts, BackFacts
<1>3. c \in CodeWith(x) /\ c \in CodeShred
  BY <1>1, <1>2 DEF NotOfSlots
<1>4. c.slot \notin Victims(x.slot)
  BY <1>2, <1>3, CodeWithOrigin
<1>5. ASSUME NEW y \in CodeWith(x), y.slot = c.slot, y.fec = c.fec
      PROVE  Alike(c, y) /\ Alike(y, c)
  BY <1>1, <1>3, <1>5, WithUniform
<1>6. /\ c.root \in DOMAIN Original
      /\ \A o \in Original[c.root] : o.index >= c.fec
  <2>1. /\ c.root \in DOMAIN Original
        /\ {o.index : o \in Original[c.root]} = c.fec .. (c.fec + c.numData - 1)
    BY DEF Reconstructs
  <2>2. c.fec \in Nat /\ c.numData \in Nat
    BY <1>3 DEF CodeShred
  <2>3. \A o \in Original[c.root] : o.index \in c.fec .. (c.fec + c.numData - 1)
    BY <2>1
  <2> QED
    BY <2>1, <2>2, <2>3
<1>7. \A d \in D2(x) : d.slot = c.slot /\ d.index >= c.fec => d \in data'
  BY SetSurvives
<1>8. ASSUME NEW A \in SUBSET D2(x), \A d \in Of(A, c) : d.index >= c.fec
      PROVE  Reconstructs(A, c)
  <2>1. Of(A, c) \subseteq Of(Proper(data'), c)
    BY <1>7, <1>8 DEF SetData, Proper
  <2>2. Of(Proper(data'), c) \subseteq Of(data', c)
    BY DEF SetData, Proper
  <2>3. \A o \in Original[c.root], d \in Of(Proper(data'), c) :
           ~ (o.size < 0 /\ d.index = o.index)
    BY <1>6, <2>2
  <2> QED
    BY <2>1, <2>3, PartReconstructs
<1>9. CASE <<c.slot, c.fec>> \in failed
  <2>1. PICK y \in code : y.slot = c.slot /\ y.fec = c.fec
    BY <1>9 DEF HeldIsLive, CodingSet
  <2>2. y \in CodeWith(x)
    BY <1>4, <2>1 DEF CodeWith, NotOfSlots
  <2>3. Alike(c, y) /\ Alike(y, c)
    BY <1>5, <2>1, <2>2
  <2>4. <<c.slot, c.fec>> \notin misled
    BY <1>1
  <2>5. ~ Reconstructs(Proper(data), y) \/ SizeOverlooked(y)
    BY <1>9, <2>1, <2>4 DEF StickyInv
  <2> DEFINE A == {d \in Proper(data) : d.slot = c.slot}
  <2>6. {d \in data : d.slot = c.slot} \subseteq D2(x)
    BY <1>4 DEF D2, DataWith, NotOfSlots
  <2>7. Reconstructs(A, c)
    <3>1. A \in SUBSET D2(x)
      BY <2>6 DEF Proper
    <3>2. \A d \in Of(A, c) : d.index >= c.fec
      BY DEF SetData, Proper
    <3> QED
      BY <1>8, <3>1, <3>2
  <2>8. Reconstructs(Proper(data), c)
    <3>1. Of(A, c) = Of(Proper(data), c)
      BY DEF SetData
    <3> QED
      BY <2>7, <3>1, Zenon DEF Reconstructs
  <2>9. Reconstructs(Proper(data), y)
    BY <2>1, <2>3, <2>8, AlikeReconstructs
  <2>10. SizeOverlooked(c)
    BY <2>1, <2>3, <2>5, <2>9, AlikeReconstructs
  <2>11. PICK o \in Original[c.root], d \in Of(data, c) : o.size < 0 /\ d.index = o.index
    BY <2>10 DEF SizeOverlooked
  <2>12. d \in Of(data', c)
    <3>1. d \in D2(x) /\ d.slot = c.slot
      BY <2>6, <2>11 DEF SetData
    <3>2. d.index >= c.fec
      BY <1>6, <2>11
    <3>3. d \in data'
      BY <1>7, <3>1, <3>2
    <3> QED
      BY <2>11, <3>3 DEF SetData
  <2> QED
    BY <1>6, <2>11, <2>12
<1>10. CASE <<c.slot, c.fec>> \in NewlyFailed(D, P)
  <2>1. /\ AttemptsRecovery(D, P) /\ ~ Reconstructs(D, h)
        /\ <<c.slot, c.fec>> = <<h.slot, h.fec>>
    BY <1>10 DEF NewlyFailed
  <2>2. h \in P
    BY <2>1 DEF AttemptsRecovery, Recoverable, HeaderOf
  <2>3. h \in CodeWith(x) /\ h.slot = c.slot /\ h.fec = c.fec
    BY <1>1, <2>1, <2>2, ArrivalFacts
  <2>4. D \in SUBSET D2(x)
    BY DEF D2
  <2>5. Misnumbered(D, <<c.slot, c.fec>>) = {}
    BY <1>1, <1>10
  <2>6. \A d \in Of(D, c) : d.index >= c.fec
    <3> SUFFICES ASSUME NEW d \in Of(D, c) PROVE d.index >= c.fec
      OBVIOUS
    <3>1. d \in D /\ d.slot = c.slot /\ d.fec = c.fec
      BY DEF SetData
    <3>2. d.index \in Nat /\ c.fec \in Nat
      BY <1>2, <1>3, <2>4, <3>1, LimitAssumption DEF DataShred, CodeShred
    <3>3. ~ (d.index < c.fec)
      BY <2>5, <3>1 DEF Misnumbered
    <3> QED
      BY <3>2, <3>3
  <2>7. Reconstructs(D, c) /\ Alike(c, h)
    BY <1>5, <1>8, <2>3, <2>4, <2>6
  <2> QED
    BY <2>1, <2>3, <2>7, AlikeReconstructs
<1> QED
  BY <1>1, <1>9, <1>10

LEMMA RemovalSticky ==
  ASSUME TypeOK, StickyInv, NEW V \in SUBSET slots, Removal(V)
  PROVE  StickyInv'
<1> SUFFICES ASSUME NEW c \in code', <<c.slot, c.fec>> \in failed' \ misled'
             PROVE  \/ ~ Reconstructs(Proper(data'), c)
                    \/ /\ c.root \in DOMAIN Original
                       /\ \E o \in Original[c.root],
                             d \in SetData(data', c.slot, c.fec, c.numData) :
                               o.size < 0 /\ d.index = o.index
  BY DEF StickyInv, Reconstructs, SizeOverlooked, Proper, SetData
<1>1. c \in code /\ c.slot \notin V /\ <<c.slot, c.fec>> \in failed \ misled
  BY DEF Removal, NotOfSlots
<1>2. SetData(data, c.slot, c.fec, c.numData) = SetData(data', c.slot, c.fec, c.numData)
  BY <1>1 DEF Removal, NotOfSlots, SetData
<1>3. SetData(Proper(data), c.slot, c.fec, c.numData)
        = SetData(Proper(data'), c.slot, c.fec, c.numData)
  BY <1>1 DEF Removal, NotOfSlots, SetData, Proper
<1>4. ~ Reconstructs(Proper(data), c) \/ SizeOverlooked(c)
  BY <1>1 DEF StickyInv
<1>5. Reconstructs(Proper(data'), c) => Reconstructs(Proper(data), c)
  BY <1>3, Zenon DEF Reconstructs
<1> QED
  BY <1>2, <1>4, <1>5 DEF SizeOverlooked

\* The sticky failure flag is right: a set whose failed attempt used no shred
\* numbered before it would fail again if the flag did not suppress the attempt,
\* whatever has been stored, recovered, delivered or evicted since (unless the
\* attempt failed for a size that is no size and that shred has arrived).
THEOREM StickyFailureIsRight == Spec => []SuppressedRecoveryWouldFail
<1>1. Init => StickyInv
  BY DEF Init, StickyInv
<1>2. ASSUME LiveInv, StickyInv, [Next]_vars PROVE StickyInv'
  <2>1. TypeOK /\ HeldIsLive /\ CodingSetsUniform
    BY <1>2 DEF LiveInv, CountInv
  <2> QED
    BY <1>2, <2>1, StepCases, RemovalSticky, StoreSticky
<1> QED
  BY <1>1, <1>2, AlwaysLive, StickyInvSuffices, PTL DEF Spec
=============================================================================
