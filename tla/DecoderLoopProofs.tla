------------------------- MODULE DecoderLoopProofs -------------------------
(* The loops of the decoder compute what RawShredDecoder says they compute, *)
(* whatever is buffered and tracked when they are called, and push_packet   *)
(* calls them only in such states.                                          *)
EXTENDS DecoderLoops, DecoderBufferProofs, SequenceTheorems

-----------------------------------------------------------------------------
(* The state of a call. *)

Batch == [slot : Slot, shreds : SUBSET DataShred]

CallOK == CallState(slots, complete, next, active, data, code, buffered)

LoopTypeOK ==
  /\ CallOK
  /\ touched \in Slot
  /\ kept \subseteq slots /\ shreds \subseteq data /\ parity \subseteq code
  /\ count \in Nat /\ cursor \in Nat /\ index \in Nat /\ removed \in Nat
  /\ ended \in BOOLEAN /\ emitted \in Seq(Batch)

\* The closing shreds that the cursor has passed.
Behind(c) == {e \in Closers(data, touched, next[touched]) : e.index < c}

\* Where the scan stands: what it has passed is contiguous, and the cursor
\* stands behind the last shred that closed a segment.
ScanInv ==
  /\ next[touched] <= cursor /\ cursor <= index
  /\ \A i \in next[touched] .. (index - 1) : DataAt(data, touched, i) # {}
  /\ \A d \in data : d.slot = touched /\ d.complete =>
       d.index < cursor \/ index <= d.index
  /\ cursor = next[touched] \/ \E e \in Behind(cursor) : e.index + 1 = cursor

\* The last shred of the slot, once it is passed, has ended the loop.
EndInv ==
  /\ ended => \E e \in Behind(cursor) : e.last
  /\ \A e \in Behind(cursor) : e.last => ended /\ e.index + 1 = cursor
  /\ loop = "drain" => ~ ended
  /\ loop = "retain" /\ ~ ended => DataAt(data, touched, index) = {}

\* What is left and what has been counted as removed.
LeftInv ==
  /\ parity = code /\ count = buffered
  /\ shreds = {d \in data : d.slot = touched => ~ ended /\ d.index >= cursor}
  /\ removed = Cardinality(data) - Cardinality(shreds)

\* What has been emitted.
EmitInv ==
  /\ {emitted[k] : k \in 1 .. Len(emitted)}
       = Batches(data, touched, next[touched], Behind(cursor))
  /\ InOrder
  /\ \A k \in 1 .. Len(emitted) : \A d \in emitted[k].shreds : d.index < cursor

DrainInv ==
  loop \in {"drain", "retain"} => ScanInv /\ EndInv /\ LeftInv /\ EmitInv

\* The slots evicted so far are a prefix of the eviction order, and each had to
\* go.
EnforceInv ==
  loop = "enforce" =>
    LET open == slots \ complete
        gone == slots \ kept
    IN /\ RemovesExactly(gone) /\ gone \subseteq open
       /\ \A r \in gone : \A t \in open \ gone : Older(r, t, active)
       /\ gone \subseteq Overflow(data, code, open, active)

\* At most one slot has made room, the lowest of a full map, and it lies below
\* the slot that is to be admitted.
AdmitInv ==
  loop = "admit" =>
    /\ touched \notin slots /\ Cardinality(slots) <= Capacity
    /\ \/ RemovesExactly({})
       \/ \E lowest \in slots :
            /\ Cardinality(slots) = Capacity /\ \A t \in slots : lowest <= t
            /\ touched > lowest /\ RemovesExactly({lowest})

LoopInv == LoopTypeOK /\ DrainInv /\ EnforceInv /\ AdmitInv /\ ClosedFormsAgree

-----------------------------------------------------------------------------
(* drain_ready_segments. *)

LEMMA CallFacts ==
  ASSUME LoopTypeOK
  PROVE  /\ data \subseteq DataShred /\ IsFiniteSet(data)
         /\ code \subseteq CodeShred /\ IsFiniteSet(code)
         /\ buffered = Cardinality(data) + Cardinality(code)
         /\ slots \subseteq Nat /\ IsFiniteSet(slots) /\ complete \subseteq slots
         /\ next[touched] \in Nat
         /\ \A s \in slots : active[s] \in Nat
         /\ \A d \in data : d.slot \in slots \ complete /\ d.index >= next[d.slot]
         /\ \A d \in data : d.index \in Nat
         /\ \A c \in code : c.slot \in slots \ complete /\ c.numData \in Nat \ {0}
         /\ \A d, e \in data : d.slot = e.slot /\ d.index = e.index => d = e
<1>1. /\ data \subseteq DataShred /\ IsFiniteSet(data)
      /\ code \subseteq CodeShred /\ IsFiniteSet(code)
      /\ buffered = Cardinality(data) + Cardinality(code)
      /\ IsFiniteSet(slots) /\ complete \subseteq slots
      /\ \A d \in data : d.slot \in slots \ complete /\ d.index >= next[d.slot]
      /\ \A d, e \in data : d.slot = e.slot /\ d.index = e.index => d = e
  BY DEF LoopTypeOK, CallOK, CallState
<1>2. slots \subseteq Nat /\ next[touched] \in Nat /\ \A s \in slots : active[s] \in Nat
  BY SlotAssumption DEF LoopTypeOK, CallOK, CallState
<1>3. \A d \in data : d.index \in Nat
  BY <1>1, LimitAssumption DEF DataShred
<1>4. \A c \in code : c.slot \in slots \ complete /\ c.numData \in Nat \ {0}
  BY <1>1 DEF LoopTypeOK, CallOK, CallState, CodeShred
<1> QED
  BY <1>1, <1>2, <1>3, <1>4

\* Removing a part of the data shreds counts its members.
LEMMA PartCounts ==
  ASSUME LoopTypeOK, NEW R \in SUBSET data
  PROVE  Cardinality(R) \in Nat /\ Cardinality(R) <= Cardinality(data)
         /\ Cardinality(data) \in Nat
BY CallFacts, FS_Subset, FS_CardinalityType

\* The inner scan passes a shred.
LEMMA ScanOnKeeps ==
  ASSUME LoopTypeOK, DrainInv, ScanOn, UNCHANGED inputs
  PROVE  LoopTypeOK' /\ DrainInv'
<1>1. /\ loop = "drain" /\ index' = index + 1 /\ UNCHANGED inputs
      /\ UNCHANGED <<loop, touched, kept, shreds, parity, count, cursor, removed,
                     ended, emitted>>
  BY DEF ScanOn
<1>2. ScanInv /\ EndInv /\ LeftInv /\ EmitInv
  BY <1>1 DEF DrainInv
<1>3. LoopTypeOK'
  BY <1>1 DEF LoopTypeOK, CallOK, inputs, vars
<1>4. PICK d \in shreds : d.slot = touched /\ d.index = index /\ ~ d.complete
  BY DEF ScanOn, DataAt
<1>5. d \in data /\ DataAt(data, touched, index) # {}
  BY <1>4 DEF LoopTypeOK, DataAt
<1>6. ScanInv'
  <2>1. /\ next[touched] <= cursor /\ cursor <= index + 1
        /\ \A i \in next[touched] .. index : DataAt(data, touched, i) # {}
    <3>1. next[touched] \in Nat /\ cursor \in Nat /\ index \in Nat
      BY CallFacts DEF LoopTypeOK
    <3> QED
      BY <1>2, <1>5, <3>1 DEF ScanInv
  <2>2. \A e \in data : e.slot = touched /\ e.complete =>
          e.index < cursor \/ index + 1 <= e.index
    <3> SUFFICES ASSUME NEW e \in data, e.slot = touched, e.complete, ~ e.index < cursor
                 PROVE  index + 1 <= e.index
      OBVIOUS
    <3>1. index <= e.index /\ e.index # index
      BY <1>2, <1>4, <1>5, CallFacts DEF ScanInv
    <3> QED
      BY <3>1, CallFacts DEF LoopTypeOK
  <2>3. index + 1 - 1 = index
    BY DEF LoopTypeOK
  <2>4. cursor = next[touched] \/ \E e \in Behind(cursor) : e.index + 1 = cursor
    BY <1>2 DEF ScanInv
  <2>5. \A i \in next[touched] .. (index + 1 - 1) : DataAt(data, touched, i) # {}
    BY <2>1, <2>3
  <2>6. (next[touched] <= cursor /\ cursor <= index)'
    BY <1>1, <2>1 DEF inputs, vars
  <2>7. (\A i \in next[touched] .. (index - 1) : DataAt(data, touched, i) # {})'
    <3>1. index' = index + 1 /\ next' = next /\ touched' = touched /\ data' = data
      BY <1>1 DEF inputs, vars
    <3>2. next[touched] \in Nat /\ index \in Nat
      BY CallFacts DEF LoopTypeOK
    <3> QED
      BY <2>5, <3>1, <3>2 DEF DataAt
  <2>8. (\A e \in data : e.slot = touched /\ e.complete =>
           e.index < cursor \/ index <= e.index)'
    BY <1>1, <2>2 DEF inputs, vars
  <2>9. (cursor = next[touched] \/ \E e \in Behind(cursor) : e.index + 1 = cursor)'
    BY <1>1, <2>4 DEF Behind, inputs, vars
  <2> QED
    BY <2>6, <2>7, <2>8, <2>9, Zenon DEF ScanInv
<1>7. EndInv'
  BY <1>1, <1>2 DEF EndInv, Behind, inputs, vars
<1>8. LeftInv' /\ EmitInv'
  BY <1>1, <1>2 DEF LeftInv, EmitInv, InOrder, Behind, inputs, vars
<1> QED
  BY <1>3, <1>6, <1>7, <1>8 DEF DrainInv

LEMMA ScanGapKeeps ==
  ASSUME LoopTypeOK, DrainInv, ScanGap, UNCHANGED inputs
  PROVE  LoopTypeOK' /\ DrainInv'
<1>1. /\ loop = "drain" /\ loop' = "retain" /\ UNCHANGED inputs
      /\ DataAt(shreds, touched, index) = {}
      /\ UNCHANGED <<touched, kept, shreds, parity, count, cursor, index, removed,
                     ended, emitted>>
  BY DEF ScanGap
<1>2. ScanInv /\ EndInv /\ LeftInv /\ EmitInv
  BY <1>1 DEF DrainInv
<1>3. LoopTypeOK'
  BY <1>1 DEF LoopTypeOK, CallOK, inputs, vars
<1>4. DataAt(data, touched, index) = {}
  <2> SUFFICES ASSUME NEW d \in data, d.slot = touched, d.index = index PROVE FALSE
    BY DEF DataAt
  <2>1. d.index >= cursor /\ ~ ended
    BY <1>1, <1>2 DEF ScanInv, EndInv, LoopTypeOK
  <2>2. d \in shreds
    BY <1>2, <2>1 DEF LeftInv
  <2> QED
    BY <1>1, <2>2 DEF DataAt
<1>5. ScanInv' /\ LeftInv' /\ EmitInv'
  BY <1>1, <1>2 DEF ScanInv, LeftInv, EmitInv, InOrder, Behind, inputs, vars
<1>6. EndInv'
  BY <1>1, <1>2, <1>4 DEF EndInv, Behind, inputs, vars
<1> QED
  BY <1>3, <1>5, <1>6 DEF DrainInv

\* The shred that ends the scan is the next closing shred.
LEMMA NextCloser ==
  ASSUME LoopTypeOK, loop = "drain", ScanInv, LeftInv,
         NEW d \in DataAt(shreds, touched, index), d.complete
  PROVE  /\ d \in data /\ d.slot = touched /\ d.index = index
         /\ d \in Closers(data, touched, next[touched])
         /\ Behind(index + 1) = Behind(cursor) \cup {d}
         /\ \A e \in Behind(cursor) : e.index < cursor /\ e.index \in Nat
<1> DEFINE n == next[touched]
<1>1. d \in data /\ d.slot = touched /\ d.index = index
  BY DEF DataAt, LoopTypeOK
<1>2. n \in Nat /\ cursor \in Nat /\ index \in Nat
  BY CallFacts DEF LoopTypeOK
<1>3. \A i \in n .. index : DataAt(data, touched, i) # {}
  <2>1. DataAt(data, touched, index) # {}
    BY <1>1 DEF DataAt
  <2> QED
    BY <1>2, <2>1 DEF ScanInv
<1>4. d \in Closers(data, touched, n)
  BY <1>1, <1>2, <1>3 DEF Closers, ScanInv
<1>5. \A e \in Closers(data, touched, n) :
        e \in data /\ e.slot = touched /\ e.complete /\ e.index \in Nat
  BY CallFacts DEF Closers
<1>6. ASSUME NEW e \in Closers(data, touched, n), e.index < index + 1
      PROVE  e.index < cursor \/ e = d
  <2>1. e.index < cursor \/ index <= e.index
    BY <1>5 DEF ScanInv
  <2>2. index <= e.index => e.index = d.index
    BY <1>1, <1>2, <1>5, <1>6
  <2> QED
    BY <1>1, <1>5, <2>1, <2>2, CallFacts
<1>7. cursor <= index
  BY DEF ScanInv
<1>8. \A e \in Closers(data, touched, n) : e.index < cursor => e.index < index + 1
  BY <1>2, <1>5, <1>7
<1>9. Behind(index + 1) = Behind(cursor) \cup {d}
  BY <1>1, <1>2, <1>4, <1>6, <1>8 DEF Behind
<1> QED
  BY <1>1, <1>4, <1>5, <1>9 DEF Behind

\* The run that the loop takes is the segment of that closing shred.
LEMMA RunIsSegment ==
  ASSUME LoopTypeOK, loop = "drain", ScanInv, EndInv, LeftInv,
         NEW d \in DataAt(shreds, touched, index), d.complete
  PROVE  LET n == next[touched] IN
         /\ Run = SegmentOf(data, touched, n, Behind(index + 1), d)
         /\ \A e \in Behind(cursor) :
              SegmentOf(data, touched, n, Behind(index + 1), e)
                = SegmentOf(data, touched, n, Behind(cursor), e)
<1> DEFINE n == next[touched]
           B == Behind(cursor)
<1>1. /\ d.slot = touched /\ d.index = index /\ Behind(index + 1) = B \cup {d}
      /\ \A e \in B : e.index < cursor /\ e.index \in Nat
  BY NextCloser
<1>2. n \in Nat /\ cursor \in Nat /\ index \in Nat /\ n <= cursor /\ cursor <= index
  BY CallFacts DEF LoopTypeOK, ScanInv
<1>3. \A x \in data : x.slot = touched => x.index \in Nat /\ x.index >= n
  BY CallFacts
<1>4. \A x : x \in Run <=>
         x \in data /\ x.slot = touched /\ cursor <= x.index /\ x.index <= index
  BY DEF Run, LeftInv, EndInv
<1>5. ASSUME NEW x \in data, x.slot = touched, x.index <= index
      PROVE  cursor <= x.index <=> \A f \in B : f.index < x.index
  <2>1. CASE cursor = n
    <3>1. B = {}
      <4> SUFFICES ASSUME NEW f \in B PROVE FALSE
        OBVIOUS
      <4>1. f.index >= n
        BY DEF Behind, Closers
      <4> QED
        BY <1>1, <1>2, <2>1, <4>1
    <3> QED
      BY <1>3, <1>5, <2>1, <3>1
  <2>2. CASE \E e \in B : e.index + 1 = cursor
    BY <1>1, <1>2, <1>3, <1>5, <2>2
  <2> QED
    BY <2>1, <2>2 DEF ScanInv
<1>6. \A f \in B \cup {d} : f.index < d.index <=> f \in B
  <2>1. \A f \in B : f.index < d.index
    BY <1>1, <1>2
  <2>2. ~ d.index < d.index
    BY <1>1, <1>2
  <2> QED
    BY <2>1, <2>2
<1>7. Run = SegmentOf(data, touched, n, B \cup {d}, d)
  <2>1. \A x : x \in SegmentOf(data, touched, n, B \cup {d}, d) <=>
           /\ x \in data /\ x.slot = touched /\ n <= x.index /\ x.index <= index
           /\ \A f \in B : f.index < x.index
    BY <1>1, <1>6 DEF SegmentOf
  <2>2. \A x : x \in Run <=> x \in SegmentOf(data, touched, n, B \cup {d}, d)
    BY <1>3, <1>4, <1>5, <2>1
  <2> QED
    BY <2>2
<1>8. ASSUME NEW e \in B
      PROVE  SegmentOf(data, touched, n, B \cup {d}, e) = SegmentOf(data, touched, n, B, e)
  <2>1. ~ d.index < e.index
    BY <1>1, <1>2
  <2> QED
    BY <2>1 DEF SegmentOf
<1> QED
  BY <1>1, <1>7, <1>8

LEMMA BatchesGrow ==
  ASSUME NEW D, NEW s, NEW n, NEW B, NEW d, NEW C, C = B \cup {d},
         NEW seg, seg = SegmentOf(D, s, n, C, d),
         \A e \in B : SegmentOf(D, s, n, C, e) = SegmentOf(D, s, n, B, e)
  PROVE  Batches(D, s, n, C)
           = Batches(D, s, n, B)
               \cup (IF Decodes(seg) THEN {[slot |-> s, shreds |-> seg]} ELSE {})
<1> DEFINE Seg(e) == SegmentOf(D, s, n, B, e)
           Seg2(e) == SegmentOf(D, s, n, C, e)
<1>1. \A b : b \in Batches(D, s, n, C) <=>
         \E e \in C : Decodes(Seg2(e)) /\ b = [slot |-> s, shreds |-> Seg2(e)]
  BY DEF Batches
<1>2. \A b : b \in Batches(D, s, n, B) <=>
         \E e \in B : Decodes(Seg(e)) /\ b = [slot |-> s, shreds |-> Seg(e)]
  BY DEF Batches
<1>3. (\A e \in B : Seg2(e) = Seg(e)) /\ Seg2(d) = seg
  OBVIOUS
<1> HIDE DEF Seg, Seg2
<1>4. \A b : b \in Batches(D, s, n, C) <=>
         \/ b \in Batches(D, s, n, B)
         \/ Decodes(seg) /\ b = [slot |-> s, shreds |-> seg]
  <2>1. \A e : e \in C <=> e \in B \/ e = d
    OBVIOUS
  <2>2. \A b : (\E e \in C : Decodes(Seg2(e)) /\ b = [slot |-> s, shreds |-> Seg2(e)]) <=>
          \/ \E e \in B : Decodes(Seg2(e)) /\ b = [slot |-> s, shreds |-> Seg2(e)]
          \/ Decodes(Seg2(d)) /\ b = [slot |-> s, shreds |-> Seg2(d)]
    BY <2>1, Zenon
  <2>3. \A b : (\E e \in B : Decodes(Seg2(e)) /\ b = [slot |-> s, shreds |-> Seg2(e)]) <=>
          \E e \in B : Decodes(Seg(e)) /\ b = [slot |-> s, shreds |-> Seg(e)]
    BY <1>3, Zenon
  <2> QED
    BY <1>1, <1>2, <1>3, <2>2, <2>3
<1> QED
  BY <1>4

\* What a round of the outer loop leaves.
LEMMA TakeSegmentLeaves ==
  ASSUME LoopTypeOK, loop = "drain", ScanInv, EndInv, LeftInv,
         NEW d \in DataAt(shreds, touched, index), d.complete
  PROVE  (IF d.last THEN NotOfSlots(Split, {touched}) ELSE Split)
           = {x \in data : x.slot = touched => ~ d.last /\ x.index >= index + 1}
<1>1. \A x \in data : x.index \in Nat
  BY CallFacts
<1>2. index \in Nat /\ cursor \in Nat /\ d.last \in BOOLEAN
  BY CallFacts, NextCloser DEF LoopTypeOK, DataShred
<1>3. shreds = {x \in data : x.slot = touched => x.index >= cursor}
  BY DEF LeftInv, EndInv
<1>4. cursor <= index
  BY DEF ScanInv
<1>5. Split = {x \in data : x.slot = touched => x.index >= index + 1}
  <2>1. CASE Decodes(Run)
    <3>1. Split = {x \in shreds : x.slot = touched => x.index > index}
      BY <2>1 DEF Split
    <3> QED
      BY <1>1, <1>2, <1>3, <1>4, <3>1
  <2>2. CASE ~ Decodes(Run)
    <3>1. Split = shreds \ Run
      BY <2>2 DEF Split
    <3>2. \A x : x \in shreds \ Run <=>
             /\ x \in data /\ (x.slot = touched => x.index >= cursor)
             /\ ~ (x.slot = touched /\ cursor <= x.index /\ x.index <= index)
      BY <1>3 DEF Run
    <3> QED
      BY <1>1, <1>2, <1>4, <3>1, <3>2
  <2> QED
    BY <2>1, <2>2
<1>6. NotOfSlots(Split, {touched}) = {x \in data : x.slot # touched}
  BY <1>5 DEF NotOfSlots
<1> QED
  BY <1>2, <1>5, <1>6

\* What it emits.
Emission ==
  IF Decodes(Run) THEN Append(emitted, [slot |-> touched, shreds |-> Run]) ELSE emitted

LEMMA TakeSegmentEmits ==
  ASSUME LoopTypeOK, loop = "drain", ScanInv, EndInv, LeftInv, EmitInv,
         NEW d \in DataAt(shreds, touched, index), d.complete,
         NEW now, now = Emission
  PROVE  /\ now \in Seq(Batch)
         /\ {now[k] : k \in 1 .. Len(now)}
              = Batches(data, touched, next[touched], Behind(index + 1))
         /\ \A j, k \in 1 .. Len(now) : j < k =>
              \A x \in now[j].shreds, y \in now[k].shreds : x.index < y.index
         /\ \A k \in 1 .. Len(now) : \A x \in now[k].shreds : x.index < index + 1
<1> DEFINE n == next[touched]
           new == [slot |-> touched, shreds |-> Run]
<1>1. /\ index \in Nat /\ cursor \in Nat /\ cursor <= index
      /\ emitted \in Seq(Batch) /\ touched \in Slot
  BY DEF LoopTypeOK, ScanInv
<1>2. /\ \A x \in Run : cursor <= x.index /\ x.index <= index /\ x.index \in Nat
      /\ Run \subseteq DataShred
  BY CallFacts DEF Run, LoopTypeOK
<1>3. new \in Batch
  BY <1>1, <1>2 DEF Batch
<1>4. Batches(data, touched, n, Behind(index + 1))
        = Batches(data, touched, n, Behind(cursor))
            \cup (IF Decodes(Run) THEN {new} ELSE {})
  <2>1. Behind(index + 1) = Behind(cursor) \cup {d}
    BY NextCloser
  <2>2. /\ Run = SegmentOf(data, touched, n, Behind(index + 1), d)
        /\ \A e \in Behind(cursor) :
             SegmentOf(data, touched, n, Behind(index + 1), e)
               = SegmentOf(data, touched, n, Behind(cursor), e)
    BY RunIsSegment
  <2> QED
    BY <2>1, <2>2, BatchesGrow
<1>5. \A k \in 1 .. Len(emitted) : \A x \in emitted[k].shreds :
        x.index \in Nat /\ x.index < cursor
  <2> SUFFICES ASSUME NEW k \in 1 .. Len(emitted), NEW x \in emitted[k].shreds
               PROVE  x.index \in Nat /\ x.index < cursor
    OBVIOUS
  <2>1. emitted[k] \in Batch
    BY <1>1
  <2>2. x \in DataShred
    BY <2>1 DEF Batch
  <2> QED
    BY <2>2, LimitAssumption DEF EmitInv, DataShred
<1>6. CASE ~ Decodes(Run)
  <2>1. now = emitted
    BY <1>6 DEF Emission
  <2>2. \A k \in 1 .. Len(now) : \A x \in now[k].shreds : x.index < index + 1
    BY <1>1, <1>5, <2>1
  <2> QED
    BY <1>1, <1>4, <1>6, <2>1, <2>2 DEF EmitInv, InOrder
<1>7. CASE Decodes(Run)
  <2> HIDE DEF new
  <2>1. now = Append(emitted, new)
    BY <1>7 DEF new, Emission
  <2>2. PICK m \in Nat : m = Len(emitted)
    BY <1>1, LenProperties
  <2>3. /\ now \in Seq(Batch) /\ Len(now) = m + 1 /\ now[m + 1] = new
        /\ \A k \in 1 .. m : now[k] = emitted[k]
    BY <1>1, <1>3, <2>1, <2>2, AppendProperties
  <2>4. new.shreds = Run
    BY DEF new
  <2>5. {now[k] : k \in 1 .. m + 1} = {emitted[k] : k \in 1 .. m} \cup {new}
    <3>1. 1 .. m + 1 = (1 .. m) \cup {m + 1}
      BY <2>2
    <3> QED
      BY <2>3, <3>1
  <2>6. \A k \in 1 .. m : \A x \in now[k].shreds : x.index \in Nat /\ x.index < cursor
    BY <1>5, <2>2, <2>3
  <2>7. ASSUME NEW j \in 1 .. m + 1, NEW k \in 1 .. m + 1, j < k,
               NEW x \in now[j].shreds, NEW y \in now[k].shreds
        PROVE  x.index < y.index
    <3>1. j \in 1 .. m
      BY <2>2, <2>7
    <3>2. CASE k = m + 1
      <4>1. y \in Run
        BY <2>3, <2>4, <2>7, <3>2
      <4> QED
        BY <1>1, <1>2, <2>6, <2>7, <3>1, <4>1
    <3>3. CASE k \in 1 .. m
      BY <2>2, <2>3, <2>7, <3>1, <3>3 DEF EmitInv, InOrder
    <3> QED
      BY <2>2, <3>2, <3>3
  <2>8. ASSUME NEW k \in 1 .. m + 1, NEW x \in now[k].shreds
        PROVE  x.index < index + 1
    <3>1. CASE k = m + 1
      BY <1>1, <1>2, <2>3, <2>4, <2>8, <3>1
    <3>2. CASE k \in 1 .. m
      <4>1. x.index \in Nat /\ x.index < cursor
        BY <2>6, <2>8, <3>2
      <4> QED
        BY <1>1, <4>1
    <3> QED
      BY <2>2, <3>1, <3>2
  <2> QED
    BY <1>4, <1>7, <2>2, <2>3, <2>5, <2>7, <2>8 DEF EmitInv
<1> QED
  BY <1>6, <1>7

LEMMA TakeSegmentKeeps ==
  ASSUME LoopTypeOK, DrainInv, TakeSegment, UNCHANGED inputs
  PROVE  LoopTypeOK' /\ DrainInv'
<1>1. /\ loop = "drain" /\ cursor' = index + 1 /\ index' = index + 1
      /\ UNCHANGED inputs /\ UNCHANGED <<touched, kept, parity, count>>
      /\ removed' = removed + Cardinality(shreds) - Cardinality(shreds')
      /\ emitted' = IF Decodes(Run)
                    THEN Append(emitted, [slot |-> touched, shreds |-> Run])
                    ELSE emitted
  BY DEF TakeSegment
<1>2. PICK d \in DataAt(shreds, touched, index) :
        /\ d.complete
        /\ shreds' = IF d.last THEN NotOfSlots(Split, {touched}) ELSE Split
        /\ ended' = d.last
        /\ loop' = IF d.last THEN "retain" ELSE "drain"
  BY DEF TakeSegment
<1>3. ScanInv /\ EndInv /\ LeftInv /\ EmitInv
  BY <1>1 DEF DrainInv
<1>4. /\ d \in data /\ d.slot = touched /\ d.index = index
      /\ d \in Closers(data, touched, next[touched])
      /\ Behind(index + 1) = Behind(cursor) \cup {d}
      /\ \A e \in Behind(cursor) : e.index < cursor /\ e.index \in Nat
  BY <1>1, <1>2, <1>3, NextCloser
<1>5. d.last \in BOOLEAN
  BY <1>4, CallFacts DEF DataShred
<1>6. /\ index \in Nat /\ cursor \in Nat /\ next[touched] \in Nat
      /\ next[touched] <= cursor /\ cursor <= index /\ removed \in Nat
  BY <1>3, CallFacts DEF LoopTypeOK, ScanInv
<1>7. shreds' = {x \in data : x.slot = touched => ~ d.last /\ x.index >= index + 1}
  BY <1>1, <1>2, <1>3, TakeSegmentLeaves
<1>8. /\ next' = next /\ data' = data /\ touched' = touched
      /\ \A c : Behind(c)' = Behind(c')
  BY <1>1 DEF inputs, vars, Behind
<1>9. Behind(cursor)' = Behind(cursor) \cup {d}
  BY <1>1, <1>4, <1>8 DEF Behind
<1>10. ScanInv'
  <2>1. \A i \in next[touched] .. (index + 1 - 1) : DataAt(data, touched, i) # {}
    BY <1>4, <1>6 DEF Closers
  <2>2. \A e \in data : e.index < index + 1 \/ index + 1 <= e.index
    BY <1>6, CallFacts
  <2>3. next[touched] <= index + 1
    BY <1>6
  <2>4. \E e \in Behind(cursor)' : e.index + 1 = index + 1
    BY <1>4, <1>9
  <2> QED
    BY <1>1, <1>6, <1>8, <2>1, <2>2, <2>3, <2>4 DEF ScanInv, DataAt
<1>11. EndInv'
  <2>1. ended' => \E e \in Behind(cursor)' : e.last
    BY <1>2, <1>9
  <2>2. \A e \in Behind(cursor) : ~ e.last
    BY <1>1, <1>3 DEF EndInv
  <2>3. \A e \in Behind(cursor)' : e.last => ended' /\ e.index + 1 = cursor'
    BY <1>1, <1>2, <1>4, <1>9, <2>2
  <2>4. (loop' = "drain" => ~ ended') /\ (loop' = "retain" => ended')
    BY <1>2, <1>5
  <2> QED
    BY <2>1, <2>3, <2>4 DEF EndInv
<1>12. shreds' \subseteq data /\ shreds \subseteq data
  BY <1>7 DEF LoopTypeOK
<1>13. /\ removed' = Cardinality(data) - Cardinality(shreds')
       /\ removed' \in Nat
  <2>1. /\ Cardinality(shreds) \in Nat /\ Cardinality(shreds') \in Nat
        /\ Cardinality(data) \in Nat /\ Cardinality(shreds') <= Cardinality(data)
    BY <1>12, PartCounts
  <2> QED
    BY <1>1, <1>3, <2>1 DEF LeftInv
<1>14. LeftInv'
  <2>1. code' = code /\ buffered' = buffered
    BY <1>1 DEF inputs, vars
  <2> QED
    BY <1>1, <1>2, <1>3, <1>7, <1>8, <1>13, <2>1 DEF LeftInv
<1>15. /\ emitted' \in Seq(Batch)
       /\ {emitted'[k] : k \in 1 .. Len(emitted')}
            = Batches(data, touched, next[touched], Behind(index + 1))
       /\ \A j, k \in 1 .. Len(emitted') : j < k =>
            \A x \in emitted'[j].shreds, y \in emitted'[k].shreds : x.index < y.index
       /\ \A k \in 1 .. Len(emitted') : \A x \in emitted'[k].shreds : x.index < index + 1
  <2>1. PICK now : now = emitted'
    OBVIOUS
  <2>2. now = Emission
    BY <1>1, <2>1 DEF Emission
  <2>3. loop = "drain" /\ d.complete
    BY <1>1, <1>2
  <2>4. /\ now \in Seq(Batch)
        /\ {now[k] : k \in 1 .. Len(now)}
             = Batches(data, touched, next[touched], Behind(index + 1))
        /\ \A j, k \in 1 .. Len(now) : j < k =>
             \A x \in now[j].shreds, y \in now[k].shreds : x.index < y.index
        /\ \A k \in 1 .. Len(now) : \A x \in now[k].shreds : x.index < index + 1
    BY <1>3, <2>2, <2>3, TakeSegmentEmits, Zenon
  <2> QED
    BY <2>1, <2>4
<1>16. EmitInv'
  BY <1>1, <1>4, <1>8, <1>9, <1>15 DEF EmitInv, InOrder
<1>17. LoopTypeOK'
  <2>1. CallOK' /\ slots' = slots /\ code' = code
    BY <1>1 DEF LoopTypeOK, CallOK, inputs, vars
  <2>2. /\ touched' \in Slot /\ kept' \subseteq slots' /\ parity' \subseteq code'
        /\ count' \in Nat
    BY <1>1, <2>1 DEF LoopTypeOK
  <2>3. cursor' \in Nat /\ index' \in Nat
    BY <1>1, <1>6
  <2>4. ended' \in BOOLEAN /\ removed' \in Nat /\ emitted' \in Seq(Batch)
    BY <1>2, <1>5, <1>13, <1>15
  <2> QED
    BY <1>8, <1>12, <2>1, <2>2, <2>3, <2>4 DEF LoopTypeOK
<1> QED
  BY <1>10, <1>11, <1>14, <1>16, <1>17 DEF DrainInv

\* The cursor stands behind the highest closing shred it has passed.
LEMMA HighestBehind ==
  ASSUME LoopTypeOK, ScanInv
  PROVE  cursor = CursorAfter(Behind(cursor), next[touched])
<1> DEFINE n == next[touched]
           B == Behind(cursor)
<1>1. n \in Nat /\ cursor \in Nat /\ n <= cursor
  BY CallFacts DEF LoopTypeOK, ScanInv
<1>2. \A e \in B : e.index \in Nat /\ n <= e.index /\ e.index < cursor
  BY CallFacts DEF Behind, Closers
<1>3. CASE B = {}
  BY <1>3 DEF CursorAfter, ScanInv
<1>4. CASE B # {}
  <2>1. PICK z \in B : z.index + 1 = cursor
    BY <1>1, <1>2, <1>4 DEF ScanInv
  <2>2. \A e \in B : e.index <= z.index
    BY <1>1, <1>2, <2>1
  <2> DEFINE top == CHOOSE d \in B : \A e \in B : e.index <= d.index
  <2>3. top \in B /\ \A e \in B : e.index <= top.index
    BY <2>2
  <2>4. CursorAfter(B, n) = top.index + 1
    BY <1>4 DEF CursorAfter
  <2> HIDE DEF top
  <2>5. top.index = z.index
    BY <1>2, <2>1, <2>2, <2>3
  <2> QED
    BY <2>1, <2>4, <2>5
<1> QED
  BY <1>3, <1>4

\* Where the loop has ended, the closing shreds it has passed are those of the
\* closed form.
LEMMA TakenWhenEnded ==
  ASSUME LoopTypeOK, loop = "retain", ScanInv, EndInv
  PROVE  LET n == next[touched] IN
         /\ Behind(cursor) = TakenClosers(data, touched, n)
         /\ ended = EndsSlot(Behind(cursor))
         /\ cursor = CursorAfter(Behind(cursor), n)
<1> DEFINE n == next[touched]
           all == Closers(data, touched, n)
           B == Behind(cursor)
<1>1. n \in Nat /\ cursor \in Nat /\ index \in Nat /\ n <= cursor /\ cursor <= index
      /\ ended \in BOOLEAN
  BY CallFacts DEF LoopTypeOK, ScanInv
<1>2. \A e \in all : /\ e \in data /\ e.slot = touched /\ e.complete
                     /\ e.index \in Nat /\ n <= e.index
                     /\ \A i \in n .. e.index : DataAt(data, touched, i) # {}
  BY CallFacts DEF Closers
<1>3. \A e : e \in B <=> e \in all /\ e.index < cursor
  BY DEF Behind
<1>4. CASE ended
  <2>1. PICK z \in B : z.last /\ z.index + 1 = cursor
    BY <1>4 DEF EndInv
  <2>2. \A e \in all : e.last => ~ e.index < z.index
    <3> SUFFICES ASSUME NEW e \in all, e.last, e.index < z.index PROVE FALSE
      OBVIOUS
    <3>1. e \in B
      BY <1>1, <1>2, <1>3, <2>1
    <3> QED
      BY <1>1, <1>2, <1>3, <2>1, <3>1 DEF EndInv
  <2>3. \A e \in all : e \in B <=> \A f \in all : f.last => e.index <= f.index
    BY <1>1, <1>2, <1>3, <2>1, <2>2
  <2>4. B = TakenClosers(data, touched, n)
    BY <1>3, <2>3 DEF TakenClosers
  <2> QED
    BY <1>4, <2>1, <2>4, HighestBehind DEF EndsSlot
<1>5. CASE ~ ended
  <2>1. \A e \in B : ~ e.last
    BY <1>5 DEF EndInv
  <2>2. \A e \in all : e.index < cursor
    <3> SUFFICES ASSUME NEW e \in all, ~ e.index < cursor PROVE FALSE
      OBVIOUS
    <3>1. index <= e.index
      BY <1>2 DEF ScanInv
    <3>2. index \in n .. e.index
      BY <1>1, <1>2, <3>1
    <3> QED
      BY <1>2, <1>5, <3>2 DEF EndInv
  <2>3. B = all /\ \A e \in all : ~ e.last
    BY <1>3, <2>1, <2>2
  <2>4. B = TakenClosers(data, touched, n)
    BY <2>3 DEF TakenClosers
  <2>5. ended = EndsSlot(B)
    BY <1>1, <1>5, <2>1 DEF EndsSlot
  <2> QED
    BY <2>4, <2>5, HighestBehind
<1> QED
  BY <1>1, <1>4, <1>5

LEMMA RetainCodingKeeps ==
  ASSUME LoopTypeOK, DrainInv, RetainCoding, UNCHANGED inputs
  PROVE  LoopTypeOK' /\ DrainAgrees' /\ loop' = "drained"
<1> DEFINE n == next[touched]
           B == Behind(cursor)
<1>1. /\ loop = "retain" /\ loop' = "drained" /\ UNCHANGED inputs
      /\ UNCHANGED <<touched, kept, shreds, cursor, index, removed, ended, emitted>>
      /\ parity' = {c \in parity :
                      c.slot = touched => ~ ended /\ c.fec >= cursor /\ c.numData > 0}
      /\ count' = SaturatingSub(SaturatingSub(count, removed),
                                Cardinality(parity) - Cardinality(parity'))
  BY DEF RetainCoding
<1>2. ScanInv /\ EndInv /\ LeftInv /\ EmitInv
  BY <1>1 DEF DrainInv
<1>3. /\ B = TakenClosers(data, touched, n) /\ ended = EndsSlot(B)
      /\ cursor = CursorAfter(B, n)
  BY <1>1, <1>2, TakenWhenEnded
<1>4. shreds = Undrained(data, touched, B, cursor)
  BY <1>2, <1>3 DEF LeftInv, Undrained
<1>5. \A c \in code : c.numData > 0
  BY CallFacts
<1>6. parity' = StillUseful(code, touched, B, cursor)
  BY <1>1, <1>2, <1>3, <1>5 DEF LeftInv, StillUseful
<1>7. parity' \subseteq code
  BY <1>1, <1>2 DEF LeftInv
<1>8. /\ Cardinality(code) \in Nat /\ Cardinality(parity') \in Nat
      /\ Cardinality(parity') <= Cardinality(code)
      /\ Cardinality(data) \in Nat /\ Cardinality(shreds) \in Nat
      /\ Cardinality(shreds) <= Cardinality(data)
  BY <1>7, CallFacts, PartCounts, FS_Subset, FS_CardinalityType DEF LoopTypeOK
<1>9. count = Cardinality(data) + Cardinality(code) /\ parity = code
      /\ removed = Cardinality(data) - Cardinality(shreds)
  BY <1>2, CallFacts DEF LeftInv
<1>10. count' = Cardinality(shreds) + Cardinality(parity')
  BY <1>1, <1>8, <1>9 DEF SaturatingSub
<1>11. InOrder /\ {emitted[k] : k \in 1 .. Len(emitted)} = Batches(data, touched, n, B)
  BY <1>2 DEF EmitInv
<1>12. DrainAgrees'
  <2>1. next' = next /\ data' = data /\ code' = code
    BY <1>1 DEF inputs, vars
  <2>2. InOrder' /\ CountsWhatIsHeld'
    BY <1>1, <1>10, <1>11 DEF InOrder, CountsWhatIsHeld
  <2> QED
    BY <1>1, <1>3, <1>4, <1>6, <1>11, <2>1, <2>2 DEF DrainAgrees
<1>13. LoopTypeOK'
  <2>1. CallOK' /\ slots' = slots /\ code' = code /\ data' = data
    BY <1>1 DEF LoopTypeOK, CallOK, inputs, vars
  <2>2. count' \in Nat
    BY <1>8, <1>10
  <2> QED
    BY <1>1, <1>7, <2>1, <2>2 DEF LoopTypeOK
<1> QED
  BY <1>1, <1>12, <1>13

-----------------------------------------------------------------------------
(* enforce_buffer_limit. *)

\* remove_slot_state takes one more slot out of what was held.
LEMMA RemoveOneMore ==
  ASSUME LoopTypeOK, UNCHANGED inputs, NEW s, RemoveSlotState(s),
         NEW V, RemovesExactly(V)
  PROVE  /\ LoopTypeOK' /\ loop' = loop /\ touched' = touched
         /\ kept' = slots \ (V \cup {s})
         /\ shreds' = NotOfSlots(data, V \cup {s})
         /\ parity' = NotOfSlots(code, V \cup {s})
         /\ CountsWhatIsHeld'
<1>1. /\ kept' = kept \ {s} /\ shreds' = NotOfSlots(shreds, {s})
      /\ parity' = NotOfSlots(parity, {s})
      /\ count' = SaturatingSub(count, Held(shreds, parity, {s}))
      /\ UNCHANGED <<loop, touched, cursor, index, removed, ended, emitted>>
  BY DEF RemoveSlotState
<1>2. /\ kept = slots \ V /\ shreds = NotOfSlots(data, V)
      /\ parity = NotOfSlots(code, V)
      /\ count = Cardinality(shreds) + Cardinality(parity)
  BY DEF RemovesExactly, CountsWhatIsHeld
<1>3. /\ kept' = slots \ (V \cup {s})
      /\ shreds' = NotOfSlots(data, V \cup {s})
      /\ parity' = NotOfSlots(code, V \cup {s})
  BY <1>1, <1>2 DEF NotOfSlots
<1>4. IsFiniteSet(shreds) /\ IsFiniteSet(parity)
  BY CallFacts, FS_Subset DEF LoopTypeOK
<1>5. /\ Cardinality(OfSlots(shreds, {s})) \in Nat
      /\ Cardinality(OfSlots(parity, {s})) \in Nat
      /\ Cardinality(shreds') \in Nat /\ Cardinality(parity') \in Nat
      /\ Cardinality(shreds) = Cardinality(OfSlots(shreds, {s})) + Cardinality(shreds')
      /\ Cardinality(parity) = Cardinality(OfSlots(parity, {s})) + Cardinality(parity')
  BY <1>1, <1>4, SplitBySlot
<1>6. count' = Cardinality(shreds') + Cardinality(parity') /\ count' \in Nat
  BY <1>1, <1>2, <1>5 DEF SaturatingSub, Held
<1>7. LoopTypeOK'
  <2>1. CallOK' /\ slots' = slots /\ code' = code /\ data' = data
    BY DEF LoopTypeOK, CallOK, inputs, vars
  <2>2. kept' \subseteq slots /\ shreds' \subseteq data /\ parity' \subseteq code
    BY <1>3 DEF NotOfSlots
  <2> QED
    BY <1>1, <1>6, <2>1, <2>2 DEF LoopTypeOK
<1> QED
  BY <1>1, <1>3, <1>6, <1>7 DEF CountsWhatIsHeld

\* What is still counted is what the slots still open hold.
LEMMA CountOfOpen ==
  ASSUME LoopTypeOK, loop = "enforce", EnforceInv
  PROVE  count = Held(data, code, kept \ complete)
<1> DEFINE gone == slots \ kept
<1>1. /\ shreds = NotOfSlots(data, gone) /\ parity = NotOfSlots(code, gone)
      /\ count = Cardinality(shreds) + Cardinality(parity)
  BY DEF EnforceInv, RemovesExactly, CountsWhatIsHeld
<1>2. kept \subseteq slots
  BY DEF LoopTypeOK
<1>3. /\ NotOfSlots(data, gone) = OfSlots(data, kept \ complete)
      /\ NotOfSlots(code, gone) = OfSlots(code, kept \ complete)
  BY <1>2, CallFacts DEF NotOfSlots, OfSlots
<1> QED
  BY <1>1, <1>3 DEF Held

LEMMA HeldGrows ==
  ASSUME LoopTypeOK, NEW S, NEW T, S \subseteq T
  PROVE  /\ Held(data, code, S) \in Nat /\ Held(data, code, T) \in Nat
         /\ Held(data, code, S) <= Held(data, code, T)
<1>1. IsFiniteSet(data) /\ IsFiniteSet(code)
  BY CallFacts
<1>2. /\ IsFiniteSet(OfSlots(data, T)) /\ IsFiniteSet(OfSlots(code, T))
      /\ Cardinality(OfSlots(data, T)) \in Nat /\ Cardinality(OfSlots(code, T)) \in Nat
      /\ Cardinality(OfSlots(data, S)) \in Nat /\ Cardinality(OfSlots(code, S)) \in Nat
  BY <1>1, SplitBySlot
<1>3. OfSlots(data, S) \subseteq OfSlots(data, T) /\ OfSlots(code, S) \subseteq OfSlots(code, T)
  BY DEF OfSlots
<1>4. /\ Cardinality(OfSlots(data, S)) <= Cardinality(OfSlots(data, T))
      /\ Cardinality(OfSlots(code, S)) <= Cardinality(OfSlots(code, T))
  BY <1>2, <1>3, FS_Subset
<1> QED
  BY <1>2, <1>4 DEF Held

LEMMA EvictOldestKeeps ==
  ASSUME LoopTypeOK, EnforceInv, EvictOldest, UNCHANGED inputs
  PROVE  LoopTypeOK' /\ EnforceInv' /\ loop' = "enforce"
<1> DEFINE open == slots \ complete
           gone == slots \ kept
<1>1. loop = "enforce" /\ count > MaxBufferedShreds
  BY DEF EvictOldest
<1>2. PICK s \in kept \ complete :
        /\ \A t \in kept \ complete : t # s => Older(s, t, active)
        /\ RemoveSlotState(s)
  BY DEF EvictOldest
<1>3. /\ RemovesExactly(gone) /\ gone \subseteq open
      /\ \A r \in gone : \A t \in open \ gone : Older(r, t, active)
      /\ gone \subseteq Overflow(data, code, open, active)
  BY <1>1 DEF EnforceInv
<1>4. kept \subseteq slots /\ kept \ complete = open \ gone /\ s \in open \ gone
  BY <1>2 DEF LoopTypeOK
<1>5. \A t \in slots : t \in Nat /\ active[t] \in Nat
  BY CallFacts
<1>6. {t \in open : ~ Older(t, s, active)} = kept \ complete
  <2>1. \A t \in open \ gone : ~ Older(t, s, active)
    <3> SUFFICES ASSUME NEW t \in open \ gone, Older(t, s, active) PROVE FALSE
      OBVIOUS
    <3>1. t # s => Older(s, t, active)
      BY <1>2, <1>4
    <3> QED
      BY <1>4, <1>5, <3>1 DEF Older
  <2>2. \A t \in gone : Older(t, s, active)
    BY <1>3, <1>4
  <2> QED
    BY <1>3, <1>4, <2>1, <2>2
<1>7. s \in Overflow(data, code, open, active)
  BY <1>1, <1>4, <1>6, CountOfOpen DEF Overflow
<1>8. /\ LoopTypeOK' /\ loop' = loop
      /\ kept' = slots \ (gone \cup {s})
      /\ shreds' = NotOfSlots(data, gone \cup {s})
      /\ parity' = NotOfSlots(code, gone \cup {s})
      /\ CountsWhatIsHeld'
  BY <1>2, <1>3, RemoveOneMore
<1>9. /\ slots' = slots /\ complete' = complete /\ data' = data /\ code' = code
      /\ active' = active
  BY DEF inputs, vars
<1>10. slots \ kept' = gone \cup {s}
  BY <1>4, <1>8
<1>11. \A r \in gone \cup {s} : \A t \in open \ (gone \cup {s}) : Older(r, t, active)
  BY <1>2, <1>3, <1>4
<1>12. EnforceInv'
  <2>1. (gone \cup {s}) \subseteq open
    BY <1>3, <1>4
  <2>2. gone \cup {s} \subseteq Overflow(data, code, open, active)
    BY <1>3, <1>7
  <2>3. RemovesExactly(slots \ kept)'
    BY <1>8, <1>9, <1>10 DEF RemovesExactly, CountsWhatIsHeld
  <2> HIDE DEF gone
  <2> QED
    BY <1>9, <1>10, <1>11, <2>1, <2>2, <2>3 DEF EnforceInv
<1> QED
  BY <1>1, <1>8, <1>12

LEMMA LimitMetKeeps ==
  ASSUME LoopTypeOK, EnforceInv, LimitMet, UNCHANGED inputs
  PROVE  LoopTypeOK' /\ EnforceAgrees' /\ loop' = "enforced"
<1> DEFINE open == slots \ complete
           gone == slots \ kept
<1>1. /\ loop = "enforce" /\ loop' = "enforced"
      /\ count <= MaxBufferedShreds \/ kept \subseteq complete
      /\ UNCHANGED <<touched, kept, shreds, parity, count, cursor, index, removed,
                     ended, emitted>>
  BY DEF LimitMet, Returns
<1>2. /\ RemovesExactly(gone) /\ gone \subseteq open
      /\ \A r \in gone : \A t \in open \ gone : Older(r, t, active)
      /\ gone \subseteq Overflow(data, code, open, active)
  BY <1>1 DEF EnforceInv
<1>3. kept \subseteq slots /\ kept \ complete = open \ gone
  BY DEF LoopTypeOK
<1>4. ASSUME NEW s \in open \ gone PROVE s \notin Overflow(data, code, open, active)
  <2>1. count <= MaxBufferedShreds
    BY <1>1, <1>3, <1>4
  <2>2. {t \in open : ~ Older(t, s, active)} \subseteq kept \ complete
    BY <1>2, <1>3, <1>4
  <2>3. Held(data, code, {t \in open : ~ Older(t, s, active)})
          <= Held(data, code, kept \ complete)
    BY <2>2, HeldGrows
  <2>4. count = Held(data, code, kept \ complete)
    BY <1>1, CountOfOpen
  <2>5. /\ Held(data, code, {t \in open : ~ Older(t, s, active)}) \in Nat
        /\ count \in Nat /\ MaxBufferedShreds \in Nat
    BY <2>2, HeldGrows, LimitAssumption DEF LoopTypeOK
  <2>6. ~ Held(data, code, {t \in open : ~ Older(t, s, active)}) > MaxBufferedShreds
    BY <2>1, <2>3, <2>4, <2>5
  <2> QED
    BY <2>6 DEF Overflow
<1>5. gone = Overflow(data, code, open, active)
  BY <1>2, <1>4 DEF Overflow
<1>6. RemovesExactly(Overflow(data, code, open, active))
  BY <1>2, <1>5
<1>7. LoopTypeOK'
  BY <1>1 DEF LoopTypeOK, CallOK, inputs, vars
<1>8. EnforceAgrees'
  BY <1>1, <1>6 DEF EnforceAgrees, RemovesExactly, CountsWhatIsHeld, inputs, vars
<1> QED
  BY <1>1, <1>7, <1>8

-----------------------------------------------------------------------------
(* admit_slot. *)

\* In a map within its capacity, a slot makes room for another one exactly when
\* the map is full and it is the lowest.
LEMMA VictimsOfFull ==
  ASSUME LoopTypeOK, touched \notin slots, Cardinality(slots) <= Capacity
  PROVE  /\ Cardinality(slots) < Capacity => Victims(touched) = {}
         /\ \A lowest \in slots :
              Cardinality(slots) = Capacity /\ (\A t \in slots : lowest <= t) =>
                Victims(touched) = {lowest}
<1> DEFINE From(t) == {u \in slots : u >= t}
<1>1. /\ IsFiniteSet(slots) /\ Cardinality(slots) \in Nat /\ slots \subseteq Nat
      /\ Capacity \in Nat
  BY CallFacts, FS_CardinalityType, LimitAssumption DEF Capacity
<1>2. Victims(touched) = {t \in slots : Cardinality(From(t)) >= Capacity}
  BY DEF Victims
<1>3. \A t : /\ IsFiniteSet(From(t)) /\ Cardinality(From(t)) \in Nat
             /\ Cardinality(From(t)) <= Cardinality(slots)
  BY <1>1, FS_Subset, FS_CardinalityType
<1> HIDE DEF From
<1>4. Cardinality(slots) < Capacity => Victims(touched) = {}
  BY <1>1, <1>2, <1>3
<1>5. ASSUME NEW lowest \in slots, Cardinality(slots) = Capacity,
             \A t \in slots : lowest <= t
      PROVE  Victims(touched) = {lowest}
  <2>1. From(lowest) = slots
    BY <1>1, <1>5 DEF From
  <2>2. lowest \in Victims(touched)
    BY <1>1, <1>2, <1>5, <2>1
  <2>3. ASSUME NEW t \in Victims(touched), t # lowest PROVE FALSE
    <3>1. t \in slots /\ Cardinality(From(t)) >= Capacity
      BY <1>2, <2>3
    <3>2. From(t) \subseteq slots /\ lowest \notin From(t)
      BY <1>1, <1>5, <2>3, <3>1 DEF From
    <3>3. From(t) \subseteq slots \ {lowest}
      BY <3>2
    <3>4. Cardinality(slots \ {lowest}) = Cardinality(slots) - 1
          /\ IsFiniteSet(slots \ {lowest})
      BY <1>1, <1>5, FS_RemoveElement
    <3>5. Cardinality(From(t)) <= Cardinality(slots \ {lowest})
      BY <3>3, <3>4, FS_Subset
    <3> QED
      BY <1>1, <1>3, <1>5, <3>1, <3>4, <3>5
  <2> QED
    BY <2>2, <2>3
<1> QED
  BY <1>4, <1>5

\* The map that is looked at: the one at the call, full or not, or a full one
\* without its lowest slot.
LEMMA AdmitCases ==
  ASSUME LoopTypeOK, loop = "admit", AdmitInv
  PROVE  /\ touched \notin slots /\ Cardinality(slots) <= Capacity
         /\ Cardinality(slots) \in Nat /\ Capacity \in Nat
         /\ \/ RemovesExactly({}) /\ kept = slots
            \/ \E lowest \in slots :
                 /\ Cardinality(slots) = Capacity /\ \A t \in slots : lowest <= t
                 /\ touched > lowest /\ RemovesExactly({lowest})
                 /\ Cardinality(kept) < Capacity
<1>1. touched \notin slots /\ Cardinality(slots) <= Capacity
  BY DEF AdmitInv
<1>2. /\ IsFiniteSet(slots) /\ Cardinality(slots) \in Nat /\ Capacity \in Nat
  BY CallFacts, FS_CardinalityType, LimitAssumption DEF Capacity
<1>3. CASE RemovesExactly({})
  BY <1>1, <1>2, <1>3 DEF RemovesExactly
<1>4. CASE ~ RemovesExactly({})
  <2>1. PICK lowest \in slots :
          /\ Cardinality(slots) = Capacity /\ \A t \in slots : lowest <= t
          /\ touched > lowest /\ RemovesExactly({lowest})
    BY <1>4 DEF AdmitInv
  <2>2. kept = slots \ {lowest}
    BY <2>1 DEF RemovesExactly
  <2>3. Cardinality(kept) = Cardinality(slots) - 1
    BY <1>2, <2>2, FS_RemoveElement
  <2>4. Cardinality(kept) < Capacity
    BY <1>2, <2>1, <2>3
  <2> QED
    BY <1>1, <1>2, <2>1, <2>4
<1> QED
  BY <1>3, <1>4

LEMMA StillFull ==
  ASSUME LoopTypeOK, loop = "admit", AdmitInv, Cardinality(kept) >= Capacity
  PROVE  /\ touched \notin slots /\ Cardinality(slots) = Capacity
         /\ RemovesExactly({}) /\ kept = slots
<1>1. Cardinality(kept) \in Nat
  BY CallFacts, FS_Subset, FS_CardinalityType DEF LoopTypeOK
<1>2. /\ touched \notin slots /\ Cardinality(slots) <= Capacity
      /\ Cardinality(slots) \in Nat /\ Capacity \in Nat
      /\ (RemovesExactly({}) /\ kept = slots) \/ Cardinality(kept) < Capacity
  BY AdmitCases
<1>3. RemovesExactly({}) /\ kept = slots
  BY <1>1, <1>2
<1> QED
  BY <1>2, <1>3

LEMMA DropLowestKeeps ==
  ASSUME LoopTypeOK, AdmitInv, DropLowest, UNCHANGED inputs
  PROVE  LoopTypeOK' /\ AdmitInv' /\ loop' = "admit"
<1>1. loop = "admit" /\ Cardinality(kept) >= Capacity
  BY DEF DropLowest
<1>2. PICK lowest \in kept : /\ \A t \in kept : lowest <= t
                             /\ touched > lowest /\ RemoveSlotState(lowest)
  BY DEF DropLowest
<1>3. /\ touched \notin slots /\ Cardinality(slots) = Capacity
      /\ RemovesExactly({}) /\ kept = slots
  BY <1>1, StillFull
<1>4. /\ LoopTypeOK' /\ loop' = loop /\ touched' = touched
      /\ kept' = slots \ ({} \cup {lowest})
      /\ shreds' = NotOfSlots(data, {} \cup {lowest})
      /\ parity' = NotOfSlots(code, {} \cup {lowest})
      /\ CountsWhatIsHeld'
  BY <1>2, <1>3, RemoveOneMore
<1>5. {} \cup {lowest} = {lowest}
  OBVIOUS
<1>6. slots' = slots /\ data' = data /\ code' = code
  BY DEF inputs, vars
<1>7. RemovesExactly({lowest})'
  BY <1>4, <1>5, <1>6 DEF RemovesExactly
<1>8. Cardinality(slots) <= Capacity
  BY <1>1, AdmitCases
<1>9. AdmitInv'
  BY <1>2, <1>3, <1>4, <1>6, <1>7, <1>8 DEF AdmitInv
<1> QED
  BY <1>1, <1>4, <1>9

LEMMA RefuseSlotKeeps ==
  ASSUME LoopTypeOK, AdmitInv, RefuseSlot, UNCHANGED inputs
  PROVE  LoopTypeOK' /\ AdmitAgrees' /\ loop' = "refused"
<1>1. /\ loop = "admit" /\ loop' = "refused" /\ Cardinality(kept) >= Capacity
      /\ UNCHANGED <<touched, kept, shreds, parity, count, cursor, index, removed,
                     ended, emitted>>
  BY DEF RefuseSlot, Returns
<1>2. PICK lowest \in kept : touched <= lowest /\ \A t \in kept : lowest <= t
  BY DEF RefuseSlot
<1>3. /\ touched \notin slots /\ Cardinality(slots) = Capacity
      /\ RemovesExactly({}) /\ kept = slots
  BY <1>1, StillFull
<1>4. Victims(touched) = {lowest}
  BY <1>1, <1>2, <1>3, AdmitCases, VictimsOfFull
<1>5. ~ lowest < touched
  BY <1>2, <1>3, CallFacts, SlotAssumption DEF LoopTypeOK
<1>6. ~ Admits(touched)
  BY <1>4, <1>5 DEF Admits
<1>7. LoopTypeOK'
  BY <1>1 DEF LoopTypeOK, CallOK, inputs, vars
<1>8. slots' = slots /\ data' = data /\ code' = code /\ touched' = touched
  BY <1>1 DEF inputs, vars
<1>9. RemovesExactly({})'
  BY <1>1, <1>3, <1>8 DEF RemovesExactly, CountsWhatIsHeld
<1>10. ~ Admits(touched)'
  BY <1>6, <1>8 DEF Admits, Victims
<1> QED
  BY <1>1, <1>7, <1>9, <1>10 DEF AdmitAgrees

LEMMA AdmitSlotKeeps ==
  ASSUME LoopTypeOK, AdmitInv, AdmitSlot, UNCHANGED inputs
  PROVE  LoopTypeOK' /\ AdmitAgrees' /\ loop' = "admitted"
<1>1. /\ loop = "admit" /\ loop' = "admitted" /\ Cardinality(kept) < Capacity
      /\ UNCHANGED <<touched, kept, shreds, parity, count, cursor, index, removed,
                     ended, emitted>>
  BY DEF AdmitSlot, Returns
<1>2. touched \notin slots /\ Cardinality(slots) <= Capacity
  BY <1>1, AdmitCases
<1>3. Admits(touched) /\ RemovesExactly(Victims(touched))
  <2>1. CASE RemovesExactly({}) /\ kept = slots
    <3>1. Victims(touched) = {}
      BY <1>1, <1>2, <2>1, VictimsOfFull
    <3> QED
      BY <2>1, <3>1 DEF Admits
  <2>2. CASE \E lowest \in slots :
               /\ Cardinality(slots) = Capacity /\ \A t \in slots : lowest <= t
               /\ touched > lowest /\ RemovesExactly({lowest})
    <3>1. PICK lowest \in slots :
               /\ Cardinality(slots) = Capacity /\ \A t \in slots : lowest <= t
               /\ touched > lowest /\ RemovesExactly({lowest})
      BY <2>2
    <3>2. Victims(touched) = {lowest}
      BY <1>2, <3>1, VictimsOfFull
    <3>3. lowest < touched
      BY <3>1, CallFacts, SlotAssumption DEF LoopTypeOK
    <3> QED
      BY <3>1, <3>2, <3>3 DEF Admits
  <2> QED
    BY <1>1, <2>1, <2>2, AdmitCases
<1>4. LoopTypeOK'
  BY <1>1 DEF LoopTypeOK, CallOK, inputs, vars
<1>5. slots' = slots /\ data' = data /\ code' = code /\ touched' = touched
  BY <1>1 DEF inputs, vars
<1>6. RemovesExactly(Victims(touched))'
  BY <1>1, <1>3, <1>5 DEF RemovesExactly, CountsWhatIsHeld, Victims
<1>7. Admits(touched)'
  BY <1>3, <1>5 DEF Admits, Victims
<1> QED
  BY <1>1, <1>4, <1>6, <1>7 DEF AdmitAgrees

-----------------------------------------------------------------------------
(* All loops. *)

LEMMA CalledLoopInv == LoopInit => LoopInv
<1> SUFFICES ASSUME LoopInit PROVE LoopInv
  OBVIOUS
<1>1. CallOK
  BY DEF LoopInit, CallOK
<1>2. PICK s \in Slot : \/ s \in slots \ complete /\ Called("drain", s)
                        \/ Called("enforce", s)
                        \/ /\ s \notin slots /\ Cardinality(slots) <= Capacity
                           /\ Called("admit", s)
  BY DEF LoopInit
<1>3. /\ loop \in {"drain", "enforce", "admit"} /\ touched = s
      /\ kept = slots /\ shreds = data /\ parity = code /\ count = buffered
      /\ cursor = next[s] /\ index = next[s]
      /\ removed = 0 /\ ended = FALSE /\ emitted = <<>>
  BY <1>2 DEF Called
<1>4. next[s] \in Nat /\ IsFiniteSet(data) /\ IsFiniteSet(code)
      /\ buffered = Cardinality(data) + Cardinality(code)
  BY <1>1 DEF CallOK, CallState
<1>5. LoopTypeOK
  <2>1. buffered \in Nat
    BY <1>4, FS_CardinalityType
  <2>2. emitted \in Seq(Batch)
    BY <1>3, EmptySeq
  <2> QED
    BY <1>1, <1>3, <1>4, <2>1, <2>2 DEF LoopTypeOK
<1>6. \A d \in data : d.index \in Nat /\ d.index >= next[d.slot]
  BY <1>5, CallFacts
<1>7. Behind(cursor) = {}
  BY <1>3, <1>4, <1>6 DEF Behind, Closers
<1>8. ScanInv
  BY <1>3, <1>4, <1>6 DEF ScanInv
<1>9. loop = "drain" => EndInv
  BY <1>3, <1>7 DEF EndInv
<1>10. LeftInv
  <2>1. shreds = {d \in data : d.slot = touched => ~ ended /\ d.index >= cursor}
    BY <1>3, <1>6
  <2>2. Cardinality(data) \in Nat
    BY <1>4, FS_CardinalityType
  <2> QED
    BY <1>3, <2>1, <2>2 DEF LeftInv
<1>11. EmitInv
  <2>1. Len(emitted) = 0
    BY <1>3
  <2>2. Batches(data, touched, next[touched], Behind(cursor)) = {}
    BY <1>7 DEF Batches
  <2> QED
    BY <2>1, <2>2 DEF EmitInv, InOrder
<1>12. RemovesExactly({})
  BY <1>3, <1>4 DEF RemovesExactly, NotOfSlots, CountsWhatIsHeld
<1>13. slots \ kept = {}
  BY <1>3
<1>14. EnforceInv
  BY <1>12, <1>13 DEF EnforceInv
<1>15. AdmitInv
  BY <1>2, <1>3, <1>12 DEF AdmitInv, Called
<1>16. DrainInv
  BY <1>3, <1>8, <1>9, <1>10, <1>11 DEF DrainInv
<1>17. ClosedFormsAgree
  BY <1>3 DEF ClosedFormsAgree, DrainAgrees, EnforceAgrees, AdmitAgrees
<1> QED
  BY <1>5, <1>14, <1>15, <1>16, <1>17 DEF LoopInv

LEMMA LoopStep == LoopInv /\ [LoopNext]_<<inputs, working>> => LoopInv'
<1> SUFFICES ASSUME LoopInv, [LoopNext]_<<inputs, working>> PROVE LoopInv'
  OBVIOUS
<1>1. LoopTypeOK /\ DrainInv /\ EnforceInv /\ AdmitInv /\ ClosedFormsAgree
  BY DEF LoopInv
<1>2. CASE UNCHANGED <<inputs, working>>
  <2> USE <1>2 DEF inputs, vars, working
  <2>1. LoopTypeOK'
    BY <1>1 DEF LoopTypeOK, CallOK
  <2>2. DrainInv'
    BY <1>1 DEF DrainInv, ScanInv, EndInv, LeftInv, EmitInv, InOrder, Behind
  <2>3. EnforceInv' /\ AdmitInv'
    BY <1>1 DEF EnforceInv, AdmitInv, RemovesExactly, CountsWhatIsHeld
  <2>4. ClosedFormsAgree'
    BY <1>1 DEF ClosedFormsAgree, DrainAgrees, EnforceAgrees, AdmitAgrees,
                RemovesExactly, CountsWhatIsHeld, InOrder, Admits, Victims
  <2> QED
    BY <2>1, <2>2, <2>3, <2>4 DEF LoopInv
<1>3. CASE ScanOn /\ UNCHANGED inputs
  <2>1. LoopTypeOK' /\ DrainInv' /\ loop' = "drain"
    BY <1>1, <1>3, ScanOnKeeps DEF ScanOn
  <2> QED
    BY <2>1 DEF LoopInv, EnforceInv, AdmitInv, ClosedFormsAgree, DrainAgrees,
                EnforceAgrees, AdmitAgrees
<1>4. CASE ScanGap /\ UNCHANGED inputs
  <2>1. LoopTypeOK' /\ DrainInv' /\ loop' = "retain"
    BY <1>1, <1>4, ScanGapKeeps DEF ScanGap
  <2> QED
    BY <2>1 DEF LoopInv, EnforceInv, AdmitInv, ClosedFormsAgree, DrainAgrees,
                EnforceAgrees, AdmitAgrees
<1>5. CASE TakeSegment /\ UNCHANGED inputs
  <2>1. LoopTypeOK' /\ DrainInv' /\ loop' \in {"drain", "retain"}
    BY <1>1, <1>5, TakeSegmentKeeps DEF TakeSegment
  <2> QED
    BY <2>1 DEF LoopInv, EnforceInv, AdmitInv, ClosedFormsAgree, DrainAgrees,
                EnforceAgrees, AdmitAgrees
<1>6. CASE RetainCoding /\ UNCHANGED inputs
  <2>1. LoopTypeOK' /\ DrainAgrees' /\ loop' = "drained"
    BY <1>1, <1>6, RetainCodingKeeps
  <2> QED
    BY <2>1 DEF LoopInv, DrainInv, EnforceInv, AdmitInv, ClosedFormsAgree,
                EnforceAgrees, AdmitAgrees
<1>7. CASE EvictOldest /\ UNCHANGED inputs
  <2>1. LoopTypeOK' /\ EnforceInv' /\ loop' = "enforce"
    BY <1>1, <1>7, EvictOldestKeeps
  <2> QED
    BY <2>1 DEF LoopInv, DrainInv, AdmitInv, ClosedFormsAgree, DrainAgrees,
                EnforceAgrees, AdmitAgrees
<1>8. CASE LimitMet /\ UNCHANGED inputs
  <2>1. LoopTypeOK' /\ EnforceAgrees' /\ loop' = "enforced"
    BY <1>1, <1>8, LimitMetKeeps
  <2> QED
    BY <2>1 DEF LoopInv, DrainInv, EnforceInv, AdmitInv, ClosedFormsAgree,
                DrainAgrees, AdmitAgrees
<1>9. CASE DropLowest /\ UNCHANGED inputs
  <2>1. LoopTypeOK' /\ AdmitInv' /\ loop' = "admit"
    BY <1>1, <1>9, DropLowestKeeps
  <2> QED
    BY <2>1 DEF LoopInv, DrainInv, EnforceInv, ClosedFormsAgree, DrainAgrees,
                EnforceAgrees, AdmitAgrees
<1>10. CASE RefuseSlot /\ UNCHANGED inputs
  <2>1. LoopTypeOK' /\ AdmitAgrees' /\ loop' = "refused"
    BY <1>1, <1>10, RefuseSlotKeeps
  <2> QED
    BY <2>1 DEF LoopInv, DrainInv, EnforceInv, AdmitInv, ClosedFormsAgree,
                DrainAgrees, EnforceAgrees
<1>11. CASE AdmitSlot /\ UNCHANGED inputs
  <2>1. LoopTypeOK' /\ AdmitAgrees' /\ loop' = "admitted"
    BY <1>1, <1>11, AdmitSlotKeeps
  <2> QED
    BY <2>1 DEF LoopInv, DrainInv, EnforceInv, AdmitInv, ClosedFormsAgree,
                DrainAgrees, EnforceAgrees
<1> QED
  BY <1>2, <1>3, <1>4, <1>5, <1>6, <1>7, <1>8, <1>9, <1>10, <1>11 DEF LoopNext

\* drain_ready_segments, enforce_buffer_limit and admit_slot, run iteration by
\* iteration, have the results that the model of the decoder gives them, for
\* every buffer, every set of tracked slots and every limit.
THEOREM LoopsComputeClosedForms == LoopSpec => []ClosedFormsAgree
<1>1. LoopInit => LoopInv
  BY CalledLoopInv
<1>2. LoopInv /\ [LoopNext]_<<inputs, working>> => LoopInv'
  BY LoopStep
<1>3. LoopInv => ClosedFormsAgree
  BY DEF LoopInv
<1> QED
  BY <1>1, <1>2, <1>3, PTL DEF LoopSpec

-----------------------------------------------------------------------------
(* push_packet calls the loops in such states. *)

\* next_data_index of every slot once room has been made for x, and the value
\* of buffered_shreds before and after the slot is drained.
NextAt(x) == Reset(next, Victims(x.slot))
Count2(x) ==
  buffered - Held(data, code, Victims(x.slot)) + 1
    + Cardinality(Back(x)) - Cardinality(CodeWith(x) \ C2(x))
Count3(x) ==
  Count2(x) - Cardinality(D2(x) \ D3(x)) - Cardinality(C2(x) \ C3(x))

CalledAsAssumed ==
  /\ CallOK /\ Cardinality(slots) <= Capacity
  /\ \A p \in Packet, now \in Time :
       LET x == p.shred IN
       Arrives(p) /\ Inserts(x) =>
         /\ x.slot \in Tracked(x) \ (complete \ Victims(x.slot))
         /\ CallState(Tracked(x), complete \ Victims(x.slot), NextAt(x),
                      Acts(x, now), D2(x), C2(x), Count2(x))
         /\ CallState(Tracked(x), Done(x), [NextAt(x) EXCEPT ![x.slot] = Cursor(x)],
                      Acts(x, now), D3(x), C3(x), Count3(x))

\* The counter of buffered shreds is right in the middle of push_packet.
LEMMA StageCounts ==
  ASSUME CountInv, NEW p \in Packet, Parses(p), Arrives(p), Inserts(p.shred)
  PROVE  LET x == p.shred IN
         /\ IsFiniteSet(D2(x)) /\ IsFiniteSet(C2(x))
         /\ IsFiniteSet(D3(x)) /\ IsFiniteSet(C3(x))
         /\ Count2(x) = Cardinality(D2(x)) + Cardinality(C2(x))
         /\ Count3(x) = Cardinality(D3(x)) + Cardinality(C3(x))
<1> DEFINE x == p.shred
           V == Victims(x.slot)
           D1 == DataWith(x)
           C1 == CodeWith(x)
<1> TypeOK
  BY DEF CountInv
<1>1. /\ IsFiniteSet(D1) /\ IsFiniteSet(C1)
      /\ D1 \subseteq DataShred /\ Siblings(x) \subseteq CodeShred
      /\ Cardinality(D1) \in Nat /\ Cardinality(C1) \in Nat
      /\ Cardinality(D1) + Cardinality(C1)
           = Cardinality(NotOfSlots(data, V)) + Cardinality(NotOfSlots(code, V)) + 1
  <2>1. /\ IsFiniteSet(D1) /\ IsFiniteSet(C1)
        /\ D1 \subseteq DataShred /\ C1 \subseteq CodeShred
        /\ Cardinality(D1) \in Nat /\ Cardinality(C1) \in Nat
        /\ Cardinality(D1) + Cardinality(C1)
             = Cardinality(NotOfSlots(data, V)) + Cardinality(NotOfSlots(code, V)) + 1
    BY InsertFacts
  <2>2. Siblings(x) \subseteq C1
    BY ArrivalFacts
  <2> QED
    BY <2>1, <2>2
<1>2. IsFiniteSet(Back(x)) /\ D1 \cap Back(x) = {}
  BY <1>1, RestoredFacts DEF Back
<1>3. /\ IsFiniteSet(D2(x)) /\ Cardinality(Back(x)) \in Nat
      /\ Cardinality(D2(x)) = Cardinality(D1) + Cardinality(Back(x))
  BY <1>1, <1>2, JoinDisjoint DEF D2
<1>4. D3(x) \subseteq D2(x) /\ C2(x) \subseteq C1 /\ C3(x) \subseteq C2(x)
  BY DrainFacts
<1>5. /\ IsFiniteSet(C2(x)) /\ Cardinality(C2(x)) \in Nat
      /\ Cardinality(C1 \ C2(x)) \in Nat
      /\ Cardinality(C1) = Cardinality(C2(x)) + Cardinality(C1 \ C2(x))
  BY <1>1, <1>4, SplitByPart
<1>6. /\ IsFiniteSet(D3(x)) /\ IsFiniteSet(C3(x))
      /\ Cardinality(D3(x)) \in Nat /\ Cardinality(C3(x)) \in Nat
      /\ Cardinality(D2(x) \ D3(x)) \in Nat /\ Cardinality(C2(x) \ C3(x)) \in Nat
      /\ Cardinality(D2(x)) = Cardinality(D3(x)) + Cardinality(D2(x) \ D3(x))
      /\ Cardinality(C2(x)) = Cardinality(C3(x)) + Cardinality(C2(x) \ C3(x))
  BY <1>3, <1>4, <1>5, SplitByPart
<1>7. /\ buffered - Held(data, code, V)
           = Cardinality(NotOfSlots(data, V)) + Cardinality(NotOfSlots(code, V))
      /\ buffered - Held(data, code, V) \in Nat
  BY RemovalCounts
<1>8. Count2(x) = Cardinality(D2(x)) + Cardinality(C2(x))
  <2>1. Count2(x) = buffered - Held(data, code, V) + 1
                      + Cardinality(Back(x)) - Cardinality(C1 \ C2(x))
    BY DEF Count2
  <2> HIDE DEF D1, C1, V, x
  <2> QED
    BY <1>1, <1>3, <1>5, <1>7, <2>1
<1>9. Count3(x) = Cardinality(D3(x)) + Cardinality(C3(x))
  <2>1. Count3(x) = Count2(x) - Cardinality(D2(x) \ D3(x)) - Cardinality(C2(x) \ C3(x))
    BY DEF Count3
  <2> HIDE DEF x
  <2> QED
    BY <1>3, <1>5, <1>6, <1>8, <2>1
<1> QED
  BY <1>3, <1>5, <1>6, <1>8, <1>9

LEMMA StagesCallable ==
  ASSUME LiveInv, LimitInv, NEW p \in Packet, NEW now \in Time,
         Arrives(p), Inserts(p.shred)
  PROVE  LET x == p.shred IN
         /\ x.slot \in Tracked(x) \ (complete \ Victims(x.slot))
         /\ CallState(Tracked(x), complete \ Victims(x.slot), NextAt(x),
                      Acts(x, now), D2(x), C2(x), Count2(x))
         /\ CallState(Tracked(x), Done(x), [NextAt(x) EXCEPT ![x.slot] = Cursor(x)],
                      Acts(x, now), D3(x), C3(x), Count3(x))
<1> DEFINE x == p.shred
           V == Victims(x.slot)
           n == NextAt(x)
           n3 == [n EXCEPT ![x.slot] = Cursor(x)]
<1> TypeOK /\ HeldIsLive /\ CodingSetsUniform /\ CountInv /\ Parses(p)
  BY DEF LiveInv, CountInv, Arrives
<1>1. /\ x.slot \in Slot /\ x.slot \notin complete /\ x.slot \notin V
      /\ CodeWith(x) \subseteq CodeShred
  BY ArrivalFacts
<1>2. D2(x) \subseteq DataShred
  BY BackFacts
<1>3. /\ Cursor(x) \in Nat /\ (~ Drains(x) => Cursor(x) = next[x.slot])
      /\ D3(x) \subseteq D2(x) /\ C2(x) \subseteq CodeWith(x) /\ C3(x) \subseteq C2(x)
      /\ \A d \in D3(x) : d.slot = x.slot =>
           ~ EndsSlot(Ends(x)) /\ (Drains(x) => d.index >= Cursor(x))
      /\ \A c \in C3(x) : c.slot = x.slot => ~ EndsSlot(Ends(x))
  BY DrainFacts
<1>4. /\ \A d \in D2(x) : /\ d.slot \in Tracked(x) /\ d.slot \notin complete
                          /\ d.index >= next[d.slot]
      /\ \A c \in CodeWith(x) : c.slot \in Tracked(x) /\ c.slot \notin complete
      /\ \A d, e \in D2(x) : d.slot = e.slot /\ d.index = e.index => d = e
  BY StagesLive
<1>5. \A c \in CodeWith(x) : c.numData # 0
  <2> SUFFICES ASSUME NEW c \in CodeWith(x) PROVE c.numData # 0
    OBVIOUS
  <2>1. CodingHeaderValid(c)
    BY WithUniform
  <2> QED
    BY <2>1 DEF CodingHeaderValid
<1>6. /\ IsFiniteSet(D2(x)) /\ IsFiniteSet(C2(x))
      /\ IsFiniteSet(D3(x)) /\ IsFiniteSet(C3(x))
      /\ Count2(x) = Cardinality(D2(x)) + Cardinality(C2(x))
      /\ Count3(x) = Cardinality(D3(x)) + Cardinality(C3(x))
  BY StageCounts
<1>7. Tracked(x) \subseteq Slot /\ IsFiniteSet(Tracked(x))
  <2>1. slots \subseteq Nat /\ slots \subseteq Slot /\ IsFiniteSet(slots)
        /\ Cardinality(slots) <= Capacity
    BY SlotAssumption DEF TypeOK, LimitInv, WithinLimits
  <2>2. IsFiniteSet(Tracked(x))
    BY <2>1, AdmissionMakesRoom DEF Tracked
  <2> QED
    BY <1>1, <2>1, <2>2 DEF Tracked
<1>8. n \in [Slot -> Nat] /\ n3 \in [Slot -> Nat] /\ Acts(x, now) \in [Slot -> Nat]
  <2>1. n \in [Slot -> Nat] /\ Reset(active, V) \in [Slot -> Nat]
    BY ResetType DEF TypeOK, NextAt
  <2>2. now \in Nat
    BY TimeAssumption
  <2> HIDE DEF n, x, V
  <2>3. n3 \in [Slot -> Nat]
    BY <1>3, <2>1
  <2>4. Acts(x, now) \in [Slot -> Nat]
    BY <2>1, <2>2 DEF Acts, V
  <2> QED
    BY <2>1, <2>3, <2>4
<1>9. \A s \in Tracked(x) : n[s] = next[s] /\ (s # x.slot => n3[s] = next[s])
  <2>1. Tracked(x) \cap V = {}
    BY <1>1 DEF Tracked
  <2>2. \A s \in Tracked(x) : n[s] = next[s]
    BY <1>7, <2>1 DEF NextAt, Reset
  <2> HIDE DEF n, x
  <2> QED
    BY <1>7, <1>8, <2>2
<1>10. n3[x.slot] = Cursor(x)
  <2> HIDE DEF n
  <2> QED
    BY <1>1, <1>8
<1>11. complete \ V \subseteq Tracked(x) /\ Done(x) \subseteq Tracked(x)
  BY DEF Tracked, Done, TypeOK
<1> HIDE DEF n, n3, x
<1>12. CallState(Tracked(x), complete \ V, n, Acts(x, now), D2(x), C2(x), Count2(x))
  BY <1>1, <1>2, <1>3, <1>4, <1>5, <1>6, <1>7, <1>8, <1>9, <1>11 DEF CallState
<1>13. \A d \in D3(x) : d.slot \in Tracked(x) \ Done(x) /\ d.index >= n3[d.slot]
  <2> SUFFICES ASSUME NEW d \in D3(x)
               PROVE  d.slot \in Tracked(x) \ Done(x) /\ d.index >= n3[d.slot]
    OBVIOUS
  <2>1. d.slot \in Tracked(x) /\ d.slot \notin complete /\ d.index >= next[d.slot]
    BY <1>3, <1>4
  <2>2. d.slot \notin Done(x)
    BY <1>3, <2>1 DEF Done
  <2>3. d.index >= n3[d.slot]
    BY <1>3, <1>9, <1>10, <2>1
  <2> QED
    BY <2>1, <2>2, <2>3
<1>14. \A c \in C3(x) : c.slot \in Tracked(x) \ Done(x)
  BY <1>3, <1>4 DEF Done
<1>15. CallState(Tracked(x), Done(x), n3, Acts(x, now), D3(x), C3(x), Count3(x))
  BY <1>1, <1>2, <1>3, <1>4, <1>5, <1>6, <1>7, <1>8, <1>11, <1>13, <1>14 DEF CallState
<1>16. x.slot \in Tracked(x) \ (complete \ V)
  BY <1>1 DEF Tracked
<1> QED
  BY <1>12, <1>15, <1>16 DEF x, n, n3

\* admit_slot, drain_ready_segments and enforce_buffer_limit are only called in
\* states of which LoopsComputeClosedForms speaks: with the buffers, the tracked
\* slots and the counter that push_packet has at that point.
THEOREM LoopsCalledAsAssumed == Spec => []CalledAsAssumed
<1>1. ASSUME LiveInv, LimitInv PROVE CalledAsAssumed
  <2>1. CallOK
    BY <1>1 DEF LiveInv, LimitInv, CountInv, TypeOK, BufferedCount, HeldIsLive,
                CodingSetsUniform, CodingHeaderValid, CallOK, CallState
  <2>2. Cardinality(slots) <= Capacity
    BY <1>1 DEF LimitInv, WithinLimits
  <2> QED
    BY <1>1, <2>1, <2>2, StagesCallable DEF CalledAsAssumed
<1> QED
  BY <1>1, AlwaysLive, AlwaysLimited, PTL
=============================================================================
