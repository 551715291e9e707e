----------------------- MODULE DecoderDeliveryProofs -----------------------
(* What the decoder hands out: it implements OrderedDelivery, and over all *)
(* calls nothing is delivered twice, out of order or behind the watermark. *)
EXTENDS DecoderBufferProofs, DecoderHistory

-----------------------------------------------------------------------------
(* Segments. *)

\* Draining moves the cursor past every segment taken, and past nothing else.
LEMMA CursorPassesEnds ==
  ASSUME NEW S \in SUBSET DataShred, NEW n \in Nat, \A e \in S : e.index >= n
  PROVE  /\ \A e \in S : e.index < CursorAfter(S, n)
         /\ CursorAfter(S, n) >= n
         /\ S # {} => CursorAfter(S, n) > n
         /\ n <= MaxIndex => CursorAfter(S, n) <= MaxIndex
         /\ \A d \in DataShred :
              d.index >= CursorAfter(S, n)
                <=> d.index >= n /\ \A f \in S : f.index < d.index
<1>1. MaxIndex \in Nat /\ \A d \in DataShred : d.index \in 0 .. (MaxIndex - 1)
  BY LimitAssumption DEF DataShred
<1>2. CASE S = {}
  BY <1>1, <1>2 DEF CursorAfter
<1>3. CASE S # {}
  <2> DEFINE top == CHOOSE f \in S : \A e \in S : e.index <= f.index
  <2>1. top \in S /\ \A e \in S : e.index <= top.index
    BY <1>3, HighestShred
  <2>2. CursorAfter(S, n) = top.index + 1
    BY <1>3 DEF CursorAfter
  <2> HIDE DEF top
  <2>3. top.index \in 0 .. (MaxIndex - 1) /\ top.index >= n
    BY <1>1, <2>1
  <2>4. \A e \in S : e.index \in Nat /\ e.index <= top.index
    BY <1>1, <2>1
  <2>5. ASSUME NEW d \in DataShred
        PROVE  d.index >= top.index + 1
                 <=> d.index >= n /\ \A f \in S : f.index < d.index
    <3>1. d.index \in Nat /\ top.index \in Nat
      BY <1>1, <2>3
    <3>2. d.index >= top.index + 1 => d.index >= n /\ \A f \in S : f.index < d.index
      BY <2>3, <2>4, <3>1
    <3>3. (\A f \in S : f.index < d.index) => d.index >= top.index + 1
      BY <2>1, <3>1
    <3> QED
      BY <3>2, <3>3
  <2> QED
    BY <1>1, <2>2, <2>3, <2>4, <2>5
<1> QED
  BY <1>2, <1>3

\* The indices of the segment run from n or later to m.
EndsRun(seg, n, m) == \E i \in n .. m : Indices(seg) = i .. m

\* A segment is a run of consecutive indices: it starts where the segments
\* before it leave the cursor and ends at the shred that closes it.
LEMMA SegmentIsRun ==
  ASSUME NEW D \in SUBSET DataShred, NEW s, NEW n \in Nat,
         NEW T \in SUBSET Closers(D, s, n), NEW e \in T
  PROVE  LET seg == SegmentOf(D, s, n, T, e) IN
         seg \subseteq D /\ EndsRun(seg, n, e.index)
<1> DEFINE seg == SegmentOf(D, s, n, T, e)
           L == {f \in T : f.index < e.index}
           i == CursorAfter(L, n)
<1>1. \A d \in DataShred : d.index \in Nat
  BY LimitAssumption DEF DataShred
<1>2. /\ T \subseteq D /\ \A f \in T : f.index >= n
      /\ \A k \in n .. e.index : DataAt(D, s, k) # {}
  BY DEF Closers
<1>3. L \in SUBSET DataShred /\ (\A f \in L : f.index >= n) /\ e \in DataShred
  BY <1>2
<1>4. /\ i >= n
      /\ \A d \in DataShred : d.index >= i
           <=> d.index >= n /\ \A f \in L : f.index < d.index
  BY <1>3, CursorPassesEnds
<1>5. i \in Nat /\ e.index \in Nat
  BY <1>1, <1>3, CursorAfterType
<1>6. i <= e.index
  BY <1>2, <1>3, <1>4, <1>5
<1>7. \A d \in D : d \in seg <=> d.slot = s /\ d.index >= i /\ d.index <= e.index
  <2> SUFFICES ASSUME NEW d \in D
               PROVE  d \in seg <=> d.slot = s /\ d.index >= i /\ d.index <= e.index
    OBVIOUS
  <2>1. d \in seg <=> /\ d.slot = s /\ n <= d.index /\ d.index <= e.index
                      /\ \A f \in L : f.index < d.index
    BY DEF SegmentOf
  <2>2. d.index \in Nat
    BY <1>1
  <2>3. n <= d.index <=> d.index >= n
    BY <2>2
  <2> HIDE DEF seg, L, i
  <2> QED
    BY <1>4, <2>1, <2>3
<1>8. seg \subseteq D
  BY DEF SegmentOf
<1>9. Indices(seg) = i .. e.index
  <2>1. ASSUME NEW d \in seg PROVE d.index \in i .. e.index
    <3>1. d \in D /\ d.index \in Nat
      BY <1>1, <1>8
    <3> HIDE DEF seg, i
    <3> QED
      BY <1>5, <1>7, <2>1, <3>1
  <2>2. ASSUME NEW k \in i .. e.index PROVE \E d \in seg : d.index = k
    <3>1. k \in n .. e.index
      BY <1>4, <1>5
    <3>2. PICK d \in D : d.slot = s /\ d.index = k
      BY <1>2, <3>1 DEF DataAt
    <3> HIDE DEF seg, i
    <3>3. d \in seg
      BY <1>5, <1>7, <3>2
    <3> QED
      BY <3>2, <3>3
  <2> HIDE DEF seg, i
  <2> QED
    BY <2>1, <2>2 DEF Indices
<1>10. i \in n .. e.index
  BY <1>4, <1>5, <1>6
<1> HIDE DEF seg, i
<1> QED
  BY <1>8, <1>9, <1>10 DEF seg, EndsRun

-----------------------------------------------------------------------------
(* One call. *)

\* No cursor is beyond u32::MAX.
CursorsBounded == \A s \in Slot : next[s] <= MaxIndex

\* The batches of a call: runs of one slot from its cursor on.
LEMMA BatchesAreRuns ==
  ASSUME TypeOK, HeldIsLive, CursorsBounded,
         NEW p \in Packet, NEW now \in Time, StoreShred(p, now)
  PROVE  LET x == p.shred IN
         /\ \A b \in out' : b.slot = x.slot
         /\ Promise!RunsBetween(out', next[x.slot], Cursor(x))
         /\ Cursor(x) <= MaxIndex
         /\ Ends(x) # {} => Cursor(x) > next[x.slot]
<1> DEFINE x == p.shred
           s == x.slot
           n == next[s]
           D == D2(x)
           T == Ends(x)
           m == Cursor(x)
<1>1. /\ Parses(p) /\ Arrives(p) /\ Inserts(x)
      /\ out' = Batches(D, s, n, T)
  BY StoreEffect
<1>2. /\ s \in Slot /\ n \in Nat /\ D \subseteq DataShred /\ IsFiniteSet(D)
      /\ \A d, e \in D : d.slot = e.slot /\ d.index = e.index => d = e
  BY <1>1, ArrivalFacts, BackFacts, StagesLive
<1>3. T \subseteq Closers(D, s, n)
  BY DEF Ends, TakenClosers
<1>4. T \subseteq DataShred /\ \A e \in T : e \in D /\ e.slot = s /\ e.index >= n
  BY <1>2, <1>3 DEF Closers
<1>5. m \in Nat /\ n <= MaxIndex
  BY <1>1, <1>2, DrainFacts DEF CursorsBounded
<1>6. /\ \A e \in T : e.index < m
      /\ T # {} => m > n
      /\ m <= MaxIndex
  BY <1>2, <1>4, <1>5, CursorPassesEnds DEF Cursor
<1>7. ASSUME NEW b \in out'
      PROVE  \E e \in T : b.slot = s /\ b.shreds = SegmentOf(D, s, n, T, e)
  BY <1>1, <1>7 DEF Batches
<1> HIDE DEF D, T, m, n, s, x
<1>8. ASSUME NEW b \in out'
      PROVE  /\ b.slot = s
             /\ \A d, e \in b.shreds : d.index = e.index => d = e
             /\ \E i, j \in n .. (m - 1) : i <= j /\ Promise!Indices(b) = i .. j
  <2>1. PICK e \in T : b.slot = s /\ b.shreds = SegmentOf(D, s, n, T, e)
    BY <1>7, <1>8
  <2>2. b.shreds \subseteq D /\ EndsRun(b.shreds, n, e.index)
    <3>1. D \in SUBSET DataShred /\ n \in Nat /\ T \in SUBSET Closers(D, s, n)
      BY <1>2, <1>3
    <3>2. SegmentOf(D, s, n, T, e) \subseteq D
      BY DEF SegmentOf
    <3>3. \A A \in SUBSET DataShred, k \in Nat : \A C \in SUBSET Closers(A, s, k) :
            \A c \in C : EndsRun(SegmentOf(A, s, k, C, c), k, c.index)
      BY SegmentIsRun
    <3>4. EndsRun(SegmentOf(D, s, n, T, e), n, e.index)
      BY <3>1, <3>3
    <3> QED
      BY <2>1, <3>2, <3>4
  <2>3. PICK i \in n .. e.index : Indices(b.shreds) = i .. e.index
    BY <2>2 DEF EndsRun
  <2>4. e.index \in Nat /\ e.index < m
    BY <1>4, <1>6, LimitAssumption DEF DataShred
  <2>5. i \in n .. (m - 1) /\ e.index \in n .. (m - 1) /\ i <= e.index
    BY <1>2, <1>5, <2>4
  <2>6. /\ \A d \in b.shreds : d.slot = s
        /\ \A d, f \in b.shreds : d.index = f.index => d = f
    BY <1>2, <2>1, <2>2 DEF SegmentOf
  <2> QED
    BY <2>1, <2>3, <2>5, <2>6 DEF Promise!Indices, Indices
<1>9. ASSUME NEW a \in out', NEW b \in out', a # b
      PROVE  Promise!Indices(a) \cap Promise!Indices(b) = {}
  <2>1. PICK e \in T : a.slot = s /\ a.shreds = SegmentOf(D, s, n, T, e)
    BY <1>7
  <2>2. PICK f \in T : b.slot = s /\ b.shreds = SegmentOf(D, s, n, T, f)
    BY <1>7
  <2>3. e.index # f.index
    <3>1. a = [slot |-> s, shreds |-> a.shreds] /\ b = [slot |-> s, shreds |-> b.shreds]
      BY <1>1 DEF Batches
    <3>2. e # f
      BY <1>9, <2>1, <2>2, <3>1
    <3> QED
      BY <1>2, <1>4, <3>2
  <2>4. e.index \in Nat /\ f.index \in Nat
    BY <1>4, LimitAssumption DEF DataShred
  <2>5. \A d \in a.shreds : /\ d.index \in Nat /\ d.index <= e.index
                            /\ f.index < e.index => f.index < d.index
    BY <1>2, <2>1, LimitAssumption DEF SegmentOf, DataShred
  <2>6. \A d \in b.shreds : /\ d.index \in Nat /\ d.index <= f.index
                            /\ e.index < f.index => e.index < d.index
    BY <1>2, <2>2, LimitAssumption DEF SegmentOf, DataShred
  <2>7. ASSUME NEW c \in a.shreds, NEW d \in b.shreds PROVE c.index # d.index
    BY <2>3, <2>4, <2>5, <2>6
  <2> QED
    BY <2>7 DEF Promise!Indices
<1> QED
  BY <1>6, <1>8, <1>9 DEF Promise!RunsBetween, s, m, n, T, x

\* Cursors stay below the limit.
LEMMA NextBounded ==
  ASSUME TypeOK, HeldIsLive, CursorsBounded, HeldIsLive', [Next]_vars
  PROVE  CursorsBounded'
<1>1. MaxIndex \in Nat
  BY LimitAssumption
<1>2. ASSUME NEW V \in SUBSET slots, Removal(V) PROVE CursorsBounded'
  BY <1>1, <1>2 DEF Removal, Reset, CursorsBounded
<1>3. ASSUME NEW p \in Packet, NEW now \in Time, StoreShred(p, now)
      PROVE  CursorsBounded'
  <2> DEFINE x == p.shred
  <2>1. \A t \in slots' : next'[t] = IF t = x.slot THEN Cursor(x) ELSE next[t]
    BY <1>3, StoreNext
  <2>2. Cursor(x) <= MaxIndex
    BY <1>3, BatchesAreRuns
  <2>3. \A t \in Slot \ slots' : next'[t] = 0
    BY DEF HeldIsLive
  <2> HIDE DEF x
  <2> QED
    BY <1>1, <2>1, <2>2, <2>3 DEF CursorsBounded
<1> QED
  BY <1>2, <1>3, StepCases

DeliveryInv == LiveInv /\ CursorsBounded

LEMMA AlwaysDelivery == Spec => []DeliveryInv
<1>1. Init => DeliveryInv
  BY InitLive, LimitAssumption DEF Init, DeliveryInv, CursorsBounded
<1>2. DeliveryInv /\ [Next]_vars => DeliveryInv'
  BY NextLive, NextBounded DEF DeliveryInv, LiveInv, CountInv
<1> QED
  BY <1>1, <1>2, PTL DEF Spec

-----------------------------------------------------------------------------
(* The refinement. *)

LEMMA QuietIsForget ==
  ASSUME TypeOK, TypeOK', HeldIsLive', NEW V \in SUBSET slots, Removal(V), out' = {}
  PROVE  Promise!Forget
<1>1. /\ complete' \subseteq slots' /\ slots' \subseteq slots
      /\ \A t \in Slot \ slots' : next'[t] = 0
  BY DEF TypeOK, HeldIsLive, Removal
<1>2. \A t \in slots' : next'[t] = next[t] /\ (t \in complete' <=> t \in complete)
  BY DEF TypeOK, Removal, Reset
<1> QED
  BY <1>1, <1>2 DEF Promise!Forget, Promise!Others

LEMMA StoreIsDeliver ==
  ASSUME TypeOK, TypeOK', HeldIsLive, HeldIsLive', CursorsBounded,
         NEW p \in Packet, NEW now \in Time, StoreShred(p, now)
  PROVE  \E s \in Slot, n \in 0 .. MaxIndex : Promise!Deliver(s, n)
<1> DEFINE x == p.shred
<1>1. /\ Parses(p) /\ Arrives(p) /\ Inserts(x)
      /\ slots' = Tracked(x) \ Evicted(x, now) /\ complete' = Done(x)
  BY StoreEffect
<1>2. /\ x.slot \in Slot /\ x.slot \notin complete
      /\ Victims(x.slot) \subseteq slots /\ next[x.slot] \in Nat
  BY <1>1, ArrivalFacts
<1>3. Cursor(x) \in Nat /\ Cursor(x) >= next[x.slot]
  BY <1>1, DrainFacts
<1>4. /\ \A b \in out' : b.slot = x.slot
      /\ Promise!RunsBetween(out', next[x.slot], Cursor(x))
      /\ Cursor(x) <= MaxIndex
      /\ Ends(x) # {} => Cursor(x) > next[x.slot]
  BY BatchesAreRuns
<1>5. \A t \in slots' : next'[t] = IF t = x.slot THEN Cursor(x) ELSE next[t]
  BY StoreNext
<1>6. x.slot \in complete' => Cursor(x) > next[x.slot]
  BY <1>1, <1>2, <1>4 DEF Done, EndsSlot
<1>7. /\ complete' \subseteq slots' /\ \A t \in Slot \ slots' : next'[t] = 0
  BY DEF TypeOK, HeldIsLive
<1>8. slots' \subseteq slots \cup {x.slot}
  BY <1>1 DEF Tracked
<1>9. \A t \in slots' \ {x.slot} :
         next'[t] = next[t] /\ (t \in complete' <=> t \in complete)
  <2>1. ASSUME NEW t \in slots', t # x.slot PROVE t \in complete' <=> t \in complete
    BY <1>1, <2>1 DEF Tracked, Done
  <2> QED
    BY <1>5, <2>1
<1>10. Promise!Others({x.slot})
  BY <1>7, <1>8, <1>9 DEF Promise!Others
<1> HIDE DEF x
<1>11. Promise!Deliver(x.slot, Cursor(x))
  BY <1>2, <1>3, <1>4, <1>5, <1>6, <1>10 DEF Promise!Deliver
<1>12. Cursor(x) \in 0 .. MaxIndex
  BY <1>3, <1>4, LimitAssumption
<1> QED
  BY <1>2, <1>11, <1>12

\* The decoder implements OrderedDelivery: whatever is lost, repeated, reordered,
\* recovered or evicted, a call hands out disjoint runs of consecutive shreds
\* from its slot's cursor on, moves the cursor past them, and never hands out
\* anything of a finished slot.
THEOREM DecoderKeepsItsPromise == Spec => ImplementsOrderedDelivery
<1>1. Init => Promise!Init
  BY DEF Init, Promise!Init
<1>2. ASSUME DeliveryInv, DeliveryInv', [Next]_vars
      PROVE  [Promise!Next]_(Promise!vars)
  <2>1. /\ TypeOK /\ HeldIsLive /\ CursorsBounded
        /\ TypeOK' /\ HeldIsLive'
    BY <1>2 DEF DeliveryInv, LiveInv, CountInv
  <2>2. CASE UNCHANGED vars
    BY <2>2 DEF vars, Promise!vars
  <2>3. ASSUME NEW V \in SUBSET slots, Removal(V), out' = {} PROVE Promise!Next
    BY <2>1, <2>3, QuietIsForget DEF Promise!Next
  <2>4. ASSUME NEW p \in Packet, NEW now \in Time, StoreShred(p, now)
        PROVE  Promise!Next
    BY <2>1, <2>4, StoreIsDeliver DEF Promise!Next
  <2> QED
    BY <1>2, <2>1, <2>2, <2>3, <2>4, NextCases
<1> QED
  BY <1>1, <1>2, AlwaysDelivery, PTL DEF Spec, ImplementsOrderedDelivery, Promise!Spec

-----------------------------------------------------------------------------
(* Over all calls. *)

\* The histories do not disturb the decoder.
LEMMA HistoryIsDecoder == HSpec => Spec
<1>1. HInit => Init
  BY DEF HInit
<1>2. [HNext]_hvars => [Next]_vars
  BY DEF HNext, HPush, HEvict, Next, hvars, vars
<1> QED
  BY <1>1, <1>2, PTL DEF HSpec, Spec

LEMMA HistoryStep ==
  ASSUME [HNext]_hvars
  PROVE  \/ UNCHANGED hvars
         \/ /\ Next /\ delivered' = OfSlots(delivered \cup out', slots')
            /\ seen' = seen \cup {b.slot : b \in out'}
BY DEF HNext, HPush, HEvict, Next, Record

\* What was handed out lies behind the cursor.
Passed(a) ==
  /\ a.slot \in slots /\ a.shreds \subseteq DataShred
  /\ \A d \in a.shreds : d.index < next[a.slot]

DeliveredInv == \A a \in delivered : Passed(a)

\* The batches of a call lie between the old and the new cursor.
LEMMA BatchesAdvance ==
  ASSUME DeliveryInv, NEW p \in Packet, NEW now \in Time, StoreShred(p, now),
         NEW b \in out'
  PROVE  /\ b.slot = p.shred.slot /\ b.slot \in Slot /\ b.shreds \subseteq DataShred
         /\ \A d \in b.shreds : next[b.slot] <= d.index /\ d.index < Cursor(p.shred)
<1> DEFINE x == p.shred
           s == x.slot
<1>1. TypeOK /\ HeldIsLive /\ CursorsBounded
  BY DEF DeliveryInv, LiveInv, CountInv
<1>2. /\ Parses(p) /\ Arrives(p) /\ Inserts(x)
      /\ out' = Batches(D2(x), s, next[s], Ends(x))
  BY StoreEffect
<1>3. s \in Slot /\ next[s] \in Nat /\ D2(x) \subseteq DataShred
  BY <1>1, <1>2, ArrivalFacts, BackFacts
<1>4. PICK e \in Ends(x) : b.slot = s /\ b.shreds = SegmentOf(D2(x), s, next[s], Ends(x), e)
  BY <1>2 DEF Batches
<1>5. /\ Ends(x) \subseteq DataShred /\ \A f \in Ends(x) : f.index >= next[s]
  BY <1>1, <1>2, <1>3, DrainFacts
<1>6. e.index < Cursor(x) /\ Cursor(x) \in Nat /\ e.index \in Nat
  <2>1. e.index < Cursor(x)
    BY <1>3, <1>5, CursorPassesEnds DEF Cursor
  <2>2. Cursor(x) \in Nat
    BY <1>1, <1>2, DrainFacts
  <2> QED
    BY <1>5, <2>1, <2>2, LimitAssumption DEF DataShred
<1>7. /\ b.shreds \subseteq D2(x)
      /\ \A d \in b.shreds : next[s] <= d.index /\ d.index <= e.index
  BY <1>4 DEF SegmentOf
<1>8. \A d \in b.shreds : d.index \in Nat
  BY <1>3, <1>7, LimitAssumption DEF DataShred
<1> HIDE DEF x, s
<1> QED
  BY <1>3, <1>4, <1>6, <1>7, <1>8 DEF x, s

LEMMA NextDelivered ==
  ASSUME DeliveryInv, DeliveredInv, [HNext]_hvars
  PROVE  DeliveredInv'
<1>1. TypeOK
  BY DEF DeliveryInv, LiveInv, CountInv
<1>2. ASSUME UNCHANGED hvars PROVE DeliveredInv'
  BY <1>2 DEF hvars, DeliveredInv, Passed
<1>3. ASSUME Next, delivered' = OfSlots(delivered \cup out', slots'),
             NEW a \in delivered', a \in delivered
      PROVE  Passed(a)'
  <2>1. a.slot \in slots \cap slots' /\ Passed(a)
    BY <1>3 DEF OfSlots, DeliveredInv, Passed
  <2>2. next'[a.slot] >= next[a.slot]
    <3>1. ASSUME NEW V \in SUBSET slots, Removal(V) PROVE next'[a.slot] = next[a.slot]
      BY <1>1, <2>1, <3>1 DEF Removal, Reset, TypeOK
    <3>2. next[a.slot] \in Nat
      BY <1>1, <2>1 DEF TypeOK
    <3> QED
      BY <1>1, <1>3, <2>1, <3>1, <3>2, NextCases, StoreCursor
  <2>3. /\ next[a.slot] \in Nat /\ next'[a.slot] \in Nat
        /\ \A d \in a.shreds : d.index \in Nat
    <3>1. LiveInv'
      BY <1>3, NextLive DEF DeliveryInv
    <3>2. TypeOK'
      BY <3>1 DEF LiveInv, CountInv
    <3> QED
      BY <1>1, <2>1, <3>2, LimitAssumption DEF TypeOK, Passed, DataShred
  <2> QED
    BY <2>1, <2>2, <2>3 DEF Passed
<1>4. ASSUME Next, delivered' = OfSlots(delivered \cup out', slots'),
             NEW a \in delivered', a \notin delivered
      PROVE  Passed(a)'
  <2>1. a \in out' /\ a.slot \in slots'
    BY <1>4 DEF OfSlots
  <2>2. PICK p \in Packet, now \in Time : StoreShred(p, now)
    BY <1>1, <1>4, <2>1, NextCases
  <2>3. /\ a.slot = p.shred.slot /\ a.shreds \subseteq DataShred
        /\ \A d \in a.shreds : d.index < Cursor(p.shred)
    BY <2>1, <2>2, BatchesAdvance
  <2>4. next'[a.slot] = Cursor(p.shred)
    BY <1>1, <2>1, <2>2, <2>3, StoreNext
  <2> QED
    BY <2>1, <2>3, <2>4 DEF Passed
<1>5. ASSUME Next, delivered' = OfSlots(delivered \cup out', slots')
      PROVE  DeliveredInv'
  <2>1. \A a \in delivered' : Passed(a)'
    BY <1>3, <1>4, <1>5
  <2> QED
    BY <2>1 DEF DeliveredInv, Passed
<1> QED
  BY <1>2, <1>5, HistoryStep

\* Each batch continues its slot: it lies wholly after every batch of the slot
\* handed out since the slot was admitted. Nothing is delivered twice or out of
\* order.
THEOREM NothingDeliveredTwice == HSpec => DeliveryAdvances
<1>1. HInit => DeliveredInv
  BY DEF HInit, DeliveredInv
<1>2. HSpec => []DeliveryInv
  BY HistoryIsDecoder, AlwaysDelivery, PTL
<1>3. DeliveryInv /\ DeliveredInv /\ [HNext]_hvars => DeliveredInv'
  BY NextDelivered
<1>4. ASSUME DeliveryInv, DeliveredInv, [HNext]_hvars
      PROVE  [\A b \in out', a \in delivered :
                b.slot = a.slot =>
                  \A i \in Indices(a.shreds), j \in Indices(b.shreds) : i < j]_hvars
  <2> SUFFICES ASSUME ~ UNCHANGED hvars,
                      NEW b \in out', NEW a \in delivered, b.slot = a.slot,
                      NEW c \in a.shreds, NEW d \in b.shreds
               PROVE  c.index < d.index
    BY DEF Indices
  <2>1. TypeOK /\ Next
    BY <1>4, HistoryStep DEF DeliveryInv, LiveInv, CountInv
  <2>2. PICK p \in Packet, now \in Time : StoreShred(p, now)
    BY <2>1, NextCases
  <2>3. b.slot \in Slot /\ next[b.slot] <= d.index /\ b.shreds \subseteq DataShred
    BY <1>4, <2>2, BatchesAdvance
  <2>4. c.index < next[b.slot] /\ a.shreds \subseteq DataShred
    BY <1>4 DEF DeliveredInv, Passed
  <2>5. next[b.slot] \in Nat /\ c.index \in Nat /\ d.index \in Nat
    BY <2>1, <2>3, <2>4, LimitAssumption DEF TypeOK, DataShred
  <2> QED
    BY <2>3, <2>4, <2>5
<1> QED
  BY <1>1, <1>2, <1>3, <1>4, PTL DEF HSpec, DeliveryAdvances

-----------------------------------------------------------------------------
(* The forward watermark. *)

SeenInv == \A s \in seen : s \in Slot /\ s <= watermark

LEMMA NextSeen ==
  ASSUME ForwardSlotWatermark, DeliveryInv, SeenInv, [HNext]_hvars
  PROVE  /\ SeenInv'
         /\ ~ UNCHANGED hvars => \A b \in out', s \in seen : s <= b.slot
<1>1. /\ TypeOK /\ Slot \subseteq Nat
      /\ watermark \in Int
  <2>1. TypeOK
    BY DEF DeliveryInv, LiveInv, CountInv
  <2>2. watermark \in Slot \cup {-1}
    BY <2>1 DEF TypeOK
  <2> QED
    BY <2>1, <2>2, SlotAssumption
<1>2. CASE UNCHANGED hvars
  BY <1>2 DEF hvars, SeenInv
<1>3. ASSUME Next, seen' = seen \cup {b.slot : b \in out'},
             out' = {}, watermark' = watermark
      PROVE  SeenInv' /\ \A b \in out', s \in seen : s <= b.slot
  BY <1>3 DEF SeenInv
<1>4. ASSUME NEW p \in Packet, NEW now \in Time, StoreShred(p, now),
             seen' = seen \cup {b.slot : b \in out'}
      PROVE  SeenInv' /\ \A b \in out', s \in seen : s <= b.slot
  <2> DEFINE t == p.shred.slot
  <2>1. /\ Arrives(p) /\ Parses(p)
        /\ watermark' = IF ForwardSlotWatermark /\ out' # {} /\ t > watermark
                        THEN t ELSE watermark
    BY <1>4, StoreEffect
  <2>2. ~ (t < watermark) /\ t \in Slot
    BY <2>1, ShredKinds DEF Arrives, BehindWatermark
  <2>3. \A b \in out' : b.slot = t
    BY <1>4, BatchesAdvance
  <2> HIDE DEF t
  <2>4. \A s \in seen : s \in Nat /\ s <= watermark
    BY <1>1 DEF SeenInv
  <2>5. t \in Nat
    BY <1>1, <2>2
  <2>6. \A s \in seen : s <= t
    BY <1>1, <2>2, <2>4, <2>5
  <2>7. watermark' = IF out' # {} /\ t > watermark THEN t ELSE watermark
    BY <2>1
  <2>8. \A s \in seen : s <= watermark'
    BY <2>4, <2>6, <2>7
  <2>9. out' # {} => t <= watermark'
    BY <1>1, <2>2, <2>5, <2>7
  <2>10. \A s \in seen' : s \in seen \/ (s = t /\ out' # {})
    BY <1>4, <2>3
  <2>11. \A s \in seen : s \in Slot
    BY DEF SeenInv
  <2> QED
    BY <2>2, <2>3, <2>6, <2>8, <2>9, <2>10, <2>11 DEF SeenInv
<1> QED
  BY <1>1, <1>2, <1>3, <1>4, HistoryStep, NextCases

\* With forward_slot_watermark no batch is handed out for a slot below one that
\* was already handed out, even if the lower slot was buffered earlier.
THEOREM EmissionNeverGoesBack ==
  ASSUME ForwardSlotWatermark
  PROVE  HSpec => EmissionGoesForward
<1>1. HInit => SeenInv
  BY DEF HInit, SeenInv
<1>2. HSpec => []DeliveryInv
  BY HistoryIsDecoder, AlwaysDelivery, PTL
<1>3. DeliveryInv /\ SeenInv /\ [HNext]_hvars => SeenInv'
  BY NextSeen
<1>4. ASSUME DeliveryInv, SeenInv, [HNext]_hvars
      PROVE  [\A b \in out', s \in seen : s <= b.slot]_hvars
  BY <1>4, NextSeen
<1> QED
  BY <1>1, <1>2, <1>3, <1>4, PTL DEF HSpec, EmissionGoesForward

-----------------------------------------------------------------------------
(* Completeness of recovery, with an honest leader.                         *)

\* The shreds of one root are a run that starts at its FEC set index.
LEMMA RootIsRun ==
  ASSUME HonestLeader, NEW r \in DOMAIN Original, NEW o \in Original[r]
  PROVE  /\ o \in DataShred /\ o.index \in Nat /\ o.fec \in Nat /\ o.slot \in Slot
         /\ IsFiniteSet(Original[r]) /\ Cardinality(Original[r]) \in Nat
         /\ o.fec <= o.index /\ o.index < o.fec + Cardinality(Original[r])
         /\ {u.index : u \in Original[r]}
              = o.fec .. (o.fec + Cardinality(Original[r]) - 1)
<1> DEFINE n == Cardinality(Original[r])
<1>1. o \in DataShred /\ IsFiniteSet(Original[r]) /\ n \in Nat
  BY OriginalAssumption, FS_CardinalityType
<1>2. o.index \in Nat /\ o.fec \in Nat /\ o.slot \in Slot
  BY <1>1, LimitAssumption DEF DataShred
<1>3. {u.index : u \in Original[r]} = o.fec .. (o.fec + n - 1)
  BY DEF HonestLeader, HonestSets
<1>4. o.index \in o.fec .. (o.fec + n - 1)
  BY <1>3
<1> HIDE DEF n
<1>5. o.fec <= o.index /\ o.index < o.fec + n
  BY <1>1, <1>2, <1>4
<1> QED
  BY <1>1, <1>2, <1>3, <1>5 DEF n

\* Slot and FEC set index determine the root.
LEMMA RootOfSet ==
  ASSUME HonestLeader, NEW r \in DOMAIN Original, NEW t \in DOMAIN Original,
         NEW o \in Original[r], NEW q \in Original[t],
         o.slot = q.slot, o.fec = q.fec
  PROVE  r = t
<1>1. o.fec \in {u.index : u \in Original[r]} /\ q.fec \in {u.index : u \in Original[t]}
  <2>1. ASSUME NEW s \in DOMAIN Original, NEW v \in Original[s]
        PROVE  v.fec \in {u.index : u \in Original[s]}
    BY <2>1, RootIsRun
  <2> QED
    BY <2>1
<1>2. PICK u \in Original[r], v \in Original[t] : u.index = o.fec /\ v.index = q.fec
  BY <1>1
<1>3. u.slot = o.slot /\ v.slot = q.slot
  BY DEF HonestLeader, HonestSets
<1> QED
  BY <1>2, <1>3 DEF HonestLeader, HonestSets

\* Among honest shreds a coding shred counts exactly the data of its root.
LEMMA HonestSetData ==
  ASSUME HonestLeader, NEW D, \A d \in D : HonestData(d), NEW c, HonestCode(c)
  PROVE  SetData(D, c.slot, c.fec, c.numData) = D \cap Original[c.root]
<1>1. ASSUME NEW d \in D, d.slot = c.slot, d.fec = c.fec PROVE d \in Original[c.root]
  <2>1. PICK t \in DOMAIN Original : d \in Original[t]
    BY DEF HonestData
  <2>2. PICK o \in Original[c.root] : TRUE
    BY DEF HonestCode
  <2>3. o.slot = d.slot /\ o.fec = d.fec
    BY <1>1, <2>2 DEF HonestCode
  <2> QED
    BY <2>1, <2>2, <2>3, RootOfSet DEF HonestCode
<1>2. ASSUME NEW d \in D, d \in Original[c.root]
      PROVE  d.slot = c.slot /\ d.fec = c.fec /\ d.index < c.fec + c.numData
  BY <1>2, RootIsRun DEF HonestCode
<1> QED
  BY <1>1, <1>2 DEF SetData

\* So its set is always reconstructed.
LEMMA HonestReconstructs ==
  ASSUME HonestLeader, NEW D, \A d \in D : HonestData(d), NEW c, HonestCode(c)
  PROVE  Reconstructs(D, c)
<1> DEFINE X == Original[c.root]
<1>1. c.root \in DOMAIN Original /\ c.numData = Cardinality(X)
  BY DEF HonestCode
<1>2. \A o \in X : /\ o.slot = c.slot /\ o.fec = c.fec /\ o.head = c.head /\ o.sig = c.sig
                   /\ o.size >= 0 /\ o.index >= c.fec /\ o \in DataShred
  <2> SUFFICES ASSUME NEW o \in X
               PROVE  /\ o.slot = c.slot /\ o.fec = c.fec /\ o.head = c.head
                      /\ o.sig = c.sig /\ o.size >= 0 /\ o.index >= c.fec
                      /\ o \in DataShred
    OBVIOUS
  <2>1. o.slot = c.slot /\ o.fec = c.fec /\ o.head = c.head /\ o.sig = c.sig
    BY DEF HonestCode
  <2>2. o.size >= 0
    BY <1>1 DEF HonestLeader, HonestSets
  <2>3. o \in DataShred /\ o.fec <= o.index /\ o.index \in Nat /\ o.fec \in Nat
    BY <1>1, RootIsRun
  <2> QED
    BY <2>1, <2>2, <2>3
<1>3. {o.index : o \in X} = c.fec .. (c.fec + c.numData - 1)
  <2>1. PICK o \in X : TRUE
    BY DEF HonestCode
  <2>2. o.fec = c.fec
    BY <1>2, <2>1
  <2> QED
    BY <1>1, <2>1, <2>2, RootIsRun
<1>4. SetData(D, c.slot, c.fec, c.numData) \subseteq X
  BY HonestSetData
<1>5. \A o \in X : SameShard(o, o)
  BY <1>2 DEF SameShard, DataShred
<1> QED
  <2> HIDE DEF X
  <2>1. \A d \in SetData(D, c.slot, c.fec, c.numData) :
          /\ d.head = c.head /\ d.sig = c.sig /\ d.index >= c.fec
          /\ \E o \in X : SameShard(d, o)
    BY <1>2, <1>4, <1>5
  <2> QED
    BY <1>1, <1>2, <1>3, <2>1 DEF Reconstructs, X

\* What is held and recorded comes from the leader, and no recovery has failed.
SentInv ==
  /\ failed = {}
  /\ \A d \in data : HonestData(d)
  /\ code \subseteq Sent
  /\ received \subseteq Sent /\ \A x \in received : x.slot \in slots

\* The shreds of the stages of a call come from the leader.
LEMMA StagesHonest ==
  ASSUME HonestLeader, SentInv, TypeOK,
         NEW p \in Packet, Parses(p), Arrives(p), Inserts(p.shred)
  PROVE  /\ CodeWith(p.shred) \subseteq Sent
         /\ \A c \in CodeWith(p.shred) : HonestCode(c)
         /\ \A d \in DataWith(p.shred) : HonestData(d)
         /\ \A d \in D2(p.shred) : HonestData(d)
         /\ NewlyFailed(DataWith(p.shred), Siblings(p.shred)) = {}
<1> DEFINE x == p.shred
           D == DataWith(x)
           P == Siblings(x)
           h == HeaderOf(P)
<1>1. x \in Sent /\ Honest(x)
  BY DEF Sent, HonestLeader
<1>2. \A c \in CodeWith(x) : c \in Sent /\ c.kind = "code"
  <2>1. CodeWith(x) \subseteq CodeShred
    BY ArrivalFacts
  <2> QED
    BY <1>1, <2>1, CodeWithOrigin DEF SentInv, CodeShred
<1>3. \A c \in CodeWith(x) : HonestCode(c)
  BY <1>2 DEF HonestLeader, Honest
<1>4. \A d \in D : HonestData(d)
  <2> SUFFICES ASSUME NEW d \in D PROVE HonestData(d)
    OBVIOUS
  <2>1. d \in data \/ (d = x /\ x.kind = "data")
    BY DataWithOrigin
  <2> QED
    BY <1>1, <2>1 DEF SentInv, Honest
<1>5. P # {} => HonestCode(h)
  <2>1. P # {} => h \in P
    BY DEF HeaderOf
  <2> QED
    BY <1>3, <2>1, ArrivalFacts
<1>6. NewlyFailed(D, P) = {}
  BY <1>4, <1>5, HonestReconstructs DEF NewlyFailed, AttemptsRecovery, Recoverable
<1>7. \A d \in Back(x) : HonestData(d)
  <2> SUFFICES ASSUME NEW d \in Back(x) PROVE HonestData(d)
    OBVIOUS
  <2>1. Recovers(D, P)
    BY DEF Back, Restored
  <2>2. P # {} /\ h.root \in DOMAIN Original
    BY <2>1 DEF Recovers, AttemptsRecovery, Recoverable, Reconstructs
  <2>3. PICK o \in Original[h.root] : d = [o EXCEPT !.sig = h.sig]
    BY <2>1 DEF Back, Restored
  <2>4. o.sig = h.sig /\ o \in DataShred
    BY <1>5, <2>2, <2>3, OriginalAssumption DEF HonestCode
  <2>5. d = o
    BY <2>3, <2>4 DEF DataShred
  <2> QED
    BY <2>2, <2>5 DEF HonestData
<1> QED
  BY <1>2, <1>3, <1>4, <1>6, <1>7 DEF D2

\* What becomes of the set of shred o behind root r: it has been handed out, or
\* nothing of it that was received has been lost.
Open(s) == s \in slots \ complete /\ ~ BehindWatermark(s)
PastSet(r, o) == next[o.slot] >= o.fec + Cardinality(Original[r])
Filled(r) == \A q \in Original[r] : DataAt(data, q.slot, q.index) # {}
CodesHeld(r) == \A c \in received : c.kind = "code" /\ c.root = r => c \in code
Intact(r, o) ==
  /\ next[o.slot] <= o.fec
  /\ o \in received => o \in data
  /\ Filled(r) \/ CodesHeld(r)
Kept(r, o) == PastSet(r, o) \/ Intact(r, o)
KeptInv == \A r \in DOMAIN Original : \A o \in Original[r] : Open(o.slot) => Kept(r, o)

\* A coding shred that was received names the slot and the set of its root.
LEMMA ReceivedCode ==
  ASSUME HonestLeader, NEW c \in Sent, c.kind = "code",
         NEW r \in DOMAIN Original, c.root = r, NEW o \in Original[r]
  PROVE  HonestCode(c) /\ c.slot = o.slot /\ c.fec = o.fec
BY DEF HonestLeader, Honest, HonestCode

\* Two honest data shreds at one index are one.
LEMMA OneShredPerIndex ==
  ASSUME HonestLeader, NEW d, HonestData(d),
         NEW r \in DOMAIN Original, NEW o \in Original[r],
         d.slot = o.slot, d.index = o.index
  PROVE  d = o
<1>1. PICK t \in DOMAIN Original : d \in Original[t]
  BY DEF HonestData
<1>2. t = r
  BY <1>1 DEF HonestLeader, HonestSets
<1> QED
  BY <1>1, <1>2, OriginalAssumption

\* An honest coding shred is refused only when it came before or too late.
LEMMA RefusedCode ==
  ASSUME HonestLeader, SentInv, TypeOK, NEW c \in Sent, c.kind = "code",
         ~ InsertsCode(c), next[c.slot] <= c.fec
  PROVE  c \in code
<1>1. HonestCode(c) /\ c.root \in DOMAIN Original
  BY DEF HonestLeader, Honest, HonestCode
<1>2. PICK y \in CodingSet(code, c.slot, c.fec) :
        ~ (SameCodingSet(c, y) /\ c.index # y.index /\ c.sig = y.sig)
  BY <1>1 DEF InsertsCode, HonestCode
<1>3. y \in code /\ y \in Sent /\ y.kind = "code" /\ y.slot = c.slot /\ y.fec = c.fec
  BY <1>2 DEF CodingSet, SentInv, TypeOK, CodeShred
<1>4. HonestCode(y) /\ y.root \in DOMAIN Original
  BY <1>3 DEF HonestLeader, Honest, HonestCode
<1>5. PICK o \in Original[c.root], q \in Original[y.root] : TRUE
  BY <1>1, <1>4 DEF HonestCode
<1>6. o.slot = q.slot /\ o.fec = q.fec
  BY <1>1, <1>3, <1>4, <1>5 DEF HonestCode
<1>7. c.root = y.root
  BY <1>1, <1>4, <1>5, <1>6, RootOfSet
<1>8. c.numData = y.numData /\ c.head = y.head /\ c.sig = y.sig
  BY <1>1, <1>4, <1>5, <1>7 DEF HonestCode
<1>9. OneSet(c, y)
  BY <1>3, <1>7 DEF HonestLeader
<1> QED
  BY <1>2, <1>3, <1>7, <1>8, <1>9 DEF OneSet, SameCodingSet

\* Calls that store nothing: X is what they record.
LEMMA QuietKept ==
  ASSUME HonestLeader, SentInv, KeptInv, TypeOK,
         NEW V \in SUBSET slots, Removal(V), watermark' = watermark,
         NEW X \in SUBSET Sent, \A x \in X : Open(x.slot) => ~ Inserts(x),
         received' = OfSlots(received \cup X, slots')
  PROVE  SentInv' /\ KeptInv'
<1>1. SentInv'
  BY DEF SentInv, Removal, NotOfSlots, OfSlots, HonestData
<1>2. ASSUME NEW r \in DOMAIN Original, NEW o \in Original[r], Open(o.slot)'
      PROVE  Kept(r, o)'
  <2> DEFINE s == o.slot
  <2>1. s \in slots \ complete /\ s \notin V /\ s \in slots' /\ Open(s)
    BY <1>2 DEF Open, Removal, BehindWatermark
  <2>2. next'[s] = next[s]
    BY <2>1 DEF Removal, Reset, TypeOK
  <2>3. Kept(r, o)
    BY <2>1 DEF KeptInv
  <2>4. CASE PastSet(r, o)
    BY <2>2, <2>4 DEF Kept, PastSet
  <2>5. CASE Intact(r, o)
    <3>1. /\ \A d \in data : d.slot = s => d \in data'
          /\ \A c \in code : c.slot = s => c \in code'
      BY <2>1 DEF Removal, NotOfSlots
    <3>2. next[s] <= o.fec /\ next[s] \in Nat /\ o.fec \in Nat /\ o.index \in Nat
          /\ o.fec <= o.index
      BY <2>1, <2>5, RootIsRun DEF Intact, TypeOK
    <3>3. ASSUME o \in received' PROVE o \in data'
      <4>1. o \in received \/ o \in X
        BY <3>3 DEF OfSlots
      <4>2. CASE o \in received
        BY <2>5, <3>1, <4>2 DEF Intact
      <4>3. CASE o \in X
        <5>1. ~ Inserts(o) /\ o.kind = "data"
          BY <2>1, <4>3, RootIsRun DEF DataShred
        <5>2. DataAt(data, s, o.index) # {}
          BY <3>2, <5>1 DEF Inserts, InsertsData
        <5>3. PICK d \in data : d.slot = s /\ d.index = o.index
          BY <5>2 DEF DataAt
        <5>4. d = o
          BY <5>3, OneShredPerIndex DEF SentInv
        <5> QED
          BY <3>1, <5>3, <5>4
      <4> QED
        BY <4>1, <4>2, <4>3
    <3>4. ASSUME Filled(r) PROVE Filled(r)'
      <4>1. \A q \in Original[r] : q.slot = s
        BY DEF HonestLeader, HonestSets
      <4> QED
        BY <3>1, <3>4, <4>1 DEF Filled, DataAt
    <3>5. ASSUME CodesHeld(r) PROVE CodesHeld(r)'
      <4> SUFFICES ASSUME NEW c \in received', c.kind = "code", c.root = r
                   PROVE  c \in code'
        BY DEF CodesHeld
      <4>1. c \in received \cup X /\ c \in Sent
        BY DEF OfSlots, SentInv
      <4>2. c.slot = s /\ c.fec = o.fec
        BY <4>1, ReceivedCode
      <4>3. CASE c \in received
        BY <3>1, <3>5, <4>2, <4>3 DEF CodesHeld
      <4>4. CASE c \in X
        <5>1. ~ InsertsCode(c)
          BY <2>1, <4>2, <4>4 DEF Inserts
        <5> QED
          BY <3>1, <3>2, <4>1, <4>2, <5>1, RefusedCode
      <4> QED
        BY <4>1, <4>3, <4>4
    <3>6. (Filled(r) \/ CodesHeld(r))'
      BY <2>5, <3>4, <3>5 DEF Intact
    <3>7. next'[s] <= o.fec
      BY <2>2, <3>2
    <3> QED
      BY <3>3, <3>6, <3>7 DEF Kept, Intact
  <2> QED
    BY <2>3, <2>4, <2>5 DEF Kept
<1> QED
  BY <1>1, <1>2 DEF KeptInv

\* The slot of an arriving shred has lost nothing so far.
LEMMA ArrivalKept ==
  ASSUME HonestLeader, SentInv, KeptInv, TypeOK, HeldIsLive,
         NEW p \in Packet, Parses(p), Arrives(p),
         NEW r \in DOMAIN Original, NEW o \in Original[r], o.slot = p.shred.slot
  PROVE  Kept(r, o)
<1>1. o.slot \in Slot /\ o.fec \in Nat
  BY RootIsRun
<1>2. CASE o.slot \in slots
  BY <1>2 DEF Arrives, Open, KeptInv
<1>3. CASE o.slot \notin slots
  <2>1. next[o.slot] = 0
    BY <1>1, <1>3 DEF HeldIsLive
  <2>2. o \notin received
    BY <1>3 DEF SentInv
  <2>3. ASSUME NEW c \in received, c.kind = "code", c.root = r PROVE FALSE
    BY <1>3, <2>3, ReceivedCode DEF SentInv
  <2> QED
    BY <1>1, <2>1, <2>2, <2>3 DEF Kept, Intact, CodesHeld
<1> QED
  BY <1>2, <1>3

\* The cursor behind a drain is behind one of the shreds that end segments.
LEMMA CursorBehindEnd ==
  ASSUME NEW S \in SUBSET DataShred, NEW n, S # {}
  PROVE  \E e \in S : CursorAfter(S, n) = e.index + 1
BY HighestShred DEF CursorAfter

\* A set of which something is drained is drained wholly: segments end with sets.
LEMMA DrainPassesSet ==
  ASSUME HonestLeader, SentInv, TypeOK,
         NEW p \in Packet, Parses(p), Arrives(p), Inserts(p.shred),
         NEW r \in DOMAIN Original, NEW o \in Original[r], o.slot = p.shred.slot,
         next[o.slot] <= o.fec, Cursor(p.shred) > o.fec
  PROVE  Cursor(p.shred) >= o.fec + Cardinality(Original[r])
<1> DEFINE x == p.shred
           n == Cardinality(Original[r])
<1>1. /\ o.fec \in Nat /\ n \in Nat /\ n > 0
      /\ {u.index : u \in Original[r]} = o.fec .. (o.fec + n - 1)
  <2>1. /\ o.fec \in Nat /\ n \in Nat /\ o.index \in Nat
        /\ o.fec <= o.index /\ o.index < o.fec + n
        /\ {u.index : u \in Original[r]} = o.fec .. (o.fec + n - 1)
    BY RootIsRun
  <2> HIDE DEF n
  <2> QED
    BY <2>1
<1>2. Ends(x) \subseteq DataShred /\ Ends(x) \subseteq D2(x)
  BY BackFacts, DrainFacts
<1>3. next[x.slot] \in Nat /\ Cursor(x) \in Nat
  BY ArrivalFacts, DrainFacts
<1>4. Ends(x) # {}
  <2>1. Ends(x) = {} => Cursor(x) = next[x.slot]
    BY DEF Cursor, CursorAfter
  <2> QED
    BY <1>1, <1>3, <2>1
<1>5. PICK e \in Ends(x) : Cursor(x) = e.index + 1
  BY <1>2, <1>4, CursorBehindEnd DEF Cursor
<1>6. e.slot = o.slot /\ e.complete /\ e.index \in Nat /\ HonestData(e)
  <2>1. e.slot = x.slot /\ e.complete
    BY <1>5 DEF Ends, TakenClosers, Closers
  <2>2. HonestData(e)
    BY <1>2, <1>5, StagesHonest
  <2> QED
    BY <1>2, <1>5, <2>1, <2>2, LimitAssumption DEF DataShred
<1>7. SUFFICES ASSUME e.index < o.fec + n - 1 PROVE FALSE
  <2> HIDE DEF n
  <2> QED
    BY <1>1, <1>5, <1>6 DEF n
<1>8. e.index \in {u.index : u \in Original[r]}
  <2> HIDE DEF n
  <2> QED
    BY <1>1, <1>3, <1>5, <1>6, <1>7
<1>9. PICK u \in Original[r] : u.index = e.index
  BY <1>8
<1>10. u.slot = o.slot
  BY DEF HonestLeader, HonestSets
<1>11. e = u
  BY <1>6, <1>9, <1>10, OneShredPerIndex
<1>12. o.fec + n - 1 \in {q.index : q \in Original[r]}
  <2> HIDE DEF n
  <2> QED
    BY <1>1
<1>13. PICK q \in Original[r] : q.index = o.fec + n - 1
  BY <1>12
<1>14. q.index <= e.index
  BY <1>6, <1>9, <1>11 DEF HonestLeader, HonestSets
<1> QED
  <2> HIDE DEF n
  <2> QED
    BY <1>1, <1>6, <1>7, <1>13, <1>14

\* A coding set is dropped only when all data of its root is there.
LEMMA DropsWhenFilled ==
  ASSUME HonestLeader, SentInv, TypeOK, HeldIsLive,
         NEW p \in Packet, Parses(p), Arrives(p), Inserts(p.shred),
         DropsCodingSet(DataWith(p.shred), Siblings(p.shred)),
         NEW r \in DOMAIN Original, NEW o \in Original[r],
         o.slot = p.shred.slot, o.fec = p.shred.fec
  PROVE  \A q \in Original[r] : DataAt(D2(p.shred), q.slot, q.index) # {}
<1> DEFINE x == p.shred
           D == DataWith(x)
           P == Siblings(x)
           h == HeaderOf(P)
           n == Cardinality(Original[r])
<1>1. P # {}
  BY DEF DropsCodingSet, Recovers, AttemptsRecovery, Recoverable
<1>2. h \in P
  BY <1>1 DEF HeaderOf
<1>3. HonestCode(h) /\ h.slot = o.slot /\ h.fec = o.fec
  BY <1>2, ArrivalFacts, StagesHonest
<1>4. h.root = r
  <2>1. PICK u \in Original[h.root] : TRUE
    BY <1>3 DEF HonestCode
  <2>2. u.slot = o.slot /\ u.fec = o.fec /\ h.root \in DOMAIN Original
    BY <1>3, <2>1 DEF HonestCode
  <2> QED
    BY <2>1, <2>2, RootOfSet
<1>5. h.numData = n
  BY <1>3, <1>4 DEF HonestCode
<1>6. \A q \in Original[r] : q.slot = o.slot /\ q \in DataShred
  BY OriginalAssumption DEF HonestLeader, HonestSets
<1>7. CASE AllDataPresent(D, P)
  <2>1. Present(D, P) = D \cap Original[r]
    BY <1>3, <1>4, StagesHonest, HonestSetData DEF Present
  <2>2. Cardinality(D \cap Original[r]) >= n
    BY <1>5, <1>7, <2>1 DEF AllDataPresent
  <2>3. D \cap Original[r] = Original[r]
    <3>1. IsFiniteSet(Original[r])
      BY OriginalAssumption
    <3>2. /\ Cardinality(D \cap Original[r]) <= n
          /\ Cardinality(D \cap Original[r]) = n => D \cap Original[r] = Original[r]
      BY <3>1, FS_Subset
    <3>3. Cardinality(D \cap Original[r]) \in Nat /\ n \in Nat
      BY <3>1, FS_Subset, FS_CardinalityType
    <3> HIDE DEF D, n
    <3> QED
      BY <2>2, <3>2, <3>3
  <2> QED
    BY <2>3 DEF DataAt, D2
<1>8. CASE Recovers(D, P)
  <2> SUFFICES ASSUME NEW q \in Original[r]
               PROVE  DataAt(D2(x), q.slot, q.index) # {}
    OBVIOUS
  <2>1. q.index \in h.fec .. (h.fec + h.numData - 1)
    BY <1>3, <1>5, RootIsRun
  <2> QED
    BY <1>3, <1>6, <1>8, <2>1, RecoveryFillsSet
<1> QED
  BY <1>7, <1>8 DEF DropsCodingSet

\* What a call that stores a shred leaves of the sets of its slot.
LEMMA OwnSlotKept ==
  ASSUME HonestLeader, SentInv, KeptInv, TypeOK, HeldIsLive,
         NEW p \in Packet, NEW now \in Time, StoreShred(p, now),
         received' = OfSlots(received \cup {p.shred}, slots'),
         NEW r \in DOMAIN Original, NEW o \in Original[r],
         o.slot = p.shred.slot, o.slot \in slots' \ complete'
  PROVE  Kept(r, o)'
<1> DEFINE x == p.shred
           s == o.slot
<1>1. /\ Parses(p) /\ Arrives(p) /\ Inserts(x)
      /\ slots' = Tracked(x) \ Evicted(x, now) /\ complete' = Done(x)
      /\ data' = NotOfSlots(D3(x), Evicted(x, now))
      /\ code' = NotOfSlots(C3(x), Evicted(x, now))
  BY StoreEffect
<1>2. next'[s] = Cursor(x)
  BY StoreNext
<1>3. Kept(r, o)
  BY <1>1, ArrivalKept
<1>4. /\ next[s] \in Nat /\ Cursor(x) \in Nat /\ Cursor(x) >= next[s]
      /\ D2(x) \subseteq DataShred
  BY <1>1, ArrivalFacts, DrainFacts, BackFacts
<1>5. o.fec \in Nat /\ Cardinality(Original[r]) \in Nat /\ s \in Slot
  BY RootIsRun
<1>6. CASE PastSet(r, o)
  BY <1>2, <1>4, <1>5, <1>6 DEF Kept, PastSet
<1>7. CASE Intact(r, o) /\ Cursor(x) > o.fec
  <2>1. Cursor(x) >= o.fec + Cardinality(Original[r])
    BY <1>1, <1>7, DrainPassesSet DEF Intact
  <2> QED
    BY <1>2, <2>1 DEF Kept, PastSet
<1>8. CASE Intact(r, o) /\ ~ (Cursor(x) > o.fec)
  <2>1. s \notin Evicted(x, now) /\ ~ EndsSlot(Ends(x)) /\ s \notin Victims(s)
    BY <1>1, ArrivalFacts DEF Done
  <2>2. ASSUME NEW d \in D2(x), d.slot = s, d.index >= o.fec PROVE d \in data'
    <3>1. d.index \in Nat
      BY <1>4, <2>2, LimitAssumption DEF DataShred
    <3>2. d.index >= Cursor(x)
      BY <1>4, <1>5, <1>8, <2>2, <3>1
    <3>3. d \in D3(x)
      BY <2>1, <2>2, <3>2 DEF D3, Undrained
    <3> QED
      BY <1>1, <2>1, <2>2, <3>3 DEF NotOfSlots
  <2>3. ASSUME NEW d \in data, d.slot = s PROVE d \in D2(x)
    BY <2>1, <2>3 DEF D2, DataWith, NotOfSlots
  <2>4. \A q \in Original[r] : q.slot = s /\ q.fec = o.fec /\ q.index >= o.fec
    <3> SUFFICES ASSUME NEW q \in Original[r]
                 PROVE  q.slot = s /\ q.fec = o.fec /\ q.index >= o.fec
      OBVIOUS
    <3>1. q.slot = s /\ q.fec = o.fec
      BY DEF HonestLeader, HonestSets
    <3>2. q.fec <= q.index /\ q.index \in Nat
      BY RootIsRun
    <3> QED
      BY <1>5, <3>1, <3>2
  <2>5. ASSUME o \in received' PROVE o \in data'
    <3>1. o \in received \/ o = x
      BY <2>5 DEF OfSlots
    <3>2. CASE o \in received
      BY <1>8, <2>2, <2>3, <2>4, <3>2 DEF Intact
    <3>3. CASE o = x
      <4>1. o.kind = "data"
        BY RootIsRun DEF DataShred
      <4>2. o \in D2(x)
        BY <3>3, <4>1 DEF D2, DataWith
      <4> QED
        BY <2>2, <2>4, <4>2
    <3> QED
      BY <3>1, <3>2, <3>3
  <2>6. ASSUME \A q \in Original[r] : DataAt(D2(x), q.slot, q.index) # {}
        PROVE  Filled(r)'
    <3> SUFFICES ASSUME NEW q \in Original[r]
                 PROVE  DataAt(data', q.slot, q.index) # {}
      BY DEF Filled, DataAt
    <3>1. PICK d \in D2(x) : d.slot = q.slot /\ d.index = q.index
      BY <2>6 DEF DataAt
    <3>2. d \in data'
      BY <2>2, <2>4, <3>1
    <3> QED
      BY <3>1, <3>2 DEF DataAt
  <2>7. CASE Filled(r)
    <3>1. \A q \in Original[r] : DataAt(D2(x), q.slot, q.index) # {}
      BY <2>3, <2>4, <2>7 DEF Filled, DataAt
    <3> QED
      BY <1>2, <1>8, <2>5, <2>6, <3>1, <1>4, <1>5 DEF Kept, Intact
  <2>8. CASE CodesHeld(r)
    <3>1. ASSUME NEW c \in received', c.kind = "code", c.root = r
          PROVE  c \in CodeWith(x) /\ c.slot = s /\ c.fec = o.fec
      <4>1. c \in received \cup {x} /\ c \in Sent
        BY <1>1, <3>1 DEF OfSlots, SentInv, Sent
      <4>2. c.slot = s /\ c.fec = o.fec
        BY <3>1, <4>1, ReceivedCode
      <4> QED
        BY <2>1, <2>8, <3>1, <4>1, <4>2 DEF CodesHeld, CodeWith, NotOfSlots
    <3>2. CASE DropsCodingSet(DataWith(x), Siblings(x)) /\ o.fec = x.fec
      <4>1. \A q \in Original[r] : DataAt(D2(x), q.slot, q.index) # {}
        BY <1>1, <3>2, DropsWhenFilled
      <4> QED
        BY <1>2, <1>4, <1>5, <1>8, <2>5, <2>6, <4>1 DEF Kept, Intact
    <3>3. CASE ~ DropsCodingSet(DataWith(x), Siblings(x)) \/ o.fec # x.fec
      <4>1. ASSUME NEW c \in received', c.kind = "code", c.root = r
            PROVE  c \in code'
        <5>1. c \in CodeWith(x) /\ c.slot = s /\ c.fec = o.fec
          BY <3>1, <4>1
        <5>2. c \in C2(x)
          BY <3>3, <5>1 DEF C2, Siblings, Peers, CodingSet
        <5>3. c.fec >= Cursor(x)
          BY <1>4, <1>5, <1>8, <5>1
        <5>4. c \in C3(x)
          BY <2>1, <5>1, <5>2, <5>3 DEF C3, StillUseful
        <5> QED
          BY <1>1, <2>1, <5>1, <5>4 DEF NotOfSlots
      <4>2. CodesHeld(r)'
        BY <4>1 DEF CodesHeld
      <4> QED
        BY <1>2, <1>4, <1>5, <1>8, <2>5, <4>2 DEF Kept, Intact
    <3> QED
      BY <3>2, <3>3
  <2> QED
    BY <1>8, <2>7, <2>8 DEF Intact
<1> QED
  BY <1>3, <1>6, <1>7, <1>8 DEF Kept

\* The sets of other slots are not touched.
LEMMA OtherSlotKept ==
  ASSUME HonestLeader, SentInv, KeptInv, TypeOK, HeldIsLive,
         NEW p \in Packet, NEW now \in Time, StoreShred(p, now),
         received' = OfSlots(received \cup {p.shred}, slots'),
         NEW r \in DOMAIN Original, NEW o \in Original[r],
         o.slot # p.shred.slot, o.slot \in slots' \ complete',
         ~ BehindWatermark(o.slot)
  PROVE  Kept(r, o)'
<1> DEFINE x == p.shred
           s == o.slot
<1>1. /\ Parses(p) /\ Arrives(p) /\ Inserts(x)
      /\ slots' = Tracked(x) \ Evicted(x, now) /\ complete' = Done(x)
      /\ data' = NotOfSlots(D3(x), Evicted(x, now))
      /\ code' = NotOfSlots(C3(x), Evicted(x, now))
  BY StoreEffect
<1>2. /\ s \in slots \ complete /\ s \notin Victims(x.slot)
      /\ s \notin Evicted(x, now)
  BY <1>1 DEF Tracked, Done
<1>3. next'[s] = next[s]
  BY StoreNext
<1>4. Kept(r, o)
  BY <1>2 DEF KeptInv, Open
<1>5. ASSUME NEW d \in data, d.slot = s PROVE d \in data'
  BY <1>1, <1>2, <1>5 DEF D3, D2, DataWith, Undrained, NotOfSlots
<1>6. ASSUME NEW c \in code, c.slot = s PROVE c \in code'
  <2>1. c \in CodeWith(x) /\ c \notin Siblings(x)
    BY <1>2, <1>6 DEF CodeWith, NotOfSlots, Siblings, Peers, CodingSet
  <2>2. c \in C3(x)
    BY <1>6, <2>1 DEF C3, C2, StillUseful
  <2> QED
    BY <1>1, <1>2, <1>6, <2>2 DEF NotOfSlots
<1>7. \A y \in received' : y.slot = s => y \in received
  BY DEF OfSlots
<1>8. CASE PastSet(r, o)
  BY <1>3, <1>8 DEF Kept, PastSet
<1>9. CASE Intact(r, o)
  <2>1. o \in received' => o \in data'
    BY <1>5, <1>7, <1>9 DEF Intact
  <2>2. Filled(r) => Filled(r)'
    <3>1. \A q \in Original[r] : q.slot = s
      BY DEF HonestLeader, HonestSets
    <3> QED
      BY <1>5, <3>1 DEF Filled, DataAt
  <2>3. ASSUME CodesHeld(r) PROVE CodesHeld(r)'
    <3> SUFFICES ASSUME NEW c \in received', c.kind = "code", c.root = r
                 PROVE  c \in code'
      BY DEF CodesHeld
    <3>1. c \in Sent
      BY <1>1 DEF OfSlots, SentInv, Sent
    <3>2. c.slot = s
      BY <3>1, ReceivedCode
    <3> QED
      BY <1>6, <1>7, <2>3, <3>2 DEF CodesHeld
  <2> QED
    BY <1>3, <1>9, <2>1, <2>2, <2>3 DEF Kept, Intact
<1> QED
  BY <1>4, <1>8, <1>9 DEF Kept

LEMMA StoreKept ==
  ASSUME HonestLeader, SentInv, KeptInv, TypeOK, HeldIsLive,
         NEW p \in Packet, NEW now \in Time, StoreShred(p, now),
         received' = OfSlots(received \cup {p.shred}, slots')
  PROVE  SentInv' /\ KeptInv'
<1> DEFINE x == p.shred
<1>1. /\ Parses(p) /\ Arrives(p) /\ Inserts(x)
      /\ data' = NotOfSlots(D3(x), Evicted(x, now))
      /\ code' = NotOfSlots(C3(x), Evicted(x, now))
      /\ failed' = {k \in failed \cup NewlyFailed(DataWith(x), Siblings(x)) :
                      CodingSet(code', k[1], k[2]) # {}}
      /\ watermark' = IF ForwardSlotWatermark /\ out' # {} /\ x.slot > watermark
                      THEN x.slot ELSE watermark
  BY StoreEffect
<1>2. SentInv'
  <2>1. data' \subseteq D2(x) /\ code' \subseteq CodeWith(x)
    BY <1>1, DrainFacts DEF NotOfSlots
  <2>2. /\ \A d \in D2(x) : HonestData(d) /\ CodeWith(x) \subseteq Sent
        /\ NewlyFailed(DataWith(x), Siblings(x)) = {}
    BY <1>1, StagesHonest
  <2>3. failed' = {} /\ \A d \in data' : HonestData(d)
    BY <1>1, <2>1, <2>2 DEF SentInv
  <2>4. code' \subseteq Sent
    BY <1>1, <2>1, StagesHonest
  <2>5. x \in Sent
    BY <1>1 DEF Sent
  <2> QED
    BY <2>3, <2>4, <2>5 DEF SentInv, OfSlots, HonestData
<1>3. ASSUME NEW r \in DOMAIN Original, NEW o \in Original[r], Open(o.slot)'
      PROVE  Kept(r, o)'
  <2>1. o.slot \in slots' \ complete' /\ ~ (ForwardSlotWatermark /\ o.slot < watermark')
    BY <1>3 DEF Open, BehindWatermark
  <2>2. ~ BehindWatermark(o.slot)
    <3>1. watermark \in Int /\ x.slot \in Int /\ o.slot \in Int
      <4>1. x.slot \in Slot
        BY <1>1, ArrivalFacts
      <4>2. o.slot \in Slot
        BY RootIsRun
      <4>3. watermark \in Slot \cup {-1}
        BY DEF TypeOK
      <4>4. Slot \subseteq Int
        BY SlotAssumption
      <4>5. watermark \in Int
        BY <4>3, <4>4
      <4> QED
        BY <4>1, <4>2, <4>4, <4>5, Zenon
    <3> HIDE DEF x
    <3> QED
      BY <1>1, <2>1, <3>1 DEF BehindWatermark
  <2> QED
    BY <2>1, <2>2, OwnSlotKept, OtherSlotKept
<1> QED
  BY <1>2, <1>3 DEF KeptInv

LEMMA NextKept ==
  ASSUME HonestLeader, SentInv, KeptInv, TypeOK, HeldIsLive, [HNext]_hvars
  PROVE  SentInv' /\ KeptInv'
<1> DEFINE Quiet(V, X) ==
             /\ Removal(V) /\ watermark' = watermark
             /\ received' = OfSlots(received \cup X, slots')
             /\ \A x \in X : Open(x.slot) => ~ Inserts(x)
<1>1. ASSUME UNCHANGED hvars PROVE SentInv' /\ KeptInv'
  BY <1>1 DEF hvars, SentInv, KeptInv, Kept, PastSet, Intact, Filled, CodesHeld,
         Open, BehindWatermark, HonestData, DataAt
<1>2. ASSUME NEW p \in Packet, DropPacket(p),
             Record(IF Parses(p) THEN {p.shred} ELSE {})
      PROVE  \E V \in SUBSET slots, X \in SUBSET Sent : Quiet(V, X)
  <2> DEFINE X == IF Parses(p) THEN {p.shred} ELSE {}
  <2>1. X \in SUBSET Sent
    BY DEF Sent
  <2>2. Reset(next, {}) = next
    BY DEF Reset, TypeOK
  <2>3. Removal({}) /\ watermark' = watermark
    BY <1>2, <2>2 DEF DropPacket, Removal, NotOfSlots
  <2>4. \A x \in X : ~ Open(x.slot)
    BY <1>2 DEF DropPacket, Open, Admits, Victims
  <2>5. Quiet({}, X)
    BY <1>2, <2>3, <2>4 DEF Record
  <2> QED
    BY <2>1, <2>5
<1>3. ASSUME NEW p \in Packet, RejectShred(p),
             Record(IF Parses(p) THEN {p.shred} ELSE {})
      PROVE  \E V \in SUBSET slots, X \in SUBSET Sent : Quiet(V, X)
  <2> DEFINE V == Victims(p.shred.slot)
  <2>1. Parses(p) /\ ~ Inserts(p.shred)
    BY <1>3 DEF RejectShred, Arrives
  <2>2. {p.shred} \in SUBSET Sent
    BY <2>1 DEF Sent
  <2>3. Removal(V) /\ watermark' = watermark /\ V \in SUBSET slots
    BY <1>3, Zenon DEF RejectShred, Removal, Victims
  <2>4. Quiet(V, {p.shred})
    BY <1>3, <2>1, <2>3 DEF Record
  <2> QED
    BY <2>2, <2>3, <2>4
<1>4. ASSUME NEW now \in Time, EvictStaleSlots(now), Record({})
      PROVE  \E V \in SUBSET slots, X \in SUBSET Sent : Quiet(V, X)
  <2> DEFINE V == StaleSlots(now)
  <2>1. V \in SUBSET slots /\ complete \ V = complete
    BY DEF StaleSlots
  <2>2. Quiet(V, {})
    BY <1>4, <2>1 DEF EvictStaleSlots, Removal, Record
  <2>3. {} \in SUBSET Sent
    OBVIOUS
  <2> HIDE DEF V, Quiet
  <2> QED
    BY <2>1, <2>2, <2>3
<1>5. ASSUME NEW p \in Packet, NEW now \in Time, StoreShred(p, now),
             Record(IF Parses(p) THEN {p.shred} ELSE {})
      PROVE  SentInv' /\ KeptInv'
  <2>1. Parses(p)
    BY <1>5, StoreEffect
  <2> QED
    BY <1>5, <2>1, StoreKept DEF Record
<1>6. ASSUME NEW V \in SUBSET slots, NEW X \in SUBSET Sent, Quiet(V, X)
      PROVE  SentInv' /\ KeptInv'
  BY <1>6, QuietKept
<1> HIDE DEF Quiet
<1> QED
  BY <1>1, <1>2, <1>3, <1>4, <1>5, <1>6 DEF HNext, HPush, HEvict, PushPacket

\* The invariants say that every set with enough shreds has its data.
LEMMA KeptSuffices ==
  ASSUME HonestLeader, SentInv, KeptInv, TypeOK, NoRecoveryPending
  PROVE  EverySufficientSetIsRecovered
<1> SUFFICES ASSUME NEW r \in DOMAIN Original,
                    Cardinality(ShardsReceived(r)) >= Cardinality(Original[r]),
                    NEW o \in Original[r],
                    o.slot \notin complete, ~ (o.slot < watermark)
             PROVE  \/ o.index < next[o.slot]
                    \/ DataAt(data, o.slot, o.index) # {}
  BY DEF EverySufficientSetIsRecovered
<1> DEFINE X == Original[r]
           n == Cardinality(X)
           s == o.slot
           Plain == {x \in X : x \in received}
           Codes == {c \in received : c.kind = "code" /\ c.root = r}
<1>1. /\ o.index \in Nat /\ o.fec \in Nat /\ s \in Slot /\ o.fec <= o.index
      /\ o.index < o.fec + n /\ n \in Nat /\ IsFiniteSet(X) /\ X \subseteq DataShred
  BY RootIsRun, OriginalAssumption
<1>2. ShardsReceived(r) \subseteq Plain \cup Codes /\ Plain \subseteq X
  BY DEF ShardsReceived
<1>3. \A c \in Codes : HonestCode(c) /\ c.slot = s /\ c.fec = o.fec /\ c.numData = n
  BY ReceivedCode DEF SentInv, HonestCode
<1>4. \A x \in X : x.slot = s /\ x.fec = o.fec
  BY DEF HonestLeader, HonestSets
<1>5. s \in slots
  <2>1. CASE ShardsReceived(r) = {}
    <3>1. Cardinality(ShardsReceived(r)) = 0
      BY <2>1, FS_EmptySet
    <3>2. n = 0
      BY <1>1, <3>1
    <3> QED
      BY <1>1, <3>2
  <2>2. CASE ShardsReceived(r) # {}
    <3>1. PICK x \in ShardsReceived(r) : x.slot = s
      BY <1>2, <1>3, <1>4, <2>2
    <3> QED
      BY <3>1 DEF ShardsReceived, SentInv
  <2> QED
    BY <2>1, <2>2
<1>6. Open(s)
  BY <1>5 DEF Open, BehindWatermark
<1>7. next[s] \in Nat
  BY <1>1 DEF TypeOK
<1>8. CASE PastSet(r, o)
  BY <1>1, <1>7, <1>8 DEF PastSet
<1>9. CASE Filled(r)
  BY <1>9 DEF Filled
<1>10. CASE Intact(r, o) /\ CodesHeld(r) /\ ~ Filled(r)
  <2>1. Codes \subseteq code
    BY <1>10 DEF CodesHeld
  <2>2. Plain \subseteq data
    <3> SUFFICES ASSUME NEW q \in Plain PROVE q \in data
      OBVIOUS
    <3>1. q \in X /\ q \in received /\ Kept(r, q)
      BY <1>4, <1>6 DEF KeptInv
    <3>2. Intact(r, q) \/ (PastSet(r, q) /\ next[s] <= o.fec)
      BY <1>10, <3>1 DEF Kept, Intact
    <3>3. q.fec = o.fec /\ q.slot = s
      BY <1>4, <3>1
    <3>4. ~ (PastSet(r, q) /\ next[s] <= o.fec)
      <4>1. o.fec + n > o.fec
        BY <1>1
      <4> HIDE DEF n, s
      <4>2. PastSet(r, q) => next[s] >= o.fec + n
        BY <3>3 DEF PastSet, n, s
      <4> QED
        BY <1>1, <1>7, <4>1, <4>2
    <3> QED
      BY <3>1, <3>2, <3>4 DEF Intact
  <2>3. IsFiniteSet(Plain) /\ IsFiniteSet(Codes)
    BY <1>1, <1>2, <2>1, FS_Subset DEF TypeOK
  <2>4. n <= Cardinality(Plain) + Cardinality(Codes)
    <3>1. /\ IsFiniteSet(Plain \cup Codes)
          /\ Cardinality(ShardsReceived(r)) <= Cardinality(Plain \cup Codes)
          /\ Cardinality(ShardsReceived(r)) \in Nat
          /\ Cardinality(Plain \cup Codes) \in Nat
      BY <1>2, <2>3, FS_Union, FS_Subset, FS_CardinalityType
    <3>2. /\ Cardinality(Plain \cup Codes)
               = Cardinality(Plain) + Cardinality(Codes) - Cardinality(Plain \cap Codes)
          /\ Cardinality(Plain) \in Nat /\ Cardinality(Codes) \in Nat
          /\ Cardinality(Plain \cap Codes) \in Nat
      BY <2>3, FS_Union, FS_Intersection, FS_CardinalityType
    <3> HIDE DEF Plain, Codes, n
    <3> QED
      BY <1>1, <3>1, <3>2 DEF n
  <2>5. CASE Codes = {}
    <3>1. Cardinality(Codes) = 0
      BY <2>5, FS_EmptySet
    <3>2. Cardinality(Plain) = n
      <4>1. Cardinality(Plain) <= n /\ Cardinality(Plain) \in Nat
        BY <1>1, <1>2, <2>3, FS_Subset, FS_CardinalityType
      <4> HIDE DEF Plain, Codes, n
      <4> QED
        BY <1>1, <2>4, <3>1, <4>1
    <3>3. Plain = X
      BY <1>1, <1>2, <3>2, FS_Subset
    <3> QED
      BY <2>2, <3>3 DEF DataAt
  <2>6. CASE Codes # {}
    <3>1. PICK c \in Codes : TRUE
      BY <2>6
    <3>2. c \in code /\ c.slot = s /\ c.fec = o.fec /\ c.numData = n
      BY <1>3, <2>1, <3>1
    <3>3. \A i \in o.fec .. (o.fec + n - 1) : DataAt(data, s, i) # {}
      <4> DEFINE A == SetData(data, s, o.fec, n)
                 G == CodingSet(code, s, o.fec)
      <4>1. \/ Cardinality(A) + Cardinality(G) < n
            \/ \A i \in o.fec .. (o.fec + n - 1) : DataAt(data, s, i) # {}
        BY <3>2 DEF NoRecoveryPending, SentInv
      <4>2. Codes \subseteq G
        BY <1>3, <2>1 DEF CodingSet
      <4>3. Plain \subseteq A
        <5>1. \A q \in X : q.index < q.fec + n
          BY RootIsRun
        <5> QED
          BY <1>2, <1>4, <2>2, <5>1 DEF SetData
      <4>4. IsFiniteSet(A) /\ IsFiniteSet(G)
        BY FS_Subset DEF TypeOK, SetData, CodingSet
      <4>5. ASSUME Cardinality(A) + Cardinality(G) < n PROVE FALSE
        <5> HIDE DEF A, G, Plain, Codes, n
        <5>1. Cardinality(Plain) + Cardinality(Codes) < n
          BY <1>1, <4>2, <4>3, <4>4, <4>5, StillTooFew DEF n
        <5>2. Cardinality(Plain) \in Nat /\ Cardinality(Codes) \in Nat
          BY <2>3, FS_CardinalityType
        <5> QED
          BY <1>1, <2>4, <5>1, <5>2
      <4> QED
        BY <4>1, <4>5
    <3>4. o.index \in o.fec .. (o.fec + n - 1)
      <4> HIDE DEF n
      <4> QED
        BY <1>1
    <3> QED
      BY <3>3, <3>4
  <2> QED
    BY <2>5, <2>6
<1> QED
  BY <1>6, <1>8, <1>9, <1>10 DEF KeptInv, Kept, Intact

\* When only the leader's shreds arrive and segments end at FEC set boundaries,
\* any sufficient part of an FEC set yields all of its data, whatever is lost,
\* repeated or reordered, and however sets, slots and limits are sized.
THEOREM SufficientSetsAreRecovered ==
  ASSUME HonestLeader
  PROVE  HSpec => []EverySufficientSetIsRecovered
<1>1. HInit => SentInv /\ KeptInv
  BY DEF HInit, Init, SentInv, KeptInv, Open
<1>2. HSpec => [](LiveInv /\ NoRecoveryPending)
  BY HistoryIsDecoder, AlwaysLive, NoRecoveryWaits, PTL
<1>3. LiveInv /\ SentInv /\ KeptInv /\ [HNext]_hvars => SentInv' /\ KeptInv'
  BY NextKept DEF LiveInv, CountInv
<1>4. LiveInv /\ NoRecoveryPending /\ SentInv /\ KeptInv
        => EverySufficientSetIsRecovered
  BY KeptSuffices DEF LiveInv, CountInv
<1> QED
  BY <1>1, <1>2, <1>3, <1>4, PTL DEF HSpec
=============================================================================
