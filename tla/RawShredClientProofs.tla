----------------------- MODULE RawShredClientProofs -----------------------
(* The decoder inside the receive loop: its invariants hold there too, and *)
(* the eviction tick takes the silent slots, whatever the timestamps of    *)
(* their shreds say.                                                       *)
EXTENDS RawShredClient, DecoderBufferProofs

-----------------------------------------------------------------------------
(* All invariants of the decoder in one. *)

DecoderInv ==
  /\ LiveInv /\ LimitInv /\ NothingReadyIsHeld /\ NoRecoveryPending
  /\ StickyInv

LEMMA InitDecoder == Init => DecoderInv
<1> SUFFICES ASSUME Init PROVE DecoderInv
  OBVIOUS
<1>1. Cardinality({}) = 0 /\ IsFiniteSet({})
  BY FS_EmptySet
<1>2. LimitInv
  BY <1>1, LimitAssumption DEF Init, LimitInv, WithinLimits, Capacity
<1>3. NothingReadyIsHeld /\ NoRecoveryPending /\ StickyInv
  BY DEF Init, NothingReadyIsHeld, NoRecoveryPending, StickyInv
<1> QED
  BY <1>2, <1>3, InitLive DEF DecoderInv

LEMMA NextDecoder ==
  ASSUME DecoderInv, Next
  PROVE  DecoderInv'
<1>1. /\ LiveInv /\ CountInv /\ TypeOK /\ HeldIsLive /\ CodingSetsUniform
  BY DEF DecoderInv, LiveInv, CountInv
<1>2. LiveInv' /\ CountInv'
  BY <1>1, NextLive DEF LiveInv
<1>3. ASSUME NEW V \in SUBSET slots, Removal(V)
      PROVE  /\ LimitInv' /\ NothingReadyIsHeld' /\ NoRecoveryPending'
             /\ StickyInv'
  BY <1>1, <1>2, <1>3, RemovalLimits, RemovalReady, RemovalSettled, RemovalSticky
     DEF DecoderInv
<1>4. ASSUME NEW p \in Packet, NEW now \in Time, StoreShred(p, now)
      PROVE  /\ LimitInv' /\ NothingReadyIsHeld' /\ NoRecoveryPending'
             /\ StickyInv'
  <2>1. LimitInv' /\ NothingReadyIsHeld'
    BY <1>1, <1>2, <1>4, StoreLimits, StoreReady DEF DecoderInv
  <2>2. StickyInv'
    BY <1>1, <1>4, StoreSticky DEF DecoderInv
  <2>3. ASSUME NEW c \in code' PROVE Settled(c)'
    BY <1>1, <1>4, OtherSetSettled, OwnSetSettled DEF DecoderInv
  <2>4. NoRecoveryPending'
    BY <2>3 DEF NoRecoveryPending, Settled
  <2> QED
    BY <2>1, <2>2, <2>4
<1> QED
  BY <1>1, <1>2, <1>3, <1>4, StepCases DEF DecoderInv

\* Only the types speak of the last activity, so time may pass.
LEMMA AgeingKeepsDecoder ==
  ASSUME DecoderInv, active' \in [Slot -> Nat],
         UNCHANGED <<slots, next, complete, data, code, failed, misled,
                     buffered, watermark, out>>
  PROVE  DecoderInv'
<1>1. CountInv' /\ HeldIsLive' /\ CodingSetsUniform'
  BY DEF DecoderInv, LiveInv, CountInv, TypeOK, BufferedCount, HeldIsLive,
         CodingSet, CodingSetsUniform, CodingHeaderValid
<1>2. LimitInv' /\ NothingReadyIsHeld'
  BY DEF DecoderInv, LimitInv, WithinLimits, Capacity, NothingReadyIsHeld,
         Closers, DataAt
<1>3. NoRecoveryPending'
  BY DEF DecoderInv, NoRecoveryPending, SetData, CodingSet, DataAt
<1>4. StickyInv'
  BY DEF DecoderInv, StickyInv, Proper, Reconstructs, SizeOverlooked, SetData,
         SameShard
<1> QED
  BY <1>1, <1>2, <1>3, <1>4 DEF DecoderInv, LiveInv

-----------------------------------------------------------------------------
(* The loop. *)

ClientTypeOK ==
  /\ socket \in Seq(Packet) /\ Len(socket) <= SocketCapacity
  /\ pc \in {"select", "reading", "stopped"}
  /\ batchNow \in 0 .. Now /\ quota \in 0 .. MaxDatagramsPerPoll
  /\ phase \in 0 .. (EvictionPeriod - 1) /\ due \in BOOLEAN
  /\ running \in 0 .. Now
  /\ heard \in [Slot -> 0 .. Now] /\ lag \in [Slot -> 0 .. Now]

LEMMA Instants == Now \in Nat /\ EvictionPeriod \in Nat \ {0}
BY LimitAssumption DEF Now, EvictionPeriod

LEMMA KeptType ==
  ASSUME NEW f \in [Slot -> 0 .. Now]
  PROVE  Kept(f) \in [Slot -> 0 .. Now]
<1>1. 0 \in 0 .. Now
  BY Instants
<1> QED
  BY <1>1 DEF Kept

LEMMA HearsType ==
  ASSUME ClientTypeOK, TypeOK, NEW p \in Packet, Hears(p)
  PROVE  heard' \in [Slot -> 0 .. Now] /\ lag' \in [Slot -> 0 .. Now]
<1>1. /\ heard \in [Slot -> 0 .. Now] /\ lag \in [Slot -> 0 .. Now]
      /\ running \in 0 .. Now /\ Now \in 0 .. Now
  BY Instants DEF ClientTypeOK
<1>2. CASE Stores(p)
  <2>1. [heard EXCEPT ![p.shred.slot] = Now] \in [Slot -> 0 .. Now]
    BY <1>1, Zenon
  <2>2. [lag EXCEPT ![p.shred.slot] = running] \in [Slot -> 0 .. Now]
    BY <1>1, Zenon
  <2> QED
    BY <1>2, <2>1, <2>2, KeptType DEF Hears
<1>3. CASE ~ Stores(p)
  BY <1>1, <1>3, KeptType DEF Hears
<1> QED
  BY <1>2, <1>3

LEMMA NextClientType ==
  ASSUME ClientTypeOK, TypeOK, [ClientNext]_allVars
  PROVE  ClientTypeOK'
<1> USE DEF ClientTypeOK
<1>1. Now \in Nat /\ EvictionPeriod \in Nat \ {0} /\ MaxDatagramsPerPoll \in Nat \ {0}
      /\ SocketCapacity \in Nat
  BY Instants, ClientAssumption
<1>2. ASSUME NEW p \in Packet, Datagram(p) PROVE ClientTypeOK'
  BY <1>1, <1>2 DEF Datagram
<1>3. CASE TimePasses
  <2>1. batchNow' \in 0 .. Now
    BY <1>1, <1>3 DEF TimePasses, Earlier
  <2>2. phase' \in 0 .. (EvictionPeriod - 1)
    BY <1>1, <1>3 DEF TimePasses
  <2>3. due' \in BOOLEAN
    BY <1>3 DEF TimePasses
  <2>4. running' \in 0 .. Now
    BY <1>1, <1>3 DEF TimePasses, Longer
  <2>5. \A t \in 0 .. Now : Earlier(t) \in 0 .. Now
    BY <1>1 DEF Earlier
  <2>6. heard' \in [Slot -> 0 .. Now]
    BY <1>3, <2>5 DEF TimePasses
  <2>7. lag' \in [Slot -> 0 .. Now]
    BY <1>3, <2>6 DEF TimePasses
  <2> QED
    BY <1>3, <2>1, <2>2, <2>3, <2>4, <2>6, <2>7 DEF TimePasses
<1>4. CASE Readable
  BY <1>1, <1>4 DEF Readable
<1>5. CASE Receive
  <2>1. Head(socket) \in Packet /\ Hears(Head(socket))
    BY <1>5 DEF Receive
  <2>2. heard' \in [Slot -> 0 .. Now] /\ lag' \in [Slot -> 0 .. Now]
    BY <1>5, <2>1, HearsType DEF Receive
  <2> QED
    BY <1>1, <1>5, <2>2 DEF Receive
<1>6. CASE EndBatch
  BY <1>1, <1>6 DEF EndBatch
<1>7. CASE Tick
  BY <1>7, KeptType DEF Tick
<1>8. CASE SocketError
  BY <1>8 DEF SocketError
<1>9. CASE UNCHANGED allVars
  BY <1>9 DEF allVars, clientVars
<1> QED
  BY <1>2, <1>3, <1>4, <1>5, <1>6, <1>7, <1>8, <1>9 DEF ClientNext

ClientInv == DecoderInv /\ ClientTypeOK

LEMMA InitClient == ClientInit => ClientInv
<1>1. ASSUME ClientInit PROVE ClientTypeOK
  <2>1. Now \in Nat /\ EvictionPeriod \in Nat \ {0} /\ MaxDatagramsPerPoll \in Nat
        /\ SocketCapacity \in Nat
    BY Instants, ClientAssumption
  <2>2. <<>> \in Seq(Packet) /\ Len(<<>>) = 0
    OBVIOUS
  <2> QED
    <3>1. socket = <<>> /\ pc = "select" /\ batchNow = 0 /\ quota = 0 /\ phase = 0
          /\ due = FALSE /\ running = 0
          /\ heard = [s \in Slot |-> 0] /\ lag = [s \in Slot |-> 0]
      BY <1>1 DEF ClientInit
    <3>2. due \in BOOLEAN /\ pc \in {"select", "reading", "stopped"}
      BY <3>1
    <3>3. socket \in Seq(Packet) /\ Len(socket) <= SocketCapacity
      BY <2>1, <2>2, <3>1
    <3>4. batchNow \in 0 .. Now /\ quota \in 0 .. MaxDatagramsPerPoll
          /\ phase \in 0 .. (EvictionPeriod - 1) /\ running \in 0 .. Now
      BY <2>1, <3>1
    <3>5. heard \in [Slot -> 0 .. Now] /\ lag \in [Slot -> 0 .. Now]
      BY <2>1, <3>1
    <3> QED
      BY <3>2, <3>3, <3>4, <3>5 DEF ClientTypeOK
<1> QED
  BY <1>1, InitDecoder DEF ClientInit, ClientInv

LEMMA NextClient == ClientInv /\ [ClientNext]_allVars => ClientInv'
<1> SUFFICES ASSUME ClientInv, [ClientNext]_allVars PROVE ClientInv'
  OBVIOUS
<1>1. DecoderInv /\ ClientTypeOK /\ TypeOK
  BY DEF ClientInv, DecoderInv, LiveInv, CountInv
<1>2. ClientTypeOK'
  BY <1>1, NextClientType
<1>3. ASSUME UNCHANGED vars PROVE DecoderInv'
  BY <1>1, <1>3, AgeingKeepsDecoder DEF vars, TypeOK
<1>4. ASSUME TimePasses PROVE DecoderInv'
  <2>1. active' \in [Slot -> Nat]
    BY <1>1, <1>4 DEF TimePasses, Earlier, TypeOK
  <2> QED
    BY <1>1, <1>4, <2>1, AgeingKeepsDecoder DEF TimePasses
<1>5. ASSUME Receive PROVE DecoderInv'
  <2>1. Head(socket) \in Packet /\ batchNow \in Time
    <3>1. socket \in Seq(Packet) /\ socket # <<>> /\ batchNow \in 0 .. Now
      BY <1>1, <1>5, Zenon DEF Receive, ClientTypeOK
    <3> QED
      BY <3>1, InstantAssumption
  <2>2. Next
    BY <1>5, <2>1 DEF Receive, Next
  <2> QED
    BY <1>1, <2>2, NextDecoder
<1>6. ASSUME Tick PROVE DecoderInv'
  <2>1. Now \in Time
    BY Instants, InstantAssumption
  <2>2. Next
    BY <1>6, <2>1 DEF Tick, Next
  <2> QED
    BY <1>1, <2>2, NextDecoder
<1>7. ASSUME UNCHANGED allVars PROVE DecoderInv'
  BY <1>3, <1>7 DEF allVars
<1>8. ASSUME NEW p \in Packet, Datagram(p) PROVE DecoderInv'
  BY <1>3, <1>8 DEF Datagram
<1>9. ASSUME Readable \/ EndBatch \/ SocketError PROVE DecoderInv'
  BY <1>3, <1>9 DEF Readable, EndBatch, SocketError
<1> QED
  BY <1>2, <1>4, <1>5, <1>6, <1>7, <1>8, <1>9 DEF ClientNext, ClientInv

LEMMA AlwaysClient == ClientSpec => []ClientInv
BY InitClient, NextClient, PTL DEF ClientSpec

\* What is proved of the decoder alone holds of the decoder driven by the
\* receive loop, with datagrams, ticks and the clock interleaved in any way.
THEOREM LoopKeepsDecoderInvariants ==
  ClientSpec => [](/\ TypeOK /\ BufferedCount /\ WithinLimits /\ HeldIsLive
                   /\ CodingSetsUniform /\ NothingReadyIsHeld
                   /\ NoRecoveryPending /\ SuppressedRecoveryWouldFail)
<1>1. ClientInv => /\ TypeOK /\ BufferedCount /\ WithinLimits /\ HeldIsLive
                   /\ CodingSetsUniform /\ NothingReadyIsHeld
                   /\ NoRecoveryPending /\ SuppressedRecoveryWouldFail
  BY StickyInvSuffices DEF ClientInv, DecoderInv, LiveInv, CountInv, LimitInv
<1> QED
  BY <1>1, AlwaysClient, PTL

-----------------------------------------------------------------------------
(* The timestamps of the batches and the true silence of the slots. *)

\* A running batch is stamped with its beginning, and the last activity of an
\* incomplete slot lies before its last shred by no more than its lag.
StampsLag ==
  /\ pc = "reading" => batchNow + running >= Now
  /\ \A s \in slots \ complete : /\ active[s] <= heard[s]
                                 /\ heard[s] <= active[s] + lag[s]

\* The slots that a step leaves open as they were.
Untouched(S) ==
  \A s \in S : /\ s \in slots \ complete /\ active'[s] = active[s]
               /\ heard'[s] = heard[s] /\ lag'[s] = lag[s]

LEMMA UntouchedLag ==
  ASSUME StampsLag, Untouched(slots' \ complete'),
         pc' = "reading" => pc = "reading",
         batchNow' = batchNow, running' = running
  PROVE  StampsLag'
BY DEF StampsLag, Untouched

\* Steps that store nothing keep the last activity of the slots they leave.
LEMMA QuietActive ==
  ASSUME TypeOK,
         \/ \E p \in Packet : DropPacket(p) \/ RejectShred(p)
         \/ EvictStaleSlots(Now)
  PROVE  \A s \in slots' \ complete' : s \in slots \ complete /\ active'[s] = active[s]
<1>1. ASSUME NEW p \in Packet, DropPacket(p)
      PROVE  \A s \in slots' \ complete' :
               s \in slots \ complete /\ active'[s] = active[s]
  BY <1>1 DEF DropPacket
<1>2. ASSUME NEW V, slots' = slots \ V, active' = Reset(active, V),
             complete' = complete \/ complete' = complete \ V
      PROVE  \A s \in slots' \ complete' :
               s \in slots \ complete /\ active'[s] = active[s]
  BY <1>2 DEF Reset, TypeOK
<1>3. ASSUME NEW p \in Packet, RejectShred(p)
      PROVE  \A s \in slots' \ complete' :
               s \in slots \ complete /\ active'[s] = active[s]
  <2> DEFINE V == Victims(p.shred.slot)
  <2>1. slots' = slots \ V /\ active' = Reset(active, V) /\ complete' = complete \ V
    BY <1>3 DEF RejectShred
  <2> HIDE DEF V
  <2> QED
    BY <1>2, <2>1
<1>4. CASE EvictStaleSlots(Now)
  <2> DEFINE V == StaleSlots(Now)
  <2>1. slots' = slots \ V /\ active' = Reset(active, V) /\ complete' = complete
    BY <1>4 DEF EvictStaleSlots
  <2> HIDE DEF V
  <2> QED
    BY <1>2, <2>1
<1> QED
  BY <1>1, <1>3, <1>4

\* Storing a shred touches the activity of its own slot only.
LEMMA StoreActive ==
  ASSUME TypeOK, NEW p \in Packet, NEW now \in Time, StoreShred(p, now)
  PROVE  \A s \in slots' \ complete' :
           IF s = p.shred.slot THEN active'[s] = now
           ELSE s \in slots \ complete /\ active'[s] = active[s]
<1> DEFINE x == p.shred
           E == Evicted(x, now)
           V == Victims(x.slot)
<1>1. /\ Parses(p) /\ Arrives(p) /\ Inserts(x)
      /\ slots' = Tracked(x) \ E /\ complete' = Done(x)
  BY StoreEffect
<1>2. active' = Reset(Acts(x, now), E)
  BY Zenon DEF StoreShred, Siblings, Back, D2, C2, Drains, Ends, Cursor, D3, C3,
               Tracked, Done, Acts, Evicted
<1>3. x.slot \in Slot /\ slots \subseteq Slot
  BY <1>1, ArrivalFacts DEF TypeOK
<1> SUFFICES ASSUME NEW s \in slots' \ complete'
             PROVE  IF s = x.slot THEN active'[s] = now
                    ELSE s \in slots \ complete /\ active'[s] = active[s]
  OBVIOUS
<1>4. /\ s \notin E /\ s \in Slot
      /\ s # x.slot => s \in slots \ V /\ s \notin complete
  BY <1>1, <1>3 DEF Tracked, Done
<1>5. active'[s] = Acts(x, now)[s]
  <2> HIDE DEF E, x
  <2> QED
    BY <1>2, <1>4 DEF Reset
<1>6. s = x.slot => Acts(x, now)[s] = now
  <2> HIDE DEF x
  <2> QED
    BY <1>3 DEF Acts, Reset
<1>7. s # x.slot => Acts(x, now)[s] = active[s]
  <2>1. s # x.slot => Acts(x, now)[s] = Reset(active, V)[s]
    <3> HIDE DEF x
    <3> QED
      BY <1>3, <1>4 DEF Acts, Reset, V
  <2>2. s # x.slot => Reset(active, V)[s] = active[s]
    <3> HIDE DEF V, x
    <3> QED
      BY <1>4 DEF Reset
  <2> QED
    BY <2>1, <2>2
<1> QED
  BY <1>4, <1>5, <1>6, <1>7

\* What the history says of the slots that stay open.
LEMMA KeptAt ==
  ASSUME NEW f, NEW s \in slots' \ complete', slots' \subseteq Slot
  PROVE  Kept(f)[s] = f[s]
BY DEF Kept

LEMMA ReceiveLag ==
  ASSUME ClientInv, TypeOK', StampsLag, Receive
  PROVE  StampsLag'
<1> DEFINE p == Head(socket)
<1>1. TypeOK /\ ClientTypeOK
  BY DEF ClientInv, DecoderInv, LiveInv, CountInv
<1>2. /\ PushPacket(p, batchNow) /\ Hears(p) /\ pc = "reading"
      /\ UNCHANGED <<pc, batchNow, running>>
  BY DEF Receive
<1>3. p \in Packet /\ batchNow \in Time /\ batchNow \in 0 .. Now /\ Now \in Nat
      /\ running \in 0 .. Now
  BY <1>1, Instants, InstantAssumption DEF Receive, ClientTypeOK
<1>4. slots' \subseteq Slot
  BY DEF TypeOK
<1> HIDE DEF p
<1>5. CASE DropPacket(p) \/ RejectShred(p)
  <2>1. ~ Stores(p)
    BY <1>5 DEF DropPacket, RejectShred, Stores, Arrives
  <2>2. heard' = Kept(heard) /\ lag' = Kept(lag)
    BY <1>2, <2>1 DEF Hears
  <2>3. \A s \in slots' \ complete' : s \in slots \ complete /\ active'[s] = active[s]
    BY <1>1, <1>3, <1>5, QuietActive
  <2>4. Untouched(slots' \ complete')
    BY <1>4, <2>2, <2>3, KeptAt DEF Untouched
  <2> QED
    BY <1>2, <2>4, UntouchedLag
<1>6. CASE StoreShred(p, batchNow)
  <2> DEFINE t == p.shred.slot
  <2>1. Parses(p) /\ Arrives(p) /\ Inserts(p.shred)
    BY <1>3, <1>6, StoreEffect
  <2>2. t \in Slot
    BY <1>1, <1>3, <2>1, ArrivalFacts
  <2>3. /\ heard' = Kept([heard EXCEPT ![t] = Now])
        /\ lag' = Kept([lag EXCEPT ![t] = running])
    BY <1>2, <2>1 DEF Hears, Stores
  <2>4. heard \in [Slot -> 0 .. Now] /\ lag \in [Slot -> 0 .. Now]
    BY <1>1 DEF ClientTypeOK
  <2>5. ASSUME NEW s \in slots' \ complete'
        PROVE  active'[s] <= heard'[s] /\ heard'[s] <= active'[s] + lag'[s]
    <3>1. /\ heard'[s] = [heard EXCEPT ![t] = Now][s]
          /\ lag'[s] = [lag EXCEPT ![t] = running][s]
      <4> HIDE DEF t
      <4> QED
        BY <1>4, <2>3, <2>5, KeptAt
    <3>2. s \in Slot
      BY <1>4
    <3>3. CASE s = t
      <4>1. active'[s] = batchNow
        BY <1>1, <1>3, <1>6, <3>3, StoreActive
      <4>2. heard'[s] = Now /\ lag'[s] = running
        BY <2>4, <3>1, <3>2, <3>3
      <4>3. batchNow + running >= Now
        BY <1>2 DEF StampsLag
      <4> QED
        BY <1>3, <4>1, <4>2, <4>3
    <3>4. CASE s # t
      <4>1. s \in slots \ complete /\ active'[s] = active[s]
        BY <1>1, <1>3, <1>6, <3>4, StoreActive
      <4>2. heard'[s] = heard[s] /\ lag'[s] = lag[s]
        BY <2>4, <3>1, <3>2, <3>4
      <4> QED
        BY <4>1, <4>2 DEF StampsLag
    <3> QED
      BY <3>3, <3>4
  <2>6. pc' = "reading" => batchNow' + running' >= Now
    BY <1>2 DEF StampsLag
  <2> QED
    BY <2>5, <2>6 DEF StampsLag, Now
<1> QED
  BY <1>2, <1>5, <1>6 DEF PushPacket

LEMMA TimeLag ==
  ASSUME ClientInv, StampsLag, TimePasses
  PROVE  StampsLag'
<1>1. TypeOK /\ ClientTypeOK /\ Now \in Nat
  BY Instants DEF ClientInv, DecoderInv, LiveInv, CountInv
<1>2. pc' = "reading" => batchNow' + running' >= Now
  BY <1>1 DEF TimePasses, StampsLag, ClientTypeOK, Earlier, Longer
<1>3. ASSUME NEW s \in slots' \ complete'
      PROVE  active'[s] <= heard'[s] /\ heard'[s] <= active'[s] + lag'[s]
  <2>1. s \in slots \ complete /\ s \in Slot
    BY <1>1, <1>3 DEF TimePasses, TypeOK
  <2>2. /\ active'[s] = Earlier(active[s]) /\ heard'[s] = Earlier(heard[s])
        /\ lag'[s] = IF heard[s] > lag[s] THEN lag[s] ELSE heard'[s]
    BY <2>1 DEF TimePasses
  <2>3. /\ active[s] \in Nat /\ heard[s] \in Nat /\ lag[s] \in Nat
    BY <1>1, <2>1 DEF TypeOK, ClientTypeOK
  <2>4. active[s] <= heard[s] /\ heard[s] <= active[s] + lag[s]
    BY <2>1 DEF StampsLag
  <2> QED
    BY <2>2, <2>3, <2>4 DEF Earlier
<1> QED
  BY <1>2, <1>3 DEF StampsLag, Now

LEMMA NextLag ==
  ASSUME ClientInv, ClientInv', StampsLag, [ClientNext]_allVars
  PROVE  StampsLag'
<1>1. TypeOK /\ TypeOK' /\ ClientTypeOK
  BY DEF ClientInv, DecoderInv, LiveInv, CountInv
<1>2. slots' \subseteq Slot /\ Now \in Nat
  BY <1>1, Instants DEF TypeOK
<1>3. ASSUME UNCHANGED <<vars, heard, lag>>,
             pc' = "reading" => batchNow' + running' >= Now
      PROVE  StampsLag'
  BY <1>3 DEF vars, StampsLag, Now
<1>4. ASSUME NEW p \in Packet, Datagram(p) PROVE StampsLag'
  BY <1>3, <1>4 DEF Datagram, StampsLag
<1>5. CASE Readable
  BY <1>2, <1>3, <1>5 DEF Readable
<1>6. CASE EndBatch \/ SocketError
  BY <1>3, <1>6 DEF EndBatch, SocketError
<1>7. CASE Tick
  <2>1. \A s \in slots' \ complete' : s \in slots \ complete /\ active'[s] = active[s]
    BY <1>1, <1>7, QuietActive DEF Tick
  <2>2. Untouched(slots' \ complete')
    BY <1>2, <1>7, <2>1, KeptAt DEF Tick, Untouched
  <2> QED
    BY <1>7, <2>2, UntouchedLag DEF Tick
<1>8. CASE UNCHANGED allVars
  BY <1>3, <1>8 DEF allVars, clientVars, StampsLag
<1> QED
  BY <1>1, <1>4, <1>5, <1>6, <1>7, <1>8, ReceiveLag, TimeLag DEF ClientNext

\* The tick and the true silence: whatever timestamp a batch gives its shreds, a
\* tick takes every incomplete slot that has stored nothing for longer than the
\* timeout, and one that it takes too early only by as much as the batch of its
\* last shred had been running when it stored that shred.
THEOREM TicksTakeOnlyTheSilent == ClientSpec => TicksTakeTheSilent
<1>1. ClientInit => StampsLag
  BY DEF ClientInit, Init, StampsLag
<1>2. ASSUME ClientInv, StampsLag, [ClientNext]_allVars
      PROVE  [due /\ ~ due' =>
                \A s \in slots \ complete :
                  /\ s \in slots' => Silence(s) <= GapTimeout
                  /\ s \notin slots' => Silence(s) + lag[s] > GapTimeout]_allVars
  <2> SUFFICES ASSUME ~ UNCHANGED allVars, due, ~ due', NEW s \in slots \ complete
               PROVE  /\ s \in slots' => Silence(s) <= GapTimeout
                      /\ s \notin slots' => Silence(s) + lag[s] > GapTimeout
    OBVIOUS
  <2>1. Tick
    BY <1>2 DEF ClientNext, Datagram, TimePasses, Readable, Receive, EndBatch,
                SocketError
  <2>2. slots' = slots \ StaleSlots(Now)
    BY <2>1 DEF Tick, EvictStaleSlots
  <2>3. s \in slots' <=> ~ (Now > active[s] + GapTimeout)
    BY <2>2 DEF StaleSlots
  <2>4. TypeOK /\ ClientTypeOK
    BY <1>2 DEF ClientInv, DecoderInv, LiveInv, CountInv
  <2>5. /\ active[s] \in Nat /\ heard[s] \in Nat /\ lag[s] \in Nat
        /\ Now \in Nat /\ GapTimeout \in Nat
    BY <2>4, Instants, LimitAssumption DEF TypeOK, ClientTypeOK
  <2>6. active[s] <= heard[s] /\ heard[s] <= active[s] + lag[s]
    BY <1>2 DEF StampsLag
  <2> QED
    BY <2>3, <2>5, <2>6 DEF Silence
<1> QED
  BY <1>1, <1>2, NextLag, AlwaysClient, PTL DEF ClientSpec, TicksTakeTheSilent
=============================================================================
