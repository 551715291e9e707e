--------------------------- MODULE RawShredDecoder ---------------------------
(***************************************************************************)
(* The stateful decoder of src/src/shred/reassembler.rs.  It is fed one    *)
(* UDP payload at a time (push_packet) and returns the entry batches that  *)
(* the payload completes; a timer calls evict_stale_slots.                 *)
(*                                                                         *)
(* The nested maps of the code (slots, the data of a slot, the coding sets *)
(* of a slot) are flattened into sets of shreds, each shred carrying its   *)
(* slot, FEC set and index.  A packet's content is abstracted to what the  *)
(* decoder compares: header fields, signature, Merkle root, and an opaque  *)
(* body that stands for the shred's share of the serialized entries.       *)
(***************************************************************************)
EXTENDS Integers, FiniteSets, FiniteSetsExt

CONSTANTS
  Slot,                  \* the slots packets may name, a set of numbers
  Packet,                \* the UDP payloads that may arrive
  Time,                  \* the instants a caller may pass as `now'
  Header,                  \* shred version, Merkle variant and chained root
  Sig,                   \* leader signatures as carried by shreds
  Body,                  \* the shares of entry bytes carried by data shreds
  Root,                  \* Merkle roots
  Original,              \* root -> the data shreds it commits to (external)
  Decodable,             \* sets of <<index, body>> wincode decodes (external)
  NoShred,               \* payload that is not a shred
  NoRoot,                \* root of a coding shred without a Merkle proof
  MaxTrackedSlots,       \* RawShredConfig::max_tracked_slots
  GapTimeout,            \* RawShredConfig::reassembly_gap_timeout
  ForwardSlotWatermark,  \* RawShredConfig::forward_slot_watermark
  PrefixSkip,            \* RawShredConfig::udp_payload_prefix_skip
  MaxDeshredBytes,       \* RawShredConfig::max_deshred_bytes
  MaxBufferedShreds,     \* MAX_BUFFERED_SHREDS
  MaxShredsPerFecSet,    \* MAX_SHREDS_PER_FEC_SET
  MaxIndex               \* u32::MAX

DataShred ==
  [kind : {"data"}, slot : Slot, index : 0 .. (MaxIndex - 1), fec : Nat,
   head : Header, sig : Sig, body : Body, complete : BOOLEAN, last : BOOLEAN,
   size : Int]

CodeShred ==
  [kind : {"code"}, slot : Slot, index : Nat, fec : Nat, position : Nat,
   numData : Nat, numCoding : Nat, head : Header, sig : Sig,
   root : Root \cup {NoRoot}]

ASSUME SlotAssumption == Slot \subseteq Nat
ASSUME TimeAssumption == Time \subseteq Nat
ASSUME PacketAssumption ==
  \A p \in Packet :
    /\ p.prefix \in Nat /\ p.zeros \in BOOLEAN
    /\ p.shred \in DataShred \cup CodeShred \cup {NoShred}
ASSUME NoShredAssumption == NoShred \notin DataShred \cup CodeShred
ASSUME OriginalAssumption ==
  /\ DOMAIN Original \subseteq Root
  /\ \A r \in DOMAIN Original : Original[r] \subseteq DataShred
  /\ \A r \in DOMAIN Original : IsFiniteSet(Original[r])
  /\ \A r \in DOMAIN Original : \A o, q \in Original[r] :
       o.index = q.index => o = q
ASSUME LimitAssumption ==
  /\ MaxTrackedSlots \in Nat /\ GapTimeout \in Nat /\ PrefixSkip \in Nat
  /\ MaxDeshredBytes \in Nat /\ MaxBufferedShreds \in Nat
  /\ MaxShredsPerFecSet \in Nat /\ MaxIndex \in Nat
  /\ ForwardSlotWatermark \in BOOLEAN

VARIABLES
  slots,      \* slots.keys()
  next,       \* slot -> next_data_index (0 for a slot that is not tracked)
  complete,   \* the tracked slots with terminal_complete
  active,     \* slot -> last_activity (0 for a slot that is not tracked)
  data,       \* all buffered data shreds
  code,       \* all buffered coding shreds
  failed,     \* <<slot, fec set>> of the coding sets with recovery_failed
  misled,     \* history: those whose failed attempt used a shred numbered before
              \* its FEC set
  buffered,   \* buffered_shreds
  watermark,  \* forward_watermark, -1 for None
  out         \* the batches returned by the last call

vars == <<slots, next, complete, active, data, code, failed, misled, buffered,
          watermark, out>>

Capacity == IF MaxTrackedSlots > 1 THEN MaxTrackedSlots ELSE 1

-----------------------------------------------------------------------------
(* Views of the buffers. *)

OfSlots(shreds, S) == {x \in shreds : x.slot \in S}
NotOfSlots(shreds, S) == {x \in shreds : x.slot \notin S}
DataAt(D, s, i) == {d \in D : d.slot = s /\ d.index = i}
CodingSet(C, s, f) == {c \in C : c.slot = s /\ c.fec = f}
FirstCodingIndex(c) == c.index - c.position

\* The data shreds that count towards the FEC set starting at index f.
SetData(D, s, f, numData) ==
  {d \in D : d.slot = s /\ d.fec = f /\ d.index < f + numData}

-----------------------------------------------------------------------------
(* parse_udp_packet: which payloads yield a shred. *)

Parses(p) ==
  /\ p.shred # NoShred
  /\ \/ PrefixSkip > 0 /\ p.prefix = PrefixSkip
     \/ PrefixSkip = 0 /\ p.prefix = 64 /\ p.zeros
     \/ PrefixSkip = 0 /\ p.prefix = 0

\* Mutant: the slot below the watermark is let through.
BehindWatermarkByTwo(s) == ForwardSlotWatermark /\ s < watermark - 1

(* push_packet, the watermark test. *)
BehindWatermark(s) == ForwardSlotWatermark /\ s < watermark

(* admit_slot: the slots that make room for a new slot s are the lowest    *)
(* ones, as many as it takes to get below the capacity; s is refused when  *)
(* it is not above all of them.                                            *)
Victims(s) ==
  IF s \in slots THEN {}
  ELSE {t \in slots : Cardinality({u \in slots : u >= t}) >= Capacity}

Admits(s) == \A t \in Victims(s) : t < s

-----------------------------------------------------------------------------
(* insert_data_shred and insert_coding_shred: which shreds are stored. *)

\* Mutant: the map entry is overwritten instead of being left alone.
InsertsDataAnywhere(d) == d.index >= next[d.slot]

InsertsData(d) ==
  /\ d.index >= next[d.slot]
  /\ DataAt(data, d.slot, d.index) = {}

CodingHeaderValid(c) ==
  /\ c.index >= c.position
  /\ c.numData # 0 /\ c.numCoding # 0
  /\ c.numData + c.numCoding <= MaxShredsPerFecSet
  /\ c.position < c.numCoding
  /\ c.fec + c.numData <= MaxIndex
  /\ c.root # NoRoot

\* Mutant: the Merkle root is not compared.
SameCodingSetAnyRoot(c, x) ==
  /\ c.numData = x.numData /\ c.numCoding = x.numCoding
  /\ FirstCodingIndex(c) = FirstCodingIndex(x)
  /\ c.head = x.head

SameCodingSet(c, x) ==
  /\ c.numData = x.numData /\ c.numCoding = x.numCoding
  /\ FirstCodingIndex(c) = FirstCodingIndex(x)
  /\ c.head = x.head /\ c.root = x.root

InsertsCode(c) ==
  /\ CodingHeaderValid(c)
  /\ next[c.slot] <= c.fec
  /\ \A x \in CodingSet(code, c.slot, c.fec) :
        SameCodingSet(c, x) /\ c.index # x.index /\ c.sig = x.sig

Inserts(x) == IF x.kind = "code" THEN InsertsCode(x) ELSE InsertsData(x)

\* The buffers with shred x stored in a slot for which room was made.
DataWith(x) ==
  NotOfSlots(data, Victims(x.slot)) \cup (IF x.kind = "data" THEN {x} ELSE {})
CodeWith(x) ==
  NotOfSlots(code, Victims(x.slot)) \cup (IF x.kind = "code" THEN {x} ELSE {})

-----------------------------------------------------------------------------
(* try_fec_recover, on the FEC set of the shred x just stored, with D the  *)
(* buffered data shreds and P the buffered coding shreds of that set.  The *)
(* header fields of the set are those of any member: they all agree.       *)

Peers(C, x) == CodingSet(C, x.slot, x.fec)
HeaderOf(P) == CHOOSE c \in P : TRUE
Present(D, P) ==
  SetData(D, HeaderOf(P).slot, HeaderOf(P).fec, HeaderOf(P).numData)

Recoverable(P) == P # {} /\ <<HeaderOf(P).slot, HeaderOf(P).fec>> \notin failed

AllDataPresent(D, P) == Cardinality(Present(D, P)) >= HeaderOf(P).numData

\* Mutant: one shred more than necessary is required.
MoreThanEnoughShreds(D, P) ==
  Cardinality(Present(D, P)) + Cardinality(P) > HeaderOf(P).numData

EnoughShreds(D, P) ==
  Cardinality(Present(D, P)) + Cardinality(P) >= HeaderOf(P).numData

AttemptsRecovery(D, P) ==
  Recoverable(P) /\ ~ AllDataPresent(D, P) /\ EnoughShreds(D, P)

\* d is the shard that o commits to: the signature is not part of a shard.
SameShard(d, o) == [d EXCEPT !.sig = o.sig] = o

(* recover_merkle_data.  Reed-Solomon reconstruction followed by the       *)
(* comparison of the recomputed Merkle root succeeds exactly when the      *)
(* shards used are those the root commits to and they form a codeword      *)
(* (roots outside DOMAIN Original commit to no codeword); the size field   *)
(* is looked at only in the shreds that were missing.                      *)
Reconstructs(D, h) ==
  /\ h.root \in DOMAIN Original
  /\ \A d \in SetData(D, h.slot, h.fec, h.numData) :
        /\ d.head = h.head /\ d.sig = h.sig /\ d.index >= h.fec
        /\ \E o \in Original[h.root] : SameShard(d, o)
  /\ {o.index : o \in Original[h.root]} = h.fec .. (h.fec + h.numData - 1)
  /\ \A o \in Original[h.root] :
        /\ o.slot = h.slot /\ o.fec = h.fec /\ o.head = h.head
        /\ \/ o.size >= 0
           \/ \E d \in SetData(D, h.slot, h.fec, h.numData) : d.index = o.index

Recovers(D, P) == AttemptsRecovery(D, P) /\ Reconstructs(D, HeaderOf(P))

\* The reconstructed shreds that find their index vacant and undelivered.
Restored(D, P) ==
  IF ~ Recovers(D, P) THEN {}
  ELSE LET h == HeaderOf(P) IN
       {[o EXCEPT !.sig = h.sig] :
          o \in {r \in Original[h.root] :
                   r.index >= next[h.slot] /\ DataAt(D, h.slot, r.index) = {}}}

DropsCodingSet(D, P) ==
  \/ Recoverable(P) /\ AllDataPresent(D, P)
  \/ Recovers(D, P) /\ AllDataPresent(D \cup Restored(D, P), P)

\* Mutant: too few shreds count as a failed recovery.
FailedBelowThreshold(D, P) ==
  IF Recoverable(P) /\ ~ AllDataPresent(D, P) /\ ~ Recovers(D, P)
  THEN {<<HeaderOf(P).slot, HeaderOf(P).fec>>} ELSE {}

NewlyFailed(D, P) ==
  IF AttemptsRecovery(D, P) /\ ~ Reconstructs(D, HeaderOf(P))
  THEN {<<HeaderOf(P).slot, HeaderOf(P).fec>>} ELSE {}

\* The data shreds of coding set k that are numbered before it.
Misnumbered(D, k) == {d \in D : d.slot = k[1] /\ d.fec = k[2] /\ d.index < k[2]}

-----------------------------------------------------------------------------
(* drain_ready_segments.  A segment is a contiguous run of data shreds     *)
(* that starts at next_data_index and ends at the first data_complete      *)
(* shred; the loop takes segment after segment until a gap or until one    *)
(* ends in the slot's last shred.                                          *)

\* The data_complete shreds that close a segment of slot s, from index n on.
Closers(D, s, n) ==
  {d \in D : /\ d.slot = s /\ d.index >= n /\ d.complete
             /\ \A i \in n .. d.index : DataAt(D, s, i) # {}}

\* Mutant: one segment per call.
FirstCloser(D, s, n) ==
  LET all == Closers(D, s, n) IN
  {d \in all : \A e \in all : d.index <= e.index}

TakenClosers(D, s, n) ==
  LET all == Closers(D, s, n) IN
  {d \in all : \A e \in all : e.last => d.index <= e.index}

EndsSlot(closers) == \E d \in closers : d.last

\* Mutant: the scan that finds no complete segment rewinds the cursor.
CursorRewound(closers, n) ==
  IF closers = {} THEN 0
  ELSE (CHOOSE d \in closers : \A e \in closers : e.index <= d.index).index + 1

CursorAfter(closers, n) ==
  IF closers = {} THEN n
  ELSE (CHOOSE d \in closers : \A e \in closers : e.index <= d.index).index + 1

\* The segment closed by shred e of closers.
SegmentOf(D, s, n, closers, e) ==
  {d \in D : /\ d.slot = s /\ n <= d.index /\ d.index <= e.index
             /\ \A f \in closers : f.index < e.index => f.index < d.index}

(* decode_chunk: size guard, deshred, exact wincode decoding. *)
TotalSize(seg) == MapThenSumSet(LAMBDA d : d.size, seg)
Decodes(seg) ==
  /\ \A d \in seg : d.size >= 0
  /\ TotalSize(seg) <= MaxDeshredBytes
  /\ {<<d.index, d.body>> : d \in seg} \in Decodable

Batches(D, s, n, closers) ==
  {[slot |-> s, shreds |-> seg] :
     seg \in {g \in {SegmentOf(D, s, n, closers, e) : e \in closers} :
               Decodes(g)}}

\* What draining slot s leaves of its data and coding shreds.
Undrained(D, s, closers, cursor) ==
  {d \in D : d.slot = s => ~ EndsSlot(closers) /\ d.index >= cursor}
\* Mutant: coding sets behind the cursor stay.
UsefulBehindCursor(C, s, closers, cursor) ==
  {c \in C : c.slot = s => ~ EndsSlot(closers)}

StillUseful(C, s, closers, cursor) ==
  {c \in C : c.slot = s => ~ EndsSlot(closers) /\ c.fec >= cursor}

-----------------------------------------------------------------------------
(* enforce_buffer_limit evicts incomplete slots, least recently active     *)
(* first, until the buffers fit: a slot goes exactly when it and the slots *)
(* after it in that order still hold too much.                             *)

Older(t, s, act) == act[t] < act[s] \/ (act[t] = act[s] /\ t < s)

\* Mutant: the coding shreds of a removed slot are not counted.
HeldData(D, C, S) == Cardinality(OfSlots(D, S))

Held(D, C, S) == Cardinality(OfSlots(D, S)) + Cardinality(OfSlots(C, S))

\* Mutant: the limit is exceeded by one.
OverflowByTwo(D, C, open, act) ==
  {s \in open :
     Held(D, C, {t \in open : ~ Older(t, s, act)}) > MaxBufferedShreds + 1}

\* Mutant: the shreds of the slot under consideration are not counted.
OverflowStrictlyAfter(D, C, open, act) ==
  {s \in open : Held(D, C, {t \in open : Older(s, t, act)}) > MaxBufferedShreds}

Overflow(D, C, open, act) ==
  {s \in open :
     Held(D, C, {t \in open : ~ Older(t, s, act)}) > MaxBufferedShreds}

-----------------------------------------------------------------------------
\* Mutant: the state of a removed slot is found again.
ResetNothing(f, S) == f

\* remove_slot_state: a removed slot falls back to the initial values.
Reset(f, S) == [s \in Slot |-> IF s \in S THEN 0 ELSE f[s]]

Init ==
  /\ slots = {} /\ complete = {}
  /\ next = [s \in Slot |-> 0] /\ active = [s \in Slot |-> 0]
  /\ data = {} /\ code = {} /\ failed = {} /\ misled = {}
  /\ buffered = 0 /\ watermark = -1 /\ out = {}

(* push_packet, its early returns: the payload is no shred, it is behind   *)
(* the watermark, its slot is not admitted, or its slot is complete.       *)
DropPacket(p) ==
  /\ \/ ~ Parses(p)
     \/ /\ Parses(p)
        /\ \/ BehindWatermark(p.shred.slot)
           \/ ~ Admits(p.shred.slot)
           \/ p.shred.slot \in complete
  /\ out' = {}
  /\ UNCHANGED <<slots, next, complete, active, data, code, failed, misled,
                 buffered, watermark>>

Arrives(p) ==
  /\ Parses(p)
  /\ ~ BehindWatermark(p.shred.slot)
  /\ Admits(p.shred.slot)
  /\ p.shred.slot \notin complete

(* push_packet, the shred is not stored (duplicate, conflicting, invalid). *)
(* A slot created for it is removed again, the slots that made room for it *)
(* stay evicted.                                                           *)
RejectShred(p) ==
  LET V == Victims(p.shred.slot) IN
  /\ Arrives(p) /\ ~ Inserts(p.shred)
  /\ slots' = slots \ V
  /\ complete' = complete \ V
  /\ next' = Reset(next, V)
  /\ active' = Reset(active, V)
  /\ data' = NotOfSlots(data, V)
  /\ code' = NotOfSlots(code, V)
  /\ failed' = {k \in failed : k[1] \notin V}
  /\ misled' = {k \in misled : k[1] \notin V}
  /\ buffered' = buffered - Held(data, code, V)
  /\ out' = {}
  /\ UNCHANGED watermark

(* push_packet, the shred x is stored: recovery of its FEC set, draining   *)
(* of its slot, note_emitted and enforce_buffer_limit follow.  The stages  *)
(* of the buffers are numbered: 1 after the insertion, 2 after recovery,   *)
(* 3 after draining.                                                       *)
StoreShred(p, now) ==
  LET x == p.shred
      s == x.slot
      victims == Victims(s)
      D1 == DataWith(x)
      C1 == CodeWith(x)
      P == Peers(C1, x)
      restored == Restored(D1, P)
      D2 == D1 \cup restored
      C2 == IF DropsCodingSet(D1, P) THEN C1 \ P ELSE C1
      drains == restored # {} \/ DataAt(D2, s, next[s]) # {}
      closers == IF drains THEN TakenClosers(D2, s, next[s]) ELSE {}
      cursor == CursorAfter(closers, next[s])
      D3 == IF drains THEN Undrained(D2, s, closers, cursor) ELSE D2
      C3 == IF drains THEN StillUseful(C2, s, closers, cursor) ELSE C2
      batches == Batches(D2, s, next[s], closers)
      tracked == (slots \ victims) \cup {s}
      done == (complete \ victims) \cup (IF EndsSlot(closers) THEN {s} ELSE {})
      act == [Reset(active, victims) EXCEPT ![s] = now]
      evicted == Overflow(D3, C3, tracked \ done, act)
  IN
  /\ Arrives(p) /\ Inserts(x)
  /\ slots' = tracked \ evicted
  /\ complete' = done
  /\ next' = Reset([next EXCEPT ![s] = cursor], victims \cup evicted)
  /\ active' = Reset(act, evicted)
  /\ data' = NotOfSlots(D3, evicted)
  /\ code' = NotOfSlots(C3, evicted)
  /\ failed' = {k \in failed \cup NewlyFailed(D1, P) :
                  CodingSet(code', k[1], k[2]) # {}}
  /\ misled' = {k \in failed' :
                  k \in misled \/ (k \in NewlyFailed(D1, P) /\ Misnumbered(D1, k) # {})}
  /\ buffered' = buffered - Held(data, code, victims) + 1
                    + Cardinality(restored) - Cardinality(C1 \ C2)
                    - Cardinality(D2 \ D3) - Cardinality(C2 \ C3)
                    - Held(D3, C3, evicted)
  /\ watermark' = IF ForwardSlotWatermark /\ batches # {} /\ s > watermark
                  THEN s ELSE watermark
  /\ out' = batches

PushPacket(p, now) == DropPacket(p) \/ RejectShred(p) \/ StoreShred(p, now)

\* Mutant: a slot goes stale when its age reaches the timeout.
StaleSlotsEarly(now) == {s \in slots \ complete : now >= active[s] + GapTimeout}

StaleSlots(now) == {s \in slots \ complete : now > active[s] + GapTimeout}

EvictStaleSlots(now) ==
  LET V == StaleSlots(now) IN
  /\ slots' = slots \ V
  /\ next' = Reset(next, V)
  /\ active' = Reset(active, V)
  /\ data' = NotOfSlots(data, V)
  /\ code' = NotOfSlots(code, V)
  /\ failed' = {k \in failed : k[1] \notin V}
  /\ misled' = {k \in misled : k[1] \notin V}
  /\ buffered' = buffered - Held(data, code, V)
  /\ out' = {}
  /\ UNCHANGED <<complete, watermark>>

Next ==
  \E now \in Time :
    \/ \E p \in Packet : PushPacket(p, now)
    \/ EvictStaleSlots(now)

Spec == Init /\ [][Next]_vars
-----------------------------------------------------------------------------
(* Properties. *)

\* Every variable has its type; the counter never goes below zero, so the
\* saturating subtractions of the code never saturate.
TypeOK ==
  /\ slots \subseteq Slot /\ complete \subseteq slots
  /\ next \in [Slot -> Nat] /\ active \in [Slot -> Nat]
  /\ data \subseteq DataShred /\ IsFiniteSet(data)
  /\ code \subseteq CodeShred /\ IsFiniteSet(code)
  /\ failed \subseteq Slot \X Nat /\ misled \subseteq Slot \X Nat
  /\ buffered \in Nat
  /\ watermark \in Slot \cup {-1}
  /\ \A b \in out : b.slot \in Slot /\ b.shreds \subseteq DataShred

\* debug_assert_buffered_count: the counter kept by increments and decrements
\* is the number of shreds really held, whatever was evicted, recovered,
\* drained or dropped on the way.
BufferedCount == buffered = Cardinality(data) + Cardinality(code)

\* When a call returns the buffers are within MAX_BUFFERED_SHREDS and the
\* slot map is within max_tracked_slots, tombstones included.
WithinLimits == buffered <= MaxBufferedShreds /\ Cardinality(slots) <= Capacity

\* Nothing is held that can no longer be used: data and coding shreds belong to
\* tracked incomplete slots and lie at or after the slot's cursor, at most one
\* data shred per index, and a failure flag belongs to a coding set still held.
HeldIsLive ==
  /\ \A d \in data : d.slot \in slots \ complete /\ d.index >= next[d.slot]
  /\ \A c \in code : c.slot \in slots \ complete /\ c.fec >= next[c.slot]
  /\ \A d, e \in data : d.slot = e.slot /\ d.index = e.index => d = e
  /\ \A k \in failed : CodingSet(code, k[1], k[2]) # {}
  /\ \A s \in Slot \ slots : next[s] = 0

\* All coding shreds of one FEC set have a valid header, the same cardinality,
\* root, header and signature, and distinct positions: the checks repeated in
\* recover_merkle_data (two shards at one position, a foreign root) never fail
\* because of a coding shred.
CodingSetsUniform ==
  \A c, x \in code :
    c.slot = x.slot /\ c.fec = x.fec =>
      /\ CodingHeaderValid(c)
      /\ c.numData = x.numData /\ c.numCoding = x.numCoding
      /\ c.head = x.head /\ c.root = x.root /\ c.sig = x.sig
      /\ c.position = x.position => c = x

\* No finished segment waits in a buffer: whatever the arrival order, and
\* whether its last piece was received or recovered, a contiguous run from the
\* cursor to a data_complete shred has been handed out (or dropped as
\* undecodable) by the call that completed it.
NothingReadyIsHeld ==
  \A s \in slots \ complete : Closers(data, s, next[s]) = {}

\* No possible recovery waits: a coding set that has not failed has too few
\* shreds, or recovery has already filled every data index of the set.
NoRecoveryPending ==
  \A c \in code :
    \/ <<c.slot, c.fec>> \in failed
    \/ Cardinality(SetData(data, c.slot, c.fec, c.numData))
         + Cardinality(CodingSet(code, c.slot, c.fec)) < c.numData
    \/ \A i \in c.fec .. (c.fec + c.numData - 1) : DataAt(data, c.slot, i) # {}

\* A size that is no size fails an attempt only while the shred that has it is
\* missing: the shred itself has arrived meanwhile.
SizeOverlooked(c) ==
  /\ c.root \in DOMAIN Original
  /\ \E o \in Original[c.root], d \in SetData(data, c.slot, c.fec, c.numData) :
       o.size < 0 /\ d.index = o.index

\* recovery_failed is sticky, and rightly so: the next attempt that the flag
\* suppresses would fail again, since first-wins never replaces the shred at
\* fault and the shreds numbered within a set stay while its coding shreds do.
\* The exceptions are faults that can go away, which no honest leader makes: the
\* attempt that failed had used a data shred held for the set but numbered before
\* it, which may be delivered, or a committed size was no size.
SuppressedRecoveryWouldFail ==
  \A c \in code :
    <<c.slot, c.fec>> \in failed \ misled =>
      ~ Reconstructs(data, c) \/ SizeOverlooked(c)

\* While a slot stays tracked its cursor never moves back and it never leaves
\* the completed state: late, duplicate and conflicting shreds cannot reopen it.
CursorMonotone ==
  [][\A s \in slots \cap slots' :
        next'[s] >= next[s] /\ (s \in complete => s \in complete')]_vars

\* The first data shred stored at an index stays until it is consumed or its
\* slot is removed: neither a conflicting packet nor a recovery replaces it.
FirstShredWins ==
  [][\A d \in data, e \in data' :
        d.slot = e.slot /\ d.index = e.index => d = e]_vars

-----------------------------------------------------------------------------
Promise ==
  INSTANCE OrderedDelivery
    WITH tracked <- slots, done <- complete, cursor <- next, out <- out

\* The decoder keeps its promise to the caller: whatever is lost, repeated,
\* reordered, recovered or evicted, every call hands out disjoint runs of
\* consecutive shreds from the slot's cursor on, and never from a finished slot.
ImplementsOrderedDelivery == Promise!Spec
=============================================================================
