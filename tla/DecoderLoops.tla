---------------------------- MODULE DecoderLoops ----------------------------
(***************************************************************************)
(* The loops of reassembler.rs as they are written, one iteration per      *)
(* step: drain_ready_segments with its inner scan, enforce_buffer_limit    *)
(* and admit_slot.  RawShredDecoder uses closed forms for their results;   *)
(* this module says that the two agree.                                    *)
(*                                                                         *)
(* The variables of RawShredDecoder hold the state in which the function   *)
(* is called, somewhere inside push_packet, and do not change; the loops   *)
(* work on variables of their own.                                         *)
(***************************************************************************)
EXTENDS RawShredDecoder, Sequences

VARIABLES
  loop,     \* "drain", "retain", "enforce", "admit"; then how it ended
  touched,  \* the slot it is called for
  kept,     \* slots.keys()
  shreds,   \* the buffered data shreds
  parity,   \* the buffered coding shreds
  count,    \* buffered_shreds
  cursor,   \* next_data_index of the touched slot
  index,    \* the index that the inner scan looks at
  removed,  \* removed_data_shreds
  ended,    \* terminal_complete
  emitted   \* the batches pushed to `out', in order

inputs == vars
working == <<loop, touched, kept, shreds, parity, count, cursor, index,
             removed, ended, emitted>>

SaturatingSub(a, b) == IF a > b THEN a - b ELSE 0

-----------------------------------------------------------------------------
(* What holds where push_packet calls these functions, with slots S, of    *)
(* which K are complete, cursors n, activity times act, buffers D and C    *)
(* and counter b.                                                          *)
CallState(S, K, n, act, D, C, b) ==
  /\ S \subseteq Slot /\ IsFiniteSet(S) /\ K \subseteq S
  /\ n \in [Slot -> Nat] /\ act \in [Slot -> Nat]
  /\ D \subseteq DataShred /\ IsFiniteSet(D)
  /\ C \subseteq CodeShred /\ IsFiniteSet(C)
  /\ b = Cardinality(D) + Cardinality(C)
  /\ \A d \in D : d.slot \in S \ K /\ d.index >= n[d.slot]
  /\ \A c \in C : c.slot \in S \ K /\ c.numData # 0
  /\ \A d, e \in D : d.slot = e.slot /\ d.index = e.index => d = e

\* A function is called for slot s.
Called(function, s) ==
  /\ loop = function /\ touched = s
  /\ kept = slots /\ shreds = data /\ parity = code /\ count = buffered
  /\ cursor = next[s] /\ index = next[s]
  /\ removed = 0 /\ ended = FALSE /\ emitted = <<>>

LoopInit ==
  /\ CallState(slots, complete, next, active, data, code, buffered)
  /\ \E s \in Slot :
       \/ s \in slots \ complete /\ Called("drain", s)
       \/ Called("enforce", s)
       \/ /\ s \notin slots /\ Cardinality(slots) <= Capacity
          /\ Called("admit", s)

-----------------------------------------------------------------------------
(* drain_ready_segments.  No data shred has the index u32::MAX, so that    *)
(* the checked_add of the scan never fails.                                *)

\* The inner scan passes a shred that closes no segment.
ScanOn ==
  /\ loop = "drain"
  /\ \E d \in DataAt(shreds, touched, index) : ~ d.complete
  /\ index' = index + 1
  /\ UNCHANGED <<loop, touched, kept, shreds, parity, count, cursor, removed,
                 ended, emitted>>

\* The inner scan meets a gap: the outer loop is left.
ScanGap ==
  /\ loop = "drain" /\ DataAt(shreds, touched, index) = {}
  /\ loop' = "retain"
  /\ UNCHANGED <<touched, kept, shreds, parity, count, cursor, index, removed,
                 ended, emitted>>

\* The shreds from the cursor to the index found by the scan.
Run == {d \in shreds : d.slot = touched /\ cursor <= d.index /\ d.index <= index}

\* A segment that decodes leaves by split_off, one that does not shred by
\* shred.
Split ==
  IF Decodes(Run) THEN {d \in shreds : d.slot = touched => d.index > index}
                  ELSE shreds \ Run

\* The inner scan finds the end of a segment: one round of the outer loop.
TakeSegment ==
  /\ loop = "drain"
  /\ \E d \in DataAt(shreds, touched, index) :
       /\ d.complete
       /\ shreds' = IF d.last THEN NotOfSlots(Split, {touched}) ELSE Split
       /\ ended' = d.last
       /\ loop' = IF d.last THEN "retain" ELSE "drain"
  /\ removed' = removed + Cardinality(shreds) - Cardinality(shreds')
  /\ emitted' = IF Decodes(Run)
                THEN Append(emitted, [slot |-> touched, shreds |-> Run])
                ELSE emitted
  /\ cursor' = index + 1 /\ index' = index + 1
  /\ UNCHANGED <<touched, kept, parity, count>>

\* After the loop: the coding sets that are of no more use go.
RetainCoding ==
  /\ loop = "retain"
  /\ parity' = {c \in parity :
                  c.slot = touched => ~ ended /\ c.fec >= cursor /\ c.numData > 0}
  /\ count' = SaturatingSub(SaturatingSub(count, removed),
                            Cardinality(parity) - Cardinality(parity'))
  /\ loop' = "drained"
  /\ UNCHANGED <<touched, kept, shreds, cursor, index, removed, ended, emitted>>

-----------------------------------------------------------------------------
(* remove_slot_state. *)
RemoveSlotState(s) ==
  /\ kept' = kept \ {s}
  /\ shreds' = NotOfSlots(shreds, {s})
  /\ parity' = NotOfSlots(parity, {s})
  /\ count' = SaturatingSub(count, Held(shreds, parity, {s}))
  /\ UNCHANGED <<loop, touched, cursor, index, removed, ended, emitted>>

Returns(outcome) ==
  /\ loop' = outcome
  /\ UNCHANGED <<touched, kept, shreds, parity, count, cursor, index, removed,
                 ended, emitted>>

(* enforce_buffer_limit. *)
EvictOldest ==
  /\ loop = "enforce" /\ count > MaxBufferedShreds
  /\ \E s \in kept \ complete :
       /\ \A t \in kept \ complete : t # s => Older(s, t, active)
       /\ RemoveSlotState(s)

LimitMet ==
  /\ loop = "enforce"
  /\ count <= MaxBufferedShreds \/ kept \subseteq complete
  /\ Returns("enforced")

(* admit_slot.  With room for at least one slot, the map is not empty when *)
(* it is full.                                                             *)
DropLowest ==
  /\ loop = "admit" /\ Cardinality(kept) >= Capacity
  /\ \E lowest \in kept :
       /\ \A t \in kept : lowest <= t
       /\ touched > lowest
       /\ RemoveSlotState(lowest)

RefuseSlot ==
  /\ loop = "admit" /\ Cardinality(kept) >= Capacity
  /\ \E lowest \in kept : touched <= lowest /\ \A t \in kept : lowest <= t
  /\ Returns("refused")

AdmitSlot ==
  /\ loop = "admit" /\ Cardinality(kept) < Capacity
  /\ Returns("admitted")

LoopNext ==
  /\ \/ ScanOn \/ ScanGap \/ TakeSegment \/ RetainCoding
     \/ EvictOldest \/ LimitMet
     \/ DropLowest \/ RefuseSlot \/ AdmitSlot
  /\ UNCHANGED inputs

LoopSpec == LoopInit /\ [][LoopNext]_<<inputs, working>>

-----------------------------------------------------------------------------
(* Properties. *)

CountsWhatIsHeld == count = Cardinality(shreds) + Cardinality(parity)

\* The batches are in index order and do not overlap.
InOrder ==
  \A j, k \in 1 .. Len(emitted) :
    j < k => \A d \in emitted[j].shreds, e \in emitted[k].shreds : d.index < e.index

\* The drain has taken the segments of the closed form, has moved the cursor as
\* far and has left the same shreds; what decodes comes out in index order.
DrainAgrees ==
  loop = "drained" =>
    LET n       == next[touched]
        closers == TakenClosers(data, touched, n)
    IN /\ cursor = CursorAfter(closers, n)
       /\ ended = EndsSlot(closers)
       /\ shreds = Undrained(data, touched, closers, cursor)
       /\ parity = StillUseful(code, touched, closers, cursor)
       /\ {emitted[k] : k \in 1 .. Len(emitted)} = Batches(data, touched, n, closers)
       /\ InOrder /\ CountsWhatIsHeld

\* What is left without the slots V.
RemovesExactly(V) ==
  /\ kept = slots \ V
  /\ shreds = NotOfSlots(data, V) /\ parity = NotOfSlots(code, V)
  /\ CountsWhatIsHeld

\* The buffer limit has evicted the slots of the closed form.
EnforceAgrees ==
  loop = "enforced" =>
    RemovesExactly(Overflow(data, code, slots \ complete, active))

\* The admission has decided as the closed form does, and a refusal has removed
\* nothing.
AdmitAgrees ==
  /\ loop = "admitted" => Admits(touched) /\ RemovesExactly(Victims(touched))
  /\ loop = "refused" => ~ Admits(touched) /\ RemovesExactly({})

\* The closed forms that the model of the decoder uses for its loops
\* (drain_ready_segments, enforce_buffer_limit, admit_slot) have the results of
\* the loops as they are written, whatever is buffered and tracked.
ClosedFormsAgree == DrainAgrees /\ EnforceAgrees /\ AdmitAgrees
=============================================================================
