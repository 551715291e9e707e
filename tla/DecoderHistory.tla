--------------------------- MODULE DecoderHistory ---------------------------
(***************************************************************************)
(* RawShredDecoder with history variables: what the decoder was given and  *)
(* what it handed out.  They are never read by the decoder; they let the   *)
(* properties relate the batches of a call to the packets and the batches  *)
(* of all earlier calls.                                                   *)
(***************************************************************************)
EXTENDS RawShredDecoder

VARIABLES
  received,   \* shreds pushed while their slot was tracked without a break
  delivered,  \* batches handed out while their slot was tracked likewise
  seen        \* slots for which a batch was ever handed out

hvars == <<slots, next, complete, active, data, code, failed, misled, buffered,
           watermark, out, received, delivered, seen>>

HInit == Init /\ received = {} /\ delivered = {} /\ seen = {}

\* The histories of a slot end with its removal from the slot map.
Record(pushed) ==
  /\ received' = OfSlots(received \cup pushed, slots')
  /\ delivered' = OfSlots(delivered \cup out', slots')
  /\ seen' = seen \cup {b.slot : b \in out'}

HPush(p, now) ==
  PushPacket(p, now) /\ Record(IF Parses(p) THEN {p.shred} ELSE {})

HEvict(now) == EvictStaleSlots(now) /\ Record({})

HNext ==
  \E now \in Time : (\E p \in Packet : HPush(p, now)) \/ HEvict(now)

HSpec == HInit /\ [][HNext]_hvars

-----------------------------------------------------------------------------
(* What an honest leader sends, for completeness of recovery. *)

\* The roots of one slot commit to disjoint runs of shreds that agree in their
\* headers, and a segment ends only with the run.
HonestSets ==
  /\ \A r \in DOMAIN Original : \A o, q \in Original[r] :
       /\ o.slot = q.slot /\ o.fec = q.fec /\ o.head = q.head /\ o.sig = q.sig
       /\ {u.index : u \in Original[r]}
            = o.fec .. (o.fec + Cardinality(Original[r]) - 1)
       /\ o.complete => q.index <= o.index
       /\ o.size >= 0
  /\ \A r, t \in DOMAIN Original : \A o \in Original[r], q \in Original[t] :
       o.slot = q.slot /\ o.index = q.index => r = t

HonestData(d) == \E r \in DOMAIN Original : d \in Original[r]

HonestCode(c) ==
  /\ c.root \in DOMAIN Original /\ CodingHeaderValid(c)
  /\ Original[c.root] # {} /\ c.numData = Cardinality(Original[c.root])
  /\ \A o \in Original[c.root] :
       o.slot = c.slot /\ o.fec = c.fec /\ o.head = c.head /\ o.sig = c.sig

Honest(x) ==
  \/ x.kind = "data" /\ HonestData(x)
  \/ x.kind = "code" /\ HonestCode(x)

\* Two coding shreds of one set.
OneSet(c, x) ==
  /\ c.numCoding = x.numCoding /\ FirstCodingIndex(c) = FirstCodingIndex(x)
  /\ c.index = x.index => c = x

Sent == {p.shred : p \in {q \in Packet : Parses(q)}}

\* Only the leader's shreds arrive, lost, repeated and reordered as they may be.
HonestLeader ==
  /\ HonestSets
  /\ \A x \in Sent : Honest(x)
  /\ \A c, x \in Sent :
       c.kind = "code" /\ x.kind = "code" /\ c.root = x.root => OneSet(c, x)

-----------------------------------------------------------------------------
Indices(shreds) == {d.index : d \in shreds}

\* The received shreds that carry a share of the FEC set committed by root r.
ShardsReceived(r) ==
  {x \in received : \/ x.kind = "data" /\ \E o \in Original[r] : x = o
                    \/ x.kind = "code" /\ x.root = r}

\* Each batch continues its slot: it lies wholly after every batch of the slot
\* handed out since the slot was admitted, so nothing is delivered twice or out
\* of order, whatever duplicates and reorderings the packets went through.
DeliveryAdvances ==
  [][\A b \in out', a \in delivered :
        b.slot = a.slot =>
          \A i \in Indices(a.shreds), j \in Indices(b.shreds) : i < j]_hvars

\* Completeness of recovery, when only the leader's shreds arrive and segments
\* end at FEC set boundaries: as soon as the received shreds of an FEC set are
\* as many as its data shreds, all of its data is delivered or held for
\* delivery, in whatever order they came, unless the forward watermark has
\* passed the slot.
EverySufficientSetIsRecovered ==
  \A r \in DOMAIN Original :
    Cardinality(ShardsReceived(r)) >= Cardinality(Original[r]) =>
      \A o \in Original[r] :
        \/ o.slot \in complete \/ o.slot < watermark
        \/ o.index < next[o.slot]
        \/ DataAt(data, o.slot, o.index) # {}

\* forward_slot_watermark: no batch is ever handed out for a slot below one
\* that was already handed out, even if the lower slot was buffered earlier.
EmissionGoesForward ==
  [][\A b \in out', s \in seen : s <= b.slot]_hvars

\* "Number of incomplete slots kept in memory" (src/src/shred/config.rs, on
\* max_tracked_slots): while neither the buffer limit nor the timeout strikes,
\* an incomplete slot is given up only when that many are kept.
IncompleteSlotsKept ==
  [][\A s \in slots \ complete :
        s \notin slots' => Cardinality(slots \ complete) >= Capacity]_hvars
=============================================================================
