--------------------------- MODULE MCDecoderLoops ---------------------------
(* Bounded inputs for the loops: every buffer of one slot with five        *)
(* indices, and every distribution of shreds, activity times and           *)
(* tombstones over four slots.                                             *)
EXTENDS DecoderLoops

Plain(s, i) ==
  [kind |-> "data", slot |-> s, index |-> i, fec |-> 0, head |-> "v1",
   sig |-> "leader", body |-> "a", complete |-> FALSE, last |-> FALSE,
   size |-> 1]
Closing(s, i) == [Plain(s, i) EXCEPT !.complete = TRUE]
Last(s, i) == [Closing(s, i) EXCEPT !.last = TRUE]
Parity(s, f) ==
  [kind |-> "code", slot |-> s, index |-> f, fec |-> f, position |-> 0,
   numData |-> 2, numCoding |-> 1, head |-> "v1", sig |-> "leader",
   root |-> "r"]

MCHeader == {"v1"}
MCSig == {"leader"}
MCBody == {"a"}
MCRoot == {"r"}
MCPacket == {}
MCTime == 0 .. 1
MCOriginal == [r \in {} |-> {}]
Indexes == 0 .. 4

\* Nothing decodes that contains the shred with index 1.
MCDecodable == SUBSET ({0, 2, 3, 4} \X MCBody)

\* Any data of slot 1 from the cursor on, coding sets at any of three indices,
\* and shreds of another slot.
DrainInit ==
  /\ slots = {1, 2} /\ complete = {}
  /\ \E n \in 0 .. 1 : next = [s \in Slot |-> IF s = 1 THEN n ELSE 0]
  /\ active = [s \in Slot |-> 0]
  /\ \E kind \in [Indexes -> {"none", "plain", "closing", "last"}] :
       /\ next[1] = 1 => kind[0] = "none"
       /\ data = {Closing(2, 0)}
            \cup {Plain(1, i) : i \in {j \in Indexes : kind[j] = "plain"}}
            \cup {Closing(1, i) : i \in {j \in Indexes : kind[j] = "closing"}}
            \cup {Last(1, i) : i \in {j \in Indexes : kind[j] = "last"}}
  /\ \E F \in {{}, {0, 2}, {1, 4}} :
       code = {Parity(1, f) : f \in {g \in F : g >= next[1]}} \cup {Parity(2, 0)}
  /\ failed = {} /\ misled = {}
  /\ buffered = Cardinality(data) + Cardinality(code)
  /\ watermark = -1 /\ out = {}
  /\ Called("drain", 1)

FourSlots == 1 .. 4

\* Any number of shreds per slot, any order of activity, any tombstones.
LimitInit ==
  /\ slots \in SUBSET Slot /\ complete \in SUBSET slots
  /\ next = [s \in Slot |-> 0]
  /\ active \in [Slot -> Time]
  /\ \A s \in Slot \ slots : active[s] = 0
  /\ \E held \in [slots \ complete -> 0 .. 2] :
       /\ data = UNION {{Plain(s, i) : i \in 1 .. held[s]} :
                          s \in slots \ complete}
       /\ code = {Parity(s, 0) : s \in {t \in slots \ complete : held[t] = 2}}
  /\ failed = {} /\ misled = {}
  /\ buffered = Cardinality(data) + Cardinality(code)
  /\ watermark = -1 /\ out = {}
  /\ \/ Called("enforce", 1)
     \/ \E s \in Slot \ slots : Cardinality(slots) <= Capacity /\ Called("admit", s)

LoopsInit ==
  /\ DrainInit \/ LimitInit
  /\ CallState(slots, complete, next, active, data, code, buffered)

LoopsSpec == LoopsInit /\ [][LoopNext]_<<inputs, working>>
=============================================================================
