------------------------- MODULE MCRawShredDecoder -------------------------
(* Small instances of RawShredDecoder: the packets that may arrive.        *)
EXTENDS RawShredDecoder

Data(s, i, f, b, comp, lst) ==
  [kind |-> "data", slot |-> s, index |-> i, fec |-> f, head |-> "v1",
   sig |-> "leader", body |-> b, complete |-> comp, last |-> lst, size |-> 1]

Code(s, f, pos, n, m, r) ==
  [kind |-> "code", slot |-> s, index |-> f + pos, fec |-> f,
   position |-> pos, numData |-> n, numCoding |-> m, head |-> "v1",
   sig |-> "leader", root |-> r]

Native(X) == {[prefix |-> 0, zeros |-> FALSE, shred |-> x] : x \in X}

MCHeader == {"v1", "v2"}
MCSig == {"leader", "other"}
MCBody == {"a", "b", "c", "d", "x"}
MCRoot == {"r1", "r2", "r3", "rA", "rB", "rX"}

-----------------------------------------------------------------------------
(* One slot of two FEC sets, {0, 1} and {2, 3}, with two coding shreds     *)
(* each; conflicting and inconsistent shreds compete with the real ones.   *)
d0 == Data(7, 0, 0, "a", FALSE, FALSE)
d1 == Data(7, 1, 0, "b", TRUE, FALSE)
d2 == Data(7, 2, 2, "c", FALSE, FALSE)
d3 == Data(7, 3, 2, "d", TRUE, TRUE)
LeaderShreds ==
  {d0, d1, d2, d3} \cup {Code(7, 0, p, 2, 2, "rA") : p \in {0, 1}}
                   \cup {Code(7, 2, p, 2, 2, "rB") : p \in {0, 1}}

OddShreds ==
  {[d0 EXCEPT !.body = "x"],                           \* conflicting content
   [d1 EXCEPT !.sig = "other"],                        \* foreign signature
   [d3 EXCEPT !.fec = 3],                              \* foreign FEC set
   [d0 EXCEPT !.fec = 2],                              \* before its FEC set
   [d2 EXCEPT !.size = 3],                             \* oversized segment
   [Code(7, 0, 0, 2, 2, "rA") EXCEPT !.sig = "other"],
   Code(7, 2, 1, 2, 2, "rX"),                          \* root of no codeword
   Code(7, 0, 1, 2, 1, "rA"),                          \* position too large
   [Code(7, 2, 1, 2, 2, "rB") EXCEPT !.index = 0],     \* index < position
   Code(7, 2, 0, 7, 2, "rB"),                          \* set too large
   Code(7, 4, 0, 4, 2, "rB"),                          \* index overflow
   Code(7, 0, 0, 2, 2, NoRoot)}

Framed ==
  {[prefix |-> 64, zeros |-> TRUE, shred |-> d0],
   [prefix |-> 64, zeros |-> FALSE, shred |-> d1],
   [prefix |-> 0, zeros |-> FALSE, shred |-> NoShred]}

FecSlot == {7}
FecPacket == Native(LeaderShreds \cup OddShreds) \cup Framed
FecTime == {0}
FecOriginal == [r \in {"rA", "rB"} |-> IF r = "rA" THEN {d0, d1} ELSE {d2, d3}]
FecDecodable == {{<<0, "a">>, <<1, "b">>}, {<<2, "c">>, <<3, "d">>}}

-----------------------------------------------------------------------------
RootOf(s) == CASE s = 1 -> "r1" [] s = 2 -> "r2" [] s = 3 -> "r3"

(* Three slots of one FEC set each: three data shreds, one coding shred,   *)
(* and for the highest slot a coding shred with a bad header.              *)
SlotData(s) ==
  {Data(s, 0, 0, "a", FALSE, FALSE), Data(s, 1, 0, "b", FALSE, FALSE),
   Data(s, 2, 0, "c", TRUE, TRUE)}

SlotsSlot == {1, 2, 3}
SlotsPacket ==
  Native(UNION {SlotData(s) \cup {Code(s, 0, 0, 3, 1, RootOf(s))} :
                  s \in SlotsSlot}
         \cup {Code(3, 0, 1, 3, 1, "r3")})
SlotsTime == {0, 2}
SlotsOriginal ==
  [r \in {"r1", "r2", "r3"} |-> UNION {SlotData(s) : s \in {t \in SlotsSlot : RootOf(t) = r}}]
SlotsDecodable == {{<<0, "a">>, <<1, "b">>, <<2, "c">>}}
=============================================================================
