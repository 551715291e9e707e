------------------------- MODULE MCDecoderHistory --------------------------
(* Small instances of the decoder with its histories.                      *)
EXTENDS DecoderHistory, MCRawShredDecoder

ASSUME LeaderIsHonest == HonestLeader

(* Three slots of one FEC set each: two data shreds, one coding shred.     *)
PairData(s) ==
  {Data(s, 0, 0, "a", FALSE, FALSE), Data(s, 1, 0, "b", TRUE, TRUE)}

PairSlot == {1, 2, 3}
PairPacket ==
  Native(UNION {PairData(s) \cup {Code(s, 0, 0, 2, 1, RootOf(s))} :
                  s \in PairSlot})
OneInstant == {0}
PairOriginal ==
  [r \in {"r1", "r2", "r3"} |->
     UNION {PairData(s) : s \in {t \in PairSlot : RootOf(t) = r}}]
PairDecodable == {{<<0, "a">>, <<1, "b">>}}

-----------------------------------------------------------------------------
(* One slot of two FEC sets with segments that end at the set boundaries,  *)
(* three coding shreds for the first set, and a later slot of a single     *)
(* shred that moves the watermark: only the leader's shreds.               *)
LongSlot == {1, 2}
LongData(i) ==
  CASE i = 0 -> Data(1, 0, 0, "a", FALSE, FALSE)
    [] i = 1 -> Data(1, 1, 0, "b", FALSE, FALSE)
    [] i = 2 -> Data(1, 2, 0, "c", TRUE, FALSE)
    [] i = 3 -> Data(1, 3, 3, "a", FALSE, FALSE)
    [] i = 4 -> Data(1, 4, 3, "d", TRUE, TRUE)
LongPacket ==
  Native({LongData(i) : i \in 0 .. 4} \cup {Data(2, 0, 0, "d", TRUE, TRUE)}
         \cup {Code(1, 0, p, 3, 3, "r1") : p \in 0 .. 2}
         \cup {Code(1, 3, p, 2, 2, "r2") : p \in 0 .. 1})
LongTime == {0}
LongOriginal ==
  [r \in {"r1", "r2", "r3"} |->
     CASE r = "r1" -> {LongData(i) : i \in 0 .. 2}
       [] r = "r2" -> {LongData(i) : i \in 3 .. 4}
       [] r = "r3" -> {Data(2, 0, 0, "d", TRUE, TRUE)}]
LongDecodable ==
  {{<<0, "a">>, <<1, "b">>, <<2, "c">>}, {<<3, "a">>, <<4, "d">>},
   {<<0, "d">>}}
=============================================================================
