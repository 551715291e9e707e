-------------------------- MODULE MCRawShredClient --------------------------
(* Two slots of two data shreds; the slower one may fall silent.           *)
EXTENDS RawShredClient

Data(s, i, b, lst) ==
  [kind |-> "data", slot |-> s, index |-> i, fec |-> 0, head |-> "v1",
   sig |-> "leader", body |-> b, complete |-> lst, last |-> lst, size |-> 1]

MCSlot == {1, 2}
MCPacket ==
  {[prefix |-> 0, zeros |-> FALSE, shred |-> x] :
     x \in {Data(1, 0, "a", FALSE), Data(1, 1, "b", TRUE),
            Data(2, 0, "a", FALSE)}}
MCHeader == {"v1"}
MCSig == {"leader"}
MCBody == {"a", "b"}
MCRoot == {"r"}
MCTime == 0 .. Now
MCOriginal == [r \in {} |-> {}]
MCDecodable == {{<<0, "a">>, <<1, "b">>}}
=============================================================================
