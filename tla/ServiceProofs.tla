--------------------------- MODULE ServiceProofs ---------------------------
(* Theorems about the calibrated clock, the registry of graduated pools,   *)
(* the WebSocket server and the legacy gRPC client, for every interval,    *)
(* skew, set of migrations, peers, capacity and number of concurrent       *)
(* calls.                                                                  *)
EXTENDS HighPerformanceClock, StonkFunPoolRegistry, WebSocketServer,
        ShredStreamGrpc, FiniteSetTheorems, TLAPS

-----------------------------------------------------------------------------
(* The clock. *)

\* How far the wall clock had moved away from the monotonic read before it, when it
\* was read: the error of a clock that takes the two reads for its base.
Offset(read) == read.timestamp - read.skew - read.instant

\* The reads under way: time has not gone back since the first of them, and what the
\* second one is off by has passed by now.
ReadsInOrder ==
    /\ step \in {"wall", "after", "utc"} => sample.instant \in 0 .. mono
    /\ step = "after" => Offset(sample) \in 0 .. (mono - sample.instant)

\* The sample kept is off by no more than its latency, which is the least so far.
BestIsLeast ==
    step \in {"before", "wall", "after"} =>
        /\ best.latency <= MaxTime => Offset(best.read) \in 0 .. best.latency
        /\ \A g \in gaps : best.latency <= g

\* The error bound speaks of an idle clock only; with what holds between the reads it
\* is inductive.
ClockInv == ClockTypeOK /\ ReadsInOrder /\ BestIsLeast /\ ErrorIsBounded

\* A clock under construction has taken no sample.
LEMMA ClockStarts == ClockInit => ClockInv
<1>1. SUFFICES ASSUME ClockInit PROVE ClockInv
  OBVIOUS
<1> USE <1>1, ClockAssumption DEF ClockInit, NoSample, NoBest, Unlimited
<1>2. ClockTypeOK
  BY DEF ClockTypeOK, Read, Samples
<1>3. ReadsInOrder /\ BestIsLeast /\ ErrorIsBounded
  BY DEF ReadsInOrder, BestIsLeast, ErrorIsBounded
<1> QED
  BY <1>2, <1>3 DEF ClockInv

\* The first of two reads.
LEMMA MonotonicStep == ClockInv /\ ReadMonotonic => ClockInv'
<1>1. SUFFICES ASSUME ClockInv, ReadMonotonic PROVE ClockInv'
  OBVIOUS
<1> USE <1>1, ClockAssumption DEF ClockInv, ReadMonotonic
<1>2. sample' \in Read /\ sample'.instant = mono
  BY DEF ClockTypeOK, Read
<1>3. ClockTypeOK'
  BY <1>2 DEF ClockTypeOK
<1>4. ReadsInOrder'
  BY <1>2 DEF ReadsInOrder, ClockTypeOK
<1>5. BestIsLeast' /\ ErrorIsBounded'
  BY DEF BestIsLeast, ErrorIsBounded, ClockTypeOK, Offset
<1> QED
  BY <1>3, <1>4, <1>5

\* The wall clock of a sample, read no sooner than the instant before it.
LEMMA WallStep == ClockInv /\ ReadWall => ClockInv'
<1>1. SUFFICES ASSUME ClockInv, ReadWall PROVE ClockInv'
  OBVIOUS
<1>2. /\ sample' \in Read /\ sample'.instant = sample.instant
      /\ sample'.timestamp = mono + skew /\ sample'.skew = skew
  <2>1. sample \in Read /\ mono + skew \in Int /\ skew \in Int
    BY <1>1, ClockAssumption DEF ClockInv, ClockTypeOK
  <2>2. sample' = [sample EXCEPT !.timestamp = mono + skew, !.skew = skew]
    BY <1>1 DEF ReadWall, Wall
  <2>3. sample' = [instant |-> sample.instant, timestamp |-> mono + skew, skew |-> skew]
    BY <2>1, <2>2 DEF Read
  <2> QED
    BY <2>1, <2>3 DEF Read
<1> USE <1>1, ClockAssumption DEF ClockInv, ReadWall
<1>3. ClockTypeOK'
  BY <1>2 DEF ClockTypeOK
<1>4. sample.instant \in 0 .. mono
  BY DEF ReadsInOrder
<1>5. Offset(sample)' = mono - sample.instant
  BY <1>2, <1>3, <1>4 DEF Offset, ClockTypeOK
<1>6. ReadsInOrder'
  BY <1>2, <1>4, <1>5 DEF ReadsInOrder, ClockTypeOK
<1>7. BestIsLeast' /\ ErrorIsBounded'
  BY DEF BestIsLeast, ErrorIsBounded, ClockTypeOK, Offset
<1> QED
  BY <1>3, <1>6, <1>7

\* The sample kept once one of the given latency has been taken.
Kept(kept, latency) ==
    /\ kept \in [latency : Nat, read : Read] /\ kept.latency <= MaxTime
    /\ Offset(kept.read) \in 0 .. kept.latency
    /\ \A g \in gaps \cup {latency} : kept.latency <= g

\* The better of the best sample so far and the one just taken is off by no more than
\* the least latency.
LEMMA KeptSample ==
    ASSUME ClockInv, step = "after"
    PROVE  LET latency == mono - sample.instant
           IN  latency \in 0 .. MaxTime /\ Kept(BestSample(latency), latency)
<1> DEFINE latency == mono - sample.instant
           kept == BestSample(latency)
<1> USE ClockAssumption DEF ClockInv
<1>1. latency \in 0 .. MaxTime /\ Offset(sample) \in 0 .. latency
  BY DEF ReadsInOrder, ClockTypeOK
<1>2. /\ best \in [latency : Nat, read : Read] /\ sample \in Read /\ gaps \subseteq Nat
      /\ best.latency <= MaxTime => Offset(best.read) \in 0 .. best.latency
      /\ \A g \in gaps : best.latency <= g
  BY DEF ClockTypeOK, BestIsLeast
<1> HIDE DEF latency, ClockInv
<1>3. ASSUME latency < best.latency PROVE Kept(kept, latency)
  <2>1. kept = [latency |-> latency, read |-> sample]
    BY <1>3 DEF BestSample
  <2>2. kept.latency = latency /\ kept.read = sample
    BY <2>1
  <2>3. \A g \in gaps \cup {latency} : latency <= g
    BY <1>1, <1>2, <1>3
  <2>4. kept \in [latency : Nat, read : Read]
    BY <1>1, <1>2, <2>1
  <2> HIDE DEF kept
  <2> QED
    BY <1>1, <2>2, <2>3, <2>4 DEF Kept
<1>4. ASSUME ~(latency < best.latency) PROVE Kept(kept, latency)
  <2>1. kept = best
    BY <1>4 DEF BestSample
  <2>2. best.latency \in Nat /\ best.latency <= latency
    BY <1>1, <1>2, <1>4
  <2> HIDE DEF kept
  <2> QED
    BY <1>1, <1>2, <2>1, <2>2 DEF Kept
<1> QED
  BY <1>1, <1>3, <1>4 DEF latency

\* The end of a sample; the last one gives the new clock its base.
LEMMA AfterStep == ClockInv /\ ReadAfter => ClockInv'
<1>1. SUFFICES ASSUME ClockInv, ReadAfter PROVE ClockInv'
  OBVIOUS
<1> DEFINE latency == mono - sample.instant
           kept == BestSample(latency)
<1>2. /\ step = "after" /\ gaps' = gaps \cup {latency} /\ sample' = NoSample
      /\ mono' = mono /\ skew' = skew
      /\ sampled + 1 < Samples =>
           /\ step' = "before" /\ sampled' = sampled + 1 /\ best' = kept
           /\ baseInstant' = baseInstant /\ baseTimestamp' = baseTimestamp
           /\ lastCalibration' = lastCalibration /\ knownSkew' = knownSkew
      /\ ~(sampled + 1 < Samples) =>
           /\ step' = "idle" /\ sampled' = 0 /\ best' = NoBest
           /\ baseInstant' = kept.read.instant /\ baseTimestamp' = kept.read.timestamp
           /\ lastCalibration' = kept.read.instant /\ knownSkew' = kept.read.skew
  BY <1>1 DEF ReadAfter
<1>3. /\ latency \in 0 .. MaxTime
      /\ kept \in [latency : Nat, read : Read] /\ kept.latency <= MaxTime
      /\ Offset(kept.read) \in 0 .. kept.latency
      /\ \A g \in gaps \cup {latency} : kept.latency <= g
  BY <1>1, <1>2, KeptSample DEF Kept
<1>4. ClockTypeOK
  BY <1>1 DEF ClockInv
<1>5. NoSample \in Read /\ NoBest \in [latency : Nat, read : Read]
  BY ClockAssumption DEF NoSample, NoBest, Unlimited, Read
<1> HIDE DEF latency, kept
<1>6. /\ kept.latency \in Nat
      /\ kept.read.instant \in Int /\ kept.read.timestamp \in Int /\ kept.read.skew \in Int
  BY <1>3 DEF Read
<1>7. gaps' \subseteq Nat
  BY <1>2, <1>3, <1>4 DEF ClockTypeOK
<1>8. ReadsInOrder'
  BY <1>2 DEF ReadsInOrder
<1>9. CASE sampled + 1 < Samples
  <2>1. ClockTypeOK'
    BY <1>2, <1>3, <1>4, <1>5, <1>7, <1>9 DEF ClockTypeOK, Samples
  <2>2. BestIsLeast' /\ ErrorIsBounded'
    BY <1>2, <1>3, <1>9 DEF BestIsLeast, ErrorIsBounded
  <2> QED
    BY <1>8, <2>1, <2>2 DEF ClockInv
<1>10. CASE ~(sampled + 1 < Samples)
  <2>1. ClockTypeOK'
    BY <1>2, <1>4, <1>5, <1>6, <1>7, <1>10 DEF ClockTypeOK, Samples
  <2>2. (now_micros - (mono + knownSkew))' = Offset(kept.read)
    BY <1>2, <1>4, <1>6, <1>10 DEF now_micros, Offset, ClockTypeOK
  <2>3. Offset(kept.read) >= -1 /\ \A g \in gaps' : Offset(kept.read) <= g + 1
    BY <1>2, <1>3, <1>6, <1>7
  <2>4. BestIsLeast' /\ ErrorIsBounded'
    BY <1>2, <1>10, <2>2, <2>3 DEF BestIsLeast, ErrorIsBounded
  <2> QED
    BY <1>8, <2>1, <2>4 DEF ClockInv
<1> QED
  BY <1>9, <1>10

\* A recalibration: the drift it sees has the delay of the wall clock's read in it.
LEMMA UtcStep == ClockInv /\ ReadUtc => ClockInv'
<1>1. SUFFICES ASSUME ClockInv, ReadUtc PROVE ClockInv'
  OBVIOUS
<1> DEFINE expected == baseTimestamp + (sample.instant - baseInstant)
           gap == mono - sample.instant
<1>2. /\ step = "utc" /\ step' = "idle" /\ sample' = NoSample
      /\ baseInstant' = IF Drifted(expected) THEN sample.instant ELSE baseInstant
      /\ baseTimestamp' = IF Drifted(expected) THEN mono + skew ELSE baseTimestamp
      /\ lastCalibration' = sample.instant
      /\ knownSkew' = skew /\ gaps' = {gap}
      /\ mono' = mono /\ skew' = skew /\ sampled' = sampled /\ best' = best
  BY <1>1 DEF ReadUtc, Wall
<1>3. ClockTypeOK /\ sample.instant \in 0 .. mono
  BY <1>1, <1>2 DEF ClockInv, ReadsInOrder
<1>4. /\ mono \in 0 .. MaxTime /\ skew \in Int /\ baseInstant \in Int
      /\ baseTimestamp \in Int /\ sample.instant \in Int /\ gap \in Nat
  BY <1>3, ClockAssumption DEF ClockTypeOK
<1>5. NoSample \in Read
  BY DEF NoSample, Read
<1>6. ClockTypeOK'
  <2>1. baseInstant' \in Int /\ baseTimestamp' \in Int
    BY <1>2, <1>4
  <2> QED
    BY <1>2, <1>3, <1>4, <1>5, <2>1 DEF ClockTypeOK
<1>7. (now_micros - (mono + knownSkew))' \in -1 .. (gap + 1)
  <2>1. CASE Drifted(expected)
    BY <1>2, <1>4, <2>1 DEF now_micros
  <2>2. CASE ~Drifted(expected)
    BY <1>2, <1>4, <2>2 DEF now_micros, Drifted, Abs, Wall
  <2> QED
    BY <2>1, <2>2
<1>8. ErrorIsBounded'
  BY <1>2, <1>4, <1>7 DEF ErrorIsBounded
<1>9. ReadsInOrder' /\ BestIsLeast'
  BY <1>2 DEF ReadsInOrder, BestIsLeast
<1> QED
  BY <1>6, <1>8, <1>9 DEF ClockInv

\* Every step keeps what holds of an idle clock and of the reads under way.
LEMMA ClockSteps == ClockInv /\ [ClockNext]_clockVars => ClockInv'
<1>1. SUFFICES ASSUME ClockInv, [ClockNext]_clockVars PROVE ClockInv'
  OBVIOUS
<1> USE <1>1, ClockAssumption
     DEF ClockInv, ClockTypeOK, ReadsInOrder, BestIsLeast, ErrorIsBounded, Offset,
         now_micros
<1>2. CASE Advance
  BY <1>2 DEF Advance
<1>3. CASE AdjustWall
  BY <1>3 DEF AdjustWall
<1>4. CASE Reset
  <2>1. NoBest \in [latency : Nat, read : Read] /\ NoBest.latency = MaxTime + 1
    BY DEF NoBest, NoSample, Unlimited, Read
  <2> QED
    BY <1>4, <2>1 DEF Reset, Samples
<1>5. CASE Recalibrate
  BY <1>5 DEF Recalibrate
<1>6. CASE UNCHANGED clockVars
  BY <1>6 DEF clockVars
<1> QED
  BY <1>2, <1>3, <1>4, <1>5, <1>6, MonotonicStep, WallStep, AfterStep, UtcStep
     DEF ClockNext

\* Whatever the wall clock does, wherever the thread is preempted and however many
\* calibrations leave the base alone, timestamps stay within one millisecond of the
\* wall clock as it was known at the last calibration, plus what reading the two
\* clocks took then (clock.rs, new_with_calibration_interval and recalibrate).
THEOREM ClockErrorIsBounded == ClockSpec => []ErrorIsBounded
<1>1. ClockInv => ErrorIsBounded
  BY DEF ClockInv
<1> QED
  BY <1>1, ClockStarts, ClockSteps, PTL DEF ClockSpec

-----------------------------------------------------------------------------
(* The registry. *)

\* That a snapshot is accepted rests on every snapshot being a former state of the
\* index, and on every state of the index having one well-formed entry per pool.
RegistryInv == RegistryValid /\ result # InvalidError

\* The entries of a batch are well formed and finitely many.
LEMMA EntriesOfBatch ==
    ASSUME NEW moves \in SUBSET Migration
    PROVE  /\ \A e \in from_migration(moves) : WellFormed(e)
           /\ \A old : Cardinality(from_migration(moves) \ old) \in Nat
<1>1. IsFiniteSet({Entry(m) : m \in moves})
  <2>1. IsFiniteSet(moves)
    BY RegistryAssumption, FS_Subset
  <2>2. [m \in moves |-> Entry(m)] \in Surjection(moves, {Entry(m) : m \in moves})
    BY DEF Surjection
  <2> QED
    BY <2>1, <2>2, FS_Surjection
<1>2. from_migration(moves) \subseteq {Entry(m) : m \in moves}
  BY DEF from_migration
<1>3. \A old : IsFiniteSet(from_migration(moves) \ old)
  BY <1>1, <1>2, FS_Subset
<1> QED
  BY <1>3, FS_CardinalityType DEF from_migration

\* Entries that are in conflict neither with the index nor with each other can join
\* the index.
LEMMA JoiningEntries ==
    ASSUME Accepts(pools), NEW entries, \A e \in entries : WellFormed(e), ~Conflict(entries)
    PROVE  Accepts(pools \cup entries)
<1>1. \A e \in pools \cup entries : WellFormed(e)
  BY DEF Accepts
<1>2. ASSUME NEW e \in pools \cup entries, NEW f \in pools \cup entries, f.pool = e.pool
      PROVE  f = e
  <2>1. CASE e \in entries
    BY <1>2, <2>1 DEF Conflict, Get
  <2>2. CASE f \in entries
    BY <1>2, <2>2 DEF Conflict, Get
  <2>3. CASE e \in pools /\ f \in pools
    BY <1>2, <2>3 DEF Accepts, Get
  <2> QED
    BY <2>1, <2>2, <2>3
<1> QED
  BY <1>1, <1>2 DEF Accepts, Get

\* One call: what it leaves behind, and what it may do to the index.
LEMMA RegistrySteps ==
    ASSUME RegistryInv, [RegistryNext]_registryVars
    PROVE  /\ RegistryInv'
           /\ result' = ConflictError => pools' = pools
           /\ pools \subseteq pools' \/ pools' \in snapshots
<1> USE DEF RegistryInv, RegistryValid, ConflictError, InvalidError
<1>1. CASE ObserveFailed
  BY <1>1 DEF ObserveFailed, Accepts, Get
<1>2. ASSUME NEW moves \in SUBSET Migration, observe_events(moves)
      PROVE  /\ RegistryInv'
             /\ result' = ConflictError => pools' = pools
             /\ pools \subseteq pools' \/ pools' \in snapshots
  <2> DEFINE entries == from_migration(moves)
  <2>1. CASE Conflict(entries)
    BY <1>2, <2>1 DEF observe_events, Accepts, Get
  <2>2. CASE ~Conflict(entries)
    <3>1. result' = Cardinality(entries \ pools) /\ pools' = pools \cup entries
          /\ snapshots' = snapshots
      BY <1>2, <2>2 DEF observe_events
    <3>2. result' \in Nat
      BY <3>1, EntriesOfBatch
    <3>3. Accepts(pools \cup entries)
      BY <2>2, EntriesOfBatch, JoiningEntries
    <3> QED
      BY <3>1, <3>2, <3>3 DEF Accepts, Get
  <2> QED
    BY <2>1, <2>2
<1>3. CASE Serialize
  BY <1>3 DEF Serialize, Accepts, Get
<1>4. ASSUME NEW entries \in snapshots, Deserialize(entries)
      PROVE  /\ RegistryInv'
             /\ result' = ConflictError => pools' = pools
             /\ pools \subseteq pools' \/ pools' \in snapshots
  <2>1. Accepts(entries)
    OBVIOUS
  <2>2. pools' = entries /\ result' = 0 /\ snapshots' = snapshots
    BY <1>4, <2>1 DEF Deserialize
  <2> QED
    BY <2>1, <2>2 DEF Accepts, Get
<1>5. CASE UNCHANGED registryVars
  BY <1>5 DEF registryVars, Accepts, Get
<1> QED
  BY <1>1, <1>2, <1>3, <1>4, <1>5 DEF RegistryNext

\* In every order of observation, replay, saving and restoring, a conflict leaves the
\* index as it was, no other call loses an entry except by going back to a snapshot,
\* and every snapshot that was written is accepted (stonkfun_registry.rs).
THEOREM RegistryIsStable == RegistrySpec => ProvenanceIsStable
<1>1. RegistryInit => RegistryInv
  BY DEF RegistryInit, RegistryInv, RegistryValid, Accepts, InvalidError
<1>2. RegistryInv /\ [RegistryNext]_registryVars => RegistryInv'
  BY RegistrySteps
<1>3. RegistryInv /\ [RegistryNext]_registryVars =>
        [/\ result' # InvalidError
         /\ result' = ConflictError => pools' = pools
         /\ pools \subseteq pools' \/ pools' \in snapshots]_registryVars
  BY RegistrySteps DEF RegistryInv
<1> QED
  BY <1>1, <1>2, <1>3, PTL DEF RegistrySpec, ProvenanceIsStable

-----------------------------------------------------------------------------
(* The WebSocket server. *)

WsInv ==
    /\ published \in Nat /\ joined \in [Peer -> Nat] /\ next \in [Peer -> Nat \ {0}]
    /\ delivered \in [Peer -> SUBSET Nat] /\ skipped \in [Peer -> SUBSET Nat]
    /\ peer \in [Peer -> {"absent", "handshake", "open", "closed"}]
    /\ \A p \in Peer : /\ Accounted(p)
                       /\ joined[p] < next[p] /\ next[p] <= published + 1
                       /\ peer[p] = "absent" => delivered[p] = {} /\ skipped[p] = {}

\* The receiver of a peer moves over a message by writing it, over several by lagging.
LEMMA PeerSteps ==
    ASSUME WsInv, NEW p \in Peer,
           \/ Accept(p) \/ HandshakeDone(p) \/ HandshakeFails(p)
           \/ Forward(p) \/ Lagged(p) \/ PeerLeaves(p)
    PROVE  WsInv'
<1> USE DEF WsInv
<1>0. /\ Oldest \in Nat /\ 1 <= Oldest /\ Oldest <= published + 1
      /\ delivered[p] \subseteq Nat /\ skipped[p] \subseteq Nat
      /\ next[p] \in Nat /\ joined[p] \in Nat /\ published \in Nat
  BY ServerAssumption DEF Oldest
<1>1. CASE Accept(p)
  BY <1>1 DEF Accept, Accounted
<1>2. CASE HandshakeDone(p) \/ HandshakeFails(p) \/ PeerLeaves(p)
  BY <1>2 DEF HandshakeDone, HandshakeFails, PeerLeaves, Accounted
<1>3. ASSUME NEW to \in Nat, next[p] < to, to <= published + 1, peer[p] = "open",
             next' = [next EXCEPT ![p] = to], UNCHANGED <<published, peer, joined>>,
             \/ /\ delivered' = [delivered EXCEPT ![p] = @ \cup next[p] .. (to - 1)]
                /\ skipped' = skipped
             \/ /\ skipped' = [skipped EXCEPT ![p] = @ \cup next[p] .. (to - 1)]
                /\ delivered' = delivered
      PROVE  WsInv'
  <2>1. /\ (joined[p] + 1) .. (to - 1)
              = ((joined[p] + 1) .. (next[p] - 1)) \cup (next[p] .. (to - 1))
        /\ ((joined[p] + 1) .. (next[p] - 1)) \cap (next[p] .. (to - 1)) = {}
        /\ next[p] .. (to - 1) \subseteq Nat
    BY <1>0, <1>3
  <2>2. /\ delivered[p] \cap skipped[p] = {}
        /\ delivered[p] \cup skipped[p] = (joined[p] + 1) .. (next[p] - 1)
    BY DEF Accounted
  <2>3. /\ delivered' \in [Peer -> SUBSET Nat] /\ skipped' \in [Peer -> SUBSET Nat]
        /\ next' \in [Peer -> Nat \ {0}]
    BY <1>0, <1>3, <2>1
  <2>4. /\ delivered'[p] \cap skipped'[p] = {}
        /\ delivered'[p] \cup skipped'[p] = (joined[p] + 1) .. (to - 1)
    BY <1>3, <2>1, <2>2
  <2>5. Accounted(p)'
    BY <1>3, <2>4 DEF Accounted
  <2>6. \A q \in Peer \ {p} : Accounted(q)'
    BY <1>3 DEF Accounted
  <2> QED BY <1>0, <1>3, <2>3, <2>5, <2>6
<1>4. CASE Forward(p)
  <2>1. PICK to \in Nat : to = next[p] + 1
    BY <1>0
  <2>2. next[p] .. (to - 1) = {next[p]} /\ next[p] < to /\ to <= published + 1
    BY <1>0, <1>4, <2>1 DEF Forward
  <2>3. /\ peer[p] = "open" /\ UNCHANGED <<published, peer, joined, skipped>>
        /\ next' = [next EXCEPT ![p] = to]
        /\ delivered' = [delivered EXCEPT ![p] = @ \cup {next[p]}]
    BY <1>4, <2>1 DEF Forward
  <2>4. delivered' = [delivered EXCEPT ![p] = @ \cup next[p] .. (to - 1)]
    BY <2>2, <2>3
  <2> QED BY <1>3, <2>2, <2>3, <2>4
<1>5. CASE Lagged(p)
  BY <1>0, <1>3, <1>5 DEF Lagged
<1> QED BY <1>1, <1>2, <1>4, <1>5

\* For any number of peers, any capacity of the broadcast channel and any timing of
\* handshakes: no message that is published after a peer was accepted passes its
\* receiver without being written or counted as lost, and none is written twice
\* (the safety part of PeersServed; ws_server.rs, the receive loop of a peer).
THEOREM PeersMissNothingSilently == WsSafety => [](\A p \in Peer : Accounted(p))
<1>1. WsInit => WsInv
  BY DEF WsInit, WsInv, Accounted
<1>2. WsInv /\ [WsNext]_wsVars => WsInv'
  <2> SUFFICES ASSUME WsInv, [WsNext]_wsVars PROVE WsInv'
    OBVIOUS
  <2>1. CASE Publish
    BY <2>1 DEF Publish, WsInv, Accounted
  <2>2. CASE UNCHANGED wsVars
    BY <2>2 DEF wsVars, WsInv, Accounted
  <2> QED BY <2>1, <2>2, PeerSteps DEF WsNext
<1>3. WsInv => \A p \in Peer : Accounted(p)
  BY DEF WsInv
<1> QED BY <1>1, <1>2, <1>3, PTL DEF WsSafety

-----------------------------------------------------------------------------
(* The legacy gRPC client. *)

Before(s, i) == {s[j] : j \in 1 .. (i - 1)}

\* A cache as the least recently used order of signatures: distinct, within the
\* capacity, and behind each of them exactly those looked up since.  What is not in
\* it was never looked up, or has left a full cache whose entries are all younger.
WindowInv(s, looked) ==
    /\ s \in Seq(Tx) /\ Len(s) <= DedupCapacity
    /\ looked \in [Tx -> SUBSET (Tx \cup {Idle})]
    /\ \A i, j \in 1 .. Len(s) : s[i] = s[j] => i = j
    /\ \A i \in 1 .. Len(s) : looked[s[i]] = Before(s, i)
    /\ \A t \in Tx : looked[t] = Never \/ Idle \notin looked[t]
    /\ \A t \in Tx : IsFiniteSet(looked[t])
    /\ \A t \in Tx \ Range(s) :
         looked[t] = Never \/ (Len(s) = DedupCapacity /\ Range(s) \subseteq looked[t])

LookedUp(looked, t) ==
    [u \in Tx |-> IF u = t THEN {}
                  ELSE IF looked[u] = Never THEN Never ELSE looked[u] \cup {t}]

GrpcInv ==
    /\ batch \in Seq(Tx) /\ channel \in Seq(Tx)
    /\ since \in [Cache -> [Tx -> SUBSET (Tx \cup {Idle})]]
    /\ WindowInv(processed, since["parser"])
    /\ WindowInv(processedTxs, since["global"])
    /\ DedupWindow

\* How many signatures precede a place.
LEMMA PlacesBefore ==
    ASSUME NEW s \in Seq(Tx), NEW i \in 1 .. Len(s) + 1
    PROVE  /\ IsFiniteSet(Before(s, i)) /\ Cardinality(Before(s, i)) <= i - 1
           /\ (\A j, k \in 1 .. Len(s) : s[j] = s[k] => j = k) =>
                Cardinality(Before(s, i)) = i - 1
<1> DEFINE f == [j \in 1 .. (i - 1) |-> s[j]]
<1>1. f \in Surjection(1 .. (i - 1), Before(s, i))
  BY DEF Before, Surjection
<1>2. i - 1 \in Nat /\ IsFiniteSet(1 .. (i - 1)) /\ Cardinality(1 .. (i - 1)) = i - 1
  <2>1. i - 1 \in Nat
    OBVIOUS
  <2>2. 1 \in Int /\ i - 1 \in Int /\ (1 > i - 1 <=> i - 1 = 0) /\ (i - 1) - 1 + 1 = i - 1
    BY <2>1
  <2> QED BY <2>1, <2>2, FS_Interval
<1>3. ASSUME \A j, k \in 1 .. Len(s) : s[j] = s[k] => j = k
      PROVE  f \in Injection(1 .. (i - 1), Before(s, i))
  <2>1. f \in [1 .. (i - 1) -> Before(s, i)]
    BY DEF Before
  <2>2. \A j, k \in 1 .. (i - 1) : f[j] = f[k] => j = k
    BY <1>3
  <2> HIDE DEF f
  <2> QED BY <2>1, <2>2 DEF Injection, IsInjective
<1> QED BY <1>1, <1>2, <1>3, FS_Surjection

\* What the look-up of t decides: a signature in the cache has fewer others behind it
\* than the capacity, one that has left it has at least as many.
LEMMA WindowDecides ==
    ASSUME NEW s, NEW looked, WindowInv(s, looked), NEW t \in Tx
    PROVE  t \notin Range(s) <=>
             (looked[t] = Never \/ Cardinality(looked[t]) >= DedupCapacity)
<1>0. /\ s \in Seq(Tx) /\ Len(s) \in Nat
      /\ DedupCapacity \in Nat \ {0} /\ Len(s) <= DedupCapacity /\ Idle \notin Tx
      /\ IsFiniteSet(looked[t])
  BY GrpcAssumption DEF WindowInv
<1>1. CASE t \in Range(s)
  <2>1. PICK i \in 1 .. Len(s) : s[i] = t
    BY <1>1 DEF Range
  <2>2. looked[t] = Before(s, i)
    BY <2>1 DEF WindowInv
  <2>3. i \in 1 .. Len(s) + 1 /\ i - 1 < DedupCapacity /\ i \in Nat
    BY <1>0
  <2>4. Cardinality(looked[t]) <= i - 1 /\ Cardinality(looked[t]) \in Nat
    BY <1>0, <2>2, <2>3, PlacesBefore, FS_CardinalityType
  <2>5. Idle \notin Before(s, i)
    BY <1>0 DEF Before
  <2>6. looked[t] # Never
    BY <2>2, <2>5 DEF Never
  <2>7. ~ (Cardinality(looked[t]) >= DedupCapacity)
    BY <1>0, <2>3, <2>4
  <2> QED BY <1>1, <2>6, <2>7
<1>2. CASE t \notin Range(s) /\ looked[t] # Never
  <2>1. Len(s) = DedupCapacity /\ Range(s) \subseteq looked[t]
    BY <1>2 DEF WindowInv
  <2>2. Len(s) + 1 \in 1 .. Len(s) + 1 /\ (Len(s) + 1) - 1 = Len(s)
    BY <1>0
  <2>3. Range(s) = Before(s, Len(s) + 1)
    BY <1>0, <2>2 DEF Range, Before
  <2>4. \A i, j \in 1 .. Len(s) : s[i] = s[j] => i = j
    BY DEF WindowInv
  <2>5. Cardinality(Range(s)) = Len(s)
    BY <1>0, <2>2, <2>3, <2>4, PlacesBefore
  <2>6. Cardinality(Range(s)) <= Cardinality(looked[t]) /\ Cardinality(looked[t]) \in Nat
    BY <1>0, <2>1, FS_Subset, FS_CardinalityType
  <2>7. Cardinality(looked[t]) >= DedupCapacity
    BY <1>0, <2>1, <2>5, <2>6
  <2> QED BY <1>2, <2>7
<1> QED BY <1>1, <1>2

\* Where a look-up puts a signature and what moves.
LEMMA PlaceProperties ==
    ASSUME NEW s \in Seq(Tx), Len(s) <= DedupCapacity, NEW t \in Tx
    PROVE  /\ Place(s, t) \in 1 .. DedupCapacity
           /\ IF t \in Range(s) THEN Place(s, t) \in 1 .. Len(s) /\ s[Place(s, t)] = t
              ELSE \/ Place(s, t) = Len(s) + 1 /\ Len(s) < DedupCapacity
                   \/ Place(s, t) = Len(s) /\ Len(s) = DedupCapacity
<1>0. Len(s) \in Nat /\ DedupCapacity \in Nat \ {0}
  BY GrpcAssumption
<1>1. CASE t \in Range(s)
  <2>1. \E i \in 1 .. Len(s) : s[i] = t
    BY <1>1 DEF Range
  <2>2. Place(s, t) \in 1 .. Len(s) /\ s[Place(s, t)] = t
    BY <1>1, <2>1 DEF Place
  <2> QED BY <1>0, <1>1, <2>2
<1>2. CASE t \notin Range(s)
  <2>1. Place(s, t) = IF Len(s) < DedupCapacity THEN Len(s) + 1 ELSE DedupCapacity
    BY <1>2 DEF Place
  <2>2. \/ Place(s, t) = Len(s) + 1 /\ Len(s) < DedupCapacity
        \/ Place(s, t) = Len(s) /\ Len(s) = DedupCapacity
    BY <1>0, <2>1
  <2>3. Place(s, t) \in 1 .. DedupCapacity
    BY <1>0, <2>2
  <2> QED BY <1>2, <2>2, <2>3
<1> QED BY <1>1, <1>2

LEMMA PutShape ==
    ASSUME NEW s \in Seq(Tx), Len(s) <= DedupCapacity, NEW t \in Tx
    PROVE  /\ Put(s, t) \in Seq(Tx) /\ Len(Put(s, t)) <= DedupCapacity
           /\ Len(Put(s, t)) = (IF Place(s, t) = Len(s) + 1 THEN Len(s) + 1 ELSE Len(s))
           /\ \A i \in 1 .. Len(Put(s, t)) :
                Put(s, t)[i] = IF i = 1 THEN t
                               ELSE IF i <= Place(s, t) THEN s[i - 1] ELSE s[i]
<1> DEFINE at == Place(s, t)
           n == IF at = Len(s) + 1 THEN Len(s) + 1 ELSE Len(s)
<1>1. /\ Len(s) \in Nat /\ n \in Nat
      /\ at \in 1 .. DedupCapacity /\ at <= Len(s) + 1
  BY PlaceProperties
<1>2. n <= DedupCapacity
  BY <1>1, PlaceProperties, GrpcAssumption
<1> HIDE DEF at
<1>3. DOMAIN s \cup {at} = 1 .. n
  BY <1>1
<1>4. Put(s, t) = [i \in 1 .. n |-> IF i = 1 THEN t
                                    ELSE IF i <= at THEN s[i - 1] ELSE s[i]]
  BY <1>3 DEF Put, at
<1>5. \A i \in 1 .. n : (IF i = 1 THEN t ELSE IF i <= at THEN s[i - 1] ELSE s[i]) \in Tx
  BY <1>1
<1>6. Put(s, t) \in [1 .. n -> Tx]
  BY <1>4, <1>5
<1>7. Put(s, t) \in Seq(Tx) /\ Len(Put(s, t)) = n
  BY <1>1, <1>6
<1> QED BY <1>2, <1>4, <1>7 DEF at

\* A look-up renews the window of t and counts for all the others.
LEMMA WindowMoves ==
    ASSUME NEW s, NEW looked, WindowInv(s, looked), NEW t \in Tx
    PROVE  WindowInv(Put(s, t), LookedUp(looked, t))
<1> DEFINE at == Place(s, t)
           r == Put(s, t)
           now == LookedUp(looked, t)
<1>0. /\ s \in Seq(Tx) /\ Len(s) <= DedupCapacity /\ Idle \notin Tx
      /\ Len(s) \in Nat /\ DedupCapacity \in Nat \ {0}
      /\ looked \in [Tx -> SUBSET (Tx \cup {Idle})]
      /\ \A i, j \in 1 .. Len(s) : s[i] = s[j] => i = j
  BY GrpcAssumption DEF WindowInv
<1>1. /\ at \in 1 .. DedupCapacity /\ at <= Len(s) + 1
      /\ t \in Range(s) => at <= Len(s) /\ s[at] = t
      /\ t \notin Range(s) => at >= Len(s)
      /\ t \notin Range(s) /\ at <= Len(s) => Len(s) = DedupCapacity
  BY <1>0, PlaceProperties
<1>2. /\ r \in Seq(Tx) /\ Len(r) <= DedupCapacity
      /\ Len(r) = (IF at = Len(s) + 1 THEN Len(s) + 1 ELSE Len(s))
      /\ \A i \in 1 .. Len(r) : r[i] = IF i = 1 THEN t ELSE IF i <= at THEN s[i - 1] ELSE s[i]
  BY <1>0, PutShape
<1>3. /\ now \in [Tx -> SUBSET (Tx \cup {Idle})]
      /\ now[t] = {}
      /\ \A u \in Tx : u # t /\ looked[u] = Never => now[u] = Never
      /\ \A u \in Tx : u # t /\ looked[u] # Never => now[u] = looked[u] \cup {t}
  BY <1>0 DEF LookedUp, Never
<1>4. \A i \in 1 .. Len(s) : s[i] = t <=> (t \in Range(s) /\ i = at)
  BY <1>0, <1>1 DEF Range
<1>5. \A t2 \in Tx : t2 \in Range(s) <=> \E i \in 1 .. Len(s) : s[i] = t2
  BY DEF Range
<1>6. \A t2 \in Tx : t2 \in Range(r) <=> \E i \in 1 .. Len(r) : r[i] = t2
  BY DEF Range
<1> HIDE DEF at, r, now
<1>shift. ASSUME NEW i \in 1 .. Len(r), i # 1
          PROVE  /\ i <= at => i - 1 \in 1 .. Len(s) /\ r[i] = s[i - 1] /\ s[i - 1] # t
                 /\ i > at => i \in 1 .. Len(s) /\ r[i] = s[i] /\ s[i] # t
  <2>1. CASE i <= at
    <3>1. i - 1 \in 1 .. Len(s) /\ i - 1 # at
      BY <1>0, <1>1, <1>2, <1>shift, <2>1
    <3>2. r[i] = s[i - 1]
      BY <1>2, <1>shift, <2>1
    <3> QED BY <1>0, <1>1, <1>4, <2>1, <3>1, <3>2
  <2>2. CASE i > at
    <3>1. i \in 1 .. Len(s) /\ i # at
      BY <1>0, <1>1, <1>2, <2>2
    <3>2. r[i] = s[i]
      BY <1>1, <1>2, <1>shift, <2>2
    <3> QED BY <1>0, <1>1, <1>4, <2>2, <3>1, <3>2
  <2> QED BY <1>0, <1>1, <2>1, <2>2
<1>7. ASSUME NEW i \in 1 .. Len(r), NEW j \in 1 .. Len(r), r[i] = r[j], i # j
      PROVE  FALSE
  <2>1. i # 1 /\ j # 1
    <3>1. 1 \in 1 .. Len(r) /\ r[1] = t
      BY <1>0, <1>1, <1>2
    <3>2. \A k \in 1 .. Len(r) : k # 1 => r[k] # t
      BY <1>0, <1>1, <1>shift
    <3> QED BY <1>7, <3>1, <3>2
  <2>2. i <= at /\ j <= at => i - 1 = j - 1
    BY <1>0, <1>7, <1>shift, <2>1
  <2>3. i > at /\ j > at => i = j
    BY <1>0, <1>7, <1>shift, <2>1
  <2>4. i <= at /\ j > at => i - 1 = j
    BY <1>0, <1>7, <1>shift, <2>1
  <2>5. i > at /\ j <= at => i = j - 1
    BY <1>0, <1>7, <1>shift, <2>1
  <2> QED BY <1>0, <1>1, <1>7, <2>2, <2>3, <2>4, <2>5
<1>8. ASSUME NEW i \in 1 .. Len(r) PROVE now[r[i]] = Before(r, i)
  <2>1. CASE i = 1
    BY <1>2, <1>3, <2>1 DEF Before
  <2>2. CASE i # 1 /\ i <= at
    <3>1. /\ i - 1 \in 1 .. Len(s) /\ r[i] = s[i - 1] /\ s[i - 1] # t /\ s[i - 1] \in Tx
          /\ i \in Nat /\ i > 1
      <4>1. i - 1 \in 1 .. Len(s) /\ r[i] = s[i - 1] /\ s[i - 1] # t
        BY <1>shift, <2>2
      <4>2. i \in Nat /\ i > 1
        BY <2>2
      <4> QED BY <1>0, <4>1, <4>2
    <3>2. looked[s[i - 1]] = Before(s, i - 1)
      BY <3>1 DEF WindowInv
    <3>3. looked[s[i - 1]] # Never
      <4>1. \A j \in 1 .. (i - 1) - 1 : j \in 1 .. Len(s)
        BY <3>1
      <4>2. Idle \notin Before(s, i - 1)
        BY <1>0, <4>1 DEF Before
      <4> QED BY <3>2, <4>2 DEF Never
    <3>4. Before(r, i) = Before(s, i - 1) \cup {t}
      <4>1. \A j \in 1 .. (i - 1) : r[j] = IF j = 1 THEN t ELSE s[j - 1]
        <5>1. \A j \in 1 .. (i - 1) : j \in 1 .. Len(r) /\ j <= at
          BY <1>0, <1>1, <1>2, <2>2
        <5> QED BY <1>2, <5>1
      <4>2. \A j \in 1 .. (i - 2) : j + 1 \in 1 .. (i - 1) /\ r[j + 1] = s[j]
        BY <3>1, <4>1
      <4>3. 1 \in 1 .. (i - 1) /\ (i - 1) - 1 = i - 2
        BY <3>1
      <4>4. \A j \in 1 .. (i - 1) : j # 1 => j - 1 \in 1 .. (i - 2)
        BY <3>1
      <4> QED BY <4>1, <4>2, <4>3, <4>4 DEF Before
    <3> QED BY <1>3, <3>1, <3>2, <3>3, <3>4
  <2>3. CASE i > at
    <3>1. /\ t \in Range(s) /\ i \in 1 .. Len(s) /\ r[i] = s[i] /\ s[i] # t /\ s[i] \in Tx
          /\ at < i /\ s[at] = t /\ at \in Nat /\ 1 <= at
      BY <1>0, <1>1, <1>2, <1>4, <2>3
    <3>2. looked[s[i]] = Before(s, i)
      BY <3>1 DEF WindowInv
    <3>3. looked[s[i]] # Never
      <4>1. at \in 1 .. (i - 1)
        BY <3>1
      <4>2. t \in Before(s, i)
        BY <3>1, <4>1 DEF Before
      <4> QED BY <1>0, <3>2, <4>2 DEF Never
    <3>4. Before(r, i) = Before(s, i) \cup {t}
      <4>1. \A j \in 1 .. (i - 1) : /\ r[j] = IF j = 1 THEN t
                                              ELSE IF j <= at THEN s[j - 1] ELSE s[j]
                                    /\ j # 1 => j - 1 \in 1 .. (i - 1)
        BY <1>2, <3>1
      <4>2. ASSUME NEW j \in 1 .. (i - 1) PROVE s[j] \in Before(r, i)
        <5>1. CASE j < at
          <6>1. j + 1 \in 1 .. (i - 1) /\ j + 1 <= at /\ j + 1 # 1 /\ (j + 1) - 1 = j
            BY <3>1, <5>1
          <6>2. r[j + 1] = s[j]
            BY <4>1, <6>1
          <6> QED BY <6>1, <6>2 DEF Before
        <5>2. CASE j = at
          <6>1. 1 \in 1 .. (i - 1) /\ r[1] = s[j]
            BY <3>1, <4>1, <5>2
          <6> QED BY <6>1 DEF Before
        <5>3. CASE j > at
          <6>1. r[j] = s[j]
            BY <3>1, <4>1, <5>3
          <6> QED BY <6>1 DEF Before
        <5> QED BY <3>1, <5>1, <5>2, <5>3
      <4>3. 1 \in 1 .. (i - 1) /\ r[1] = t
        BY <3>1, <4>1
      <4> QED BY <4>1, <4>2, <4>3 DEF Before
    <3> QED BY <1>3, <3>1, <3>2, <3>3, <3>4
  <2> QED BY <1>1, <1>2, <2>1, <2>2, <2>3
<1>9. \A u \in Tx : now[u] = Never \/ Idle \notin now[u]
  BY <1>0, <1>3 DEF WindowInv
<1>10. \A u \in Tx : IsFiniteSet(now[u])
  <2>1. \A u \in Tx : IsFiniteSet(looked[u]) /\ IsFiniteSet(looked[u] \cup {t})
    BY FS_AddElement DEF WindowInv
  <2>2. \A u \in Tx : u = t \/ now[u] = looked[u] \/ now[u] = looked[u] \cup {t}
    BY <1>3
  <2> QED BY <1>3, <2>1, <2>2, FS_EmptySet
<1>11. ASSUME NEW u \in Tx \ Range(r)
       PROVE  now[u] = Never \/ (Len(r) = DedupCapacity /\ Range(r) \subseteq now[u])
  <2>1. 1 \in 1 .. Len(r) /\ r[1] = t
    <3>1. 1 \in 1 .. Len(r)
      BY <1>0, <1>1, <1>2
    <3> QED BY <1>2, <3>1
  <2>2. u # t /\ u \in Tx
    BY <1>6, <2>1
  <2>3. \A x \in Tx : x \in Range(r) => x \in Range(s) \cup {t}
    <3>1. ASSUME NEW i \in 1 .. Len(r), i # 1 PROVE \E k \in 1 .. Len(s) : r[i] = s[k]
      BY <1>0, <1>1, <1>shift, <3>1
    <3>2. \A i \in 1 .. Len(r) : r[i] = t \/ \E k \in 1 .. Len(s) : r[i] = s[k]
      BY <1>2, <3>1
    <3> QED BY <1>5, <1>6, <3>2
  <2>4. Range(r) \subseteq Range(s) \cup {t}
    <3>1. Range(r) \subseteq Tx
      BY <1>2 DEF Range
    <3> QED BY <2>3, <3>1
  <2>5. CASE u \notin Range(s)
    <3>1. looked[u] = Never \/ (Len(s) = DedupCapacity /\ Range(s) \subseteq looked[u])
      BY <2>2, <2>5 DEF WindowInv
    <3>2. Len(s) = DedupCapacity => Len(r) = DedupCapacity
      BY <1>0, <1>1, <1>2
    <3> QED BY <1>3, <2>2, <2>4, <3>1, <3>2
  <2>6. CASE u \in Range(s)
    <3>1. PICK i \in 1 .. Len(s) : s[i] = u
      BY <1>5, <2>2, <2>6
    <3>2. i = Len(s) /\ at = Len(s) /\ Len(r) = Len(s) /\ t \notin Range(s)
      <4>1. i < at => i + 1 \in 1 .. Len(r) /\ r[i + 1] = s[i]
        BY <1>0, <1>1, <1>2, <3>1
      <4>2. i > at => i \in 1 .. Len(r) /\ r[i] = s[i]
        BY <1>0, <1>1, <1>2, <3>1
      <4>3. i = at
        BY <1>0, <1>1, <1>6, <2>2, <3>1, <4>1, <4>2
      <4>4. t \notin Range(s)
        BY <1>1, <2>2, <3>1, <4>3
      <4> QED BY <1>0, <1>1, <1>2, <3>1, <4>3, <4>4
    <3>3. Len(s) = DedupCapacity
      BY <1>0, <1>1, <3>2
    <3>4. looked[u] = Before(s, i)
      BY <3>1 DEF WindowInv
    <3>5. looked[u] # Never
      BY <1>0, <3>1, <3>4 DEF Before, Never
    <3>6. Range(r) \subseteq looked[u] \cup {t}
      <4>1. ASSUME NEW j \in 1 .. Len(r) PROVE r[j] = t \/ r[j] \in Before(s, i)
        <5>1. j # 1 => j - 1 \in 1 .. (i - 1) /\ r[j] = s[j - 1]
          BY <1>0, <1>1, <1>2, <3>2
        <5> QED BY <1>2, <5>1 DEF Before
      <4> QED BY <3>4, <4>1 DEF Range
    <3> QED BY <1>3, <2>2, <3>2, <3>3, <3>5, <3>6
  <2> QED BY <2>5, <2>6
<1> QED
  BY <1>2, <1>3, <1>7, <1>8, <1>9, <1>10, <1>11 DEF WindowInv, r, now

\* A look-up decides by the window as it was before it moves.
LEMMA DecisionIsRight ==
    ASSUME GrpcInv, NEW k \in Cache, NEW s, WindowInv(s, since[k]), NEW t \in Tx,
           Decide(k, s, t)
    PROVE  /\ since' \in [Cache -> [Tx -> SUBSET (Tx \cup {Idle})]]
           /\ WindowInv(Put(s, t), since'[k])
           /\ \A l \in Cache \ {k} : since'[l] = since[l]
           /\ DedupWindow'
<1>1. since \in [Cache -> [Tx -> SUBSET (Tx \cup {Idle})]]
  BY DEF GrpcInv
<1>2. since' = [since EXCEPT ![k] = LookedUp(since[k], t)]
  BY DEF Decide, LookedUp
<1>3. WindowInv(Put(s, t), LookedUp(since[k], t))
  BY WindowMoves
<1>4. LookedUp(since[k], t) \in [Tx -> SUBSET (Tx \cup {Idle})]
  BY <1>3 DEF WindowInv
<1>5. verdict'.fresh = (t \notin Range(s)) /\ verdict'.others = since[k][t]
  BY DEF Decide
<1>6. DedupWindow'
  BY <1>5, WindowDecides DEF DedupWindow
<1> QED BY <1>1, <1>2, <1>3, <1>4, <1>6

LEMMA GrpcSteps == GrpcInv /\ [GrpcNext]_grpcVars => GrpcInv'
<1> SUFFICES ASSUME GrpcInv, [GrpcNext]_grpcVars PROVE GrpcInv'
  OBVIOUS
<1>0. /\ batch \in Seq(Tx) /\ channel \in Seq(Tx)
      /\ since \in [Cache -> [Tx -> SUBSET (Tx \cup {Idle})]]
      /\ WindowInv(processed, since["parser"]) /\ WindowInv(processedTxs, since["global"])
      /\ "parser" \in Cache /\ "global" \in Cache
  BY DEF GrpcInv, Cache
<1>1. ASSUME UNCHANGED <<processed, processedTxs, since, verdict>>,
             batch' \in Seq(Tx), channel' \in Seq(Tx)
      PROVE  GrpcInv'
  BY <1>1 DEF GrpcInv, DedupWindow
<1>2. CASE ReadMessage
  <2>1. PICK b \in {<<t>> : t \in Tx} \cup {<<t, u>> : t, u \in Tx} : batch' = b
    BY <1>2 DEF ReadMessage
  <2>2. b \in Seq(Tx)
    OBVIOUS
  <2>3. UNCHANGED <<channel, processed, processedTxs, since, verdict>>
    BY <1>2 DEF ReadMessage
  <2> QED BY <1>0, <1>1, <2>1, <2>2, <2>3
<1>3. CASE TrySend
  <2>1. Tail(batch) \in Seq(Tx) /\ Append(channel, Head(batch)) \in Seq(Tx)
    BY <1>0, <1>3 DEF TrySend
  <2> QED BY <1>0, <1>1, <1>3, <2>1 DEF TrySend
<1>4. CASE ProcessTransaction
  <2>1. Head(channel) \in Tx /\ channel' \in Seq(Tx) /\ batch' = batch
        /\ processedTxs' = processedTxs
    BY <1>0, <1>4 DEF ProcessTransaction
  <2>2. CASE Head(channel) \in Unsigned
    BY <1>0, <1>1, <1>4, <2>1, <2>2 DEF ProcessTransaction
  <2>3. CASE Head(channel) \notin Unsigned
    <3>1. /\ processed' = Put(processed, Head(channel))
          /\ Decide("parser", processed, Head(channel))
      BY <1>4, <2>3 DEF ProcessTransaction
    <3>2. /\ since' \in [Cache -> [Tx -> SUBSET (Tx \cup {Idle})]]
          /\ WindowInv(processed', since'["parser"])
          /\ since'["global"] = since["global"]
          /\ DedupWindow'
      BY <1>0, <2>1, <3>1, DecisionIsRight
    <3> QED BY <1>0, <2>1, <3>2 DEF GrpcInv
  <2> QED BY <2>2, <2>3
<1>5. ASSUME NEW c \in Call, NEW t \in Tx, BeginShreder(c, t) PROVE GrpcInv'
  <2>1. UNCHANGED <<batch, channel, processed>>
    BY <1>5 DEF BeginShreder
  <2>2. CASE t \in Unsigned
    BY <1>0, <1>1, <1>5, <2>1, <2>2 DEF BeginShreder
  <2>3. CASE t \notin Unsigned
    <3>1. processedTxs' = Put(processedTxs, t) /\ Decide("global", processedTxs, t)
      BY <1>5, <2>3 DEF BeginShreder
    <3>2. /\ since' \in [Cache -> [Tx -> SUBSET (Tx \cup {Idle})]]
          /\ WindowInv(processedTxs', since'["global"])
          /\ since'["parser"] = since["parser"]
          /\ DedupWindow'
      BY <1>0, <3>1, DecisionIsRight
    <3> QED BY <1>0, <2>1, <3>2 DEF GrpcInv
  <2> QED BY <2>2, <2>3
<1>6. CASE StreamEnds \/ Return \/ (\E c \in Call : FinishShreder(c)) \/ UNCHANGED grpcVars
  <2>1. UNCHANGED <<batch, channel, processed, processedTxs, since, verdict>>
    BY <1>6 DEF StreamEnds, Return, FinishShreder, grpcVars
  <2> QED BY <1>0, <1>1, <2>1
<1>7. CASE DropSubscribe
  <2>1. channel' = <<>> /\ UNCHANGED <<batch, processed, processedTxs, since, verdict>>
    BY <1>7 DEF DropSubscribe
  <2>2. <<>> \in Seq(Tx)
    OBVIOUS
  <2> QED BY <1>0, <1>1, <2>1, <2>2
<1> QED BY <1>2, <1>3, <1>4, <1>5, <1>6, <1>7 DEF GrpcNext

\* For any number of transactions and concurrent calls, and any capacity of channel and
\* caches: a transaction is parsed exactly when it was never seen or at least as many
\* others as a cache holds were looked up since (parser/pumpfun.rs:70, grpc/mod.rs).
THEOREM RepetitionsAreCaught == GrpcSafety => []DedupWindow
<1>1. GrpcInit => GrpcInv
  <2> SUFFICES ASSUME GrpcInit PROVE GrpcInv
    OBVIOUS
  <2>1. WindowInv(<<>>, [t \in Tx |-> Never])
    <3>1. IsFiniteSet(Never)
      BY FS_Singleton DEF Never
    <3> QED BY <3>1, GrpcAssumption DEF WindowInv, Never, Range
  <2>2. since \in [Cache -> [Tx -> SUBSET (Tx \cup {Idle})]]
    BY DEF GrpcInit, Never
  <2> QED BY <2>1, <2>2 DEF GrpcInit, GrpcInv, DedupWindow, Cache
<1>2. GrpcInv => DedupWindow
  BY DEF GrpcInv
<1> QED BY <1>1, <1>2, GrpcSteps, PTL DEF GrpcSafety
=============================================================================
