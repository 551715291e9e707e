----------------------- MODULE HighPerformanceClock -----------------------
(* src/src/core/clock.rs in milliseconds: a timestamp is a base plus the   *)
(* monotonic time elapsed since; recalibration moves the base to the wall  *)
(* clock when they differ by more than one millisecond.  The wall clock    *)
(* (external) is the monotonic one plus a skew that time synchronisation   *)
(* may change at any moment, in either direction.  The two clocks are read *)
(* one after the other, and the thread may be preempted in between.        *)
EXTENDS Integers

CONSTANTS
    CalibrationInterval,  \* calibration_interval_secs
    MaxSkew,              \* bound: largest difference of the two clocks
    MaxTime               \* bound: monotonic time

ASSUME ClockAssumption ==
    CalibrationInterval \in Nat /\ MaxSkew \in Nat /\ MaxTime \in Nat

VARIABLES
    mono,             \* Instant::now()
    skew,             \* system_time_micros() - mono
    baseInstant, baseTimestamp, lastCalibration,
    step,             \* "idle", or the read of a clock that comes next: "before",
                      \* "wall", "after" in new and reset, "monotonic", "utc" in recalibrate
    sample,           \* instant_before and timestamp; current_monotonic
    sampled,          \* samples taken by the loop of new
    best,             \* best_offset, best_instant and best_timestamp
    knownSkew,        \* history: the skew when the wall clock was last compared with
    gaps              \* history: how long the last calibration's comparisons took

clockVars == <<mono, skew, baseInstant, baseTimestamp, lastCalibration, step, sample,
               sampled, best, knownSkew, gaps>>

Abs(n) == IF n < 0 THEN -n ELSE n
Wall == mono + skew
now_micros == baseTimestamp + (mono - baseInstant)

Samples == 3
\* i64::MAX: any first sample is better than what best_* start with.
Unlimited == MaxTime + 1
\* Two reads, with the skew at the second one as history.
NoSample == [instant |-> 0, timestamp |-> 0, skew |-> 0]
NoBest == [latency |-> Unlimited, read |-> NoSample]

\* new: the clock is being constructed.
ClockInit ==
    /\ mono = 0 /\ skew \in -MaxSkew .. MaxSkew
    /\ baseInstant = 0 /\ baseTimestamp = 0 /\ lastCalibration = 0
    /\ step = "before" /\ sample = NoSample /\ sampled = 0 /\ best = NoBest
    /\ knownSkew = 0 /\ gaps = {}

Advance ==
    /\ mono < MaxTime
    /\ mono' = mono + 1
    /\ UNCHANGED <<skew, baseInstant, baseTimestamp, lastCalibration, step, sample,
                   sampled, best, knownSkew, gaps>>

\* The wall clock is stepped or slewed.
AdjustWall ==
    /\ skew' \in -MaxSkew .. MaxSkew
    /\ UNCHANGED <<mono, baseInstant, baseTimestamp, lastCalibration, step, sample,
                   sampled, best, knownSkew, gaps>>

\* reset: the old clock stays until the new one replaces it, but is borrowed.
Reset ==
    /\ step = "idle"
    /\ step' = "before" /\ sampled' = 0 /\ best' = NoBest /\ gaps' = {}
    /\ UNCHANGED <<mono, skew, baseInstant, baseTimestamp, lastCalibration, sample,
                   knownSkew>>

\* instant_before of a sample, current_monotonic of a recalibration.
ReadMonotonic ==
    /\ \/ step = "before" /\ step' = "wall"
       \/ step = "monotonic" /\ step' = "utc"
    /\ sample' = [sample EXCEPT !.instant = mono]
    /\ UNCHANGED <<mono, skew, baseInstant, baseTimestamp, lastCalibration, sampled,
                   best, knownSkew, gaps>>

\* The wall clock of a sample.
ReadWall ==
    /\ step = "wall" /\ step' = "after"
    /\ sample' = [sample EXCEPT !.timestamp = Wall, !.skew = skew]
    /\ UNCHANGED <<mono, skew, baseInstant, baseTimestamp, lastCalibration, sampled,
                   best, knownSkew, gaps>>

BestSample(latency) ==
    IF latency < best.latency THEN [latency |-> latency, read |-> sample] ELSE best

\* instant_after: the sample of the least latency is kept, and after the last one
\* becomes the base of the new clock.
ReadAfter ==
    LET latency == mono - sample.instant
        kept == BestSample(latency)
    IN
    /\ step = "after"
    /\ gaps' = gaps \cup {latency}
    /\ sample' = NoSample
    /\ IF sampled + 1 < Samples
       THEN /\ step' = "before" /\ sampled' = sampled + 1 /\ best' = kept
            /\ UNCHANGED <<baseInstant, baseTimestamp, lastCalibration, knownSkew>>
       ELSE /\ step' = "idle" /\ sampled' = 0 /\ best' = NoBest
            /\ baseInstant' = kept.read.instant /\ baseTimestamp' = kept.read.timestamp
            /\ lastCalibration' = kept.read.instant
            /\ knownSkew' = kept.read.skew
    /\ UNCHANGED <<mono, skew>>

\* now_micros_with_calibration: the interval has passed; otherwise it only reads.
Due == mono - lastCalibration >= CalibrationInterval

Recalibrate ==
    /\ step = "idle" /\ Due
    /\ step' = "monotonic"
    /\ UNCHANGED <<mono, skew, baseInstant, baseTimestamp, lastCalibration, sample,
                   sampled, best, knownSkew, gaps>>

\* Mutant: only a clock that is behind is corrected.
DriftedBehind(expected) == Wall - expected > 1

Drifted(expected) == Abs(Wall - expected) > 1

\* recalibrate, from the read of the wall clock on.
ReadUtc ==
    LET drifted == Drifted(baseTimestamp + (sample.instant - baseInstant)) IN
    /\ step = "utc" /\ step' = "idle"
    /\ baseInstant' = IF drifted THEN sample.instant ELSE baseInstant
    /\ baseTimestamp' = IF drifted THEN Wall ELSE baseTimestamp
    /\ lastCalibration' = sample.instant
    /\ sample' = NoSample
    /\ knownSkew' = skew /\ gaps' = {mono - sample.instant}
    /\ UNCHANGED <<mono, skew, sampled, best>>

ClockNext ==
    \/ Advance \/ AdjustWall
    \/ Reset \/ ReadMonotonic \/ ReadWall \/ ReadAfter \/ Recalibrate \/ ReadUtc

ClockSpec == ClockInit /\ [][ClockNext]_clockVars

-----------------------------------------------------------------------------
Read == [instant : Int, timestamp : Int, skew : Int]

ClockTypeOK ==
    /\ mono \in 0 .. MaxTime /\ skew \in Int /\ baseInstant \in Int
    /\ baseTimestamp \in Int /\ lastCalibration \in Int
    /\ step \in {"idle", "before", "wall", "after", "monotonic", "utc"}
    /\ sample \in Read /\ sampled \in 0 .. (Samples - 1)
    /\ best \in [latency : Nat, read : Read]
    /\ knownSkew \in Int /\ gaps \subseteq Nat

(* However the wall clock was adjusted, the thread preempted between the   *)
(* reads of the two clocks, and the base left alone for a drift too small, *)
(* timestamps never fall behind the wall clock as it was compared with at  *)
(* the last calibration by more than one millisecond, and never run ahead  *)
(* of it by more than one millisecond and what the comparison took: that   *)
(* of every one of the three samples, so the least, for new and reset, and *)
(* the only one for a recalibration.  Tolerated drifts and earlier         *)
(* preemptions do not add up (clock.rs:67-96, 128-149).                    *)
ErrorIsBounded ==
    step = "idle" =>
        LET error == now_micros - (mono + knownSkew)
        IN  error >= -1 /\ \A g \in gaps : error <= g + 1
=============================================================================
