------------------------------- MODULE Drift -------------------------------
(***************************************************************************)
(* web/src/sync/drift.ts and the alignment of web/src/audio/player.ts: how *)
(* the audio element is kept at the room's position, by playing a little   *)
(* faster or slower, or by a seek; and how the lag of seeks is learned.    *)
(*                                                                         *)
(* A step is one tick of the player.  Positions and drifts are in units in *)
(* which the slowest correction moves the element by one unit a tick, so a *)
(* rate is written as that movement: 0 is the normal rate.  Where the code *)
(* computes fractions, both neighbours are possible.  The first and the    *)
(* last moments of a track, where a tick seeks to 0 or does nothing, are   *)
(* left out.                                                               *)
(***************************************************************************)
EXTENDS Integers, Sequences, FiniteSets

CONSTANTS
    Deadband, CorrectAbove, SeekAbove,  \* deadbandMs, correctAboveMs, seekAboveMs
    MaxRate,           \* maxRateDelta
    CorrectionTicks,   \* correctionSeconds
    Settle, Cooldown,  \* settleMs and seekCooldownMs, in ticks
    Samples,           \* samples
    MaxBias,           \* MAX_BIAS_MS
    Lags,              \* how late a phone's seeks may land
    StoredBiases,      \* seekBiasMs kept from earlier visits, perhaps with another output
    Slips,             \* by how much the element, or the room's position, may jump
    ClockJumps,        \* by how many ticks the estimate of the server's clock may jump
    TickLength,        \* a tick, in units of positions
    MaxDisturbances    \* bound on jumps, pauses and changes of the track

ASSUME ThresholdsAssumption ==
    /\ Deadband \in Nat /\ CorrectAbove \in Nat /\ SeekAbove \in Nat
    /\ MaxRate \in Nat /\ CorrectionTicks \in Nat \ {0} /\ MaxBias \in Nat
ASSUME TicksAssumption ==
    Settle \in Nat /\ Cooldown \in Nat \ {0} /\ Settle <= Cooldown /\ Samples \in Nat \ {0}
\* What is stored was learned: it may have either sign.
ASSUME PhonesAssumption == Lags \subseteq Nat /\ StoredBiases \subseteq -MaxBias..MaxBias
ASSUME WorldAssumption ==
    /\ Slips \subseteq Int /\ ClockJumps \subseteq Int
    /\ TickLength \in Nat /\ MaxDisturbances \in Nat

\* How far the rate takes the element until a seek is measured: 5 % of about a
\* second, which is far from 700 ms.
Gain == MaxRate * (Settle + 1)
ASSUME GainAssumption == Gain < SeekAbove

VARIABLES
    drift,    \* the element's position minus the room's
    playing,  \* the element plays
    elRate,   \* the element's playbackRate
    control,  \* the fields of DriftController
    since,    \* ticks since lastSeekAt by the estimated clock, as far as they matter
    lag,      \* by how much this phone's seeks land late
    left,     \* disturbances that may still come
    moved,    \* history: by how much jumps moved the drift while a seek is unmeasured
    misjudged \* history: such a jump was taken for the lag of a seek

vars == <<drift, playing, elRate, control, since, lag, left, moved, misjudged>>

TypeOK ==
    /\ drift \in Int /\ playing \in BOOLEAN /\ elRate \in -MaxRate..MaxRate
    /\ control \in [rate : -MaxRate..MaxRate, seekBias : -MaxBias..MaxBias,
                    correcting : BOOLEAN, window : Seq(Int), seekMeasured : BOOLEAN]
    /\ Len(control.window) <= Samples
    /\ since \in Int /\ since <= Cooldown /\ lag \in Lags /\ left \in 0..MaxDisturbances
    /\ moved \in Nat /\ misjudged \in BOOLEAN

Abs(x) == IF x < 0 THEN -x ELSE x
Clamp(v, lo, hi) == IF v < lo THEN lo ELSE IF v > hi THEN hi ELSE v

-----------------------------------------------------------------------------
(* DriftController *)

\* driftMs: the median of the window.
Median(w) ==
    LET Before(i, j) == w[i] < w[j] \/ (w[i] = w[j] /\ i < j)
    IN  w[CHOOSE j \in DOMAIN w :
            Cardinality({i \in DOMAIN w : Before(i, j)}) = Len(w) \div 2]

Push(w, raw) == IF Len(w) < Samples THEN Append(w, raw) ELSE Append(Tail(w), raw)

\* Faulty: one bad measurement after the other adds up.
LearnedUnclamped(bias, raw) == {bias - (3 * raw) \div 5, bias + (-3 * raw) \div 5}

\* Faulty: learns the wrong way.
LearnedAway(bias, raw) ==
    {Clamp(b, -MaxBias, MaxBias) : b \in {bias + (3 * raw) \div 5, bias - (-3 * raw) \div 5}}

\* Three fifths of what was measured, rounded either way.
Learned(bias, raw) ==
    {Clamp(b, -MaxBias, MaxBias) : b \in {bias - (3 * raw) \div 5, bias + (-3 * raw) \div 5}}

\* Faulty: away from the room.
RateAway(d) ==
    LET step == Clamp((Abs(d) + CorrectionTicks - 1) \div CorrectionTicks, 0, MaxRate)
    IN  IF d > 0 THEN step ELSE -step

\* Towards the room, by at least one unit a tick.
RateFor(d) ==
    LET step == Clamp((Abs(d) + CorrectionTicks - 1) \div CorrectionTicks, 0, MaxRate)
    IN  IF d > 0 THEN -step ELSE step

\* noteSeek
NotedSeek(c) == [c EXCEPT !.window = <<>>, !.seekMeasured = FALSE]

\* A seek to where the room will be when it lands.
Landed == control.seekBias - lag

\* reset
Reset(c) == [c EXCEPT !.window = <<>>, !.correcting = FALSE, !.rate = 0]

Correcting(c, d) ==
    LET begun == c.correcting \/ Abs(d) > CorrectAbove IN begun /\ Abs(d) >= Deadband

\* observe(), after the seek has settled.  Returns what becomes of the
\* controller, the element and the time of the last seek.
Observed(c, raw) ==
    LET d == Median(c.window)
        correcting == Correcting(c, d)
        rate == IF correcting THEN RateFor(d) ELSE 0
    IN  IF Abs(d) > SeekAbove \/ Abs(raw) > 3 * SeekAbove THEN
            IF since < Cooldown THEN [c |-> c, kind |-> "hold"]
            ELSE [c |-> NotedSeek(Reset(c)), kind |-> "seek"]
        ELSE IF rate # c.rate
             THEN [c |-> [c EXCEPT !.correcting = correcting, !.rate = rate], kind |-> "rate"]
        ELSE [c |-> [c EXCEPT !.correcting = correcting], kind |-> "hold"]

\* Right after a seek its error is measured.
Measured(c, raw) ==
    IF c.seekMeasured THEN {c}
    ELSE {[c EXCEPT !.seekMeasured = TRUE, !.seekBias = b] :
             b \in IF Abs(raw) < SeekAbove THEN Learned(c.seekBias, raw) ELSE {c.seekBias}}

\* From the cooldown on, the time since a seek does not matter.
Capped(ticks) == IF ticks < Cooldown THEN ticks ELSE Cooldown
Later == Capped(since + 1)

\* Jumps that may make up for a seek that was off by as much as calls for another.
Spoilt == moved > SeekAbove - Gain

-----------------------------------------------------------------------------
Init ==
    /\ drift = 0 /\ playing = FALSE /\ elRate = 0
    /\ control \in [rate : {0}, seekBias : StoredBiases, correcting : {FALSE}, window : {<<>>},
                    seekMeasured : {TRUE}]
    /\ since = Cooldown
    /\ lag \in Lags
    /\ left = MaxDisturbances
    /\ moved = 0 /\ misjudged = (Abs(Landed) > SeekAbove)

\* tick() with the element paused and the room playing: seek, noteSeek, play.
Start ==
    /\ ~playing
    /\ playing' = TRUE
    /\ drift' = Landed
    /\ control' = NotedSeek(control)
    /\ since' = 0 /\ moved' = 0
    /\ UNCHANGED <<elRate, lag, left, misjudged>>

\* tick() with the element playing; it has moved since the last one.
Tick ==
    /\ playing
    /\ LET raw == drift + elRate
       IN  IF since < Settle
           THEN drift' = raw /\ since' = Later /\ UNCHANGED <<elRate, control, moved, misjudged>>
           ELSE \E measured \in Measured([control EXCEPT !.window = Push(@, raw)], raw) :
                  LET o == Observed(measured, raw)
                  IN  /\ control' = o.c
                      /\ drift' = IF o.kind = "seek" THEN measured.seekBias - lag ELSE raw
                      /\ since' = IF o.kind = "seek" THEN 0 ELSE Later
                      /\ elRate' = IF o.kind = "rate" THEN o.c.rate ELSE elRate
                      /\ moved' = 0
                      /\ misjudged' = (misjudged \/ (Spoilt /\ o.c.seekBias # control.seekBias))
    /\ UNCHANGED <<playing, lag, left>>

Disturbed == left > 0 /\ left' = left - 1

Moves(by) == moved' = IF control.seekMeasured THEN moved ELSE moved + by

\* The element stalls; or the room's position jumps: the listener changes the
\* latency, or a seek of the room arrives late.
Slip ==
    /\ playing /\ Disturbed
    /\ \E by \in Slips : drift' = drift + by /\ Moves(Abs(by))
    /\ UNCHANGED <<playing, elRate, control, since, lag, misjudged>>

\* The estimate of the server's clock is corrected at once.  The room's
\* position depends on it, and so does the time since the last seek.
ClockCorrected ==
    /\ playing /\ Disturbed
    /\ \E ticks \in ClockJumps :
           /\ drift' = drift - ticks * TickLength
           /\ \E passed \in IF since = Cooldown THEN Cooldown..(Cooldown + Abs(ticks)) ELSE {since} :
                  since' = Capped(passed + ticks)
           /\ Moves(Abs(ticks) * (TickLength + MaxRate))
    /\ UNCHANGED <<playing, elRate, control, lag, misjudged>>

\* The room, or this phone, pauses, which sets the element's rate back; or the
\* room stops, or starts a track soon, which does not.
Pause ==
    /\ playing /\ Disturbed
    /\ playing' = FALSE
    /\ elRate' \in {0, elRate}
    /\ UNCHANGED <<drift, control, since, lag, moved, misjudged>>

\* Another track is loaded, which sets the element's rate back.
NextTrack ==
    /\ Disturbed
    /\ playing' = FALSE
    /\ elRate' = 0
    /\ control' = Reset(control)
    /\ UNCHANGED <<drift, since, lag, moved, misjudged>>

Next == Start \/ Tick \/ Slip \/ ClockCorrected \/ Pause \/ NextTrack

\* The player's interval runs.
Spec == Init /\ [][Next]_vars /\ WF_vars(Tick)

-----------------------------------------------------------------------------
(* Properties *)

\* The element is sought: only that sets the time since the last seek back.
Seeks == Start \/ (Tick /\ since' < since)

\* Every seek, at the start or while playing, lands within the distance that
\* calls for another one, whatever is learned on the way and at whatever rate
\* the element goes until it is measured; unless a jump of nearly that distance
\* was once taken for the lag of a seek, or what another output left behind is
\* off by more.
SeeksLandNear ==
    [][ Seeks /\ ~misjudged' => Abs(drift') <= SeekAbove ]_vars

\* Not so: it does anyway.  A jump between a seek and its measurement can be
\* learned from until seeks land where they are not learned from any more.
SeeksAlwaysLandNear == [][ Seeks => Abs(drift') <= SeekAbove ]_vars

\* Not so: a seek takes the element closer to the room than it was.
SeeksHelp == [][ Tick /\ since' < since => Abs(drift') < Abs(drift + elRate) ]_vars

InStep == playing /\ Abs(drift) <= CorrectAbove

\* Not so: once it is left alone, a playing element comes to within what is not
\* corrected of the room, and stays there.
ComesIntoStep == <>[]playing => <>[]InStep

\* It does, but for two cases.  An element whose rate is not the one the
\* controller set (a pause sets back one, a seek the other) still stays within
\* the distance of a seek.  And seeks that land too far off to be learned from
\* stay so.
Misled == playing /\ elRate # control.rate /\ Abs(drift) <= SeekAbove
OutOfReach == Abs(Landed) > SeekAbove - Gain
ComesIntoStepIfItCan == <>[]playing => <>[](InStep \/ Misled \/ OutOfReach)
=============================================================================
