---------------------------- MODULE ClockProofs ----------------------------
(***************************************************************************)
(* Theorems about the clock, for every window, threshold, delay and        *)
(* setting of the phone's clock.                                           *)
(***************************************************************************)
EXTENDS Clock, TLAPS

IInv == TypeOK /\ SamplesMeasure /\ NearFastSample

-----------------------------------------------------------------------------
(* The operators *)

LEMMA Empty ==
    /\ <<>> \in Seq(Samples) /\ <<>> \in Seq(Skews)
    /\ Len(<<>>) <= Window /\ Len(<<>>) <= MaxPending + 1
BY WindowAssumption, BoundsAssumption

\* The window keeps its size, and what it holds after a new sample is that
\* sample or was there before.
LEMMA PushKeeps ==
    ASSUME NEW s \in Seq(Samples), Len(s) <= Window, NEW m \in Samples
    PROVE  /\ Push(s, m) \in Seq(Samples) /\ Len(Push(s, m)) <= Window
           /\ Push(s, m) # <<>>
           /\ \A i \in DOMAIN Push(s, m) :
                 Push(s, m)[i] = m \/ \E k \in DOMAIN s : Push(s, m)[i] = s[k]
<1> DEFINE all == Append(s, m)
<1>1. all \in Seq(Samples) /\ Len(all) = Len(s) + 1
    OBVIOUS
<1>2. \A i \in 1..Len(all) : all[i] = m \/ \E k \in DOMAIN s : all[i] = s[k]
    OBVIOUS
<1>3. CASE Len(all) > Window
    <2>1. Tail(all) \in Seq(Samples) /\ Len(Tail(all)) = Len(s)
          /\ \A i \in 1..Len(Tail(all)) : Tail(all)[i] = all[i + 1]
        BY <1>1
    <2>2. Len(s) >= 1
        BY <1>1, <1>3, WindowAssumption
    <2>3. QED
        BY <1>1, <1>2, <1>3, <2>1, <2>2 DEF Push
<1>4. CASE ~(Len(all) > Window)
    BY <1>1, <1>2, <1>4, WindowAssumption DEF Push
<1>5. QED
    BY <1>3, <1>4

\* A correction ends within the slack of the estimate.
LEMMA CorrectedIsNear ==
    ASSUME NEW old \in Int \cup {NoOffset}, NEW estimate \in Int, NEW n \in Nat,
           NEW c \in Corrected(old, estimate, n)
    PROVE  c \in Int /\ Abs(c - estimate) <= Slack
<1>1. CASE c = estimate
    BY <1>1, TimesAssumption DEF Abs, Slack
<1>2. CASE c # estimate
    <2>1. old \in Int /\ Abs(estimate - old) <= SlewThreshold
        BY <1>2, OffsetAssumption, TimesAssumption DEF Corrected, Abs
    <2>2. c = old + (estimate - old) \div 4 \/ c = old - (old - estimate) \div 4
        BY <1>2 DEF Corrected
    <2>3. c \in Int
        BY <2>1, <2>2
    <2>4. QED
        BY <2>1, <2>2, <2>3, TimesAssumption DEF Abs, Slack
<1>3. QED
    BY <1>1, <1>2

\* A sample that was not disturbed is off by at most its round trip.
LEMMA MeasuredIsNear ==
    ASSUME NEW there \in Delays, NEW back \in Delays, NEW sent \in Skews, NEW got \in Skews,
           NEW m, m = Measured(0, there - sent, there - sent, there + back + got - sent, {sent, got})
    PROVE  /\ Acceptable(m) => m \in Samples
           /\ \A s \in Skews : m.skews = {s} => Abs(m.offset + 2 * s) <= m.rtt
<1>1. there \in Nat /\ back \in Nat /\ sent \in Int /\ got \in Int
    BY TimesAssumption
<1>2. m.offset = there - back - sent - got /\ m.rtt = there + back + got - sent
      /\ m.skews = {sent, got}
    BY <1>1 DEF Measured
<1>3. Acceptable(m) => m \in Samples
    BY <1>1, <1>2, TimesAssumption DEF Acceptable, Measured, Samples
<1>4. ASSUME NEW s \in Skews, m.skews = {s}
      PROVE  Abs(m.offset + 2 * s) <= m.rtt
    <2>1. sent = s /\ got = s
        BY <1>2, <1>4
    <2>2. QED
        BY <1>1, <1>2, <2>1 DEF Abs
<1>5. QED
    BY <1>3, <1>4

-----------------------------------------------------------------------------
(* The invariant *)

\* A pong that is used leaves the samples and the offset as they should be.
LEMMA AddKeeps ==
    ASSUME TypeOK, SamplesMeasure, NearFastSample, NEW m, Acceptable(m) => m \in Samples,
           \A s \in Skews : m.skews = {s} => Abs(m.offset + 2 * s) <= m.rtt,
           Add(m)
    PROVE  /\ samples' \in Seq(Samples) /\ Len(samples') <= Window
           /\ current' \in Int \cup {NoOffset}
           /\ SamplesMeasure' /\ NearFastSample'
<1>1. CASE ~Acceptable(m)
    BY <1>1 DEF Add, TypeOK, SamplesMeasure, NearFastSample, Fastest, Faster
<1>2. CASE Acceptable(m)
    <2>1. samples' = Push(samples, m) /\ m \in Samples
        BY <1>2 DEF Add
    <2>2. samples' \in Seq(Samples) /\ Len(samples') <= Window
          /\ \A i \in DOMAIN samples' :
                samples'[i] = m \/ \E k \in DOMAIN samples : samples'[i] = samples[k]
        BY <2>1, PushKeeps DEF TypeOK
    <2>3. PICK j \in Fastest(samples') :
             current' \in Corrected(current, samples'[j].offset, Len(samples'))
        BY <1>2 DEF Add
    <2>4. j \in DOMAIN samples' /\ samples'[j].offset \in Int
        <3>1. j \in DOMAIN samples'
            BY <2>3, Zenon DEF Fastest
        <3>2. samples'[j] \in Samples
            BY <2>2, <3>1
        <3>3. QED
            BY <3>1, <3>2 DEF Samples
    <2>5. current' \in Int /\ Abs(current' - samples'[j].offset) <= Slack
        BY <2>2, <2>3, <2>4, CorrectedIsNear DEF TypeOK
    <2>6. NearFastSample'
        BY <2>3, <2>5, OffsetAssumption DEF NearFastSample, Slack
    <2>7. SamplesMeasure'
        BY <2>2 DEF SamplesMeasure
    <2>8. QED
        BY <2>2, <2>5, <2>6, <2>7
<1>3. QED
    BY <1>1, <1>2

LEMMA InitGood == Init => IInv
<1> SUFFICES ASSUME Init PROVE IInv
    OBVIOUS
<1>1. TypeOK
    <2>0. up \in BOOLEAN
        BY Zenon DEF Init
    <2>1. skew \in Skews /\ base \in Skews
          /\ current \in Int \cup {NoOffset} /\ jumps \in 0..MaxJumps
        BY BoundsAssumption DEF Init
    <2>2. flight = <<>> /\ samples = <<>>
        BY DEF Init
    <2>3. QED
        BY <2>0, <2>1, <2>2, Empty DEF TypeOK
<1>2. samples = <<>>
    BY DEF Init
<1>3. SamplesMeasure
    <2>1. DOMAIN samples = {}
        BY <1>2
    <2>2. QED
        BY <2>1, Zenon DEF SamplesMeasure
<1>4. NearFastSample
    BY <1>2 DEF NearFastSample
<1>5. QED
    BY <1>1, <1>3, <1>4 DEF IInv

\* Without samples there is nothing to measure by.
LEMMA NoSamples ==
    ASSUME samples' = <<>>
    PROVE  SamplesMeasure' /\ NearFastSample'
BY DEF SamplesMeasure, NearFastSample

LEMMA SameSamples ==
    ASSUME SamplesMeasure, NearFastSample, UNCHANGED <<samples, current>>
    PROVE  SamplesMeasure' /\ NearFastSample'
BY DEF SamplesMeasure, NearFastSample, Fastest, Faster

LEMMA NextKeeps == IInv /\ [Next]_vars => IInv'
<1> SUFFICES ASSUME TypeOK, SamplesMeasure, NearFastSample, [Next]_vars
             PROVE  TypeOK' /\ SamplesMeasure' /\ NearFastSample'
    BY DEF IInv
<1> USE WindowAssumption, BoundsAssumption
<1>1. CASE Ping
    <2>1. TypeOK'
        BY <1>1 DEF Ping, TypeOK
    <2>2. QED
        BY <1>1, <2>1, SameSamples DEF Ping
<1>2. CASE Pong
    <2>1. PICK there \in Delays, back \in Delays :
             Add(Measured(0, there - Head(flight), there - Head(flight),
                          there + back + skew - Head(flight), {Head(flight), skew}))
        BY <1>2 DEF Pong
    <2> DEFINE m == Measured(0, there - Head(flight), there - Head(flight),
                             there + back + skew - Head(flight), {Head(flight), skew})
    <2>2. Head(flight) \in Skews /\ skew \in Skews
        BY <1>2 DEF Pong, TypeOK
    <2>3. /\ Acceptable(m) => m \in Samples
          /\ \A s \in Skews : m.skews = {s} => Abs(m.offset + 2 * s) <= m.rtt
        BY <2>2, MeasuredIsNear
    <2>4. /\ samples' \in Seq(Samples) /\ Len(samples') <= Window
          /\ current' \in Int \cup {NoOffset}
          /\ SamplesMeasure' /\ NearFastSample'
        BY <2>1, <2>3, AddKeeps
    <2>5. flight' \in Seq(Skews) /\ Len(flight') <= MaxPending + 1
        BY <1>2 DEF Pong, TypeOK
    <2>6. QED
        BY <1>2, <2>4, <2>5 DEF Pong, TypeOK
<1>3. CASE LatePong
    <2>1. flight # <<>>
        BY <1>3 DEF LatePong
    <2>2. TypeOK'
        BY <1>3, <2>1 DEF LatePong, TypeOK
    <2>3. QED
        BY <1>3, <2>2, SameSamples DEF LatePong
<1>4. CASE Drop
    <2>1. TypeOK'
        BY <1>4, Empty DEF Drop, TypeOK
    <2>2. QED
        BY <1>4, <2>1, SameSamples DEF Drop
<1>5. CASE Jump
    <2>1. TypeOK'
        BY <1>5 DEF Jump, TypeOK
    <2>2. QED
        BY <1>5, <2>1, SameSamples DEF Jump
<1>6. CASE Visible
    <2>1. flight' \in Seq(Skews) /\ Len(flight') <= MaxPending + 1
        <3>1. flight' = flight \/ (Len(flight) <= MaxPending /\ flight' = Append(flight, skew))
            BY <1>6 DEF Visible
        <3>2. QED
            BY <3>1 DEF TypeOK
    <2>2. CASE Jumped
        <3>1. samples' = <<>> /\ current' = current
            BY <1>6, <2>2 DEF Visible, Forget
        <3>2. TypeOK'
            BY <1>6, <2>1, <3>1, Empty DEF Visible, TypeOK
        <3>3. QED
            BY <3>1, <3>2, NoSamples
    <2>3. CASE ~Jumped
        <3>1. UNCHANGED <<samples, current>>
            BY <1>6, <2>3 DEF Visible
        <3>2. TypeOK'
            BY <1>6, <2>1, <3>1 DEF Visible, TypeOK
        <3>3. QED
            BY <3>1, <3>2, SameSamples
    <2>4. QED
        BY <2>2, <2>3
<1>7. CASE Reload
    <2>1. Saved(current) \in Int \cup {NoOffset}
        BY DEF Saved, TypeOK
    <2>2. TypeOK'
        BY <1>7, <2>1, Empty DEF Reload, TypeOK
    <2>3. QED
        BY <1>7, <2>2, NoSamples DEF Reload
<1>8. CASE UNCHANGED vars
    <2>1. TypeOK'
        BY <1>8 DEF vars, TypeOK
    <2>2. QED
        BY <1>8, <2>1, SameSamples DEF vars
<1>9. QED
    BY <1>1, <1>2, <1>3, <1>4, <1>5, <1>6, <1>7, <1>8 DEF Next

\* The offset in use is within the slack of a sample's, and the sample within
\* its round trip of the truth.
LEMMA NearEnough == IInv => OffsetWithinRoundTrip
<1> SUFFICES ASSUME TypeOK, SamplesMeasure, NearFastSample, Steady
             PROVE  \E j \in Fastest(samples) :
                        Abs(current - ServerOffset) <= samples[j].rtt + Slack
    BY DEF IInv, OffsetWithinRoundTrip
<1>1. PICK j \in Fastest(samples) : Abs(current - samples[j].offset) <= Slack
    BY DEF Steady, NearFastSample
<1>2. j \in DOMAIN samples /\ samples[j] \in Samples
    BY DEF Fastest, TypeOK
<1>3. Abs(samples[j].offset + 2 * skew) <= samples[j].rtt
    BY <1>2 DEF Steady, SamplesMeasure, TypeOK
<1>4. skew \in Int /\ current \in Int /\ samples[j].offset \in Int /\ samples[j].rtt \in Nat
    BY <1>2, TimesAssumption DEF Steady, NearFastSample, TypeOK, Samples
<1>5. SlewThreshold \in Nat /\ Slack \in Int
    BY TimesAssumption DEF Slack
<1>6. Abs(current - ServerOffset) <= samples[j].rtt + Slack
    BY <1>1, <1>3, <1>4, <1>5 DEF ServerOffset, Abs
<1>7. QED
    BY <1>6

\* Every variable of the clock keeps its type: no more pings are remembered
\* than may be, and the window keeps its size.
THEOREM TypeCorrect == Spec => []TypeOK
<1>1. IInv => TypeOK
    BY DEF IInv
<1>2. QED
    BY InitGood, NextKeeps, <1>1, PTL DEF Spec

\* While the phone's clock is not set, the offset it uses is off by no more than
\* half the round trip of one of the fastest samples and what slewing leaves.
THEOREM OffsetIsGood == Spec => []OffsetWithinRoundTrip
BY InitGood, NextKeeps, NearEnough, PTL DEF Spec
=============================================================================
