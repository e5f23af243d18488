---------------------------- MODULE DriftProofs ----------------------------
(***************************************************************************)
(* Theorems about the drift controller, for every threshold, window, rate  *)
(* and number of jumps, pauses and tracks: it keeps its bounds, and what   *)
(* it learns of seeks never makes one land where the next is called for,   *)
(* unless a jump of nearly that distance was taken for the lag of a seek.  *)
(***************************************************************************)
EXTENDS Drift, TLAPS, FiniteSetTheorems

\* Where a seek lands is within reach, but for what was learned from jumps.
LandsNear == ~misjudged => Abs(Landed) <= SeekAbove

\* The ticks since a seek in which its element moved without being measured.
Unmeasured == IF since > Settle THEN Settle ELSE since

\* Until it is measured, an element is where the seek landed, but for its rate
\* and for the jumps since.
UnmeasuredIsNear ==
    playing /\ ~control.seekMeasured =>
        Abs(drift - Landed) <= moved + MaxRate * Unmeasured

-----------------------------------------------------------------------------
(* The median *)

\* As many elements of a window are below one of them as one likes.
LEMMA EveryRankIsTaken ==
    ASSUME NEW w \in Seq(Int), NEW k \in 0..(Len(w) - 1)
    PROVE  \E j \in DOMAIN w :
              Cardinality({i \in DOMAIN w : w[i] < w[j] \/ (w[i] = w[j] /\ i < j)}) = k
<1> DEFINE D == DOMAIN w
           below(j) == {i \in D : w[i] < w[j] \/ (w[i] = w[j] /\ i < j)}
           rank == [j \in D |-> Cardinality(below(j))]
<1>1. /\ Len(w) \in Nat /\ D = 1..Len(w) /\ \A i \in D : i \in Int /\ w[i] \in Int
      /\ IsFiniteSet(D) /\ Cardinality(D) = Len(w)
    <2>1. Len(w) \in Nat /\ D = 1..Len(w) /\ \A i \in D : i \in Int /\ w[i] \in Int
        OBVIOUS
    <2>2. QED
        BY <2>1, FS_Interval
<1> HIDE DEF D
<1>2. ASSUME NEW j \in D
      PROVE  IsFiniteSet(below(j)) /\ Cardinality(below(j)) \in 0..(Len(w) - 1)
    <2>1. below(j) \in SUBSET (D \ {j})
        BY <1>1
    <2>2. IsFiniteSet(D \ {j}) /\ Cardinality(D \ {j}) = Len(w) - 1
        <3>1. /\ IsFiniteSet(D \ {j})
              /\ Cardinality(D \ {j}) = IF j \in D THEN Cardinality(D) - 1 ELSE Cardinality(D)
            BY <1>1, FS_RemoveElement
        <3>2. QED
            BY <1>1, <3>1
    <2> HIDE DEF below
    <2>3. IsFiniteSet(below(j)) /\ Cardinality(below(j)) <= Len(w) - 1
        BY <2>1, <2>2, FS_Subset
    <2>4. QED
        BY <1>1, <2>3, FS_CardinalityType
<1>3. ASSUME NEW i \in D, NEW j \in D, w[i] < w[j] \/ (w[i] = w[j] /\ i < j)
      PROVE  Cardinality(below(i)) # Cardinality(below(j))
    <2>1. below(i) \in SUBSET below(j)
        BY <1>1, <1>3
    <2>2. i \in below(j) /\ i \notin below(i)
        BY <1>1, <1>3
    <2>3. IsFiniteSet(below(j))
        BY <1>2
    <2> HIDE DEF below
    <2>4. QED
        BY <2>1, <2>2, <2>3, FS_Subset
<1>4. ASSUME NEW i \in D, NEW j \in D, i # j
      PROVE  Cardinality(below(i)) # Cardinality(below(j))
    <2>1. (w[i] < w[j] \/ (w[i] = w[j] /\ i < j)) \/ (w[j] < w[i] \/ (w[j] = w[i] /\ j < i))
        BY <1>1, <1>4
    <2> HIDE DEF below
    <2>2. QED
        BY <1>3, <2>1
<1>5. \E j \in D : Cardinality(below(j)) = k
    <2> SUFFICES ASSUME \A j \in D : Cardinality(below(j)) # k PROVE FALSE
        OBVIOUS
    <2> DEFINE T == (0..(Len(w) - 1)) \ {k}
    <2>1. IsFiniteSet(T) /\ Cardinality(T) = Len(w) - 1
        <3>1. IsFiniteSet(0..(Len(w) - 1)) /\ Cardinality(0..(Len(w) - 1)) = Len(w)
            <4> DEFINE n == Len(w) - 1
            <4>1. n \in Int
                BY <1>1
            <4>2. ~(0 > n) /\ n - 0 + 1 = Len(w)
                BY <1>1
            <4> HIDE DEF n
            <4>3. IsFiniteSet(0..n) /\ Cardinality(0..n) = IF 0 > n THEN 0 ELSE n - 0 + 1
                BY <4>1, FS_Interval
            <4>4. QED
                BY <4>2, <4>3 DEF n
        <3>2. /\ IsFiniteSet(T)
              /\ Cardinality(T) = IF k \in 0..(Len(w) - 1) THEN Cardinality(0..(Len(w) - 1)) - 1
                                  ELSE Cardinality(0..(Len(w) - 1))
            BY <3>1, FS_RemoveElement
        <3>3. QED
            BY <3>1, <3>2
    <2>2. rank \in [D -> T]
        <3> HIDE DEF below
        <3>1. QED
            BY <1>2
    <2> HIDE DEF T, rank
    <2>3. PICK i, j \in D : i # j /\ rank[i] = rank[j]
        <3>1. Cardinality(T) < Cardinality(D)
            BY <1>1, <2>1
        <3>2. QED
            BY <1>1, <2>1, <2>2, <3>1, FS_PigeonHole
    <2>4. rank[i] = Cardinality(below(i)) /\ rank[j] = Cardinality(below(j))
        BY DEF rank
    <2>5. QED
        BY <1>4, <2>3, <2>4
<1>6. QED
    BY <1>5 DEF D

LEMMA MedianType ==
    ASSUME NEW w \in Seq(Int), Len(w) > 0
    PROVE  Median(w) \in Int
<1> DEFINE P(j) == Cardinality({i \in DOMAIN w : w[i] < w[j] \/ (w[i] = w[j] /\ i < j)})
                      = Len(w) \div 2
<1>1. Len(w) \div 2 \in 0..(Len(w) - 1)
    OBVIOUS
<1>2. \E j \in DOMAIN w : P(j)
    BY <1>1, EveryRankIsTaken
<1>3. Median(w) = w[CHOOSE j \in DOMAIN w : P(j)]
    BY DEF Median
<1> HIDE DEF P
<1>4. (CHOOSE j \in DOMAIN w : P(j)) \in DOMAIN w
    BY <1>2
<1>5. QED
    BY <1>3, <1>4

-----------------------------------------------------------------------------
(* The controller *)

Controls == [rate : -MaxRate..MaxRate, seekBias : -MaxBias..MaxBias,
             correcting : BOOLEAN, window : Seq(Int), seekMeasured : BOOLEAN]

LEMMA PushType ==
    ASSUME NEW w \in Seq(Int), Len(w) <= Samples, NEW raw \in Int
    PROVE  Push(w, raw) \in Seq(Int) /\ Len(Push(w, raw)) \in 1..Samples
<1>1. Samples \in Nat /\ Samples > 0
    BY TicksAssumption
<1>2. CASE Len(w) < Samples
    BY <1>1, <1>2 DEF Push
<1>3. CASE ~(Len(w) < Samples)
    <2>1. w # <<>> /\ Len(w) = Samples
        BY <1>1, <1>3
    <2>2. Tail(w) \in Seq(Int) /\ Len(Tail(w)) = Samples - 1
        BY <2>1
    <2>3. QED
        BY <1>1, <1>3, <2>2 DEF Push
<1>4. QED
    BY <1>2, <1>3

LEMMA ResetType ==
    ASSUME NEW c \in Controls
    PROVE  Reset(c) \in Controls /\ Reset(c).seekBias = c.seekBias /\ Len(Reset(c).window) = 0
           /\ Reset(c).seekMeasured = c.seekMeasured
<1>1. <<>> \in Seq(Int) /\ Len(<<>>) = 0 /\ 0 \in -MaxRate..MaxRate
    BY ThresholdsAssumption
<1>2. QED
    BY <1>1 DEF Reset, Controls

LEMMA NotedSeekType ==
    ASSUME NEW c \in Controls
    PROVE  /\ NotedSeek(c) \in Controls /\ NotedSeek(c).seekBias = c.seekBias
           /\ Len(NotedSeek(c).window) = 0 /\ ~NotedSeek(c).seekMeasured
<1>1. <<>> \in Seq(Int) /\ Len(<<>>) = 0
    OBVIOUS
<1>2. QED
    BY <1>1 DEF NotedSeek, Controls

LEMMA RateType ==
    ASSUME NEW d \in Int
    PROVE  RateFor(d) \in -MaxRate..MaxRate
<1> DEFINE v == (Abs(d) + CorrectionTicks - 1) \div CorrectionTicks
<1>1. v \in Int
    BY ThresholdsAssumption DEF Abs
<1> HIDE DEF v
<1>2. Clamp(v, 0, MaxRate) \in 0..MaxRate
    BY <1>1, ThresholdsAssumption DEF Clamp
<1>3. RateFor(d) = IF d > 0 THEN -Clamp(v, 0, MaxRate) ELSE Clamp(v, 0, MaxRate)
    BY DEF RateFor, v
<1>4. QED
    BY <1>2, <1>3, ThresholdsAssumption

LEMMA LearnedType ==
    ASSUME NEW b \in -MaxBias..MaxBias, NEW raw \in Int, NEW learned \in Learned(b, raw)
    PROVE  learned \in -MaxBias..MaxBias
<1>1. PICK v \in {b - (3 * raw) \div 5, b + (-3 * raw) \div 5} :
          learned = Clamp(v, -MaxBias, MaxBias)
    BY DEF Learned
<1>2. v \in Int /\ MaxBias \in Nat
    BY <1>1, ThresholdsAssumption
<1>3. QED
    BY <1>1, <1>2 DEF Clamp

\* What is learned takes seeks from where one landed towards where it would
\* have had to land, and no further.
LEMMA LearnedIsBetween ==
    ASSUME NEW b \in -MaxBias..MaxBias, NEW late \in Int, Abs(b - late) <= SeekAbove,
           NEW raw \in Int, Abs(raw - (b - late)) <= SeekAbove,
           NEW learned \in Learned(b, raw)
    PROVE  Abs(learned - late) <= SeekAbove
<1>1. SeekAbove \in Nat /\ MaxBias \in Nat
    BY ThresholdsAssumption
<1>2. PICK v \in {b - (3 * raw) \div 5, b + (-3 * raw) \div 5} :
          learned = Clamp(v, -MaxBias, MaxBias)
    BY DEF Learned
<1>3. v \in Int /\ (raw >= 0 => b - raw <= v /\ v <= b) /\ (raw < 0 => b <= v /\ v <= b - raw)
    BY <1>1, <1>2
<1>4. /\ learned \in Int
      /\ raw >= 0 => b - raw <= learned /\ learned <= b
      /\ raw < 0 => b <= learned /\ learned <= b - raw
    BY <1>1, <1>2, <1>3 DEF Clamp
<1>5. QED
    BY <1>1, <1>4 DEF Abs

\* What a sample makes of the controller, before it decides.
LEMMA MeasuredType ==
    ASSUME NEW c \in Controls, NEW raw \in Int, NEW m \in Measured(c, raw)
    PROVE  m \in Controls /\ m.window = c.window /\ m.seekMeasured
<1>1. CASE c.seekMeasured
    BY <1>1 DEF Measured
<1>2. CASE ~c.seekMeasured
    <2>1. PICK b \in IF Abs(raw) < SeekAbove THEN Learned(c.seekBias, raw) ELSE {c.seekBias} :
              m = [c EXCEPT !.seekMeasured = TRUE, !.seekBias = b]
        BY <1>2 DEF Measured
    <2>2. c.seekBias \in -MaxBias..MaxBias
        BY DEF Controls
    <2>3. b \in -MaxBias..MaxBias
        BY <2>1, <2>2, LearnedType
    <2>4. QED
        BY <2>1, <2>3 DEF Controls
<1>3. QED
    BY <1>1, <1>2

LEMMA MeasuredIsBetween ==
    ASSUME NEW c \in Controls, NEW late \in Int, Abs(c.seekBias - late) <= SeekAbove,
           NEW raw \in Int, NEW m \in Measured(c, raw),
           \/ m.seekBias = c.seekBias
           \/ ~c.seekMeasured => Abs(raw - (c.seekBias - late)) <= SeekAbove
    PROVE  Abs(m.seekBias - late) <= SeekAbove
<1>1. CASE c.seekMeasured \/ m.seekBias = c.seekBias
    BY <1>1 DEF Measured
<1>2. CASE ~c.seekMeasured /\ m.seekBias # c.seekBias
    <2>1. PICK b \in IF Abs(raw) < SeekAbove THEN Learned(c.seekBias, raw) ELSE {c.seekBias} :
              m = [c EXCEPT !.seekMeasured = TRUE, !.seekBias = b]
        BY <1>2 DEF Measured
    <2>2. m.seekBias = b /\ c.seekBias \in -MaxBias..MaxBias
        BY <2>1 DEF Controls
    <2>3. b \in Learned(c.seekBias, raw)
        BY <1>2, <2>1, <2>2
    <2>4. QED
        BY <1>2, <2>2, <2>3, LearnedIsBetween
<1>3. QED
    BY <1>1, <1>2

\* The controller decides to seek, or remembers that the last one was measured.
LEMMA ObservedKeeps ==
    ASSUME NEW c \in Controls, Len(c.window) \in 1..Samples, c.seekMeasured, NEW raw \in Int
    PROVE  LET o == Observed(c, raw)
           IN  /\ o.c \in Controls /\ Len(o.c.window) <= Samples
               /\ o.c.seekBias = c.seekBias
               /\ o.kind \in {"hold", "rate", "seek"}
               /\ o.kind # "seek" => o.c.seekMeasured
<1> DEFINE o == Observed(c, raw)
           d == Median(c.window)
           r == IF Correcting(c, d) THEN RateFor(d) ELSE 0
<1>1. Samples \in Nat /\ MaxRate \in Nat
    BY TicksAssumption, ThresholdsAssumption
<1>2. r \in -MaxRate..MaxRate
    <2>1. d \in Int
        BY <1>1, MedianType DEF Controls
    <2> HIDE DEF d
    <2>2. RateFor(d) \in -MaxRate..MaxRate
        BY <2>1, RateType
    <2>3. 0 \in -MaxRate..MaxRate
        BY <1>1
    <2>4. QED
        BY <2>2, <2>3
<1>3. Correcting(c, d) \in BOOLEAN
    BY DEF Correcting
<1>4. \/ o = [c |-> c, kind |-> "hold"]
      \/ o = [c |-> NotedSeek(Reset(c)), kind |-> "seek"]
      \/ o = [c |-> [c EXCEPT !.correcting = Correcting(c, d), !.rate = r], kind |-> "rate"]
      \/ o = [c |-> [c EXCEPT !.correcting = Correcting(c, d)], kind |-> "hold"]
    BY DEF Observed
<1> HIDE DEF o, d, r
<1>5. CASE o = [c |-> c, kind |-> "hold"]
    BY <1>1, <1>5 DEF o
<1>6. CASE o = [c |-> NotedSeek(Reset(c)), kind |-> "seek"]
    <2> DEFINE n == NotedSeek(Reset(c))
    <2>1. Reset(c) \in Controls /\ Reset(c).seekBias = c.seekBias
        BY ResetType
    <2>2. n \in Controls /\ Len(n.window) = 0 /\ n.seekBias = c.seekBias
        BY <2>1, NotedSeekType
    <2> HIDE DEF n
    <2>3. o.c = n /\ o.kind = "seek"
        BY <1>6 DEF n
    <2>4. QED
        BY <1>1, <2>2, <2>3 DEF o
<1>7. CASE o = [c |-> [c EXCEPT !.correcting = Correcting(c, d), !.rate = r], kind |-> "rate"]
    <2>1. /\ o.c \in Controls /\ o.c.window = c.window /\ o.c.seekBias = c.seekBias
          /\ o.c.seekMeasured /\ o.kind = "rate"
        BY <1>2, <1>3, <1>7 DEF Controls
    <2>2. QED
        BY <1>1, <2>1 DEF o
<1>8. CASE o = [c |-> [c EXCEPT !.correcting = Correcting(c, d)], kind |-> "hold"]
    <2>1. /\ o.c \in Controls /\ o.c.window = c.window /\ o.c.seekBias = c.seekBias
          /\ o.c.seekMeasured /\ o.kind = "hold"
        BY <1>3, <1>8 DEF Controls
    <2>2. QED
        BY <1>1, <2>1 DEF o
<1>9. QED
    BY <1>4, <1>5, <1>6, <1>7, <1>8

-----------------------------------------------------------------------------
(* Types *)

LEMMA Types ==
    ASSUME TypeOK
    PROVE  /\ control \in Controls /\ Len(control.window) <= Samples
           /\ control.seekBias \in -MaxBias..MaxBias /\ control.seekBias \in Int
           /\ control.window \in Seq(Int)
           /\ lag \in Nat /\ lag \in Lags /\ drift \in Int /\ elRate \in -MaxRate..MaxRate
           /\ elRate \in Int /\ since \in Int /\ since <= Cooldown /\ left \in 0..MaxDisturbances
           /\ playing \in BOOLEAN /\ moved \in Nat /\ misjudged \in BOOLEAN /\ Landed \in Int
<1>1. /\ control \in Controls /\ Len(control.window) <= Samples /\ lag \in Lags /\ drift \in Int
      /\ elRate \in -MaxRate..MaxRate /\ since \in Int /\ since <= Cooldown
      /\ left \in 0..MaxDisturbances /\ moved \in Nat
    BY DEF TypeOK, Controls
<1>2. control.seekBias \in -MaxBias..MaxBias /\ control.window \in Seq(Int)
    BY <1>1 DEF Controls
<1>3. lag \in Nat /\ control.seekBias \in Int /\ elRate \in Int
    BY <1>1, <1>2, ThresholdsAssumption, PhonesAssumption
<1>4. playing \in BOOLEAN /\ misjudged \in BOOLEAN
    BY Zenon DEF TypeOK
<1>5. QED
    BY <1>1, <1>2, <1>3, <1>4 DEF Landed

LEMMA InitTypes ==
    ASSUME Init
    PROVE  TypeOK
<1>1. <<>> \in Seq(Int) /\ Len(<<>>) = 0
    OBVIOUS
<1>2. /\ control.rate = 0 /\ control.seekBias \in StoredBiases /\ control.correcting = FALSE
      /\ control.window = <<>> /\ control.seekMeasured = TRUE
      /\ control = [rate |-> control.rate, seekBias |-> control.seekBias,
                    correcting |-> control.correcting, window |-> control.window,
                    seekMeasured |-> control.seekMeasured]
    BY DEF Init
<1>3. 0 \in -MaxRate..MaxRate /\ control.seekBias \in -MaxBias..MaxBias /\ 0 <= Samples
    BY <1>2, ThresholdsAssumption, TicksAssumption, PhonesAssumption
<1>4. control \in Controls /\ Len(control.window) <= Samples
    BY <1>1, <1>2, <1>3 DEF Controls
<1>5. /\ since \in Int /\ since <= Cooldown /\ lag \in Lags /\ left \in 0..MaxDisturbances
      /\ moved \in Nat
    BY TicksAssumption, WorldAssumption DEF Init
<1>6. drift \in Int /\ playing \in BOOLEAN /\ elRate \in -MaxRate..MaxRate
    <2>1. drift = 0 /\ elRate = 0 /\ playing \in BOOLEAN
        BY Zenon DEF Init
    <2>2. drift \in Int /\ elRate \in -MaxRate..MaxRate
        BY <1>3, <2>1
    <2>3. QED
        BY <2>1, <2>2
<1>7. misjudged \in BOOLEAN
    BY SMT DEF Init
<1>8. QED
    BY <1>4, <1>5, <1>6, <1>7 DEF TypeOK, Controls

LEMMA StartTypes ==
    ASSUME TypeOK, Start
    PROVE  /\ TypeOK' /\ control'.seekBias = control.seekBias /\ ~control'.seekMeasured
           /\ drift' = control.seekBias - lag /\ since' = 0 /\ lag' = lag
           /\ moved' = 0 /\ misjudged' = misjudged
<1>1. /\ control' = NotedSeek(control) /\ drift' = control.seekBias - lag /\ since' = 0
      /\ elRate' = elRate /\ lag' = lag /\ left' = left /\ playing' = TRUE
      /\ moved' = 0 /\ misjudged' = misjudged
    BY DEF Start, Landed
<1>2. /\ control' \in Controls /\ control'.seekBias = control.seekBias /\ Len(control'.window) = 0
      /\ ~control'.seekMeasured
    BY <1>1, Types, NotedSeekType
<1>3. QED
    BY <1>1, <1>2, Types, TicksAssumption DEF TypeOK, Controls

\* The controller with the tick's sample in its window.
Pushed == [control EXCEPT !.window = Push(@, drift + elRate)]

LEMMA PushedType ==
    ASSUME TypeOK
    PROVE  /\ Pushed \in Controls /\ Len(Pushed.window) \in 1..Samples
           /\ Pushed.seekBias = control.seekBias /\ Pushed.seekMeasured = control.seekMeasured
           /\ drift + elRate \in Int
<1>1. /\ Push(control.window, drift + elRate) \in Seq(Int)
      /\ Len(Push(control.window, drift + elRate)) \in 1..Samples
      /\ drift + elRate \in Int
    BY Types, PushType
<1>2. control \in Controls
    BY Types
<1>3. QED
    BY <1>1, <1>2 DEF Pushed, Controls

\* What a tick does once a seek has settled.
LEMMA Sampled ==
    ASSUME TypeOK, Tick, ~(since < Settle)
    PROVE  \E m \in Measured(Pushed, drift + elRate), c \in Controls,
              kind \in {"hold", "rate", "seek"} :
              /\ control' = c /\ Len(c.window) <= Samples /\ c.seekBias = m.seekBias
              /\ kind # "seek" => c.seekMeasured
              /\ drift' = IF kind = "seek" THEN m.seekBias - lag ELSE drift + elRate
              /\ since' = IF kind = "seek" THEN 0 ELSE Later
              /\ elRate' = IF kind = "rate" THEN c.rate ELSE elRate
              /\ moved' = 0
              /\ misjudged' = (misjudged \/ (Spoilt /\ m.seekBias # control.seekBias))
<1>1. PICK m \in Measured(Pushed, drift + elRate) :
          /\ control' = Observed(m, drift + elRate).c
          /\ drift' = IF Observed(m, drift + elRate).kind = "seek" THEN m.seekBias - lag
                      ELSE drift + elRate
          /\ since' = IF Observed(m, drift + elRate).kind = "seek" THEN 0 ELSE Later
          /\ elRate' = IF Observed(m, drift + elRate).kind = "rate"
                       THEN Observed(m, drift + elRate).c.rate ELSE elRate
          /\ moved' = 0
          /\ misjudged' = (misjudged \/ (Spoilt /\ Observed(m, drift + elRate).c.seekBias
                                                     # control.seekBias))
    BY DEF Tick, Pushed
<1>2. m \in Controls /\ m.window = Pushed.window /\ m.seekMeasured
    BY PushedType, MeasuredType
<1> DEFINE o == Observed(m, drift + elRate)
<1>3. /\ o.c \in Controls /\ o.kind \in {"hold", "rate", "seek"}
      /\ Len(o.c.window) <= Samples /\ o.c.seekBias = m.seekBias
      /\ o.kind # "seek" => o.c.seekMeasured
    BY <1>2, PushedType, ObservedKeeps
<1>4. /\ control' = o.c
      /\ drift' = IF o.kind = "seek" THEN m.seekBias - lag ELSE drift + elRate
      /\ since' = IF o.kind = "seek" THEN 0 ELSE Later
      /\ elRate' = IF o.kind = "rate" THEN o.c.rate ELSE elRate
      /\ moved' = 0
      /\ misjudged' = (misjudged \/ (Spoilt /\ o.c.seekBias # control.seekBias))
    BY <1>1
<1> HIDE DEF o
<1>5. QED
    BY <1>3, <1>4

LEMMA LaterType ==
    ASSUME TypeOK
    PROVE  Later \in Int /\ Later <= Cooldown /\ (since < Settle => Later = since + 1)
           /\ Later >= since
BY Types, TicksAssumption DEF Later, Capped

LEMMA TickTypes ==
    ASSUME TypeOK, Tick
    PROVE  TypeOK'
<1>1. playing' = playing /\ lag' = lag /\ left' = left
    BY DEF Tick
<1>2. Later \in Int /\ Later <= Cooldown /\ 0 <= Cooldown /\ drift + elRate \in Int
    BY LaterType, PushedType, TicksAssumption
<1>3. CASE since < Settle
    <2>1. /\ drift' = drift + elRate /\ since' = Later /\ elRate' = elRate /\ control' = control
          /\ moved' = moved /\ misjudged' = misjudged
        BY <1>3 DEF Tick
    <2>2. QED
        BY <1>1, <1>2, <2>1 DEF TypeOK
<1>4. CASE ~(since < Settle)
    <2>1. PICK m \in Measured(Pushed, drift + elRate), c \in Controls,
              kind \in {"hold", "rate", "seek"} :
              /\ control' = c /\ Len(c.window) <= Samples /\ c.seekBias = m.seekBias
              /\ drift' = IF kind = "seek" THEN m.seekBias - lag ELSE drift + elRate
              /\ since' = IF kind = "seek" THEN 0 ELSE Later
              /\ elRate' = IF kind = "rate" THEN c.rate ELSE elRate
              /\ moved' = 0
              /\ misjudged' = (misjudged \/ (Spoilt /\ m.seekBias # control.seekBias))
        BY <1>4, Sampled
    <2>2. c \in Controls /\ c.rate \in -MaxRate..MaxRate /\ m.seekBias \in Int
        BY <2>1, ThresholdsAssumption, PushedType, MeasuredType DEF Controls
    <2>3. /\ drift' \in Int /\ since' \in Int /\ since' <= Cooldown /\ moved' \in Nat
          /\ elRate' \in -MaxRate..MaxRate
        BY <1>2, <2>1, <2>2, Types
    <2>4. misjudged' \in BOOLEAN
        BY <2>1, Types, Zenon
    <2>5. QED
        BY <1>1, <2>1, <2>2, <2>3, <2>4 DEF TypeOK, Controls
<1>5. QED
    BY <1>3, <1>4

LEMMA DisturbedType ==
    ASSUME TypeOK, Disturbed
    PROVE  left' \in 0..MaxDisturbances
<1>1. left' = left - 1 /\ left > 0
    BY DEF Disturbed
<1>2. QED
    BY <1>1, Types, WorldAssumption

LEMMA JumpsTypes ==
    ASSUME TypeOK, Slip \/ ClockCorrected
    PROVE  TypeOK'
<1>1. left' \in 0..MaxDisturbances
    BY DisturbedType DEF Slip, ClockCorrected
<1>2. CASE Slip
    <2>1. PICK by \in Slips : drift' = drift + by /\ Moves(Abs(by))
        BY <1>2 DEF Slip
    <2>2. by \in Int
        BY WorldAssumption
    <2>3. drift' \in Int /\ moved' \in Nat
        BY <2>1, <2>2, Types DEF Moves, Abs
    <2>4. QED
        BY <1>1, <1>2, <2>3 DEF Slip, TypeOK
<1>3. CASE ClockCorrected
    <2>1. PICK ticks \in ClockJumps :
              /\ drift' = drift - ticks * TickLength
              /\ \E passed \in IF since = Cooldown THEN Cooldown..(Cooldown + Abs(ticks))
                               ELSE {since} : since' = Capped(passed + ticks)
              /\ Moves(Abs(ticks) * (TickLength + MaxRate))
        BY <1>3 DEF ClockCorrected
    <2>2. /\ ticks \in Int /\ Abs(ticks) \in Nat /\ TickLength \in Nat /\ MaxRate \in Nat
          /\ Cooldown \in Nat
        BY WorldAssumption, ThresholdsAssumption, TicksAssumption DEF Abs
    <2>3. ticks * TickLength \in Int /\ Abs(ticks) * (TickLength + MaxRate) \in Nat
        BY <2>2
    <2>4. drift' \in Int /\ moved' \in Nat
        BY <2>1, <2>3, Types DEF Moves
    <2>5. PICK passed \in IF since = Cooldown THEN Cooldown..(Cooldown + Abs(ticks)) ELSE {since} :
              since' = Capped(passed + ticks)
        BY <2>1
    <2>6. since' \in Int /\ since' <= Cooldown
        BY <2>2, <2>5, Types DEF Capped
    <2>7. QED
        BY <1>1, <1>3, <2>4, <2>6 DEF ClockCorrected, TypeOK
<1>4. QED
    BY <1>2, <1>3

LEMMA StopsTypes ==
    ASSUME TypeOK, Pause \/ NextTrack
    PROVE  TypeOK'
<1>1. left' \in 0..MaxDisturbances /\ 0 \in -MaxRate..MaxRate
    BY DisturbedType, ThresholdsAssumption DEF Pause, NextTrack
<1>2. CASE Pause
    BY <1>1, <1>2 DEF Pause, TypeOK
<1>3. CASE NextTrack
    <2>1. control' \in Controls /\ Len(control'.window) <= Samples
        BY <1>3, Types, ResetType, TicksAssumption DEF NextTrack
    <2>2. QED
        BY <1>1, <1>3, <2>1 DEF NextTrack, TypeOK, Controls
<1>4. QED
    BY <1>2, <1>3

\* The median of a window is one of its samples; rates, and what is learned,
\* stay within their bounds.
THEOREM TypeCorrect == Spec => []TypeOK
<1>1. Init => TypeOK
    BY InitTypes
<1>2. TypeOK /\ [Next]_vars => TypeOK'
    <2>1. CASE UNCHANGED vars
        BY <2>1 DEF vars, TypeOK
    <2>2. QED
        BY <2>1, StartTypes, TickTypes, JumpsTypes, StopsTypes DEF Next
<1>3. QED
    BY <1>1, <1>2, PTL DEF Spec

-----------------------------------------------------------------------------
(* Seeks *)

\* So long as a seek is not measured, an element moves on by its rate.
LEMMA MovesAtItsRate ==
    ASSUME TypeOK, UnmeasuredIsNear, playing, ~control.seekMeasured
    PROVE  /\ Abs((drift + elRate) - Landed) <= moved + MaxRate * (Unmeasured + 1)
           /\ Unmeasured \in Int /\ Unmeasured <= Settle /\ MaxRate * Unmeasured \in Int
<1>1. Unmeasured \in Int /\ Unmeasured <= Settle /\ MaxRate \in Nat
    BY Types, TicksAssumption, ThresholdsAssumption DEF Unmeasured
<1>2. MaxRate * (Unmeasured + 1) = MaxRate * Unmeasured + MaxRate /\ MaxRate * Unmeasured \in Int
    BY <1>1
<1>3. Abs(drift - Landed) <= moved + MaxRate * Unmeasured
    BY DEF UnmeasuredIsNear
<1>4. elRate \in Int /\ -MaxRate <= elRate /\ elRate <= MaxRate /\ drift \in Int /\ Landed \in Int
      /\ moved \in Nat
    BY <1>1, Types
<1>5. QED
    BY <1>1, <1>2, <1>3, <1>4 DEF Abs

\* What is measured is what the seek was off, but for the element's rate and
\* for jumps.
LEMMA MeasuredNear ==
    ASSUME TypeOK, UnmeasuredIsNear, playing, ~control.seekMeasured
    PROVE  Abs((drift + elRate) - Landed) <= moved + Gain
<1>1. /\ MaxRate \in Nat /\ Settle \in Nat
    BY TicksAssumption, ThresholdsAssumption
<1>2. Unmeasured \in Int /\ Unmeasured <= Settle
    BY MovesAtItsRate
<1>3. MaxRate * (Unmeasured + 1) <= MaxRate * (Settle + 1)
    <2> SUFFICES ASSUME NEW n \in Int, NEW s \in Nat, n <= s PROVE MaxRate * (n + 1) <= MaxRate * (s + 1)
        BY <1>1, <1>2
    <2>1. MaxRate * (s - n) >= 0 /\ MaxRate * (s - n) = MaxRate * (s + 1) - MaxRate * (n + 1)
          /\ MaxRate * (s + 1) \in Int /\ MaxRate * (n + 1) \in Int
        BY <1>1
    <2>2. QED
        BY <2>1
<1>4. /\ MaxRate * (Unmeasured + 1) \in Int /\ MaxRate * (Settle + 1) \in Int /\ moved \in Int
      /\ Abs((drift + elRate) - Landed) \in Int
    BY <1>1, <1>2, Types DEF Abs
<1>5. QED
    BY <1>3, <1>4, MovesAtItsRate DEF Gain

LEMMA InitNear ==
    ASSUME Init
    PROVE  LandsNear /\ UnmeasuredIsNear
<1>1. playing = FALSE /\ misjudged = (Abs(Landed) > SeekAbove)
    BY Zenon DEF Init
<1>2. Landed \in Int /\ SeekAbove \in Nat
    BY InitTypes, Types, ThresholdsAssumption
<1>3. Abs(Landed) \in Int
    BY <1>2 DEF Abs
<1>4. LandsNear
    <2>1. CASE Abs(Landed) > SeekAbove
        BY <1>1, <2>1, Zenon DEF LandsNear
    <2>2. CASE ~(Abs(Landed) > SeekAbove)
        BY <1>2, <1>3, <2>2 DEF LandsNear
    <2>3. QED
        BY <2>1, <2>2
<1>5. QED
    BY <1>1, <1>4 DEF UnmeasuredIsNear

LEMMA StartNear ==
    ASSUME TypeOK, LandsNear, Start
    PROVE  LandsNear' /\ UnmeasuredIsNear' /\ drift' = Landed'
<1>1. /\ Landed' = Landed /\ drift' = Landed' /\ since' = 0 /\ moved' = 0 /\ Landed \in Int
      /\ misjudged' = misjudged
    BY StartTypes, Types DEF Landed
<1>2. LandsNear'
    BY <1>1 DEF LandsNear
<1>3. UnmeasuredIsNear'
    <2>1. Unmeasured' = 0 /\ MaxRate * 0 = 0
        BY <1>1, TicksAssumption, ThresholdsAssumption DEF Unmeasured
    <2>2. QED
        BY <1>1, <2>1 DEF UnmeasuredIsNear, Abs
<1>4. QED
    BY <1>1, <1>2, <1>3

LEMMA TickNear ==
    ASSUME TypeOK, LandsNear, UnmeasuredIsNear, Tick
    PROVE  /\ LandsNear' /\ UnmeasuredIsNear'
           /\ since' < since => drift' = Landed'
<1> DEFINE raw == drift + elRate
<1>0. playing
    BY DEF Tick
<1>1. playing' = playing /\ lag' = lag
    BY DEF Tick
<1>2. /\ raw \in Int /\ lag \in Int /\ since \in Int /\ SeekAbove \in Nat /\ Settle \in Nat
      /\ control.seekBias \in Int /\ Later \in Int /\ Later >= since
    BY Types, LaterType, TicksAssumption, ThresholdsAssumption
<1>3. CASE since < Settle
    <2>1. /\ drift' = raw /\ since' = since + 1 /\ control' = control /\ moved' = moved
          /\ misjudged' = misjudged
        BY <1>3, LaterType DEF Tick
    <2>2. Landed' = Landed
        BY <1>1, <2>1 DEF Landed
    <2>3. LandsNear'
        BY <2>1, <2>2 DEF LandsNear
    <2>4. UnmeasuredIsNear'
        <3> SUFFICES ASSUME ~control.seekMeasured
                     PROVE  Abs(drift' - Landed') <= moved' + MaxRate * Unmeasured'
            BY <2>1 DEF UnmeasuredIsNear
        <3>1. Unmeasured' = Unmeasured + 1
            BY <1>2, <1>3, <2>1 DEF Unmeasured
        <3>2. QED
            <4>1. Abs(raw - Landed) <= moved + MaxRate * (Unmeasured + 1)
                BY <1>0, MovesAtItsRate
            <4> HIDE DEF raw
            <4>2. QED
                BY <2>1, <2>2, <3>1, <4>1
    <2>5. QED
        BY <1>2, <2>1, <2>3, <2>4
<1>4. CASE ~(since < Settle)
    <2>1. PICK m \in Measured(Pushed, raw), c \in Controls, kind \in {"hold", "rate", "seek"} :
              /\ control' = c /\ c.seekBias = m.seekBias
              /\ kind # "seek" => c.seekMeasured
              /\ drift' = IF kind = "seek" THEN m.seekBias - lag ELSE raw
              /\ since' = IF kind = "seek" THEN 0 ELSE Later
              /\ moved' = 0
              /\ misjudged' = (misjudged \/ (Spoilt /\ m.seekBias # control.seekBias))
        BY <1>4, Sampled
    <2>2. m.seekBias \in Int /\ Landed' = m.seekBias - lag
        BY <1>1, <2>1, PushedType, MeasuredType, ThresholdsAssumption DEF Controls, Landed
    <2>3. LandsNear'
        <3> SUFFICES ASSUME ~misjudged, ~Spoilt \/ m.seekBias = control.seekBias
                     PROVE  Abs(m.seekBias - lag) <= SeekAbove
            BY <2>1, <2>2 DEF LandsNear
        <3>1. Abs(control.seekBias - lag) <= SeekAbove
            BY DEF LandsNear, Landed
        <3>2. ASSUME ~Spoilt, ~control.seekMeasured
              PROVE  Abs(raw - (control.seekBias - lag)) <= SeekAbove
            <4>1. Abs(raw - Landed) <= moved + Gain
                BY <1>0, <3>2, MeasuredNear
            <4>2. Gain \in Int /\ moved \in Int /\ Abs(raw - Landed) \in Int
                <5>1. Landed \in Int /\ moved \in Int
                    BY Types
                <5>2. Gain \in Int
                    BY ThresholdsAssumption, TicksAssumption DEF Gain
                <5> HIDE DEF raw
                <5>3. QED
                    BY <1>2, <5>1, <5>2 DEF Abs
            <4>3. QED
                BY <1>2, <3>2, <4>1, <4>2 DEF Spoilt, Landed
        <3> HIDE DEF raw
        <3>3. QED
            BY <1>2, <2>1, <3>1, <3>2, PushedType, MeasuredIsBetween
    <2>4. UnmeasuredIsNear'
        <3> SUFFICES ASSUME kind = "seek"
                     PROVE  Abs(drift' - Landed') <= moved' + MaxRate * Unmeasured'
            BY <2>1 DEF UnmeasuredIsNear
        <3>1. drift' = Landed' /\ since' = 0 /\ moved' = 0
            BY <2>1, <2>2
        <3>2. Unmeasured' = 0 /\ MaxRate * 0 = 0
            BY <3>1, TicksAssumption, ThresholdsAssumption DEF Unmeasured
        <3>3. QED
            BY <1>2, <2>2, <3>1, <3>2 DEF Abs
    <2>5. since' < since => drift' = Landed'
        BY <1>2, <2>1, <2>2
    <2>6. QED
        BY <2>3, <2>4, <2>5
<1>5. QED
    BY <1>3, <1>4

LEMMA SlipNear ==
    ASSUME TypeOK, LandsNear, UnmeasuredIsNear, Slip
    PROVE  LandsNear' /\ UnmeasuredIsNear'
<1>1. PICK by \in Slips : drift' = drift + by /\ Moves(Abs(by))
    BY DEF Slip
<1>2. UNCHANGED <<playing, control, since, lag, misjudged>> /\ Landed' = Landed
      /\ Unmeasured' = Unmeasured
    BY DEF Slip, Landed, Unmeasured
<1>3. UnmeasuredIsNear'
    <2> SUFFICES ASSUME playing, ~control.seekMeasured
                 PROVE  Abs(drift' - Landed) <= moved' + MaxRate * Unmeasured
        BY <1>2 DEF UnmeasuredIsNear
    <2>1. /\ by \in Int /\ drift \in Int /\ Landed \in Int /\ moved \in Int
          /\ MaxRate * Unmeasured \in Int
        BY Types, WorldAssumption, MovesAtItsRate
    <2>2. moved' = moved + Abs(by)
        BY <1>1 DEF Moves
    <2>3. Abs(drift - Landed) <= moved + MaxRate * Unmeasured
        BY DEF UnmeasuredIsNear
    <2>4. QED
        BY <1>1, <2>1, <2>2, <2>3 DEF Abs
<1>4. QED
    BY <1>2, <1>3 DEF LandsNear

LEMMA ClockCorrectedNear ==
    ASSUME TypeOK, LandsNear, UnmeasuredIsNear, ClockCorrected
    PROVE  LandsNear' /\ UnmeasuredIsNear'
<1>1. PICK ticks \in ClockJumps :
          /\ drift' = drift - ticks * TickLength
          /\ \E passed \in IF since = Cooldown THEN Cooldown..(Cooldown + Abs(ticks)) ELSE {since} :
                 since' = Capped(passed + ticks)
          /\ Moves(Abs(ticks) * (TickLength + MaxRate))
    BY DEF ClockCorrected
<1>2. UNCHANGED <<playing, control, lag, misjudged>> /\ Landed' = Landed
    BY DEF ClockCorrected, Landed
<1>3. UnmeasuredIsNear'
    <2> SUFFICES ASSUME playing, ~control.seekMeasured
                 PROVE  Abs(drift' - Landed) <= moved' + MaxRate * Unmeasured'
        BY <1>2 DEF UnmeasuredIsNear
    <2> DEFINE n == Abs(ticks)
               d == ticks * TickLength
    <2>1. /\ ticks \in Int /\ n \in Nat /\ TickLength \in Nat /\ MaxRate \in Nat
          /\ Cooldown \in Nat /\ Settle \in Nat /\ Settle <= Cooldown
        BY WorldAssumption, ThresholdsAssumption, TicksAssumption DEF Abs
    <2>2. Unmeasured' \in Int /\ Unmeasured \in Int /\ Unmeasured' >= Unmeasured - n
        <3>1. PICK passed \in IF since = Cooldown THEN Cooldown..(Cooldown + Abs(ticks))
                              ELSE {since} : since' = Capped(passed + ticks)
            BY <1>1
        <3>2. passed \in Int /\ passed >= since /\ since \in Int /\ since <= Cooldown
            BY <2>1, <3>1, Types DEF Abs
        <3>3. since' \in Int /\ since' <= Cooldown
              /\ (since' >= since - n \/ since' = Cooldown)
            BY <2>1, <3>1, <3>2 DEF Capped, Abs
        <3>4. QED
            BY <2>1, <3>2, <3>3 DEF Unmeasured
    <2>3. d \in Int /\ Abs(d) <= n * TickLength /\ n * TickLength \in Nat
        <3>1. CASE ticks >= 0
            BY <2>1, <3>1 DEF Abs
        <3>2. CASE ticks < 0
            <4>1. n = -ticks /\ (-ticks) * TickLength = -(ticks * TickLength)
                BY <2>1, <3>2 DEF Abs
            <4>2. (-ticks) * TickLength >= 0 /\ d \in Int
                BY <2>1, <3>2
            <4>3. QED
                BY <4>1, <4>2 DEF Abs
        <3>3. QED
            BY <2>1, <3>1, <3>2
    <2>4. n * (TickLength + MaxRate) = n * TickLength + n * MaxRate /\ n * MaxRate \in Nat
        BY <2>1
    <2>5. MaxRate * Unmeasured' >= MaxRate * Unmeasured - n * MaxRate
          /\ MaxRate * Unmeasured' \in Int /\ MaxRate * Unmeasured \in Int
        <3> SUFFICES ASSUME NEW u \in Int, NEW v \in Int, NEW k \in Nat, v >= u - k
                     PROVE  MaxRate * v >= MaxRate * u - k * MaxRate
                            /\ MaxRate * v \in Int /\ MaxRate * u \in Int
            BY <2>1, <2>2
        <3>1. MaxRate * (v - u + k) >= 0
              /\ MaxRate * (v - u + k) = MaxRate * v - MaxRate * u + k * MaxRate
            BY <2>1
        <3>2. MaxRate * v \in Int /\ MaxRate * u \in Int /\ k * MaxRate \in Int
            BY <2>1
        <3>3. QED
            BY <3>1, <3>2
    <2>6. moved' = moved + n * (TickLength + MaxRate)
        BY <1>1 DEF Moves
    <2>7. Abs(drift - Landed) <= moved + MaxRate * Unmeasured
        BY DEF UnmeasuredIsNear
    <2>8. drift' = drift - d /\ drift \in Int /\ Landed \in Int /\ moved \in Int
        BY <1>1, Types
    <2> DEFINE p == n * TickLength
               q == n * MaxRate
    <2>9. moved' = moved + p + q
        BY <2>3, <2>4, <2>6, <2>8
    <2> HIDE DEF d, n, p, q
    <2>10. Abs(drift' - Landed) <= moved + MaxRate * Unmeasured + p
        BY <2>3, <2>5, <2>7, <2>8 DEF Abs, p
    <2>11. Abs(drift' - Landed) \in Int /\ p \in Int /\ q \in Int
        BY <2>3, <2>4, <2>8 DEF Abs, p, q
    <2>12. MaxRate * Unmeasured' >= MaxRate * Unmeasured - q
        BY <2>5 DEF q
    <2>13. QED
        BY <2>5, <2>8, <2>9, <2>10, <2>11, <2>12
<1>4. QED
    BY <1>2, <1>3 DEF LandsNear

LEMMA StopsNear ==
    ASSUME TypeOK, LandsNear, Pause \/ NextTrack
    PROVE  LandsNear' /\ UnmeasuredIsNear'
<1>1. playing' = FALSE /\ lag' = lag /\ misjudged' = misjudged
      /\ control'.seekBias = control.seekBias
    BY Types, ResetType DEF Pause, NextTrack
<1>2. QED
    BY <1>1 DEF LandsNear, Landed, UnmeasuredIsNear

\* However jumps, corrections of the clock, pauses and tracks fall between seeks
\* and their measurements, what is learned from them does not make a seek land
\* where the next is called for, unless jumps of nearly that distance came
\* between a seek and its measurement: what is learned lies between where the
\* seek landed and where it would have had to.
THEOREM LearningIsSafe == Spec => SeeksLandNear
<1> DEFINE IInv == LandsNear /\ UnmeasuredIsNear
<1>1. Init => IInv
    BY InitNear
<1>2. TypeOK /\ IInv /\ [Next]_vars => IInv'
    <2>1. CASE UNCHANGED vars
        BY <2>1 DEF vars, LandsNear, UnmeasuredIsNear, Landed, Unmeasured
    <2>2. QED
        BY <2>1, StartNear, TickNear, SlipNear, ClockCorrectedNear, StopsNear DEF Next
<1>3. TypeOK /\ IInv /\ IInv' /\ [Next]_vars
          => [Seeks /\ ~misjudged' => Abs(drift') <= SeekAbove]_vars
    <2> SUFFICES ASSUME TypeOK, IInv, IInv', Seeks, ~misjudged'
                 PROVE  Abs(drift') <= SeekAbove
        OBVIOUS
    <2>1. drift' = Landed'
        BY TickNear, StartNear DEF Seeks
    <2>2. QED
        BY <2>1 DEF LandsNear
<1> HIDE DEF IInv
<1>4. QED
    BY <1>1, <1>2, <1>3, TypeCorrect, PTL DEF Spec, SeeksLandNear
=============================================================================
