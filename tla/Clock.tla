------------------------------- MODULE Clock -------------------------------
(***************************************************************************)
(* web/src/sync/clock.ts and the pings of web/src/sync/connection.ts: how  *)
(* a phone learns the server's clock.  The phone's wall clock may be set,  *)
(* by the network or by hand, at any moment; pings are then in flight,     *)
(* samples are in the window, and the page may be hidden.                  *)
(*                                                                         *)
(* The server's clock is the time here; `skew` is by how much the phone's  *)
(* clock is ahead of it.  Only differences of times matter, so a ping is   *)
(* sent at time 0.  Offsets are in half milliseconds, which keeps them     *)
(* whole; where the code divides further, both neighbours are possible.    *)
(***************************************************************************)
EXTENDS Integers, Sequences, FiniteSets

CONSTANTS
    NoOffset,        \* no offset is known
    Window, Best,    \* opts: samples kept, and fastest ones that count
    SlewThreshold,   \* slewThresholdMs, in half milliseconds
    MaxRtt,          \* samples that took longer are rejected
    Tolerance,       \* what WallClockWatch ignores
    MaxPending,      \* pings whose answers are waited for
    Delays,          \* times a message may take, one way
    Skews,           \* what the phone's clock may be ahead by
    MaxJumps         \* bound on the number of times it is set

ASSUME OffsetAssumption == NoOffset \notin Int
ASSUME WindowAssumption == Window \in Nat \ {0} /\ Best \in Nat \ {0}
ASSUME TimesAssumption ==
    /\ SlewThreshold \in Nat /\ MaxRtt \in Nat /\ Tolerance \in Nat
    /\ Delays \subseteq Nat /\ Skews \subseteq Int
ASSUME BoundsAssumption == MaxPending \in Nat \ {0} /\ MaxJumps \in Nat

VARIABLES
    skew,     \* the phone's clock minus the server's
    base,     \* WallClockWatch.base: the skew when it was last looked at
    up,       \* the socket is open
    flight,   \* pings not answered yet, oldest first: the skew at sending
    samples,  \* ClockSync.samples
    current,  \* ClockSync.current
    jumps     \* how often the phone's clock was set

vars == <<skew, base, up, flight, samples, current, jumps>>

\* `skews` is not in the code: the skews at both ends of the round trip.
Samples == [offset : Int, rtt : Nat, skews : SUBSET Skews]

TypeOK ==
    /\ skew \in Skews /\ base \in Skews
    /\ up \in BOOLEAN
    /\ flight \in Seq(Skews) /\ Len(flight) <= MaxPending + 1
    /\ samples \in Seq(Samples) /\ Len(samples) <= Window
    /\ current \in Int \cup {NoOffset}
    /\ jumps \in 0..MaxJumps

Abs(x) == IF x < 0 THEN -x ELSE x

-----------------------------------------------------------------------------
(* Estimating *)

\* Faulty: the way back is added where it is to be taken off.
MeasuredOneWay(t0, t1, t2, t3, skews) ==
    [offset |-> (t1 - t0) - (t2 - t3), rtt |-> (t3 - t0) - (t2 - t1), skews |-> skews]

\* What the four time stamps of a ping and its pong say.
Measured(t0, t1, t2, t3, skews) ==
    [offset |-> (t1 - t0) + (t2 - t3), rtt |-> (t3 - t0) - (t2 - t1), skews |-> skews]

Acceptable(m) == m.rtt >= 0 /\ m.rtt <= MaxRtt

\* Faulty: a full window takes no more.
PushWhileRoom(s, m) == IF Len(s) < Window THEN Append(s, m) ELSE s

\* Faulty: the window does not slide.
PushForever(s, m) == Append(s, m)

\* The window slides.
Push(s, m) == LET all == Append(s, m)
              IN  IF Len(all) > Window THEN Tail(all) ELSE all

\* The Best samples that come first by round trip, the older of equal ones.
Faster(s, i, j) == s[i].rtt < s[j].rtt \/ (s[i].rtt = s[j].rtt /\ i < j)
Fastest(s) ==
    {j \in DOMAIN s : Cardinality({i \in DOMAIN s : Faster(s, i, j)}) < Best}

\* The upper median of their offsets.
Smaller(s, i, j) == s[i].offset < s[j].offset \/ (s[i].offset = s[j].offset /\ i < j)
IsMedian(s, j) ==
    Cardinality({i \in Fastest(s) : Smaller(s, i, j)}) = Cardinality(Fastest(s)) \div 2

\* Small corrections are made by a quarter at a time, the others at once.
Corrected(old, estimate, n) ==
    IF old = NoOffset \/ n < 3 THEN {estimate}
    ELSE IF Abs(estimate - old) > SlewThreshold THEN {estimate}
    ELSE {old + (estimate - old) \div 4, old - (old - estimate) \div 4}

Add(m) ==
    IF ~Acceptable(m) THEN UNCHANGED <<samples, current>>
    ELSE /\ samples' = Push(samples, m)
         /\ \E j \in Fastest(samples') :
               /\ IsMedian(samples', j)
               /\ current' \in Corrected(current, samples'[j].offset, Len(samples'))

Forget == samples' = <<>> /\ UNCHANGED current

-----------------------------------------------------------------------------
Init ==
    /\ skew \in Skews /\ base = skew
    /\ up = FALSE
    /\ flight = <<>>
    /\ samples = <<>>
    /\ current = NoOffset
    /\ jumps = 0

\* onopen, and sendPing each time its timer runs out.  More than MaxPending
\* pings are not remembered; MaxPending + 1 bounds those in flight.
Ping ==
    /\ Len(flight) <= MaxPending
    /\ up' = TRUE
    /\ flight' = Append(flight, skew)
    /\ UNCHANGED <<skew, base, samples, current, jumps>>

\* A pong: the answer to a ping that is remembered is a sample.
Pong ==
    /\ up /\ flight # <<>> /\ Len(flight) <= MaxPending
    /\ flight' = Tail(flight)
    /\ \E there \in Delays, back \in Delays :
          Add(Measured(0, there - Head(flight), there - Head(flight),
                       there + back + skew - Head(flight), {Head(flight), skew}))
    /\ UNCHANGED <<skew, base, up, jumps>>

\* The answer to a ping that had to be forgotten is ignored.
LatePong ==
    /\ up /\ Len(flight) > MaxPending
    /\ flight' = Tail(flight)
    /\ UNCHANGED <<skew, base, up, samples, current, jumps>>

\* closeSocket: pings that were not answered are forgotten.
Drop ==
    /\ up
    /\ up' = FALSE
    /\ flight' = <<>>
    /\ UNCHANGED <<skew, base, samples, current, jumps>>

\* The phone's clock is set.
Jump ==
    /\ jumps < MaxJumps
    /\ skew' \in Skews \ {skew}
    /\ jumps' = jumps + 1
    /\ UNCHANGED <<base, up, flight, samples, current>>

\* WallClockWatch.jumped
Jumped == Abs(skew - base) > Tolerance

\* onVisible: the page is shown again.  That the clock was set is noticed only
\* here; an open socket is pinged at once.
Visible ==
    /\ base' = skew
    /\ IF Jumped THEN Forget ELSE UNCHANGED <<samples, current>>
    /\ IF up /\ Len(flight) <= MaxPending THEN flight' = Append(flight, skew)
       ELSE flight' = flight
    /\ UNCHANGED <<skew, up, jumps>>

\* The stored offset is whole milliseconds, and 0 is taken for none.
Saved(offset) ==
    IF offset = NoOffset THEN NoOffset
    ELSE LET whole == 2 * ((offset + 1) \div 2) IN IF whole = 0 THEN NoOffset ELSE whole

\* The page is loaded anew and goes on from the stored offset.
Reload ==
    /\ base' = skew
    /\ up' = FALSE
    /\ flight' = <<>>
    /\ samples' = <<>>
    /\ current' = Saved(current)
    /\ UNCHANGED <<skew, jumps>>

Next == Ping \/ Pong \/ LatePong \/ Drop \/ Jump \/ Visible \/ Reload

\* Pings are sent by a timer, and a connection that is lost again and again is
\* up long enough again and again.
Spec == Init /\ [][Next]_vars /\ WF_vars(Ping) /\ SF_vars(Pong) /\ WF_vars(LatePong)

-----------------------------------------------------------------------------
(* Properties *)

ServerOffset == -2 * skew

\* What toServer adds to the phone's clock.
Used == IF current = NoOffset THEN 0 ELSE current

\* rtt, the best round trip, and half of it, in half milliseconds.
Rtt == CHOOSE r \in {samples[i].rtt : i \in DOMAIN samples} :
           \A i \in DOMAIN samples : r <= samples[i].rtt
Accuracy == Rtt

\* Slewing stops a quarter short of the threshold, rounding one further.
Slack == (3 * SlewThreshold) \div 4 + 1
Steady == samples # <<>> /\ \A i \in DOMAIN samples : samples[i].skews = {skew}

\* The offset in use is never far from that of one of the fastest samples, and
\* a sample that no setting of the clock disturbed is off by at most half of
\* its round trip (in half milliseconds: by all of it).
NearFastSample ==
    samples # <<>> =>
        current # NoOffset /\ \E j \in Fastest(samples) : Abs(current - samples[j].offset) <= Slack
SamplesMeasure ==
    \A i \in DOMAIN samples : \A s \in Skews :
        samples[i].skews = {s} => Abs(samples[i].offset + 2 * s) <= samples[i].rtt

\* While the clock is not set, the phone knows the server's clock to within
\* half the round trip of one of the fastest samples and what slewing leaves.
OffsetWithinRoundTrip ==
    Steady => \E j \in Fastest(samples) :
                 Abs(current - ServerOffset) <= samples[j].rtt + Slack

\* Not so: half the best round trip is an upper bound of the error.
AccuracyIsUpperBound == Steady => Abs(current - ServerOffset) <= Accuracy

\* However the clock was set, and whether or not the page noticed: once it is
\* left alone the phone finds the server's clock again.
OffsetRecovers ==
    <>[](\E there \in Delays, back \in Delays :
            Abs(Used - ServerOffset) <= there + back + Slack + 1)
=============================================================================
