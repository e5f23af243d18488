----------------------------- MODULE RoomProofs -----------------------------
(***************************************************************************)
(* Theorems about the room and the phones that follow it, for every set of *)
(* listeners, catalog and timing.                                          *)
(*                                                                         *)
(* The first part is about the timeline rules and the engine: what each    *)
(* operator preserves of a well-formed room state, and that nothing        *)
(* clients see changes without a version or a report.                      *)
(*                                                                         *)
(* The second is about the actor: its state keeps its type, its play order *)
(* and its entry ids; a start that waits for everyone neither begins early *)
(* nor waits for ever; what changes is versioned, told to every listener   *)
(* and saved; and phones that follow their own copy of the timeline are    *)
(* where the server is.                                                    *)
(***************************************************************************)
EXTENDS Phones, TLAPS, SequenceTheorems, WellFoundedInduction

\* A state whose play order is a permutation of its context.
Good(s) == s \in States /\ OrderOk(s)

-----------------------------------------------------------------------------
(* Least and greatest numbers *)

\* Every set of natural numbers with an element has a least one.
LEMMA MinNat ==
    ASSUME NEW S, S \subseteq Nat, S # {}
    PROVE  Min(S) \in S /\ \A y \in S : Min(S) <= y
<1>1. PICK x \in S : \A y \in S : ~ (<<y, x>> \in OpToRel(<, Nat))
    BY NatLessThanWellFounded, WFMin
<1>2. \A y \in S : ~ (y < x)
    BY <1>1, Zenon DEF OpToRel
<1>3. \A y \in S : x <= y
    <2> SUFFICES ASSUME NEW y \in S PROVE x <= y
        OBVIOUS
    <2>1. x \in Nat /\ y \in Nat
        OBVIOUS
    <2> QED
        BY <1>2, <2>1
<1>4. QED
    BY <1>3 DEF Min

\* Induction, for a set of numbers.
LEMMA NatInduct ==
    ASSUME NEW S, S \subseteq Nat, 0 \in S, \A n \in S : n + 1 \in S
    PROVE  S = Nat
<1> SUFFICES ASSUME Nat \ S # {} PROVE FALSE
    OBVIOUS
<1> DEFINE n == Min(Nat \ S)
<1>1. n \in Nat \ S /\ \A m \in Nat \ S : n <= m
    BY MinNat
<1> HIDE DEF n
<1>2. n # 0 /\ n - 1 \in Nat
    BY <1>1
<1>3. n - 1 \in S
    BY <1>1, <1>2
<1>4. QED
    BY <1>1, <1>3

LEMMA MaxOfTwo ==
    ASSUME NEW a \in Int, NEW b \in Int
    PROVE  Max({a, b}) = IF a >= b THEN a ELSE b
<1> DEFINE m == IF a >= b THEN a ELSE b
<1>1. m \in {a, b} /\ \A y \in {a, b} : m >= y
    OBVIOUS
<1>2. \A x \in {a, b} : (\A y \in {a, b} : x >= y) => x = m
    OBVIOUS
<1>3. QED
    BY <1>1, <1>2 DEF Max

LEMMA MinOfTwo ==
    ASSUME NEW a \in Int, NEW b \in Int
    PROVE  Min({a, b}) = IF a <= b THEN a ELSE b
<1> DEFINE m == IF a <= b THEN a ELSE b
<1>1. m \in {a, b} /\ \A y \in {a, b} : m <= y
    OBVIOUS
<1>2. \A x \in {a, b} : (\A y \in {a, b} : x <= y) => x = m
    OBVIOUS
<1>3. QED
    BY <1>1, <1>2 DEF Min

-----------------------------------------------------------------------------
(* Playback and the catalog *)

LEMMA DurationIsNat ==
    ASSUME NEW cat, IsCatalog(cat), NEW id
    PROVE  DurationMs(cat, id) \in Nat
BY DEF IsCatalog, DurationMs, Known

LEMMA PositionIsNat ==
    ASSUME NEW p \in Playbacks, NEW time \in Nat
    PROVE  PositionAt(p, time) \in Nat
BY DEF Playbacks, PositionAt

LEMMA EndsAtIsLater ==
    ASSUME NEW p \in Playbacks
    PROVE  EndsAt(p) \in Nat /\ EndsAt(p) >= p.anchorMs
<1>1. p.durationMs - p.positionMs \in Int /\ p.anchorMs \in Nat
    BY DEF Playbacks
<1>2. QED
    BY <1>1, MaxOfTwo DEF EndsAt

-----------------------------------------------------------------------------
(* Updating one part of a good state *)

\* Whatever leaves the context alone keeps the play order.
LEMMA SameOrder ==
    ASSUME NEW s, Good(s), NEW t \in States,
           t.tracks = s.tracks, t.order = s.order, t.contextIndex = s.contextIndex
    PROVE  Good(t)
BY DEF Good, OrderOk

LEMMA PlaybackGood ==
    ASSUME NEW s, Good(s), NEW p \in Playbacks
    PROVE  Good([s EXCEPT !.playback = p])
BY DEF Good, States, OrderOk

LEMMA HoldGood ==
    ASSUME NEW s, Good(s), NEW h \in Holds
    PROVE  Good([s EXCEPT !.hold = h])
BY DEF Good, States, OrderOk

LEMMA VersionGood ==
    ASSUME NEW s, Good(s), NEW v \in Nat
    PROVE  Good([s EXCEPT !.version = v])
BY DEF Good, States, OrderOk

LEMMA QueueGood ==
    ASSUME NEW s, Good(s), NEW q \in Seq(Entries), NEW v \in Nat
    PROVE  Good([s EXCEPT !.queue = q, !.queueVersion = v])
<1>1. [s EXCEPT !.queue = q, !.queueVersion = v] \in States
    BY DEF Good, States
<1>2. QED
    BY <1>1, SameOrder DEF Good, States

LEMMA IndexGood ==
    ASSUME NEW s, Good(s), NEW i \in Nat, i <= Len(s.order)
    PROVE  Good([s EXCEPT !.contextIndex = i])
BY DEF Good, States, OrderOk

LEMMA StartItemGood ==
    ASSUME NEW s, Good(s), NEW item \in Items, NEW anchor \in Nat,
           NEW cat, IsCatalog(cat)
    PROVE  Good(StartItem(s, item, anchor, cat))
<1>1. item.trackID \in TrackIds /\ item.entryID \in Nat
    BY DEF Items
<1>2. QED
    BY <1>1, DurationIsNat, PlaybackGood DEF StartItem, Playbacks

-----------------------------------------------------------------------------
(* Choosing the successor *)

LEMMA ContextTrackIsTrack ==
    ASSUME NEW s, Good(s), NEW i \in DOMAIN s.order
    PROVE  ContextTrack(s, i) \in TrackIds
BY DEF Good, States, OrderOk, ContextTrack

LEMMA DropEntriesGood ==
    ASSUME NEW s, Good(s), NEW n \in Nat
    PROVE  Good(DropEntries(s, n))
<1>1. s.queue \in Seq(Entries) /\ s.queueVersion \in Nat
    BY DEF Good, States
<1>2. \A i \in n + 1 .. Len(s.queue) : s.queue[i] \in Entries
    BY <1>1, LenProperties
<1>3. SubSeq(s.queue, n + 1, Len(s.queue)) \in Seq(Entries)
    BY <1>1, <1>2, LenProperties, SubSeqProperties
<1> DEFINE q == SubSeq(s.queue, n + 1, Len(s.queue))
           v == s.queueVersion + n
<1>4. q \in Seq(Entries) /\ v \in Nat
    BY <1>1, <1>3
<1>5. DropEntries(s, n) = [s EXCEPT !.queue = q, !.queueVersion = v]
    BY DEF DropEntries
<1> HIDE DEF q, v
<1>6. Good([s EXCEPT !.queue = q, !.queueVersion = v])
    BY <1>4, QueueGood
<1>7. QED
    BY <1>5, <1>6, Zenon

LEMMA PlayableEntriesMin ==
    ASSUME NEW s, Good(s), NEW cat, IsCatalog(cat), PlayableEntries(s, cat) # {}
    PROVE  Min(PlayableEntries(s, cat)) \in PlayableEntries(s, cat)
<1>1. s.queue \in Seq(Entries)
    BY DEF Good, States
<1>2. PlayableEntries(s, cat) \subseteq Nat
    BY <1>1, LenProperties DEF PlayableEntries
<1>3. QED
    BY <1>2, MinNat

\* A playable step leads to a place in the play order that holds a known track.
LEMMA PlayableStep ==
    ASSUME NEW s, Good(s), NEW cat, IsCatalog(cat), NEW wrap \in BOOLEAN,
           PlayableSteps(s, wrap, cat) # {}
    PROVE  LET i == ContextPosition(s, Min(PlayableSteps(s, wrap, cat)))
           IN  i \in DOMAIN s.order /\ Known(cat, ContextTrack(s, i))
<1> DEFINE K == PlayableSteps(s, wrap, cat)
<1>1. s.order \in Seq(Nat) /\ Len(s.order) \in Nat /\ DOMAIN s.order = 1..Len(s.order)
    BY LenProperties DEF Good, States
<1>2. K \subseteq Nat
    BY <1>1 DEF PlayableSteps
<1>3. Min(K) \in K
    BY <1>2, MinNat
<1>4. PICK k \in 1..Len(s.order) : /\ k = Min(K)
                                   /\ Known(cat, ContextTrack(s, ContextPosition(s, k)))
    BY <1>3 DEF PlayableSteps
<1>5. s.contextIndex \in Nat /\ s.contextIndex <= Len(s.order)
    BY DEF Good, States, OrderOk
<1>6. ContextPosition(s, k) \in 1..Len(s.order)
    BY <1>1, <1>4, <1>5 DEF ContextPosition
<1>7. QED
    BY <1>1, <1>4, <1>6

\* Taking the next item touches the queue and the place in the context only.
TakesOnlyQueueAndPlace(s, t) ==
    /\ t.playback = s.playback /\ t.hold = s.hold /\ t.version = s.version
    /\ t.waitForAll = s.waitForAll /\ t.repeat = s.repeat /\ t.shuffle = s.shuffle
    /\ t.tracks = s.tracks /\ t.order = s.order
    /\ t.nextEntrySeq = s.nextEntrySeq

LEMMA FromQueueGood ==
    ASSUME NEW s, Good(s), NEW cat, IsCatalog(cat), PlayableEntries(s, cat) # {}
    PROVE  /\ Good(FromQueue(s, cat).st)
           /\ FromQueue(s, cat).item \in Items
           /\ TakesOnlyQueueAndPlace(s, FromQueue(s, cat).st)
<1> DEFINE n == Min(PlayableEntries(s, cat))
<1>1. n \in DOMAIN s.queue
    BY PlayableEntriesMin DEF PlayableEntries
<1>2. n \in Nat /\ s.queue[n] \in Entries
    BY <1>1, LenProperties DEF Good, States
<1>3. /\ FromQueue(s, cat).st = DropEntries(s, n)
      /\ FromQueue(s, cat).item = [trackID |-> s.queue[n].trackID, entryID |-> s.queue[n].id]
    BY DEF FromQueue
<1> HIDE DEF n
<1>4. FromQueue(s, cat).item \in Items
    BY <1>2, <1>3 DEF Items, Entries
<1>5. Good(DropEntries(s, n))
    BY <1>2, DropEntriesGood
<1>6. TakesOnlyQueueAndPlace(s, DropEntries(s, n))
    BY DEF TakesOnlyQueueAndPlace, DropEntries, Good, States
<1>7. QED
    BY <1>3, <1>4, <1>5, <1>6

LEMMA FromContextGood ==
    ASSUME NEW s, Good(s), NEW cat, IsCatalog(cat), NEW wrap \in BOOLEAN,
           PlayableSteps(s, wrap, cat) # {}
    PROVE  /\ Good(FromContext(s, wrap, cat).st)
           /\ FromContext(s, wrap, cat).item \in Items
           /\ TakesOnlyQueueAndPlace(s, FromContext(s, wrap, cat).st)
<1> DEFINE i == ContextPosition(s, Min(PlayableSteps(s, wrap, cat)))
<1>1. i \in DOMAIN s.order
    BY PlayableStep
<1>2. i \in Nat /\ i <= Len(s.order)
    BY <1>1, LenProperties DEF Good, States
<1>3. ContextTrack(s, i) \in TrackIds
    BY <1>1, ContextTrackIsTrack
<1>4. /\ FromContext(s, wrap, cat).st = [s EXCEPT !.contextIndex = i]
      /\ FromContext(s, wrap, cat).item = [trackID |-> ContextTrack(s, i), entryID |-> NoEntry]
    BY DEF FromContext
<1> HIDE DEF i
<1>5. FromContext(s, wrap, cat).item \in Items
    BY <1>3, <1>4 DEF Items, NoEntry
<1>6. Good([s EXCEPT !.contextIndex = i])
    BY <1>2, IndexGood
<1>7. TakesOnlyQueueAndPlace(s, [s EXCEPT !.contextIndex = i])
    BY DEF TakesOnlyQueueAndPlace, Good, States
<1>8. QED
    BY <1>4, <1>5, <1>6, <1>7

LEMMA TakeNextGood ==
    ASSUME NEW s, Good(s), NEW cat, IsCatalog(cat), NEW wrap \in BOOLEAN
    PROVE  /\ Good(TakeNext(s, wrap, cat).st)
           /\ TakeNext(s, wrap, cat).item \in Items \cup {NoItem}
           /\ TakesOnlyQueueAndPlace(s, TakeNext(s, wrap, cat).st)
<1> DEFINE drained == DropEntries(s, Len(s.queue))
<1>1. Good(drained)
    BY DropEntriesGood, LenProperties DEF Good, States
<1>2. TakesOnlyQueueAndPlace(s, drained)
    BY DEF TakesOnlyQueueAndPlace, DropEntries, Good, States
<1>3. PlayableSteps(drained, wrap, cat) = PlayableSteps(s, wrap, cat)
    BY DEF PlayableSteps, ContextPosition, ContextTrack, DropEntries, Good, States
<1>4. CASE PlayableEntries(s, cat) # {}
    BY <1>4, FromQueueGood DEF TakeNext
<1>5. CASE PlayableEntries(s, cat) = {} /\ PlayableSteps(s, wrap, cat) # {}
    <2>1. TakeNext(s, wrap, cat) = FromContext(drained, wrap, cat)
        BY <1>5 DEF TakeNext
    <2> HIDE DEF drained
    <2>2. QED
        BY <2>1, <1>1, <1>2, <1>3, <1>5, FromContextGood DEF TakesOnlyQueueAndPlace
<1>6. CASE PlayableEntries(s, cat) = {} /\ PlayableSteps(s, wrap, cat) = {}
    <2>1. TakeNext(s, wrap, cat) = [item |-> NoItem, st |-> drained]
        BY <1>6 DEF TakeNext
    <2> HIDE DEF drained
    <2>2. QED
        BY <2>1, <1>1, <1>2
<1>7. QED
    BY <1>4, <1>5, <1>6

-----------------------------------------------------------------------------
(* Catching up *)

LEMMA StopAtEndGood ==
    ASSUME NEW s, Good(s), NEW at \in Nat, NEW cat, IsCatalog(cat)
    PROVE  /\ Good(StopAtEnd(s, at, cat))
           /\ StopAtEnd(s, at, cat).hold = s.hold
<1> DEFINE parked == IF s.order = <<>> THEN s.playback.trackID ELSE ContextTrack(s, 1)
           i == IF s.order = <<>> THEN s.contextIndex ELSE 1
           d == IF s.order = <<>> THEN s.playback.durationMs ELSE DurationMs(cat, parked)
           p == [trackID |-> parked, entryID |-> NoEntry, positionMs |-> 0,
                 anchorMs |-> at, playing |-> FALSE, durationMs |-> d]
<1>1. s.order \in Seq(Nat) /\ s.playback \in Playbacks /\ s.contextIndex \in Nat
    BY DEF Good, States
<1>2. s.order # <<>> => 1 \in DOMAIN s.order /\ 1 <= Len(s.order)
    BY <1>1, LenProperties, EmptySeq
<1>3. parked \in TrackIds \cup {NoTrack} /\ d \in Nat
    BY <1>1, <1>2, ContextTrackIsTrack, DurationIsNat DEF Playbacks
<1>4. i \in Nat /\ i <= Len(s.order)
    BY <1>1, <1>2 DEF Good, OrderOk
<1>5. StopAtEnd(s, at, cat) = [s EXCEPT !.contextIndex = i, !.playback = p]
    BY DEF StopAtEnd
<1> HIDE DEF parked, i, d
<1>6. p \in Playbacks
    BY <1>3 DEF Playbacks, NoEntry
<1> HIDE DEF p
<1>7. Good([[s EXCEPT !.contextIndex = i] EXCEPT !.playback = p])
    BY <1>4, <1>6, IndexGood, PlaybackGood
<1>8. [[s EXCEPT !.contextIndex = i] EXCEPT !.playback = p]
        = [s EXCEPT !.contextIndex = i, !.playback = p]
    BY DEF Good, States
<1>9. [s EXCEPT !.contextIndex = i, !.playback = p].hold = s.hold
    BY DEF Good, States
<1>10. QED
    BY <1>5, <1>7, <1>8, <1>9, Zenon

LEMMA AdvanceAutoGood ==
    ASSUME NEW s, Good(s), NEW at \in Nat, NEW cat, IsCatalog(cat)
    PROVE  /\ Good(AdvanceAuto(s, at, cat))
           /\ AdvanceAuto(s, at, cat).hold = s.hold
<1> DEFINE wrap == s.repeat = "all"
           taken == TakeNext(s, wrap, cat)
           again == [s EXCEPT !.playback.positionMs = 0, !.playback.anchorMs = at]
<1>1. /\ Good(taken.st) /\ taken.item \in Items \cup {NoItem}
      /\ taken.st.hold = s.hold
    <2>1. wrap \in BOOLEAN
        OBVIOUS
    <2> HIDE DEF wrap
    <2>2. QED
        BY <2>1, TakeNextGood DEF TakesOnlyQueueAndPlace
<1>2. CASE s.repeat = "one"
    <2>1. [s.playback EXCEPT !.positionMs = 0, !.anchorMs = at] \in Playbacks
        BY DEF Good, States, Playbacks
    <2>2. again = [s EXCEPT !.playback = [s.playback EXCEPT !.positionMs = 0, !.anchorMs = at]]
        BY DEF Good, States, Playbacks
    <2>3. Good(again) /\ again.hold = s.hold
        BY <2>1, <2>2, PlaybackGood DEF Good, States
    <2>4. QED
        BY <1>2, <2>3 DEF AdvanceAuto
<1>3. CASE s.repeat # "one" /\ taken.item = NoItem
    <2>1. AdvanceAuto(s, at, cat) = StopAtEnd(taken.st, at, cat)
        BY <1>3 DEF AdvanceAuto
    <2> HIDE DEF taken
    <2>2. QED
        BY <2>1, <1>1, StopAtEndGood
<1>4. CASE s.repeat # "one" /\ taken.item # NoItem
    <2>1. AdvanceAuto(s, at, cat) = StartItem(taken.st, taken.item, at, cat)
        BY <1>4 DEF AdvanceAuto
    <2> HIDE DEF taken
    <2>2. Good(StartItem(taken.st, taken.item, at, cat))
        BY <1>1, <1>4, StartItemGood
    <2>3. StartItem(taken.st, taken.item, at, cat).hold = taken.st.hold
        BY <1>1 DEF StartItem, Good, States
    <2>4. QED
        BY <2>1, <2>2, <2>3, <1>1
<1>5. QED
    BY <1>2, <1>3, <1>4

LEMMA CatchUpGood ==
    ASSUME NEW s, Good(s), NEW time \in Nat, NEW cat, IsCatalog(cat)
    PROVE  Good(CatchUp(s, time, cat)) /\ CatchUp(s, time, cat).hold = s.hold
<1>1. EndsAt(s.playback) \in Nat
    BY EndsAtIsLater DEF Good, States
<1>2. QED
    BY <1>1, AdvanceAutoGood DEF CatchUp

\* What the first n iterations of Normalize's loop come to.
Loop(f, s, time, cat, n) ==
    f = [k \in 0..n |-> IF k = 0 THEN s ELSE CatchUp(f[k - 1], time, cat)]

\* The loop of Normalize is well-defined.
LEMMA IterationExists ==
    ASSUME NEW s, NEW time, NEW cat, NEW n \in Nat
    PROVE  \E f : Loop(f, s, time, cat, n)
<1> DEFINE S == {m \in Nat : \E f : Loop(f, s, time, cat, m)}
<1>1. 0 \in S
    <2>1. Loop([k \in 0..0 |-> s], s, time, cat, 0)
        BY DEF Loop
    <2>2. QED
        BY <2>1
<1>2. ASSUME NEW m \in S
      PROVE  m + 1 \in S
    <2>1. m \in Nat /\ \E f : Loop(f, s, time, cat, m)
        OBVIOUS
    <2>2. PICK f : Loop(f, s, time, cat, m)
        BY <2>1
    <2> DEFINE g == [k \in 0..m + 1 |-> IF k = m + 1 THEN CatchUp(f[m], time, cat) ELSE f[k]]
    <2>3. \A k \in 0..m + 1 : g[k] = IF k = 0 THEN s ELSE CatchUp(g[k - 1], time, cat)
        <3> TAKE k \in 0..m + 1
        <3>1. CASE k = m + 1
            BY <2>1, <3>1
        <3>2. CASE k # m + 1
            <4>1. k \in 0..m /\ g[k] = f[k] /\ (k # 0 => k - 1 \in 0..m /\ g[k - 1] = f[k - 1])
                BY <2>1, <3>2
            <4>2. f[k] = IF k = 0 THEN s ELSE CatchUp(f[k - 1], time, cat)
                BY <2>2, <4>1 DEF Loop
            <4>3. QED
                BY <4>1, <4>2
        <3>3. QED
            BY <3>1, <3>2
    <2>4. g = [k \in 0..m + 1 |-> g[k]]
        OBVIOUS
    <2> HIDE DEF g
    <2>5. Loop(g, s, time, cat, m + 1)
        BY <2>3, <2>4 DEF Loop
    <2>6. QED
        BY <2>1, <2>5
<1>3. S \subseteq Nat
    OBVIOUS
<1> HIDE DEF S
<1>4. S = Nat
    BY <1>1, <1>2, <1>3, NatInduct
<1>5. QED
    BY <1>4 DEF S

LEMMA Iteration ==
    ASSUME NEW s, NEW time, NEW cat
    PROVE  /\ Iterated(s, time, cat)[0] = s
           /\ \A k \in 0..MaxAdvanceSteps - 1 :
                  Iterated(s, time, cat)[k + 1] = CatchUp(Iterated(s, time, cat)[k], time, cat)
<1> DEFINE a == Iterated(s, time, cat)
<1>1. a = CHOOSE f : Loop(f, s, time, cat, MaxAdvanceSteps)
    BY DEF Iterated, Loop
<1>2. \E f : Loop(f, s, time, cat, MaxAdvanceSteps)
    BY StepsAssumption, IterationExists
<1> HIDE DEF a
<1>3. Loop(a, s, time, cat, MaxAdvanceSteps)
    BY <1>1, <1>2
<1>4. \A k \in 0..MaxAdvanceSteps : a[k] = IF k = 0 THEN s ELSE CatchUp(a[k - 1], time, cat)
    BY <1>3 DEF Loop
<1>5. a[0] = s
    BY <1>4, StepsAssumption
<1>6. ASSUME NEW k \in 0..MaxAdvanceSteps - 1
      PROVE  a[k + 1] = CatchUp(a[k], time, cat)
    <2>1. k + 1 \in 0..MaxAdvanceSteps /\ k + 1 # 0 /\ k + 1 - 1 = k
        BY StepsAssumption
    <2>2. QED
        BY <1>4, <2>1
<1>7. QED
    BY <1>5, <1>6 DEF a

\* What catching up by one track keeps, all of it keeps.
LEMMA IteratedStays ==
    ASSUME NEW S, NEW s \in S, NEW time, NEW cat, \A x \in S : CatchUp(x, time, cat) \in S
    PROVE  /\ \A k \in 0..MaxAdvanceSteps : Iterated(s, time, cat)[k] \in S
           /\ Normalize(s, time, cat) \in S
<1> DEFINE a == Iterated(s, time, cat)
           T == {k \in Nat : k <= MaxAdvanceSteps => a[k] \in S}
<1>1. /\ a[0] = s
      /\ \A k \in 0..MaxAdvanceSteps - 1 : a[k + 1] = CatchUp(a[k], time, cat)
    BY Iteration
<1> HIDE DEF a
<1>2. 0 \in T
    BY <1>1
<1>3. \A k \in T : k + 1 \in T
    <2> SUFFICES ASSUME NEW k \in T, k + 1 <= MaxAdvanceSteps
                 PROVE  a[k + 1] \in S
        OBVIOUS
    <2>1. k \in 0..MaxAdvanceSteps - 1 /\ a[k] \in S
        BY StepsAssumption
    <2>2. QED
        BY <1>1, <2>1
<1>4. T \subseteq Nat
    OBVIOUS
<1> HIDE DEF T
<1>5. T = Nat
    BY <1>2, <1>3, <1>4, NatInduct
<1>6. \A k \in 0..MaxAdvanceSteps : a[k] \in S
    BY <1>5, StepsAssumption DEF T
<1>7. MaxAdvanceSteps \in 0..MaxAdvanceSteps
    BY StepsAssumption
<1>8. QED
    BY <1>6, <1>7 DEF Normalize, a

LEMMA NormalizeGood ==
    ASSUME NEW s, Good(s), NEW time \in Nat, NEW cat, IsCatalog(cat)
    PROVE  Good(Normalize(s, time, cat)) /\ Normalize(s, time, cat).hold = s.hold
<1> DEFINE S == {x \in States : Good(x) /\ x.hold = s.hold}
<1>1. s \in S
    BY DEF Good
<1>2. \A x \in S : CatchUp(x, time, cat) \in S
    BY CatchUpGood DEF Good
<1> HIDE DEF S
<1>3. Normalize(s, time, cat) \in S
    BY <1>1, <1>2, IteratedStays
<1>4. QED
    BY <1>3 DEF S

LEMMA SettleGood ==
    ASSUME NEW s, Good(s), NEW time \in Nat, NEW cat, IsCatalog(cat)
    PROVE  Good(Settle(s, time, cat)) /\ Settle(s, time, cat).hold = s.hold
<1> DEFINE n == Normalize(s, time, cat)
           v == n.version + 1
<1>1. Good(n) /\ n.hold = s.hold
    BY NormalizeGood
<1> HIDE DEF n
<1>2. v \in Nat
    BY <1>1 DEF Good, States
<1> HIDE DEF v
<1>3. Good([n EXCEPT !.version = v]) /\ [n EXCEPT !.version = v].hold = n.hold
    BY <1>1, <1>2, VersionGood DEF Good, States
<1>4. Settle(s, time, cat) = IF Overdue(s, time) THEN [n EXCEPT !.version = v] ELSE s
    BY DEF Settle, n, v
<1>5. QED
    BY <1>1, <1>3, <1>4

-----------------------------------------------------------------------------
(* Commands *)

\* What every command guarantees: a good state, and the playback and the hold
\* as they were unless it reports a change.
Sound(s, outcome) ==
    /\ Good(outcome.st)
    /\ outcome.changed = {} =>
           /\ outcome.st.playback = s.playback
           /\ outcome.st.hold = s.hold

LEMMA ChangeIsSound ==
    ASSUME NEW s, NEW t, Good(t), NEW parts, parts # {}
    PROVE  Sound(s, Did(t, parts))
BY DEF Sound, Did, Outcome

LEMMA NothingIsSound ==
    ASSUME NEW s, NEW t, Good(t), t.playback = s.playback, t.hold = s.hold
    PROVE  Sound(s, NoChange(t)) /\ Sound(s, Refuse(t))
BY DEF Sound, NoChange, Refuse, Outcome

LEMMA ClampIsNat ==
    ASSUME NEW s, Good(s), NEW pos \in Int
    PROVE  Clamp(s, pos) \in Nat
BY DEF Clamp, Good, States, Playbacks

LEMMA NoHoldIsHold == NoHold \in Holds
BY DEF NoHold, Holds, NoEntry

LEMMA StartGood ==
    ASSUME NEW s, Good(s), NEW item \in Items, NEW time \in Nat, NEW cat, IsCatalog(cat)
    PROVE  Good(Start(s, item, time, cat))
<1> DEFINE t == StartItem(s, item, time + StartDelayMs, cat)
           h == IF s.waitForAll /\ WaitForAllMaxMs > 0
                THEN [trackID |-> item.trackID, entryID |-> item.entryID,
                      untilMs |-> time + WaitForAllMaxMs]
                ELSE NoHold
<1>1. time + StartDelayMs \in Nat /\ time + WaitForAllMaxMs \in Nat
    BY TimingAssumption
<1>2. Good(t)
    BY <1>1, StartItemGood
<1>3. h \in Holds
    BY <1>1, NoHoldIsHold DEF Items, Holds
<1>4. Start(s, item, time, cat) = [t EXCEPT !.hold = h]
    BY DEF Start
<1> HIDE DEF t, h
<1>5. QED
    BY <1>2, <1>3, <1>4, HoldGood

LEMMA StartContextTrackGood ==
    ASSUME NEW s, Good(s), NEW i \in DOMAIN s.order, NEW time \in Nat,
           NEW cat, IsCatalog(cat)
    PROVE  Good(StartContextTrack(s, i, time, cat))
<1> DEFINE t == [s EXCEPT !.contextIndex = i]
           item == [trackID |-> ContextTrack(s, i), entryID |-> NoEntry]
<1>1. i \in Nat /\ i <= Len(s.order)
    BY LenProperties DEF Good, States
<1>2. Good(t)
    BY <1>1, IndexGood
<1>3. item \in Items
    BY ContextTrackIsTrack DEF Items, NoEntry
<1>4. StartContextTrack(s, i, time, cat) = Start(t, item, time, cat)
    BY DEF StartContextTrack
<1> HIDE DEF t, item
<1>5. QED
    BY <1>2, <1>3, <1>4, StartGood

\* Replacing the playback and dropping the hold.
LEMMA PlayWithoutHoldGood ==
    ASSUME NEW s, Good(s), NEW p \in Playbacks
    PROVE  Good([s EXCEPT !.playback = p, !.hold = NoHold])
<1>1. Good([[s EXCEPT !.playback = p] EXCEPT !.hold = NoHold])
    BY PlaybackGood, HoldGood, NoHoldIsHold
<1>2. [[s EXCEPT !.playback = p] EXCEPT !.hold = NoHold]
          = [s EXCEPT !.playback = p, !.hold = NoHold]
    BY DEF Good, States
<1>3. QED
    BY <1>1, <1>2, Zenon

\* What a command makes of the playback: another position, anchor and state.
LEMMA MovePlayback ==
    ASSUME NEW s, Good(s), NEW pos \in Nat, NEW anchor \in Nat, NEW playing \in BOOLEAN
    PROVE  Good([s EXCEPT !.playback.positionMs = pos, !.playback.anchorMs = anchor,
                          !.playback.playing = playing, !.hold = NoHold])
<1> DEFINE p == [s.playback EXCEPT !.positionMs = pos, !.anchorMs = anchor,
                                   !.playing = playing]
<1>1. p \in Playbacks
    BY DEF Good, States, Playbacks
<1>2. [s EXCEPT !.playback.positionMs = pos, !.playback.anchorMs = anchor,
                !.playback.playing = playing, !.hold = NoHold]
          = [s EXCEPT !.playback = p, !.hold = NoHold]
    BY DEF Good, States, Playbacks
<1> HIDE DEF p
<1>3. Good([s EXCEPT !.playback = p, !.hold = NoHold])
    BY <1>1, PlayWithoutHoldGood
<1>4. QED
    BY <1>2, <1>3, Zenon

LEMMA ResumeGood ==
    ASSUME NEW s, Good(s), NEW pos \in Int \cup {NoValue}, NEW time \in Nat
    PROVE  Good(Resume(s, pos, time))
<1> DEFINE wanted == IF pos = NoValue THEN s.playback.positionMs ELSE pos
           c == Clamp(s, wanted)
           anchor == time + ResumeDelayMs
<1>1. wanted \in Int
    BY DEF Good, States, Playbacks
<1> HIDE DEF wanted
<1>2. c \in Nat /\ anchor \in Nat
    BY <1>1, ClampIsNat, TimingAssumption
<1> HIDE DEF c, anchor
<1>3. Good([s EXCEPT !.playback.positionMs = c, !.playback.anchorMs = anchor,
                     !.playback.playing = TRUE, !.hold = NoHold])
    BY <1>2, MovePlayback
<1>4. QED
    BY <1>3 DEF Resume, c, anchor, wanted

LEMMA PlaySound ==
    ASSUME NEW s, Good(s), NEW pos \in Int \cup {NoValue}, NEW time \in Nat,
           NEW cat, IsCatalog(cat)
    PROVE  Sound(s, Play(s, pos, time, cat))
<1> DEFINE taken == TakeNext(s, FALSE, cat)
<1>1. /\ Good(taken.st) /\ taken.item \in Items \cup {NoItem}
      /\ taken.st.playback = s.playback /\ taken.st.hold = s.hold
    BY TakeNextGood DEF TakesOnlyQueueAndPlace
<1> HIDE DEF taken
<1>2. Sound(s, NoChange(s))
    BY NothingIsSound
<1>3. Sound(s, Did(Resume(s, pos, time), {"playback"}))
    BY ResumeGood, ChangeIsSound
<1>4. Sound(s, Refuse(taken.st))
    BY <1>1, NothingIsSound
<1>5. ASSUME taken.item # NoItem
      PROVE  Sound(s, Did(Start(taken.st, taken.item, time, cat), {"playback"}))
    BY <1>1, <1>5, StartGood, ChangeIsSound
<1>6. QED
    BY <1>2, <1>3, <1>4, <1>5 DEF Play, taken

LEMMA PauseSound ==
    ASSUME NEW s, Good(s), NEW pos \in Int \cup {NoValue}, NEW time \in Nat
    PROVE  Sound(s, Pause(s, pos, time))
<1> DEFINE here == PausePosition(s, pos, time)
           c == Clamp(s, here)
<1>1. PositionAt(s.playback, time) \in Nat
    BY PositionIsNat DEF Good, States
<1>2. here \in Int
    BY <1>1 DEF PausePosition
<1> HIDE DEF here
<1>3. c \in Nat
    BY <1>2, ClampIsNat
<1> HIDE DEF c
<1>4. Good([s EXCEPT !.playback.positionMs = c, !.playback.anchorMs = time,
                     !.playback.playing = FALSE, !.hold = NoHold])
    BY <1>3, MovePlayback
<1>5. Sound(s, Did([s EXCEPT !.playback.positionMs = c, !.playback.anchorMs = time,
                             !.playback.playing = FALSE, !.hold = NoHold], {"playback"}))
    BY <1>4, ChangeIsSound
<1>6. Sound(s, NoChange(s))
    BY NothingIsSound
<1>7. QED
    BY <1>5, <1>6 DEF Pause, c, here

LEMMA SeekSound ==
    ASSUME NEW s, Good(s), NEW pos \in Int, NEW time \in Nat
    PROVE  Sound(s, Seek(s, pos, time))
<1> DEFINE c == Clamp(s, pos)
           anchor == IF s.playback.playing THEN time + ResumeDelayMs ELSE time
<1>1. c \in Nat /\ anchor \in Nat
    BY ClampIsNat, TimingAssumption
<1> HIDE DEF c, anchor
<1>2. s.playback.playing \in BOOLEAN
    BY DEF Good, States, Playbacks
<1>3. Good([s EXCEPT !.playback.positionMs = c, !.playback.anchorMs = anchor,
                     !.playback.playing = s.playback.playing, !.hold = NoHold])
    BY <1>1, <1>2, MovePlayback
<1>4. [s EXCEPT !.playback.positionMs = c, !.playback.anchorMs = anchor,
                !.playback.playing = s.playback.playing, !.hold = NoHold]
          = [s EXCEPT !.playback.positionMs = c, !.playback.anchorMs = anchor, !.hold = NoHold]
    BY DEF Good, States, Playbacks
<1>5. Sound(s, Did([s EXCEPT !.playback.positionMs = c, !.playback.anchorMs = anchor,
                             !.hold = NoHold], {"playback"}))
    BY <1>3, <1>4, ChangeIsSound
<1>6. Sound(s, Refuse(s))
    BY NothingIsSound
<1>7. QED
    BY <1>5, <1>6 DEF Seek, c, anchor

LEMMA SkipNextSound ==
    ASSUME NEW s, Good(s), NEW time \in Nat, NEW cat, IsCatalog(cat)
    PROVE  Sound(s, SkipNext(s, time, cat))
<1> DEFINE wrap == s.repeat # "off"
           taken == TakeNext(s, wrap, cat)
           stopped == [StopAtEnd(taken.st, time, cat) EXCEPT !.hold = NoHold]
<1>1. wrap \in BOOLEAN
    OBVIOUS
<1> HIDE DEF wrap
<1>2. /\ Good(taken.st) /\ taken.item \in Items \cup {NoItem}
      /\ taken.st.playback = s.playback /\ taken.st.hold = s.hold
    BY <1>1, TakeNextGood DEF TakesOnlyQueueAndPlace
<1> HIDE DEF taken
<1>3. ASSUME taken.item # NoItem
      PROVE  Sound(s, Did(Start(taken.st, taken.item, time, cat), {"playback"}))
    BY <1>2, <1>3, StartGood, ChangeIsSound
<1>4. Sound(s, NoChange(taken.st))
    BY <1>2, NothingIsSound
<1>5. Good(stopped)
    BY <1>2, StopAtEndGood, HoldGood, NoHoldIsHold
<1>6. Sound(s, Did(stopped, {"playback"}))
    BY <1>5, ChangeIsSound
<1>7. QED
    BY <1>3, <1>4, <1>6 DEF SkipNext, taken, wrap

LEMMA SkipPrevSound ==
    ASSUME NEW s, Good(s), NEW time \in Nat, NEW cat, IsCatalog(cat)
    PROVE  Sound(s, SkipPrev(s, time, cat))
<1> DEFINE i == IF PositionAt(s.playback, time) > PrevRestartThresholdMs THEN 0
                ELSE PrevPosition(s)
<1>1. s.order \in Seq(Nat) /\ Len(s.order) \in Nat /\ DOMAIN s.order = 1..Len(s.order)
    BY LenProperties DEF Good, States
<1>2. s.contextIndex \in Nat /\ s.contextIndex <= Len(s.order)
    BY DEF Good, States, OrderOk
<1>3. PrevPosition(s) \in 0..Len(s.order)
    BY <1>1, <1>2 DEF PrevPosition
<1>4. i \in 0..Len(s.order)
    BY <1>1, <1>3
<1> HIDE DEF i
<1>5. Sound(s, NoChange(s))
    BY NothingIsSound
<1>6. Sound(s, Seek(s, 0, time))
    BY SeekSound
<1>7. ASSUME i # 0
      PROVE  Sound(s, Did(StartContextTrack(s, i, time, cat), {"playback"}))
    <2>1. i \in DOMAIN s.order
        BY <1>1, <1>4, <1>7
    <2>2. Good(StartContextTrack(s, i, time, cat))
        BY <2>1, StartContextTrackGood
    <2>3. QED
        BY <2>2, ChangeIsSound
<1>8. QED
    BY <1>5, <1>6, <1>7 DEF SkipPrev, i

LEMMA EndedSound ==
    ASSUME NEW s, Good(s), NEW trackID, NEW entryID, NEW time \in Nat,
           NEW cat, IsCatalog(cat)
    PROVE  Sound(s, Ended(s, trackID, entryID, time, cat))
<1>1. Sound(s, NoChange(s))
    BY NothingIsSound
<1>2. Sound(s, Did(AdvanceAuto(s, time, cat), {"playback"}))
    BY AdvanceAutoGood, ChangeIsSound
<1>3. QED
    BY <1>1, <1>2 DEF Ended

\* A play order over n tracks is a permutation of them.
LEMMA OrdersArePermutations ==
    ASSUME NEW n \in Nat, NEW first, NEW shuffle, NEW f \in Orders(n, first, shuffle)
    PROVE  /\ f \in Seq(Nat) /\ Len(f) = n /\ DOMAIN f = 1..n
           /\ \A i \in 1..n : f[i] \in 1..n
           /\ \A i, j \in 1..n : f[i] = f[j] => i = j
<1>1. f \in [1..n -> 1..n] /\ \A i, j \in 1..n : f[i] = f[j] => i = j
    BY DEF Orders, Bijection, Injection, IsInjective
<1>2. f \in [1..n -> Nat]
    BY <1>1
<1>3. f \in Seq(Nat)
    BY <1>2, SeqDef
<1>4. DOMAIN f = 1..n
    BY <1>1
<1>5. Len(f) = n
    BY <1>3, <1>4, LenProperties
<1>6. QED
    BY <1>1, <1>3, <1>4, <1>5

LEMMA ContextGood ==
    ASSUME NEW s, Good(s), NEW tracks \in Seq(TrackIds), NEW first, NEW on \in BOOLEAN,
           NEW order \in Orders(Len(tracks), first, on),
           NEW i \in Nat, i <= Len(tracks)
    PROVE  Good([s EXCEPT !.shuffle = on, !.tracks = tracks, !.order = order,
                          !.contextIndex = i])
<1> DEFINE t == [s EXCEPT !.shuffle = on, !.tracks = tracks, !.order = order,
                          !.contextIndex = i]
<1>1. Len(tracks) \in Nat /\ DOMAIN tracks = 1..Len(tracks)
    BY LenProperties
<1>2. /\ order \in Seq(Nat) /\ Len(order) = Len(tracks)
      /\ DOMAIN order = DOMAIN tracks
      /\ \A k \in DOMAIN order : order[k] \in DOMAIN tracks
      /\ \A k, l \in DOMAIN order : order[k] = order[l] => k = l
    BY <1>1, OrdersArePermutations
<1>3. t \in States
    BY <1>2 DEF Good, States
<1>4. t.tracks = tracks /\ t.order = order /\ t.contextIndex = i
    BY DEF Good, States
<1> HIDE DEF t
<1>5. OrderOk(t)
    BY <1>2, <1>4 DEF OrderOk
<1>6. QED
    BY <1>3, <1>5 DEF Good, t

\* How PlayContext restarts: the new context, from a place in its order.
LEMMA PlayContextSound ==
    ASSUME NEW s, Good(s), NEW tracks \in Seq(TrackIds),
           NEW first \in 0..Len(tracks) \cup {NoValue},
           NEW order \in Orders(Len(tracks), IF first = NoValue THEN 0 ELSE first, s.shuffle),
           NEW time \in Nat, NEW cat, IsCatalog(cat)
    PROVE  Sound(s, PlayContext(s, tracks, first, order, time, cat))
<1> DEFINE t == [s EXCEPT !.tracks = tracks, !.order = order]
           t0 == [s EXCEPT !.shuffle = s.shuffle, !.tracks = tracks, !.order = order,
                           !.contextIndex = 0]
           i == IF ~s.shuffle /\ first > 0 THEN first ELSE 1
<1>1. Sound(s, Refuse(s))
    BY NothingIsSound
<1>2. ASSUME tracks # <<>>, first # NoValue
      PROVE  Good(StartContextTrack(t, i, time, cat))
    <2>1. Len(tracks) \in Nat /\ 1 <= Len(tracks)
        BY <1>2, EmptySeq
    <2>2. i \in 1..Len(tracks)
        BY <1>2, <2>1
    <2> HIDE DEF i
    <2>3. /\ order \in Seq(Nat) /\ DOMAIN order = 1..Len(tracks)
        BY <2>1, OrdersArePermutations
    <2>4. Good(t0)
        <3>1. s.shuffle \in BOOLEAN
            BY DEF Good, States
        <3>2. 0 \in Nat /\ 0 <= Len(tracks)
            BY <2>1
        <3>3. QED
            BY <3>1, <3>2, ContextGood, Zenon
    <2>5. t0.order = order
        BY DEF Good, States
    <2>6. StartContextTrack(t, i, time, cat) = StartContextTrack(t0, i, time, cat)
        <3>1. [t EXCEPT !.contextIndex = i] = [t0 EXCEPT !.contextIndex = i]
            BY DEF Good, States
        <3>2. ContextTrack(t, i) = ContextTrack(t0, i)
            BY DEF Good, States, ContextTrack
        <3> HIDE DEF t, t0
        <3>3. QED
            BY <3>1, <3>2 DEF StartContextTrack
    <2> HIDE DEF t, t0
    <2>7. Good(StartContextTrack(t0, i, time, cat))
        BY <2>2, <2>3, <2>4, <2>5, StartContextTrackGood
    <2>8. QED
        BY <2>6, <2>7
<1>3. ASSUME tracks # <<>>, first # NoValue
      PROVE  Sound(s, Did(StartContextTrack(t, i, time, cat), {"playback", "context"}))
    BY <1>2, <1>3, ChangeIsSound
<1>4. QED
    BY <1>1, <1>3 DEF PlayContext

LEMMA JumpToSound ==
    ASSUME NEW s, Good(s), NEW i, NEW time \in Nat, NEW cat, IsCatalog(cat)
    PROVE  Sound(s, JumpTo(s, i, time, cat))
<1>1. Sound(s, Refuse(s))
    BY NothingIsSound
<1>2. ASSUME i \in DOMAIN s.order
      PROVE  Sound(s, Did(StartContextTrack(s, i, time, cat), {"playback"}))
    BY <1>2, StartContextTrackGood, ChangeIsSound
<1>3. QED
    BY <1>1, <1>2 DEF JumpTo

LEMMA SetShuffleSound ==
    ASSUME NEW s, Good(s), NEW on \in BOOLEAN,
           NEW order \in Orders(Len(s.tracks), CurrentTrack(s), on)
    PROVE  Sound(s, SetShuffle(s, on, order))
<1> DEFINE current == CurrentTrack(s)
           i == IF on /\ current # 0 THEN 1 ELSE current
           same == [s EXCEPT !.shuffle = on]
           other == [s EXCEPT !.shuffle = on, !.order = order, !.contextIndex = i]
<1>1. /\ s.tracks \in Seq(TrackIds) /\ s.order \in Seq(Nat)
      /\ Len(s.order) = Len(s.tracks) /\ Len(s.tracks) \in Nat
      /\ DOMAIN s.order = 1..Len(s.tracks) /\ DOMAIN s.tracks = 1..Len(s.tracks)
    BY LenProperties DEF Good, States, OrderOk
<1>2. current \in 0..Len(s.tracks)
    BY <1>1 DEF CurrentTrack, Good, OrderOk
<1>3. i \in Nat /\ i <= Len(s.tracks)
    BY <1>1, <1>2
<1> HIDE DEF i, current
<1>4. Good([s EXCEPT !.shuffle = on, !.tracks = s.tracks, !.order = order,
                     !.contextIndex = i])
    BY <1>1, <1>3, ContextGood
<1>5. [s EXCEPT !.shuffle = on, !.tracks = s.tracks, !.order = order, !.contextIndex = i]
          = other
    BY DEF Good, States
<1>6. Good(other)
    BY <1>4, <1>5, Zenon
<1>7. Good(same)
    BY SameOrder DEF Good, States
<1> HIDE DEF same, other
<1>8. Sound(s, NoChange(s)) /\ Sound(s, Did(same, {"settings"}))
    BY <1>7, NothingIsSound, ChangeIsSound
<1>9. Sound(s, Did(other, {"settings", "context"}))
    BY <1>6, ChangeIsSound
<1>10. QED
    BY <1>8, <1>9 DEF SetShuffle, same, other, i, current

-----------------------------------------------------------------------------
(* The queue *)

LEMMA RemoveAtSeq ==
    ASSUME NEW S, NEW q \in Seq(S), NEW i \in DOMAIN q
    PROVE  /\ RemoveAt(q, i) \in Seq(S)
           /\ Len(RemoveAt(q, i)) = Len(q) - 1
           /\ \A k \in 1..Len(q) - 1 :
                  RemoveAt(q, i)[k] = IF k < i THEN q[k] ELSE q[k + 1]
<1>1. Len(q) \in Nat /\ DOMAIN q = 1..Len(q) /\ i \in 1..Len(q)
    BY LenProperties
<1> DEFINE a == SubSeq(q, 1, i - 1)
           b == SubSeq(q, i + 1, Len(q))
<1>2. \A k \in 1..Len(q) : q[k] \in S
    BY ElementOfSeq
<1>3. /\ a \in Seq(S) /\ Len(a) = i - 1
      /\ \A k \in 1..i - 1 : a[k] = q[k]
    <2>1. \A k \in 1..i - 1 : q[k] \in S
        BY <1>1, <1>2
    <2>2. QED
        BY <1>1, <2>1, SubSeqProperties
<1>4. /\ b \in Seq(S) /\ Len(b) = Len(q) - i
      /\ \A k \in 1..Len(q) - i : b[k] = q[k + i]
    <2>1. \A k \in i + 1..Len(q) : q[k] \in S
        BY <1>1, <1>2
    <2>2. QED
        BY <1>1, <2>1, SubSeqProperties
<1> HIDE DEF a, b
<1>5. /\ a \o b \in Seq(S) /\ Len(a \o b) = Len(q) - 1
      /\ \A k \in 1..Len(q) - 1 : (a \o b)[k] = IF k < i THEN q[k] ELSE q[k + 1]
    <2>1. /\ a \o b \in Seq(S) /\ Len(a \o b) = Len(a) + Len(b)
          /\ \A k \in 1..Len(a) + Len(b) :
                 (a \o b)[k] = IF k <= Len(a) THEN a[k] ELSE b[k - Len(a)]
        BY <1>3, <1>4, ConcatProperties
    <2>2. Len(a) + Len(b) = Len(q) - 1
        BY <1>1, <1>3, <1>4
    <2>3. ASSUME NEW k \in 1..Len(q) - 1
          PROVE  (a \o b)[k] = IF k < i THEN q[k] ELSE q[k + 1]
        <3>1. CASE k < i
            BY <1>1, <1>3, <2>1, <2>2, <3>1
        <3>2. CASE k >= i
            <4> DEFINE j == k - (i - 1)
            <4>1. j \in 1..Len(q) - i /\ j + i = k + 1
                BY <1>1, <3>2
            <4>2. (a \o b)[k] = b[j]
                BY <1>1, <1>3, <2>1, <2>2, <3>2
            <4> HIDE DEF j
            <4>3. b[j] = q[j + i]
                BY <1>4, <4>1
            <4>4. (a \o b)[k] = q[k + 1]
                BY <4>1, <4>2, <4>3
            <4>5. QED
                BY <1>1, <3>2, <4>4
        <3>3. k < i \/ k >= i
            BY <1>1
        <3>4. QED
            BY <3>1, <3>2, <3>3, Zenon
    <2>4. QED
        BY <2>1, <2>2, <2>3
<1>6. QED
    BY <1>5 DEF RemoveAt, a, b

LEMMA InsertAtSeq ==
    ASSUME NEW S, NEW q \in Seq(S), NEW i \in 1..Len(q) + 1, NEW e \in S
    PROVE  /\ InsertAt(q, i, e) \in Seq(S)
           /\ Len(InsertAt(q, i, e)) = Len(q) + 1
           /\ \A k \in 1..Len(q) + 1 :
                  InsertAt(q, i, e)[k] =
                      IF k < i THEN q[k] ELSE IF k = i THEN e ELSE q[k - 1]
<1>1. Len(q) \in Nat
    BY LenProperties
<1> DEFINE a == SubSeq(q, 1, i - 1)
           b == SubSeq(q, i, Len(q))
           one == <<e>>
<1>2. \A k \in 1..Len(q) : q[k] \in S
    BY ElementOfSeq
<1>3. /\ a \in Seq(S) /\ Len(a) = i - 1
      /\ \A k \in 1..i - 1 : a[k] = q[k]
    <2>1. \A k \in 1..i - 1 : q[k] \in S
        BY <1>1, <1>2
    <2>2. QED
        BY <1>1, <2>1, SubSeqProperties
<1>4. /\ b \in Seq(S) /\ Len(b) = Len(q) - i + 1
      /\ \A k \in 1..Len(q) - i + 1 : b[k] = q[k + i - 1]
    <2>1. \A k \in i..Len(q) : q[k] \in S
        BY <1>1, <1>2
    <2>2. QED
        BY <1>1, <2>1, SubSeqProperties
<1>5. one \in Seq(S) /\ Len(one) = 1 /\ one[1] = e
    OBVIOUS
<1> HIDE DEF a, b, one
<1>6. /\ a \o one \in Seq(S) /\ Len(a \o one) = i
      /\ \A k \in 1..i : (a \o one)[k] = IF k < i THEN q[k] ELSE e
    <2>1. /\ a \o one \in Seq(S) /\ Len(a \o one) = Len(a) + Len(one)
          /\ \A k \in 1..Len(a) + Len(one) :
                 (a \o one)[k] = IF k <= Len(a) THEN a[k] ELSE one[k - Len(a)]
        BY <1>3, <1>5, ConcatProperties
    <2>2. Len(a) + Len(one) = i
        BY <1>1, <1>3, <1>5
    <2>3. ASSUME NEW k \in 1..i
          PROVE  (a \o one)[k] = IF k < i THEN q[k] ELSE e
        BY <1>1, <1>3, <1>5, <2>1, <2>2
    <2>4. QED
        BY <2>1, <2>2, <2>3
<1> DEFINE c == a \o one
<1> HIDE DEF c
<1>7. /\ c \o b \in Seq(S) /\ Len(c \o b) = Len(q) + 1
      /\ \A k \in 1..Len(q) + 1 :
             (c \o b)[k] = IF k < i THEN q[k] ELSE IF k = i THEN e ELSE q[k - 1]
    <2>1. c \in Seq(S) /\ Len(c) = i /\ \A k \in 1..i : c[k] = IF k < i THEN q[k] ELSE e
        BY <1>6 DEF c
    <2>2. /\ c \o b \in Seq(S) /\ Len(c \o b) = Len(c) + Len(b)
          /\ \A k \in 1..Len(c) + Len(b) :
                 (c \o b)[k] = IF k <= Len(c) THEN c[k] ELSE b[k - Len(c)]
        BY <1>4, <2>1, ConcatProperties
    <2>3. Len(c) + Len(b) = Len(q) + 1
        BY <1>1, <1>4, <2>1
    <2>4. ASSUME NEW k \in 1..Len(q) + 1
          PROVE  (c \o b)[k] = IF k < i THEN q[k] ELSE IF k = i THEN e ELSE q[k - 1]
        <3>1. CASE k <= i
            BY <1>1, <2>1, <2>2, <2>3, <3>1
        <3>2. CASE k > i
            <4> DEFINE j == k - i
            <4>1. j \in 1..Len(q) - i + 1 /\ j + i - 1 = k - 1
                BY <1>1, <3>2
            <4>2. (c \o b)[k] = b[j]
                BY <1>1, <2>1, <2>2, <2>3, <3>2
            <4> HIDE DEF j
            <4>3. b[j] = q[j + i - 1]
                BY <1>4, <4>1
            <4>4. (c \o b)[k] = q[k - 1]
                BY <4>1, <4>2, <4>3
            <4>5. QED
                BY <1>1, <3>2, <4>4
        <3>3. k <= i \/ k > i
            BY <1>1
        <3>4. QED
            BY <3>1, <3>2, <3>3, Zenon
    <2>5. QED
        BY <2>2, <2>3, <2>4
<1>8. QED
    BY <1>7 DEF InsertAt, a, b, c, one

LEMMA EntryAtMin ==
    ASSUME NEW s, Good(s), NEW id, EntryAt(s, id) # {}
    PROVE  /\ Min(EntryAt(s, id)) \in DOMAIN s.queue
           /\ s.queue[Min(EntryAt(s, id))].id = id
<1>1. EntryAt(s, id) \subseteq Nat
    BY LenProperties DEF EntryAt, Good, States
<1>2. Min(EntryAt(s, id)) \in EntryAt(s, id)
    BY <1>1, MinNat
<1>3. QED
    BY <1>2 DEF EntryAt

\* Replacing the queue alone.
LEMMA NewQueueGood ==
    ASSUME NEW s, Good(s), NEW q \in Seq(Entries)
    PROVE  Good([s EXCEPT !.queue = q])
BY DEF Good, States, OrderOk

LEMMA WithoutEntryGood ==
    ASSUME NEW s, Good(s), NEW i \in DOMAIN s.queue
    PROVE  Good([s EXCEPT !.queue = RemoveAt(@, i)])
<1>1. RemoveAt(s.queue, i) \in Seq(Entries)
    BY RemoveAtSeq DEF Good, States
<1>2. Good([s EXCEPT !.queue = RemoveAt(s.queue, i)])
    BY <1>1, NewQueueGood
<1>3. QED
    BY <1>2, Zenon

LEMMA PlayEntrySound ==
    ASSUME NEW s, Good(s), NEW id, NEW time \in Nat, NEW cat, IsCatalog(cat)
    PROVE  Sound(s, PlayEntry(s, id, time, cat))
<1> DEFINE i == Min(EntryAt(s, id))
           e == s.queue[i]
           item == [trackID |-> e.trackID, entryID |-> e.id]
           t == [s EXCEPT !.queue = RemoveAt(@, i)]
<1>1. Sound(s, Refuse(s))
    BY NothingIsSound
<1>2. ASSUME EntryAt(s, id) # {}
      PROVE  Good(Start(t, item, time, cat))
    <2>1. i \in DOMAIN s.queue
        BY <1>2, EntryAtMin
    <2>2. e \in Entries
        BY <2>1, LenProperties DEF Good, States
    <2> HIDE DEF i, e
    <2>3. item \in Items
        BY <2>2 DEF Items, Entries
    <2>4. Good(t)
        BY <2>1, WithoutEntryGood
    <2> HIDE DEF t, item
    <2>5. QED
        BY <2>3, <2>4, StartGood
<1>3. ASSUME EntryAt(s, id) # {}
      PROVE  Sound(s, Did(Start(t, item, time, cat), {"playback", "queue"}))
    BY <1>2, <1>3, ChangeIsSound
<1>4. QED
    BY <1>1, <1>3 DEF PlayEntry

LEMMA QueueAddSound ==
    ASSUME NEW s, Good(s), NEW ids \in Seq(TrackIds), NEW atFront \in BOOLEAN,
           NEW cat, IsCatalog(cat)
    PROVE  Sound(s, QueueAdd(s, ids, atFront, cat))
<1> DEFINE unknown == {k \in DOMAIN ids : ~Known(cat, ids[k])}
           entries == [k \in DOMAIN ids |-> [id |-> s.nextEntrySeq + k, trackID |-> ids[k]]]
           q == IF atFront THEN entries \o s.queue ELSE s.queue \o entries
           u == s.nextEntrySeq + Min(unknown) - 1
           v == s.nextEntrySeq + Len(ids)
<1>1. /\ Len(ids) \in Nat /\ DOMAIN ids = 1..Len(ids)
      /\ \A k \in 1..Len(ids) : ids[k] \in TrackIds
      /\ s.nextEntrySeq \in Nat /\ s.queue \in Seq(Entries)
    BY LenProperties DEF Good, States
<1>2. entries \in [1..Len(ids) -> Entries]
    BY <1>1 DEF Entries
<1>3. entries \in Seq(Entries)
    BY <1>1, <1>2, SeqDef
<1> HIDE DEF entries
<1>4. q \in Seq(Entries) /\ v \in Nat
    BY <1>1, <1>3, ConcatProperties
<1>5. ASSUME unknown # {}
      PROVE  u \in Nat
    <2>1. unknown \subseteq Nat \ {0}
        BY <1>1
    <2> HIDE DEF unknown
    <2>2. Min(unknown) \in unknown
        BY <1>5, <2>1, MinNat
    <2>3. Min(unknown) \in Nat \ {0}
        BY <2>1, <2>2, Zenon
    <2>4. QED
        BY <1>1, <2>3
<1> HIDE DEF q, u, v
<1>6. Good([s EXCEPT !.queue = q, !.nextEntrySeq = v])
    <2>1. [s EXCEPT !.queue = q, !.nextEntrySeq = v] \in States
        BY <1>4 DEF Good, States
    <2>2. QED
        BY <2>1, SameOrder DEF Good, States
<1>7. ASSUME unknown # {}
      PROVE  Sound(s, Refuse([s EXCEPT !.nextEntrySeq = u]))
    <2>1. Good([s EXCEPT !.nextEntrySeq = u])
        BY <1>5, <1>7, SameOrder DEF Good, States
    <2>2. QED
        BY <2>1, NothingIsSound DEF Good, States
<1>8. Sound(s, Did([s EXCEPT !.queue = q, !.nextEntrySeq = v], {"queue"}))
    BY <1>6, ChangeIsSound
<1>9. Sound(s, Refuse(s))
    BY NothingIsSound
<1>10. QED
    BY <1>7, <1>8, <1>9 DEF QueueAdd, q, u, v, entries

LEMMA QueueRemoveSound ==
    ASSUME NEW s, Good(s), NEW id
    PROVE  Sound(s, QueueRemove(s, id))
<1>1. Sound(s, Refuse(s))
    BY NothingIsSound
<1>2. ASSUME EntryAt(s, id) # {}
      PROVE  Sound(s, Did([s EXCEPT !.queue = RemoveAt(@, Min(EntryAt(s, id)))], {"queue"}))
    BY <1>2, EntryAtMin, WithoutEntryGood, ChangeIsSound
<1>3. QED
    BY <1>1, <1>2 DEF QueueRemove

\* Where a moved entry lands is a place in the queue.
LEMMA MoveTarget ==
    ASSUME NEW n \in Nat, n > 0, NEW toIndex \in Int
    PROVE  Max({1, Min({toIndex, n})}) \in 1..n
BY MinOfTwo, MaxOfTwo

LEMMA QueueMoveSound ==
    ASSUME NEW s, Good(s), NEW id, NEW toIndex \in Int
    PROVE  Sound(s, QueueMove(s, id, toIndex))
<1> DEFINE from == Min(EntryAt(s, id))
           to == Max({1, Min({toIndex, Len(s.queue)})})
           e == s.queue[from]
           q == InsertAt(RemoveAt(s.queue, from), to, e)
<1>1. Sound(s, Refuse(s)) /\ Sound(s, NoChange(s))
    BY NothingIsSound
<1>2. ASSUME EntryAt(s, id) # {}
      PROVE  q \in Seq(Entries)
    <2>1. s.queue \in Seq(Entries) /\ Len(s.queue) \in Nat /\ DOMAIN s.queue = 1..Len(s.queue)
        BY LenProperties DEF Good, States
    <2>2. from \in DOMAIN s.queue
        BY <1>2, EntryAtMin
    <2>3. e \in Entries
        BY <2>1, <2>2
    <2>4. to \in 1..Len(s.queue)
        BY <2>1, <2>2, MoveTarget
    <2> HIDE DEF from, to, e
    <2>5. /\ RemoveAt(s.queue, from) \in Seq(Entries)
          /\ Len(RemoveAt(s.queue, from)) = Len(s.queue) - 1
        BY <2>1, <2>2, RemoveAtSeq
    <2>6. to \in 1..Len(RemoveAt(s.queue, from)) + 1
        BY <2>1, <2>4, <2>5
    <2>7. QED
        BY <2>3, <2>5, <2>6, InsertAtSeq
<1> HIDE DEF q
<1>3. ASSUME EntryAt(s, id) # {}
      PROVE  Sound(s, Did([s EXCEPT !.queue = q], {"queue"}))
    BY <1>2, <1>3, NewQueueGood, ChangeIsSound
<1>4. QED
    BY <1>1, <1>3 DEF QueueMove, q

LEMMA QueueClearSound ==
    ASSUME NEW s, Good(s)
    PROVE  Sound(s, QueueClear(s))
<1>1. Good([s EXCEPT !.queue = <<>>])
    BY EmptySeq, NewQueueGood
<1>2. QED
    BY <1>1, NothingIsSound, ChangeIsSound DEF QueueClear

-----------------------------------------------------------------------------
(* Settings, versions and the hold *)

LEMMA SetRepeatSound ==
    ASSUME NEW s, Good(s), NEW mode \in RepeatModes
    PROVE  Sound(s, SetRepeat(s, mode))
<1>1. Good([s EXCEPT !.repeat = mode])
    BY SameOrder DEF Good, States
<1>2. QED
    BY <1>1, NothingIsSound, ChangeIsSound DEF SetRepeat

LEMMA SetWaitForAllSound ==
    ASSUME NEW s, Good(s), NEW on \in BOOLEAN
    PROVE  Sound(s, SetWaitForAll(s, on))
<1> DEFINE h == IF on THEN s.hold ELSE NoHold
           t == [s EXCEPT !.waitForAll = on, !.hold = h]
           parts == IF ~on /\ s.hold # NoHold THEN {"settings", "playback"} ELSE {"settings"}
<1>1. h \in Holds
    BY NoHoldIsHold DEF Good, States
<1> HIDE DEF h
<1>2. t \in States
    BY <1>1 DEF Good, States
<1>3. Good(t)
    BY <1>2, SameOrder DEF Good, States
<1>4. t = [s EXCEPT !.waitForAll = on, !.hold = IF on THEN @ ELSE NoHold]
    BY DEF h
<1>5. parts # {}
    OBVIOUS
<1> HIDE DEF t, parts
<1>6. Sound(s, NoChange(s)) /\ Sound(s, Did(t, parts))
    BY <1>3, <1>5, NothingIsSound, ChangeIsSound
<1>7. QED
    BY <1>4, <1>6 DEF SetWaitForAll, parts

LEMMA CommitGood ==
    ASSUME NEW before, Good(before), NEW outcome, Sound(before, outcome)
    PROVE  /\ Good(Commit(before, outcome))
           /\ Commit(before, outcome).hold = outcome.st.hold
           /\ Commit(before, outcome).playback = outcome.st.playback
<1> DEFINE r == outcome.st
           qv == IF "queue" \in outcome.changed /\ r.queueVersion = before.queueVersion
                 THEN r.queueVersion + 1 ELSE r.queueVersion
           cv == IF "context" \in outcome.changed
                 THEN r.contextVersion + 1 ELSE r.contextVersion
           v == r.version + 1
           t == [r EXCEPT !.version = v, !.queueVersion = qv, !.contextVersion = cv]
<1>1. Good(r)
    BY DEF Sound
<1> HIDE DEF r
<1>2. qv \in Nat /\ cv \in Nat /\ v \in Nat
    <2>1. r.queueVersion \in Nat /\ r.contextVersion \in Nat /\ r.version \in Nat
        BY <1>1 DEF Good, States
    <2>2. QED
        BY <2>1
<1>3. Commit(before, outcome) = IF outcome.changed = {} THEN r ELSE t
    BY DEF Commit, r
<1> HIDE DEF qv, cv, v
<1>4. t \in States
    BY <1>1, <1>2 DEF Good, States
<1>5. /\ t.tracks = r.tracks /\ t.order = r.order /\ t.contextIndex = r.contextIndex
      /\ t.hold = r.hold /\ t.playback = r.playback
    BY <1>1 DEF Good, States
<1>6. Good(t)
    BY <1>1, <1>4, <1>5, SameOrder
<1> HIDE DEF t
<1>7. QED
    BY <1>1, <1>3, <1>5, <1>6 DEF r

LEMMA EndHoldGood ==
    ASSUME NEW s, Good(s)
    PROVE  Good(EndHold(s)) /\ EndHold(s).hold = NoHold
<1> DEFINE v == s.version + 1
<1>1. v \in Nat
    BY DEF Good, States
<1>2. EndHold(s) = [s EXCEPT !.hold = NoHold, !.version = v]
    BY DEF EndHold
<1> HIDE DEF v
<1>3. [s EXCEPT !.hold = NoHold, !.version = v] \in States
    BY <1>1, NoHoldIsHold DEF Good, States
<1>4. QED
    BY <1>2, <1>3, SameOrder DEF Good, States

LEMMA ReleaseHoldGood ==
    ASSUME NEW s, Good(s), NEW time \in Nat
    PROVE  Good(ReleaseHold(s, time)) /\ ReleaseHold(s, time).hold = NoHold
<1> DEFINE t == EndHold(s)
           a == IF t.playback.anchorMs < time + HoldMarginMs
                THEN time + ResumeDelayMs ELSE t.playback.anchorMs
           p == [t.playback EXCEPT !.anchorMs = a]
<1>1. Good(t) /\ t.hold = NoHold
    BY EndHoldGood
<1> HIDE DEF t
<1>2. a \in Nat
    <2>1. t.playback.anchorMs \in Nat
        BY <1>1 DEF Good, States, Playbacks
    <2>2. time + ResumeDelayMs \in Nat
        BY TimingAssumption
    <2>3. QED
        BY <2>1, <2>2
<1>3. ReleaseHold(s, time) = [t EXCEPT !.playback = p]
    BY <1>1 DEF ReleaseHold, t, Good, States, Playbacks
<1> HIDE DEF a
<1>4. p \in Playbacks
    BY <1>1, <1>2 DEF Good, States, Playbacks
<1> HIDE DEF p
<1>5. Good([t EXCEPT !.playback = p]) /\ [t EXCEPT !.playback = p].hold = t.hold
    BY <1>1, <1>4, PlaybackGood DEF Good, States
<1>6. QED
    BY <1>1, <1>3, <1>5

LEMMA PostponeStartGood ==
    ASSUME NEW s, Good(s), NEW time \in Nat
    PROVE  LET t == PostponeStart(s, time)
           IN  /\ Good(t) /\ t.hold = s.hold
               /\ t.playback = [s.playback EXCEPT !.anchorMs = time + HoldExtendMs,
                                                  !.positionMs = 0]
<1> DEFINE a == time + HoldExtendMs
           v == s.version + 1
           p == [s.playback EXCEPT !.anchorMs = a, !.positionMs = 0]
           t == [s EXCEPT !.playback = p, !.version = v]
<1>1. a \in Nat /\ v \in Nat
    BY TimingAssumption DEF Good, States
<1>2. PostponeStart(s, time) = t
    BY DEF PostponeStart, Good, States, Playbacks
<1> HIDE DEF v
<1>3. p \in Playbacks
    BY <1>1 DEF Good, States, Playbacks
<1> HIDE DEF p
<1>4. t \in States
    BY <1>1, <1>3 DEF Good, States
<1>5. /\ t.tracks = s.tracks /\ t.order = s.order /\ t.contextIndex = s.contextIndex
      /\ t.hold = s.hold /\ t.playback = p
    BY DEF Good, States
<1>6. Good(t)
    BY <1>4, <1>5, SameOrder
<1> HIDE DEF t
<1>7. QED
    BY <1>2, <1>5, <1>6 DEF p

\* A hold that evaluation leaves standing guards the current track, has not
\* expired, and the start it guards is more than the margin away.
Standing(s, time) ==
    Holding(s) =>
        /\ ~HoldIsStale(s)
        /\ time < s.hold.untilMs
        /\ s.playback.anchorMs - time > HoldMarginMs

LEMMA CheckHoldGood ==
    ASSUME NEW s, Good(s), NEW time \in Nat, NEW allReady \in BOOLEAN
    PROVE  Good(CheckHold(s, time, allReady)) /\ Standing(CheckHold(s, time, allReady), time)
<1> DEFINE r == CheckHold(s, time, allReady)
<1>1. CASE ~Holding(s)
    BY <1>1 DEF CheckHold, Standing
<1>2. CASE r.hold = NoHold /\ Good(r)
    BY <1>2 DEF Standing, Holding
<1>3. CASE Holding(s) /\ (HoldIsStale(s) \/ (~allReady /\ time >= s.hold.untilMs))
    <2>1. r = EndHold(s) \/ r = ReleaseHold(s, time)
        BY <1>3 DEF CheckHold
    <2>2. QED
        BY <1>2, <2>1, EndHoldGood, ReleaseHoldGood
<1>4. CASE Holding(s) /\ ~HoldIsStale(s) /\ allReady
    <2>1. r = ReleaseHold(s, time)
        BY <1>4 DEF CheckHold
    <2>2. QED
        BY <1>2, <2>1, ReleaseHoldGood
<1>5. CASE Holding(s) /\ ~HoldIsStale(s) /\ ~allReady /\ ~(time >= s.hold.untilMs)
    <2>1. /\ s.hold.untilMs \in Nat /\ s.playback.anchorMs \in Nat
          /\ HoldMarginMs \in Nat /\ HoldExtendMs \in Nat /\ HoldMarginMs < HoldExtendMs
        BY TimingAssumption DEF Good, States, Holds, Playbacks
    <2>2. CASE s.playback.anchorMs - time <= HoldMarginMs
        <3>1. r = PostponeStart(s, time)
            BY <1>5, <2>2 DEF CheckHold
        <3> HIDE DEF r
        <3>2. /\ Good(r) /\ r.hold = s.hold
              /\ r.playback = [s.playback EXCEPT !.anchorMs = time + HoldExtendMs,
                                                 !.positionMs = 0]
            BY <3>1, PostponeStartGood
        <3>3. /\ r.playback.anchorMs = time + HoldExtendMs
              /\ r.playback.playing = s.playback.playing
              /\ r.playback.trackID = s.playback.trackID
              /\ r.playback.entryID = s.playback.entryID
            BY <3>2 DEF Good, States, Playbacks
        <3>4. r.playback.anchorMs - time > HoldMarginMs /\ time < r.hold.untilMs
            BY <1>5, <2>1, <3>2, <3>3
        <3>5. ~HoldIsStale(r)
            BY <1>5, <3>2, <3>3 DEF HoldIsStale
        <3>6. QED
            BY <3>2, <3>4, <3>5 DEF Standing, r
    <2>3. CASE ~(s.playback.anchorMs - time <= HoldMarginMs)
        <3>1. r = s
            BY <1>5, <2>3 DEF CheckHold
        <3> HIDE DEF r
        <3>2. time < s.hold.untilMs /\ s.playback.anchorMs - time > HoldMarginMs
            BY <1>5, <2>1, <2>3
        <3>3. QED
            BY <1>5, <3>1, <3>2 DEF Standing, r
    <2>4. QED
        BY <2>2, <2>3
<1>6. QED
    BY <1>1, <1>3, <1>4, <1>5

-----------------------------------------------------------------------------
(* Entry ids *)

\* EntriesOk in two parts: the ids in the queue, and an id not in it.
Unique(s) ==
    /\ \A i \in DOMAIN s.queue : s.queue[i].id \in 1..s.nextEntrySeq
    /\ \A i, j \in DOMAIN s.queue : s.queue[i].id = s.queue[j].id => i = j

Fits(s, e) == e <= s.nextEntrySeq /\ \A i \in DOMAIN s.queue : s.queue[i].id # e

\* The library knows every track of queue q.
AllKnown(q, cat) == \A i \in DOMAIN q : Known(cat, q[i].trackID)

LEMMA EntriesParts ==
    \A s : EntriesOk(s) <=> Unique(s) /\ Fits(s, s.playback.entryID)
BY DEF EntriesOk, Unique, Fits

LEMMA NoEntryFits ==
    ASSUME NEW s, Good(s), Unique(s)
    PROVE  Fits(s, NoEntry)
BY DEF Fits, Unique, NoEntry, Good, States

\* A queue made of other places of the old one, each used once.
LEMMA PlacesMove ==
    ASSUME NEW s, Unique(s), NEW t, t.nextEntrySeq = s.nextEntrySeq, NEW f,
           \A i \in DOMAIN t.queue : f[i] \in DOMAIN s.queue /\ t.queue[i] = s.queue[f[i]],
           \A i, j \in DOMAIN t.queue : f[i] = f[j] => i = j
    PROVE  /\ Unique(t) /\ \A e : Fits(s, e) => Fits(t, e)
           /\ \A cat : AllKnown(s.queue, cat) => AllKnown(t.queue, cat)
BY DEF Unique, Fits, AllKnown

LEMMA SuffixSeq ==
    ASSUME NEW S, NEW q \in Seq(S), NEW n \in 0..Len(q)
    PROVE  /\ SubSeq(q, n + 1, Len(q)) \in Seq(S)
           /\ DOMAIN SubSeq(q, n + 1, Len(q)) = 1..(Len(q) - n)
           /\ \A i \in 1..(Len(q) - n) : i + n \in DOMAIN q
                                         /\ SubSeq(q, n + 1, Len(q))[i] = q[i + n]
<1>1. Len(q) \in Nat /\ DOMAIN q = 1..Len(q) /\ \A i \in 1..Len(q) : q[i] \in S
    BY LenProperties, ElementOfSeq
<1>2. \A i \in n + 1 .. Len(q) : q[i] \in S
    BY <1>1
<1> DEFINE b == SubSeq(q, n + 1, Len(q))
<1>3. /\ b \in Seq(S) /\ Len(b) = Len(q) - n
      /\ \A i \in 1..(Len(q) - n) : b[i] = q[i + n]
    <2>1. n + 1 \in Int /\ n + 1 <= Len(q) + 1
        BY <1>1
    <2>2. /\ b \in Seq(S)
          /\ Len(b) = IF n + 1 <= Len(q) THEN Len(q) - (n + 1) + 1 ELSE 0
          /\ \A i \in 1 .. Len(q) - (n + 1) + 1 : b[i] = q[n + 1 + i - 1]
        BY <1>1, <1>2, <2>1, SubSeqProperties
    <2>3. ASSUME NEW i \in 1..(Len(q) - n) PROVE b[i] = q[i + n]
        <3>1. i \in 1 .. Len(q) - (n + 1) + 1 /\ n + 1 + i - 1 = i + n
            BY <1>1
        <3>2. QED
            BY <2>2, <3>1
    <2>4. Len(b) = Len(q) - n
        <3> DEFINE l == Len(b)
        <3>1. l = IF n + 1 <= Len(q) THEN Len(q) - (n + 1) + 1 ELSE 0
            BY <2>2
        <3> HIDE DEF l
        <3>2. n \in Nat /\ n <= Len(q) /\ Len(q) \in Nat
            BY <1>1
        <3>3. l = Len(q) - n
            BY <3>1, <3>2
        <3>4. QED
            BY <3>3 DEF l
    <2>5. QED
        BY <2>2, <2>3, <2>4
<1> HIDE DEF b
<1>4. DOMAIN b = 1..(Len(q) - n)
    BY <1>3, LenProperties
<1>5. \A i \in 1..(Len(q) - n) : i + n \in DOMAIN q
    BY <1>1
<1>6. QED
    BY <1>3, <1>4, <1>5 DEF b

-----------------------------------------------------------------------------
(* What moving on leaves alone *)

\* What plays in t still plays as it did in s, or has the length the catalog
\* gives it.
SameLength(s, t, cat) ==
    \/ /\ t.playback.trackID = s.playback.trackID
       /\ t.playback.durationMs = s.playback.durationMs
    \/ t.playback.durationMs = DurationMs(cat, t.playback.trackID)

\* A start that waits for everyone is the start of a whole track.
FromTop(s) == Holding(s) => s.playback.positionMs = 0

PlaysOn(s, t, cat) == SameLength(s, t, cat) /\ (FromTop(s) => FromTop(t))

\* From s to t, the room moved on to another item or position: the queue may
\* have lost entries, which its version tells, and all ids are still in order.
Moved(s, t, cat) ==
    /\ t.tracks = s.tracks /\ t.order = s.order /\ t.contextVersion = s.contextVersion
    /\ t.shuffle = s.shuffle /\ t.version = s.version /\ t.nextEntrySeq = s.nextEntrySeq
    /\ t.queueVersion >= s.queueVersion
    /\ t.queue # s.queue => t.queueVersion > s.queueVersion
    /\ EntriesOk(t)
    /\ PlaysOn(s, t, cat)
    /\ AllKnown(s.queue, cat) => AllKnown(t.queue, cat)

LEMMA MovedAlong ==
    ASSUME NEW s \in States, NEW m \in States, NEW t \in States, NEW cat,
           Moved(s, m, cat), Moved(m, t, cat)
    PROVE  Moved(s, t, cat)
<1>1. s.queueVersion \in Nat /\ m.queueVersion \in Nat /\ t.queueVersion \in Nat
    BY DEF States
<1>2. PlaysOn(s, t, cat)
    BY DEF Moved, PlaysOn, SameLength, FromTop, Holding
<1>3. QED
    BY <1>1, <1>2 DEF Moved

\* Another playback of something that is not in the queue, and anything else
\* but the lists.
SameLists(s, t) ==
    /\ t.queue = s.queue /\ t.queueVersion = s.queueVersion
    /\ t.nextEntrySeq = s.nextEntrySeq
    /\ t.tracks = s.tracks /\ t.order = s.order /\ t.contextVersion = s.contextVersion
    /\ t.shuffle = s.shuffle /\ t.version = s.version

LEMMA SameListsMoved ==
    ASSUME NEW s \in States, EntriesOk(s), NEW t, SameLists(s, t), NEW cat,
           Fits(s, t.playback.entryID), PlaysOn(s, t, cat)
    PROVE  Moved(s, t, cat)
<1>1. s.queueVersion \in Nat
    BY DEF States
<1>2. EntriesOk(t)
    BY EntriesParts DEF SameLists, Unique, Fits
<1>3. QED
    BY <1>1, <1>2 DEF Moved, SameLists

LEMMA DropEntriesMoved ==
    ASSUME NEW s, Good(s), EntriesOk(s), NEW n \in 0..Len(s.queue), NEW cat
    PROVE  /\ Moved(s, DropEntries(s, n), cat)
           /\ \A e : Fits(s, e) => Fits(DropEntries(s, n), e)
           /\ n > 0 => Fits(DropEntries(s, n), s.queue[n].id)
<1> DEFINE q == SubSeq(s.queue, n + 1, Len(s.queue))
           t == DropEntries(s, n)
           f == [i \in 1..(Len(s.queue) - n) |-> i + n]
<1>1. /\ s.queue \in Seq(Entries) /\ s.queueVersion \in Nat /\ Len(s.queue) \in Nat
      /\ DOMAIN s.queue = 1..Len(s.queue) /\ n \in Nat
    BY LenProperties DEF Good, States
<1>2. /\ DOMAIN q = 1..(Len(s.queue) - n)
      /\ \A i \in 1..(Len(s.queue) - n) : i + n \in DOMAIN s.queue /\ q[i] = s.queue[i + n]
    BY <1>1, SuffixSeq
<1>3. /\ t.queue = q /\ t.queueVersion = s.queueVersion + n /\ t.playback = s.playback
      /\ t.hold = s.hold
      /\ t.tracks = s.tracks /\ t.order = s.order /\ t.contextVersion = s.contextVersion
      /\ t.shuffle = s.shuffle /\ t.version = s.version /\ t.nextEntrySeq = s.nextEntrySeq
    BY DEF DropEntries, Good, States
<1>4. n = 0 => q = s.queue
    <2>1. n = 0 => q \in Seq(Entries) /\ Len(q) = Len(s.queue)
                   /\ \A i \in 1..Len(q) : q[i] = s.queue[i]
        BY <1>1, <1>2, SuffixSeq, LenProperties
    <2> HIDE DEF q
    <2>2. QED
        BY <1>1, <2>1, SeqEqual
<1> HIDE DEF q, t
<1>5. /\ \A i \in DOMAIN t.queue : f[i] \in DOMAIN s.queue /\ t.queue[i] = s.queue[f[i]]
      /\ \A i, j \in DOMAIN t.queue : f[i] = f[j] => i = j
    <2>1. DOMAIN t.queue = 1..(Len(s.queue) - n)
        BY <1>2, <1>3
    <2>2. \A i \in DOMAIN t.queue : f[i] = i + n /\ i \in Nat
        BY <1>1, <2>1
    <2> HIDE DEF f
    <2>3. \A i \in DOMAIN t.queue : f[i] \in DOMAIN s.queue /\ t.queue[i] = s.queue[f[i]]
        BY <1>2, <1>3, <2>1, <2>2
    <2>4. QED
        BY <1>1, <2>2, <2>3
<1> HIDE DEF f
<1>6. Unique(s) /\ Fits(s, s.playback.entryID)
    BY EntriesParts
<1>7. /\ Unique(t) /\ \A e : Fits(s, e) => Fits(t, e)
      /\ AllKnown(s.queue, cat) => AllKnown(t.queue, cat)
    <2>1. t.nextEntrySeq = s.nextEntrySeq
        BY <1>3
    <2>2. QED
        BY <1>5, <1>6, <2>1, PlacesMove
<1>8. EntriesOk(t)
    BY <1>3, <1>6, <1>7, EntriesParts
<1>9. n > 0 => Fits(t, s.queue[n].id)
    <2> SUFFICES ASSUME n > 0 PROVE Fits(t, s.queue[n].id)
        OBVIOUS
    <2>1. n \in DOMAIN s.queue /\ s.queue[n].id \in 1..s.nextEntrySeq
        BY <1>1, <1>6 DEF Unique
    <2>2. \A i \in DOMAIN t.queue : i + n \in DOMAIN s.queue /\ i + n # n
                                    /\ t.queue[i] = s.queue[i + n]
        BY <1>1, <1>2, <1>3
    <2>3. \A i \in DOMAIN t.queue : t.queue[i].id # s.queue[n].id
        BY <1>6, <2>1, <2>2 DEF Unique
    <2>4. s.queue[n].id <= t.nextEntrySeq
        BY <1>1, <1>3, <2>1
    <2>5. QED
        BY <2>3, <2>4 DEF Fits
<1>10. Moved(s, t, cat)
    BY <1>1, <1>3, <1>4, <1>7, <1>8 DEF Moved, PlaysOn, SameLength, FromTop, Holding
<1>11. QED
    BY <1>7, <1>9, <1>10 DEF t

-----------------------------------------------------------------------------
(* What catching up leaves alone *)

\* The next item is no longer queued, and so fits the state without it.
LEMMA TakeNextMoved ==
    ASSUME NEW s, Good(s), EntriesOk(s), NEW cat, IsCatalog(cat), NEW wrap \in BOOLEAN
    PROVE  /\ Moved(s, TakeNext(s, wrap, cat).st, cat)
           /\ TakeNext(s, wrap, cat).item # NoItem =>
                Fits(TakeNext(s, wrap, cat).st, TakeNext(s, wrap, cat).item.entryID)
           /\ TakeNext(s, wrap, cat).item = NoItem =>
                /\ PlayableEntries(s, cat) = {}
                /\ TakeNext(s, wrap, cat).st = DropEntries(s, Len(s.queue))
<1> DEFINE drained == DropEntries(s, Len(s.queue))
           n == Min(PlayableEntries(s, cat))
           taken == TakeNext(s, wrap, cat)
<1>1. Len(s.queue) \in Nat /\ DOMAIN s.queue = 1..Len(s.queue) /\ s.queue \in Seq(Entries)
    BY LenProperties DEF Good, States
<1>2. Good(drained) /\ Moved(s, drained, cat)
    BY <1>1, DropEntriesGood, DropEntriesMoved
<1>3. CASE PlayableEntries(s, cat) # {}
    <2>1. n \in DOMAIN s.queue
        BY <1>3, PlayableEntriesMin DEF PlayableEntries
    <2>2. n \in 0..Len(s.queue) /\ n > 0
        BY <1>1, <2>1
    <2>3. taken.st = DropEntries(s, n) /\ taken.item.entryID = s.queue[n].id
        BY <1>3 DEF TakeNext, FromQueue
    <2>4. taken.item \in Items
        BY <1>3, FromQueueGood DEF TakeNext
    <2>5. taken.item # NoItem
        BY <2>4, NoTrackAssumption DEF Items, NoItem
    <2> HIDE DEF n, taken
    <2>6. Moved(s, DropEntries(s, n), cat) /\ Fits(DropEntries(s, n), s.queue[n].id)
        BY <2>2, DropEntriesMoved
    <2>7. QED
        BY <2>3, <2>5, <2>6 DEF taken
<1>4. CASE PlayableEntries(s, cat) = {} /\ PlayableSteps(s, wrap, cat) # {}
    <2>1. taken = FromContext(drained, wrap, cat)
        BY <1>4 DEF TakeNext
    <2>2. PlayableSteps(drained, wrap, cat) # {}
        BY <1>4 DEF PlayableSteps, ContextPosition, ContextTrack, DropEntries, Good, States
    <2> HIDE DEF drained
    <2>3. taken.item \in Items /\ taken.item.entryID = NoEntry
        BY <1>2, <2>1, <2>2, FromContextGood DEF FromContext
    <2>4. taken.item # NoItem
        BY <2>3, NoTrackAssumption DEF Items, NoItem
    <2>5. /\ taken.st.playback = drained.playback /\ taken.st.hold = drained.hold
          /\ SameLists(drained, taken.st)
        <3> DEFINE i == ContextPosition(drained, Min(PlayableSteps(drained, wrap, cat)))
        <3>1. taken.st = [drained EXCEPT !.contextIndex = i]
            BY <2>1 DEF FromContext
        <3> HIDE DEF i, taken
        <3>2. QED
            BY <1>2, <3>1 DEF SameLists, Good, States
    <2>6. EntriesOk(drained) /\ Unique(drained) /\ Fits(drained, drained.playback.entryID)
        BY <1>2, EntriesParts DEF Moved
    <2>7. Moved(drained, taken.st, cat)
        BY <1>2, <2>5, <2>6, SameListsMoved DEF Good, PlaysOn, SameLength, FromTop, Holding
    <2>8. Good(taken.st)
        BY <1>2, <2>1, <2>2, FromContextGood
    <2>9. Moved(s, taken.st, cat)
        BY <1>2, <2>7, <2>8, MovedAlong DEF Good
    <2>10. Fits(taken.st, NoEntry)
        BY <2>7, <2>8, NoEntryFits, EntriesParts DEF Moved
    <2>11. QED
        BY <2>3, <2>4, <2>9, <2>10
<1>5. CASE PlayableEntries(s, cat) = {} /\ PlayableSteps(s, wrap, cat) = {}
    <2>1. taken = [item |-> NoItem, st |-> drained]
        BY <1>5 DEF TakeNext
    <2> HIDE DEF taken
    <2>2. taken.st = drained /\ taken.item = NoItem
        BY <2>1
    <2>3. QED
        BY <1>2, <1>5, <2>2 DEF taken
<1>6. QED
    BY <1>3, <1>4, <1>5

LEMMA StartItemMoved ==
    ASSUME NEW s \in States, EntriesOk(s), NEW item, Fits(s, item.entryID), NEW anchor,
           NEW cat
    PROVE  Moved(s, StartItem(s, item, anchor, cat), cat)
<1> DEFINE t == StartItem(s, item, anchor, cat)
<1>1. /\ SameLists(s, t) /\ t.playback.entryID = item.entryID
      /\ t.playback.trackID = item.trackID /\ t.playback.positionMs = 0
      /\ t.playback.durationMs = DurationMs(cat, item.trackID)
    BY DEF StartItem, SameLists, States
<1> HIDE DEF t
<1>2. PlaysOn(s, t, cat)
    BY <1>1 DEF PlaysOn, SameLength, FromTop, Holding
<1>3. Moved(s, t, cat)
    BY <1>1, <1>2, SameListsMoved
<1>4. QED
    BY <1>3 DEF t

LEMMA StopAtEndMoved ==
    ASSUME NEW s, Good(s), EntriesOk(s), NEW at, NEW cat
    PROVE  Moved(s, StopAtEnd(s, at, cat), cat)
<1> DEFINE t == StopAtEnd(s, at, cat)
<1>1. /\ SameLists(s, t) /\ t.playback.entryID = NoEntry /\ t.playback.positionMs = 0
      /\ s.order = <<>> => /\ t.playback.trackID = s.playback.trackID
                           /\ t.playback.durationMs = s.playback.durationMs
      /\ s.order # <<>> => t.playback.durationMs = DurationMs(cat, t.playback.trackID)
    BY DEF StopAtEnd, SameLists, Good, States
<1> HIDE DEF t
<1>2. PlaysOn(s, t, cat)
    BY <1>1 DEF PlaysOn, SameLength, FromTop, Holding
<1>3. Fits(s, NoEntry)
    BY NoEntryFits, EntriesParts
<1>4. Moved(s, t, cat)
    BY <1>1, <1>2, <1>3, SameListsMoved DEF Good
<1>5. QED
    BY <1>4 DEF t

LEMMA AdvanceAutoMoved ==
    ASSUME NEW s, Good(s), EntriesOk(s), NEW at \in Nat, NEW cat, IsCatalog(cat)
    PROVE  Moved(s, AdvanceAuto(s, at, cat), cat)
<1> DEFINE wrap == s.repeat = "all"
           taken == TakeNext(s, wrap, cat)
           r == AdvanceAuto(s, at, cat)
<1>1. /\ Good(taken.st) /\ Moved(s, taken.st, cat) /\ EntriesOk(taken.st)
      /\ taken.item # NoItem => Fits(taken.st, taken.item.entryID)
    <2>1. wrap \in BOOLEAN
        OBVIOUS
    <2> HIDE DEF wrap
    <2>2. QED
        BY <2>1, TakeNextGood, TakeNextMoved DEF Moved
<1>2. Good(r)
    BY AdvanceAutoGood
<1>3. CASE s.repeat = "one"
    <2> DEFINE p == [s.playback EXCEPT !.positionMs = 0, !.anchorMs = at]
    <2>1. r = [s EXCEPT !.playback = p]
        BY <1>3 DEF AdvanceAuto, Good, States, Playbacks
    <2>2. /\ SameLists(s, r) /\ r.playback.entryID = s.playback.entryID
          /\ r.playback.trackID = s.playback.trackID
          /\ r.playback.durationMs = s.playback.durationMs
          /\ r.playback.positionMs = 0
        <3>1. /\ p.entryID = s.playback.entryID /\ p.trackID = s.playback.trackID
              /\ p.durationMs = s.playback.durationMs /\ p.positionMs = 0
            BY DEF Good, States, Playbacks
        <3> HIDE DEF p, r
        <3>2. QED
            BY <2>1, <3>1 DEF SameLists, Good, States
    <2> HIDE DEF r
    <2>3. QED
        BY <2>2, SameListsMoved, EntriesParts DEF r, Good, PlaysOn, SameLength, FromTop, Holding
<1>4. CASE s.repeat # "one" /\ taken.item = NoItem
    <2>1. r = StopAtEnd(taken.st, at, cat)
        BY <1>4 DEF AdvanceAuto
    <2> HIDE DEF taken, r
    <2>2. Moved(taken.st, r, cat)
        BY <1>1, <2>1, StopAtEndMoved
    <2>3. QED
        BY <1>1, <1>2, <2>2, MovedAlong DEF Good, r
<1>5. CASE s.repeat # "one" /\ taken.item # NoItem
    <2>1. r = StartItem(taken.st, taken.item, at, cat)
        BY <1>5 DEF AdvanceAuto
    <2> HIDE DEF taken, r
    <2>2. Moved(taken.st, r, cat)
        BY <1>1, <1>5, <2>1, StartItemMoved DEF Good
    <2>3. QED
        BY <1>1, <1>2, <2>2, MovedAlong DEF Good, r
<1>6. QED
    BY <1>3, <1>4, <1>5

LEMMA CatchUpMoved ==
    ASSUME NEW s, Good(s), EntriesOk(s), NEW time \in Nat, NEW cat, IsCatalog(cat)
    PROVE  Moved(s, CatchUp(s, time, cat), cat)
<1>1. EndsAt(s.playback) \in Nat
    BY EndsAtIsLater DEF Good, States
<1>2. Moved(s, s, cat)
    BY SameListsMoved, EntriesParts DEF SameLists, PlaysOn, SameLength, FromTop, Holding, Good
<1>3. QED
    BY <1>1, <1>2, AdvanceAutoMoved DEF CatchUp

LEMMA NormalizeMoved ==
    ASSUME NEW s, Good(s), EntriesOk(s), NEW time \in Nat, NEW cat, IsCatalog(cat)
    PROVE  Moved(s, Normalize(s, time, cat), cat)
<1> DEFINE S == {x \in States : Good(x) /\ Moved(s, x, cat)}
<1>1. Moved(s, s, cat)
    BY SameListsMoved, EntriesParts DEF SameLists, PlaysOn, SameLength, FromTop, Holding, Good
<1>2. s \in S
    BY <1>1 DEF Good
<1>3. ASSUME NEW x \in S
      PROVE  CatchUp(x, time, cat) \in S
    <2>1. Good(x) /\ Moved(s, x, cat) /\ EntriesOk(x)
        BY DEF Moved
    <2>2. Good(CatchUp(x, time, cat)) /\ Moved(x, CatchUp(x, time, cat), cat)
        BY <2>1, CatchUpGood, CatchUpMoved
    <2>3. Moved(s, CatchUp(x, time, cat), cat)
        BY <2>1, <2>2, MovedAlong DEF Good
    <2>4. QED
        BY <2>2, <2>3 DEF Good
<1> HIDE DEF S
<1>4. Normalize(s, time, cat) \in S
    BY <1>2, <1>3, IteratedStays
<1>5. QED
    BY <1>4 DEF S

-----------------------------------------------------------------------------
(* What commands report of their changes *)

\* What still plays is at the same place of the context.
KeepsTrack(s, t) ==
    CurrentTrack(t) = CurrentTrack(s) /\ t.playback.trackID = s.playback.trackID

\* What every command guarantees: ids stay in order; a change of the queue or
\* the context is reported, or counted by the queue's version already; and a
\* command that reports nothing changed nothing that anybody sees, unless it
\* dropped tracks from the queue that the library has lost.
Proper(s, outcome, cat) ==
    LET t == outcome.st
    IN  /\ EntriesOk(t)
        /\ t.version = s.version /\ t.contextVersion = s.contextVersion
        /\ t.queueVersion >= s.queueVersion
        /\ t.queue # s.queue => "queue" \in outcome.changed \/ t.queueVersion > s.queueVersion
        /\ t.tracks # s.tracks \/ t.order # s.order => "context" \in outcome.changed
        /\ PlaysOn(s, t, cat)
        /\ AllKnown(s.queue, cat) => AllKnown(t.queue, cat)
        /\ t.shuffle # s.shuffle => KeepsTrack(s, t)
        /\ outcome.changed = {} /\ AllKnown(s.queue, cat) =>
               t = [s EXCEPT !.nextEntrySeq = t.nextEntrySeq]

LEMMA MovedProper ==
    ASSUME NEW s, NEW t, NEW cat, Moved(s, t, cat), NEW parts, parts # {}
    PROVE  Proper(s, Did(t, parts), cat)
BY DEF Proper, Moved, Did, Outcome

LEMMA NothingProper ==
    ASSUME NEW s, Good(s), EntriesOk(s), NEW cat
    PROVE  Proper(s, NoChange(s), cat) /\ Proper(s, Refuse(s), cat)
<1>1. s = [s EXCEPT !.nextEntrySeq = s.nextEntrySeq] /\ s.queueVersion \in Nat
    BY DEF Good, States
<1>2. QED
    BY <1>1 DEF Proper, NoChange, Refuse, Outcome, PlaysOn, SameLength, FromTop, Holding

\* Without tracks the library has lost, a queue with nothing to play is empty.
LEMMA DrainedProper ==
    ASSUME NEW s, Good(s), EntriesOk(s), NEW cat, PlayableEntries(s, cat) = {}
    PROVE  LET t == DropEntries(s, Len(s.queue))
           IN  Proper(s, NoChange(t), cat) /\ Proper(s, Refuse(t), cat)
<1> DEFINE t == DropEntries(s, Len(s.queue))
<1>1. s.queue \in Seq(Entries) /\ Len(s.queue) \in Nat /\ DOMAIN s.queue = 1..Len(s.queue)
      /\ s.queueVersion \in Nat
    BY LenProperties DEF Good, States
<1>2. Moved(s, t, cat)
    BY <1>1, DropEntriesMoved
<1>3. ASSUME AllKnown(s.queue, cat)
      PROVE  t = [s EXCEPT !.nextEntrySeq = t.nextEntrySeq]
    <2>1. DOMAIN s.queue = {}
        BY <1>3 DEF AllKnown, PlayableEntries
    <2>2. Len(s.queue) = 0
        <3>1. Len(s.queue) # 0 => 1 \in 1..Len(s.queue)
            BY <1>1
        <3>2. QED
            BY <1>1, <2>1, <3>1
    <2>3. SubSeq(s.queue, Len(s.queue) + 1, Len(s.queue)) = s.queue
        <3>1. SubSeq(s.queue, 1, Len(s.queue)) = s.queue
            BY <1>1, SubSeqFull
        <3>2. QED
            BY <2>2, <3>1
    <2>4. s.queueVersion + Len(s.queue) = s.queueVersion
        BY <1>1, <2>2
    <2>5. t = s
        BY <2>3, <2>4 DEF DropEntries, Good, States
    <2>6. QED
        BY <2>5 DEF Good, States
<1> HIDE DEF t
<1>4. QED
    BY <1>2, <1>3 DEF t, Proper, Moved, NoChange, Refuse, Outcome

LEMMA StartMoved ==
    ASSUME NEW s \in States, EntriesOk(s), NEW item, Fits(s, item.entryID), NEW time,
           NEW cat
    PROVE  Moved(s, Start(s, item, time, cat), cat)
<1> DEFINE t == StartItem(s, item, time + StartDelayMs, cat)
           r == Start(s, item, time, cat)
<1>1. Moved(s, t, cat)
    BY StartItemMoved
<1>2. SameLists(t, r) /\ r.playback = t.playback /\ r.playback.positionMs = 0
    BY DEF Start, StartItem, SameLists, States
<1> HIDE DEF r, t
<1>3. EntriesOk(r)
    BY <1>1, <1>2, EntriesParts DEF Moved, SameLists, Unique, Fits
<1>4. Moved(s, r, cat)
    BY <1>1, <1>2, <1>3 DEF Moved, SameLists, PlaysOn, SameLength, FromTop, Holding
<1>5. QED
    BY <1>4 DEF r

LEMMA StartContextTrackMoved ==
    ASSUME NEW s \in States, EntriesOk(s), NEW i \in Nat, NEW time, NEW cat
    PROVE  Moved(s, StartContextTrack(s, i, time, cat), cat)
<1> DEFINE t == [s EXCEPT !.contextIndex = i]
           item == [trackID |-> ContextTrack(s, i), entryID |-> NoEntry]
           r == StartContextTrack(s, i, time, cat)
<1>1. t \in States /\ SameLists(s, t) /\ t.playback = s.playback /\ t.hold = s.hold
    BY DEF States, SameLists
<1>2. r = Start(t, item, time, cat) /\ item.entryID = NoEntry
    BY DEF StartContextTrack
<1> HIDE DEF t, item, r
<1>3. Unique(t) /\ EntriesOk(t)
    BY <1>1, EntriesParts DEF SameLists, Unique, Fits
<1>4. Fits(t, NoEntry)
    BY <1>1, <1>3 DEF Fits, Unique, NoEntry, States
<1>5. Moved(t, r, cat)
    BY <1>1, <1>2, <1>3, <1>4, StartMoved
<1>6. Moved(s, r, cat)
    BY <1>1, <1>5 DEF Moved, SameLists, PlaysOn, SameLength, FromTop, Holding
<1>7. QED
    BY <1>6 DEF r

\* Replacing the playback by one of the same item.
SameItem(s, t) ==
    /\ t.playback.trackID = s.playback.trackID /\ t.playback.entryID = s.playback.entryID
    /\ t.playback.durationMs = s.playback.durationMs
    /\ FromTop(s) => FromTop(t)

LEMMA SameItemProper ==
    ASSUME NEW s, Good(s), EntriesOk(s), NEW t, SameLists(s, t), SameItem(s, t), NEW cat,
           NEW parts, parts # {}
    PROVE  Proper(s, Did(t, parts), cat)
<1>1. Moved(s, t, cat)
    BY SameListsMoved, EntriesParts DEF Good, SameItem, PlaysOn, SameLength, FromTop, Holding
<1>2. QED
    BY <1>1, MovedProper

LEMMA MovePlaybackProper ==
    ASSUME NEW s, Good(s), EntriesOk(s), NEW pos, NEW anchor, NEW playing, NEW cat,
           NEW parts, parts # {}
    PROVE  LET t == [s EXCEPT !.playback.positionMs = pos, !.playback.anchorMs = anchor,
                              !.playback.playing = playing, !.hold = NoHold]
           IN  Proper(s, Did(t, parts), cat)
<1> DEFINE p == [s.playback EXCEPT !.positionMs = pos, !.anchorMs = anchor,
                                   !.playing = playing]
           t == [s EXCEPT !.playback.positionMs = pos, !.playback.anchorMs = anchor,
                          !.playback.playing = playing, !.hold = NoHold]
<1>1. t = [s EXCEPT !.playback = p, !.hold = NoHold]
    BY DEF Good, States, Playbacks
<1>2. /\ p.entryID = s.playback.entryID /\ p.trackID = s.playback.trackID
      /\ p.durationMs = s.playback.durationMs
    BY DEF Good, States, Playbacks
<1> HIDE DEF p, t
<1>3. SameLists(s, t) /\ SameItem(s, t)
    BY <1>1, <1>2 DEF SameLists, SameItem, FromTop, Holding, Good, States
<1>4. Proper(s, Did(t, parts), cat)
    BY <1>3, SameItemProper
<1>5. QED
    BY <1>4 DEF t

LEMMA PlayProper ==
    ASSUME NEW s, Good(s), EntriesOk(s), NEW pos, NEW time \in Nat, NEW cat, IsCatalog(cat)
    PROVE  Proper(s, Play(s, pos, time, cat), cat)
<1> DEFINE taken == TakeNext(s, FALSE, cat)
           c == Clamp(s, IF pos = NoValue THEN s.playback.positionMs ELSE pos)
           r == Start(taken.st, taken.item, time, cat)
           resumed == Resume(s, pos, time)
<1>1. /\ Good(taken.st) /\ Moved(s, taken.st, cat) /\ EntriesOk(taken.st)
      /\ taken.item \in Items \cup {NoItem}
      /\ taken.item # NoItem => Fits(taken.st, taken.item.entryID)
      /\ taken.item = NoItem => /\ PlayableEntries(s, cat) = {}
                                /\ taken.st = DropEntries(s, Len(s.queue))
    BY TakeNextGood, TakeNextMoved DEF Moved
<1> HIDE DEF taken
<1>2. Proper(s, NoChange(s), cat)
    BY NothingProper
<1>3. Proper(s, Did(resumed, {"playback"}), cat)
    <2> HIDE DEF c
    <2>1. Proper(s, Did([s EXCEPT !.playback.positionMs = c, !.playback.anchorMs = time + ResumeDelayMs,
                                 !.playback.playing = TRUE, !.hold = NoHold], {"playback"}), cat)
        BY MovePlaybackProper
    <2>2. QED
        BY <2>1 DEF Resume, c
<1>4. taken.item = NoItem => Proper(s, Refuse(taken.st), cat)
    BY <1>1, DrainedProper
<1>5. ASSUME taken.item # NoItem
      PROVE  Proper(s, Did(r, {"playback"}), cat)
    <2>1. Moved(taken.st, r, cat) /\ Good(r)
        BY <1>1, <1>5, StartMoved, StartGood DEF Good
    <2> HIDE DEF r
    <2>2. Moved(s, r, cat)
        BY <1>1, <2>1, MovedAlong DEF Good
    <2>3. QED
        BY <2>2, MovedProper
<1>6. QED
    BY <1>2, <1>3, <1>4, <1>5 DEF Play, taken

LEMMA PauseProper ==
    ASSUME NEW s, Good(s), EntriesOk(s), NEW pos, NEW time, NEW cat
    PROVE  Proper(s, Pause(s, pos, time), cat)
<1> DEFINE c == Clamp(s, PausePosition(s, pos, time))
<1> HIDE DEF c
<1>1. Proper(s, Did([s EXCEPT !.playback.positionMs = c, !.playback.anchorMs = time,
                              !.playback.playing = FALSE, !.hold = NoHold], {"playback"}), cat)
    BY MovePlaybackProper
<1>2. QED
    BY <1>1, NothingProper DEF Pause, c

LEMMA SeekProper ==
    ASSUME NEW s, Good(s), EntriesOk(s), NEW pos, NEW time, NEW cat
    PROVE  Proper(s, Seek(s, pos, time), cat)
<1> DEFINE c == Clamp(s, pos)
           anchor == IF s.playback.playing THEN time + ResumeDelayMs ELSE time
<1> HIDE DEF c, anchor
<1>1. Proper(s, Did([s EXCEPT !.playback.positionMs = c, !.playback.anchorMs = anchor,
                              !.playback.playing = s.playback.playing, !.hold = NoHold],
                    {"playback"}), cat)
    BY MovePlaybackProper
<1>2. [s EXCEPT !.playback.positionMs = c, !.playback.anchorMs = anchor,
                !.playback.playing = s.playback.playing, !.hold = NoHold]
          = [s EXCEPT !.playback.positionMs = c, !.playback.anchorMs = anchor, !.hold = NoHold]
    BY DEF Good, States, Playbacks
<1>3. Proper(s, Did([s EXCEPT !.playback.positionMs = c, !.playback.anchorMs = anchor,
                              !.hold = NoHold], {"playback"}), cat)
    BY <1>1, <1>2, Zenon
<1>4. QED
    BY <1>3, NothingProper DEF Seek, c, anchor

LEMMA SkipNextProper ==
    ASSUME NEW s, Good(s), EntriesOk(s), NEW time \in Nat, NEW cat, IsCatalog(cat)
    PROVE  Proper(s, SkipNext(s, time, cat), cat)
<1> DEFINE wrap == s.repeat # "off"
           taken == TakeNext(s, wrap, cat)
           parked == StopAtEnd(taken.st, time, cat)
           stopped == [parked EXCEPT !.hold = NoHold]
           r == Start(taken.st, taken.item, time, cat)
<1>1. wrap \in BOOLEAN
    OBVIOUS
<1> HIDE DEF wrap
<1>2. /\ Good(taken.st) /\ Moved(s, taken.st, cat) /\ EntriesOk(taken.st)
      /\ taken.item \in Items \cup {NoItem}
      /\ taken.item # NoItem => Fits(taken.st, taken.item.entryID)
      /\ taken.item = NoItem => /\ PlayableEntries(s, cat) = {}
                                /\ taken.st = DropEntries(s, Len(s.queue))
    BY <1>1, TakeNextGood, TakeNextMoved DEF Moved
<1> HIDE DEF taken
<1>3. ASSUME taken.item # NoItem
      PROVE  Proper(s, Did(r, {"playback"}), cat)
    <2>1. Moved(taken.st, r, cat) /\ Good(r)
        BY <1>2, <1>3, StartMoved, StartGood DEF Good
    <2> HIDE DEF r
    <2>2. Moved(s, r, cat)
        BY <1>2, <2>1, MovedAlong DEF Good
    <2>3. QED
        BY <2>2, MovedProper
<1>4. taken.item = NoItem => Proper(s, NoChange(taken.st), cat)
    BY <1>2, DrainedProper
<1>5. Proper(s, Did(stopped, {"playback"}), cat)
    <2>1. Moved(taken.st, parked, cat) /\ Good(parked)
        BY <1>2, StopAtEndMoved, StopAtEndGood
    <2> HIDE DEF parked
    <2>2. Moved(s, parked, cat)
        BY <1>2, <2>1, MovedAlong DEF Good
    <2>3. /\ SameLists(parked, stopped) /\ stopped.playback = parked.playback
          /\ stopped.hold = NoHold
        BY <2>1 DEF SameLists, Good, States
    <2> HIDE DEF stopped
    <2>4. EntriesOk(stopped)
        BY <2>2, <2>3, EntriesParts DEF Moved, SameLists, Unique, Fits
    <2>5. Moved(s, stopped, cat)
        BY <2>2, <2>3, <2>4 DEF Moved, SameLists, PlaysOn, SameLength, FromTop, Holding
    <2>6. QED
        BY <2>5, MovedProper
<1>6. QED
    BY <1>3, <1>4, <1>5 DEF SkipNext, taken, wrap

LEMMA SkipPrevProper ==
    ASSUME NEW s, Good(s), EntriesOk(s), NEW time \in Nat, NEW cat, IsCatalog(cat)
    PROVE  Proper(s, SkipPrev(s, time, cat), cat)
<1> DEFINE i == IF PositionAt(s.playback, time) > PrevRestartThresholdMs THEN 0
                ELSE PrevPosition(s)
           r == StartContextTrack(s, i, time, cat)
<1>1. i \in Nat
    BY LenProperties DEF Good, States, OrderOk, PrevPosition
<1> HIDE DEF i
<1>2. Moved(s, r, cat)
    BY <1>1, StartContextTrackMoved DEF Good
<1> HIDE DEF r
<1>3. Proper(s, Did(r, {"playback"}), cat)
    BY <1>2, MovedProper
<1>4. Proper(s, Seek(s, 0, time), cat) /\ Proper(s, NoChange(s), cat)
    BY SeekProper, NothingProper
<1>5. QED
    BY <1>3, <1>4 DEF SkipPrev, i, r

LEMMA EndedProper ==
    ASSUME NEW s, Good(s), EntriesOk(s), NEW trackID, NEW entryID, NEW time \in Nat,
           NEW cat, IsCatalog(cat)
    PROVE  Proper(s, Ended(s, trackID, entryID, time, cat), cat)
<1>1. Proper(s, Did(AdvanceAuto(s, time, cat), {"playback"}), cat)
    BY AdvanceAutoMoved, MovedProper
<1>2. Proper(s, NoChange(s), cat)
    BY NothingProper
<1>3. QED
    BY <1>1, <1>2 DEF Ended

LEMMA PlayContextProper ==
    ASSUME NEW s, Good(s), EntriesOk(s), NEW tracks \in Seq(TrackIds),
           NEW first \in 0..Len(tracks) \cup {NoValue},
           NEW order \in Orders(Len(tracks), IF first = NoValue THEN 0 ELSE first, s.shuffle),
           NEW time \in Nat, NEW cat
    PROVE  Proper(s, PlayContext(s, tracks, first, order, time, cat), cat)
<1> DEFINE t == [s EXCEPT !.tracks = tracks, !.order = order]
           i == IF ~s.shuffle /\ first > 0 THEN first ELSE 1
           r == StartContextTrack(t, i, time, cat)
<1>1. order \in Seq(Nat)
    BY LenProperties, OrdersArePermutations
<1>2. /\ t \in States /\ t.playback = s.playback /\ t.hold = s.hold
       /\ t.shuffle = s.shuffle
      /\ t.queue = s.queue /\ t.queueVersion = s.queueVersion /\ t.version = s.version
      /\ t.contextVersion = s.contextVersion /\ t.nextEntrySeq = s.nextEntrySeq
    BY <1>1 DEF Good, States
<1>3. EntriesOk(t)
    BY <1>2 DEF EntriesOk
<1> HIDE DEF t
<1>4. ASSUME first # NoValue
      PROVE  Proper(s, Did(r, {"playback", "context"}), cat)
    <2>1. i \in Nat
        BY <1>4, LenProperties
    <2> HIDE DEF i
    <2>2. Moved(t, r, cat)
        BY <1>2, <1>3, <2>1, StartContextTrackMoved
    <2> HIDE DEF r
    <2>3. QED
        BY <1>2, <2>2 DEF Proper, Moved, Did, Outcome, PlaysOn, SameLength, FromTop, Holding
<1>5. Proper(s, Refuse(s), cat)
    BY NothingProper
<1>6. QED
    BY <1>4, <1>5 DEF PlayContext, t, r, i

LEMMA JumpToProper ==
    ASSUME NEW s, Good(s), EntriesOk(s), NEW i, NEW time, NEW cat
    PROVE  Proper(s, JumpTo(s, i, time, cat), cat)
<1> DEFINE r == StartContextTrack(s, i, time, cat)
<1>1. ASSUME i \in DOMAIN s.order
      PROVE  Proper(s, Did(r, {"playback"}), cat)
    <2>1. i \in Nat
        BY <1>1, LenProperties DEF Good, States
    <2>2. Moved(s, r, cat)
        BY <2>1, StartContextTrackMoved DEF Good
    <2> HIDE DEF r
    <2>3. QED
        BY <2>2, MovedProper
<1>2. Proper(s, Refuse(s), cat)
    BY NothingProper
<1>3. QED
    BY <1>1, <1>2 DEF JumpTo

\* Shuffled, the current track comes first in the new order; unshuffled, it
\* stands where the context has it.
LEMMA SetShuffleProper ==
    ASSUME NEW s, Good(s), EntriesOk(s), NEW on \in BOOLEAN,
           NEW order \in Orders(Len(s.tracks), CurrentTrack(s), on), NEW cat
    PROVE  Proper(s, SetShuffle(s, on, order), cat)
<1> DEFINE current == CurrentTrack(s)
           i == IF on /\ current # 0 THEN 1 ELSE current
           same == [s EXCEPT !.shuffle = on]
           other == [s EXCEPT !.shuffle = on, !.order = order, !.contextIndex = i]
<1>1. /\ s.queueVersion \in Nat /\ s.order \in Seq(Nat) /\ Len(s.tracks) \in Nat
      /\ Len(s.order) = Len(s.tracks) /\ DOMAIN s.order = 1..Len(s.tracks)
      /\ DOMAIN s.tracks = 1..Len(s.tracks)
    BY LenProperties DEF Good, States, OrderOk
<1>2. /\ order \in Seq(Nat) /\ DOMAIN order = 1..Len(s.tracks)
      /\ \A k \in 1..Len(s.tracks) : order[k] \in 1..Len(s.tracks)
      /\ on /\ current # 0 => order[1] = current
      /\ ~on => \A k \in 1..Len(s.tracks) : order[k] = k
    <2> DEFINE n == Len(s.tracks)
    <2>1. n \in Nat /\ order \in Orders(n, current, on)
        BY <1>1
    <2> HIDE DEF n, current
    <2>2. order \in Seq(Nat) /\ DOMAIN order = 1..n /\ \A k \in 1..n : order[k] \in 1..n
        BY <2>1, OrdersArePermutations
    <2>3. on /\ current # 0 => order[1] = current
        BY <2>1 DEF Orders
    <2>4. ~on => order = [k \in 1..n |-> k]
        BY <2>1 DEF Orders
    <2>5. ~on => \A k \in 1..n : order[k] = k
        BY <2>4
    <2>6. QED
        BY <2>2, <2>3, <2>5 DEF n
<1>3. current \in 0..Len(s.tracks)
    BY <1>1 DEF CurrentTrack, Good, OrderOk
<1>4. Proper(s, Did(same, {"settings"}), cat)
    <2>1. /\ same.queue = s.queue /\ same.queueVersion = s.queueVersion
          /\ same.nextEntrySeq = s.nextEntrySeq /\ same.tracks = s.tracks
          /\ same.order = s.order /\ same.contextVersion = s.contextVersion
          /\ same.version = s.version /\ same.playback = s.playback
          /\ same.hold = s.hold
          /\ same.contextIndex = s.contextIndex
        BY DEF Good, States
    <2> HIDE DEF same
    <2>2. EntriesOk(same) /\ KeepsTrack(s, same)
        BY <2>1 DEF EntriesOk, KeepsTrack, CurrentTrack
    <2>3. QED
        BY <1>1, <2>1, <2>2 DEF Proper, Did, Outcome, PlaysOn, SameLength, FromTop, Holding
<1>5. Proper(s, Did(other, {"settings", "context"}), cat)
    <2>1. /\ other.queue = s.queue /\ other.queueVersion = s.queueVersion
          /\ other.nextEntrySeq = s.nextEntrySeq /\ other.tracks = s.tracks
          /\ other.order = order /\ other.contextVersion = s.contextVersion
          /\ other.version = s.version /\ other.playback = s.playback
          /\ other.hold = s.hold
          /\ other.contextIndex = i
        BY DEF Good, States
    <2> HIDE DEF other
    <2>2. CurrentTrack(other) = current
        <3>1. CASE current = 0
            <4>1. 0 \notin 1..Len(s.tracks)
                BY <1>1
            <4>2. QED
                BY <1>2, <2>1, <3>1, <4>1 DEF CurrentTrack
        <3>2. CASE on /\ current # 0
            <4>1. 1 \in 1..Len(s.tracks)
                BY <1>1, <1>3, <3>2
            <4>2. QED
                BY <1>2, <2>1, <3>2, <4>1 DEF CurrentTrack
        <3>3. CASE ~on /\ current # 0
            <4>1. current \in 1..Len(s.tracks)
                BY <1>1, <1>3, <3>3
            <4> HIDE DEF current
            <4>2. QED
                BY <1>2, <2>1, <3>3, <4>1 DEF CurrentTrack
        <3>4. QED
            BY <3>1, <3>2, <3>3
    <2>3. EntriesOk(other) /\ KeepsTrack(s, other)
        BY <2>1, <2>2 DEF EntriesOk, KeepsTrack
    <2>4. QED
        BY <1>1, <2>1, <2>3 DEF Proper, Did, Outcome, PlaysOn, SameLength, FromTop, Holding
<1> HIDE DEF same, other
<1>6. Proper(s, NoChange(s), cat)
    BY NothingProper
<1>7. QED
    BY <1>4, <1>5, <1>6 DEF SetShuffle, same, other, i, current

-----------------------------------------------------------------------------
(* Entry ids and commands on the queue *)

\* A command that changes the queue alone, and what it draws from.
LEMMA QueueProper ==
    ASSUME NEW s, Good(s), NEW q, NEW n, NEW cat, NEW parts, "queue" \in parts,
           EntriesOk([s EXCEPT !.queue = q, !.nextEntrySeq = n]),
           AllKnown(s.queue, cat) => AllKnown(q, cat)
    PROVE  Proper(s, Did([s EXCEPT !.queue = q, !.nextEntrySeq = n], parts), cat)
<1> DEFINE t == [s EXCEPT !.queue = q, !.nextEntrySeq = n]
<1>1. /\ t.queueVersion = s.queueVersion /\ t.contextVersion = s.contextVersion
      /\ t.version = s.version /\ t.playback = s.playback /\ t.hold = s.hold /\ t.tracks = s.tracks
      /\ t.order = s.order /\ t.shuffle = s.shuffle /\ s.queueVersion \in Nat
      /\ t.queue = q
    BY DEF Good, States
<1> HIDE DEF t
<1>2. EntriesOk(t)
    BY DEF t
<1>3. Proper(s, Did(t, parts), cat)
    BY <1>1, <1>2 DEF Proper, Did, Outcome, PlaysOn, SameLength, FromTop, Holding
<1>4. QED
    BY <1>3 DEF t

\* The queue without the entry at i.
LEMMA WithoutEntry ==
    ASSUME NEW s, Good(s), EntriesOk(s), NEW i \in DOMAIN s.queue
    PROVE  LET t == [s EXCEPT !.queue = RemoveAt(@, i)]
           IN  /\ t \in States /\ t.nextEntrySeq = s.nextEntrySeq /\ t.playback = s.playback
               /\ EntriesOk(t) /\ Fits(t, s.queue[i].id)
               /\ \A cat : AllKnown(s.queue, cat) => AllKnown(t.queue, cat)
<1> DEFINE q == RemoveAt(s.queue, i)
           t == [s EXCEPT !.queue = q]
           f == [k \in 1..Len(s.queue) - 1 |-> IF k < i THEN k ELSE k + 1]
<1>1. /\ s.queue \in Seq(Entries) /\ Len(s.queue) \in Nat /\ DOMAIN s.queue = 1..Len(s.queue)
      /\ i \in 1..Len(s.queue)
    BY LenProperties DEF Good, States
<1>2. /\ q \in Seq(Entries) /\ Len(q) = Len(s.queue) - 1
      /\ \A k \in 1..Len(s.queue) - 1 : q[k] = IF k < i THEN s.queue[k] ELSE s.queue[k + 1]
    BY <1>1, RemoveAtSeq
<1>3. DOMAIN q = 1..Len(s.queue) - 1
    BY <1>2, LenProperties
<1> HIDE DEF q
<1>4. t \in States /\ t.queue = q /\ t.nextEntrySeq = s.nextEntrySeq /\ t.playback = s.playback
    BY <1>2 DEF Good, States
<1> HIDE DEF t
<1>5. \A k \in DOMAIN t.queue : f[k] \in DOMAIN s.queue /\ f[k] # i /\ t.queue[k] = s.queue[f[k]]
    <2> SUFFICES ASSUME NEW k \in 1..Len(s.queue) - 1
                 PROVE  f[k] \in DOMAIN s.queue /\ f[k] # i /\ t.queue[k] = s.queue[f[k]]
        BY <1>3, <1>4
    <2>1. f[k] = IF k < i THEN k ELSE k + 1
        OBVIOUS
    <2>2. k \in Nat /\ k >= 1 /\ k <= Len(s.queue) - 1 /\ i \in Nat
        BY <1>1
    <2>3. QED
        BY <1>1, <1>2, <1>4, <2>1, <2>2
<1>6. \A k, l \in DOMAIN t.queue : f[k] = f[l] => k = l
    <2> SUFFICES ASSUME NEW k \in 1..Len(s.queue) - 1, NEW l \in 1..Len(s.queue) - 1, f[k] = f[l]
                 PROVE  k = l
        BY <1>3, <1>4
    <2>1. f[k] = (IF k < i THEN k ELSE k + 1) /\ f[l] = IF l < i THEN l ELSE l + 1
        OBVIOUS
    <2>2. k \in Nat /\ l \in Nat /\ i \in Nat
        BY <1>1
    <2>3. QED
        BY <2>1, <2>2
<1> HIDE DEF f
<1>7. Unique(s) /\ Fits(s, s.playback.entryID)
    BY EntriesParts
<1>8. /\ Unique(t) /\ \A e : Fits(s, e) => Fits(t, e)
      /\ \A cat : AllKnown(s.queue, cat) => AllKnown(t.queue, cat)
    BY <1>4, <1>5, <1>6, <1>7, PlacesMove
<1>9. EntriesOk(t)
    BY <1>4, <1>7, <1>8, EntriesParts
<1>10. Fits(t, s.queue[i].id)
    <2>1. s.queue[i].id \in 1..s.nextEntrySeq /\ s.nextEntrySeq \in Nat
        BY <1>1, <1>7 DEF Unique, Good, States
    <2>2. \A k \in DOMAIN t.queue : t.queue[k].id # s.queue[i].id
        BY <1>5, <1>7 DEF Unique
    <2>3. QED
        BY <1>4, <2>1, <2>2 DEF Fits
<1>11. QED
    BY <1>4, <1>8, <1>9, <1>10 DEF t, q

LEMMA PlayEntryProper ==
    ASSUME NEW s, Good(s), EntriesOk(s), NEW id, NEW time, NEW cat
    PROVE  Proper(s, PlayEntry(s, id, time, cat), cat)
<1> DEFINE i == Min(EntryAt(s, id))
           item == [trackID |-> s.queue[i].trackID, entryID |-> s.queue[i].id]
           t == [s EXCEPT !.queue = RemoveAt(@, i)]
           r == Start(t, item, time, cat)
<1>1. Proper(s, Refuse(s), cat)
    BY NothingProper
<1>2. ASSUME EntryAt(s, id) # {}
      PROVE  Proper(s, Did(r, {"playback", "queue"}), cat)
    <2>1. i \in DOMAIN s.queue
        BY <1>2, EntryAtMin
    <2>2. item.entryID = s.queue[i].id
        OBVIOUS
    <2>3. /\ t.queueVersion = s.queueVersion /\ t.contextVersion = s.contextVersion
          /\ t.version = s.version /\ t.tracks = s.tracks /\ t.order = s.order
          /\ t.shuffle = s.shuffle /\ t.playback = s.playback
          /\ t.hold = s.hold
        BY DEF Good, States
    <2> HIDE DEF i
    <2>4. /\ t \in States /\ EntriesOk(t) /\ Fits(t, s.queue[i].id)
          /\ AllKnown(s.queue, cat) => AllKnown(t.queue, cat)
        BY <2>1, WithoutEntry
    <2> HIDE DEF t, item
    <2>5. Moved(t, r, cat)
        BY <2>2, <2>4, StartMoved
    <2> HIDE DEF r
    <2>6. QED
        BY <2>3, <2>4, <2>5 DEF Proper, Moved, Did, Outcome, PlaysOn, SameLength, FromTop, Holding
<1>3. QED
    BY <1>1, <1>2 DEF PlayEntry

LEMMA QueueRemoveProper ==
    ASSUME NEW s, Good(s), EntriesOk(s), NEW id, NEW cat
    PROVE  Proper(s, QueueRemove(s, id), cat)
<1> DEFINE i == Min(EntryAt(s, id))
           t == [s EXCEPT !.queue = RemoveAt(@, i)]
<1>1. Proper(s, Refuse(s), cat)
    BY NothingProper
<1>2. ASSUME EntryAt(s, id) # {}
      PROVE  Proper(s, Did(t, {"queue"}), cat)
    <2>1. i \in DOMAIN s.queue
        BY <1>2, EntryAtMin
    <2> HIDE DEF i
    <2>2. EntriesOk(t) /\ (AllKnown(s.queue, cat) => AllKnown(t.queue, cat))
        BY <2>1, WithoutEntry
    <2>3. /\ t = [s EXCEPT !.queue = RemoveAt(s.queue, i), !.nextEntrySeq = s.nextEntrySeq]
          /\ t.queue = RemoveAt(s.queue, i)
        BY DEF Good, States
    <2> HIDE DEF t
    <2>4. QED
        BY <2>2, <2>3, QueueProper
<1>3. QED
    BY <1>1, <1>2 DEF QueueRemove

LEMMA QueueClearProper ==
    ASSUME NEW s, Good(s), EntriesOk(s), NEW cat
    PROVE  Proper(s, QueueClear(s), cat)
<1> DEFINE t == [s EXCEPT !.queue = <<>>]
<1>1. /\ t.queue = <<>> /\ t.nextEntrySeq = s.nextEntrySeq /\ t.playback = s.playback
      /\ t = [s EXCEPT !.queue = <<>>, !.nextEntrySeq = s.nextEntrySeq]
    BY DEF Good, States
<1> HIDE DEF t
<1>2. DOMAIN t.queue = {}
    BY <1>1
<1>3. EntriesOk(t) /\ AllKnown(<<>>, cat)
    BY <1>1, <1>2 DEF EntriesOk, AllKnown
<1>4. Proper(s, Did(t, {"queue"}), cat)
    BY <1>1, <1>3, QueueProper
<1>5. QED
    BY <1>4, NothingProper DEF QueueClear, t

LEMMA QueueMoveProper ==
    ASSUME NEW s, Good(s), EntriesOk(s), NEW id, NEW toIndex \in Int, NEW cat
    PROVE  Proper(s, QueueMove(s, id, toIndex), cat)
<1> DEFINE from == Min(EntryAt(s, id))
           n == Len(s.queue)
           to == Max({1, Min({toIndex, n})})
           e == s.queue[from]
           rest == RemoveAt(s.queue, from)
           q == InsertAt(rest, to, e)
           t == [s EXCEPT !.queue = q, !.nextEntrySeq = s.nextEntrySeq]
           g == [k \in 1..n |-> IF k < to THEN k ELSE k - 1]
           f == [k \in 1..n |-> IF k = to THEN from
                                ELSE IF g[k] < from THEN g[k] ELSE g[k] + 1]
<1>1. Proper(s, Refuse(s), cat) /\ Proper(s, NoChange(s), cat)
    BY NothingProper
<1>2. ASSUME EntryAt(s, id) # {}
      PROVE  EntriesOk(t) /\ (AllKnown(s.queue, cat) => AllKnown(q, cat))
    <2>1. s.queue \in Seq(Entries) /\ n \in Nat /\ DOMAIN s.queue = 1..n
        BY LenProperties DEF Good, States
    <2>2. from \in 1..n
        BY <1>2, <2>1, EntryAtMin
    <2>3. e \in Entries
        BY <2>1, <2>2
    <2>4. to \in 1..n
        BY <2>1, <2>2, MoveTarget
    <2> HIDE DEF from, to
    <2>5. /\ rest \in Seq(Entries) /\ Len(rest) = n - 1
          /\ \A k \in 1..n - 1 : rest[k] = IF k < from THEN s.queue[k] ELSE s.queue[k + 1]
        BY <2>1, <2>2, RemoveAtSeq
    <2> HIDE DEF rest
    <2>6. to \in 1..Len(rest) + 1
        BY <2>1, <2>4, <2>5
    <2> HIDE DEF e
    <2>7. /\ q \in Seq(Entries) /\ Len(q) = Len(rest) + 1
          /\ \A k \in 1..Len(rest) + 1 :
                 q[k] = IF k < to THEN rest[k] ELSE IF k = to THEN e ELSE rest[k - 1]
        BY <2>3, <2>5, <2>6, InsertAtSeq
    <2> HIDE DEF q
    <2>8. Len(q) = n /\ DOMAIN q = 1..n
        <3>1. Len(rest) + 1 = n
            BY <2>1, <2>5
        <3>2. QED
            BY <2>7, <3>1, LenProperties
    <2>9. \A k \in 1..n : q[k] = IF k = to THEN e ELSE rest[g[k]]
        <3>1. ASSUME NEW k \in 1..n PROVE k \in 1..Len(rest) + 1
            BY <2>1, <2>5
        <3>2. ASSUME NEW k \in 1..n
              PROVE  q[k] = IF k < to THEN rest[k] ELSE IF k = to THEN e ELSE rest[k - 1]
            BY <2>7, <3>1
        <3>3. ASSUME NEW k \in 1..n
              PROVE  q[k] = IF k = to THEN e ELSE rest[g[k]]
            <4>1. k \in Nat /\ to \in Nat
                BY <2>4
            <4>2. g[k] = IF k < to THEN k ELSE k - 1
                OBVIOUS
            <4>3. k < to => k # to
                BY <4>1
            <4>4. QED
                BY <3>2, <4>2, <4>3
        <3>4. QED
            BY <3>3
    <2>10. \A k \in 1..n : k # to => g[k] \in 1..n - 1
        <3> SUFFICES ASSUME NEW k \in 1..n, k # to PROVE g[k] \in 1..n - 1
            OBVIOUS
        <3>1. g[k] = IF k < to THEN k ELSE k - 1
            OBVIOUS
        <3>2. k \in Nat /\ to \in Nat /\ 1 <= k /\ k <= n /\ 1 <= to /\ to <= n
            BY <2>4
        <3>3. QED
            BY <2>1, <3>1, <3>2
    <2>11. \A k \in 1..n : f[k] \in 1..n /\ q[k] = s.queue[f[k]]
        <3> SUFFICES ASSUME NEW k \in 1..n
                     PROVE  f[k] \in 1..n /\ q[k] = s.queue[f[k]]
            OBVIOUS
        <3>1. CASE k = to
            <4>1. f[k] = from
                BY <3>1
            <4>2. QED
                BY <2>2, <2>9, <3>1, <4>1 DEF e
        <3>2. CASE k # to
            <4> DEFINE m == g[k]
            <4>1. f[k] = IF m < from THEN m ELSE m + 1
                BY <3>2
            <4>2. m \in 1..n - 1 /\ q[k] = rest[m]
                BY <2>9, <2>10, <3>2
            <4> HIDE DEF m, g, f
            <4>3. rest[m] = IF m < from THEN s.queue[m] ELSE s.queue[m + 1]
                BY <2>5, <4>2
            <4>4. f[k] \in 1..n
                BY <2>1, <2>2, <4>1, <4>2
            <4>5. QED
                BY <4>1, <4>2, <4>3, <4>4
        <3>3. QED
            BY <3>1, <3>2
    <2>12. \A k, l \in 1..n : f[k] = f[l] => k = l
        <3> SUFFICES ASSUME NEW k \in 1..n, NEW l \in 1..n, f[k] = f[l]
                     PROVE  k = l
            OBVIOUS
        <3>1. /\ f[k] = IF k = to THEN from ELSE IF g[k] < from THEN g[k] ELSE g[k] + 1
              /\ f[l] = IF l = to THEN from ELSE IF g[l] < from THEN g[l] ELSE g[l] + 1
            OBVIOUS
        <3>2. /\ g[k] = IF k < to THEN k ELSE k - 1
              /\ g[l] = IF l < to THEN l ELSE l - 1
            OBVIOUS
        <3>3. k \in Nat /\ l \in Nat /\ to \in Nat /\ from \in Nat
            BY <2>2, <2>4
        <3>4. f[k] = f[l]
            OBVIOUS
        <3> DEFINE gk == g[k]
                   gl == g[l]
        <3>5. k # to /\ l # to /\ gk = gl => k = l
            BY <3>2, <3>3
        <3>6. gk \in Int /\ gl \in Int
            BY <3>2, <3>3
        <3> HIDE DEF gk, gl
        <3>7. /\ k = to => f[k] = from
              /\ l = to => f[l] = from
              /\ k # to => f[k] = IF gk < from THEN gk ELSE gk + 1
              /\ l # to => f[l] = IF gl < from THEN gl ELSE gl + 1
            BY <3>1 DEF gk, gl
        <3> HIDE DEF f, g
        <3>8. CASE k # to /\ l # to
            <4>1. gk = gl
                BY <3>3, <3>4, <3>6, <3>7, <3>8
            <4>2. QED
                BY <3>5, <3>8, <4>1
        <3>9. CASE k = to /\ l # to
            BY <3>3, <3>4, <3>6, <3>7, <3>9
        <3>10. CASE k # to /\ l = to
            BY <3>3, <3>4, <3>6, <3>7, <3>10
        <3>11. QED
            BY <3>8, <3>9, <3>10
    <2> HIDE DEF f, g, n
    <2>13. t.queue = q /\ t.nextEntrySeq = s.nextEntrySeq /\ t.playback = s.playback
        BY DEF Good, States
    <2> HIDE DEF t
    <2>14. Unique(s) /\ Fits(s, s.playback.entryID)
        BY EntriesParts
    <2>15. /\ \A i \in DOMAIN t.queue : f[i] \in DOMAIN s.queue /\ t.queue[i] = s.queue[f[i]]
           /\ \A i, j \in DOMAIN t.queue : f[i] = f[j] => i = j
        BY <2>1, <2>8, <2>11, <2>12, <2>13
    <2>16. /\ Unique(t) /\ \A i : Fits(s, i) => Fits(t, i)
           /\ AllKnown(s.queue, cat) => AllKnown(q, cat)
        BY <2>13, <2>14, <2>15, PlacesMove
    <2>17. QED
        BY <2>13, <2>14, <2>16, EntriesParts
<1>3. t = [s EXCEPT !.queue = q]
    BY DEF Good, States
<1> HIDE DEF q
<1>4. ASSUME EntryAt(s, id) # {}
      PROVE  Proper(s, Did([s EXCEPT !.queue = q], {"queue"}), cat)
    <2>1. /\ EntriesOk(t) /\ "queue" \in {"queue"}
          /\ AllKnown(s.queue, cat) => AllKnown(q, cat)
        BY <1>2, <1>4
    <2>2. Proper(s, Did(t, {"queue"}), cat)
        BY <2>1, QueueProper
    <2>3. QED
        BY <1>3, <2>2
<1>5. QED
    BY <1>1, <1>4 DEF QueueMove, q, rest, e, to, from, n

\* The ids given to new entries are above all that were given out before.
LEMMA QueueAddProper ==
    ASSUME NEW s, Good(s), EntriesOk(s), NEW ids \in Seq(TrackIds), NEW atFront \in BOOLEAN,
           NEW cat
    PROVE  Proper(s, QueueAdd(s, ids, atFront, cat), cat)
<1> DEFINE unknown == {k \in DOMAIN ids : ~Known(cat, ids[k])}
           entries == [k \in DOMAIN ids |-> [id |-> s.nextEntrySeq + k, trackID |-> ids[k]]]
           a == IF atFront THEN entries ELSE s.queue
           b == IF atFront THEN s.queue ELSE entries
           q == IF atFront THEN entries \o s.queue ELSE s.queue \o entries
           u == s.nextEntrySeq + Min(unknown) - 1
           v == s.nextEntrySeq + Len(ids)
           skipped == [s EXCEPT !.nextEntrySeq = u]
           t == [s EXCEPT !.queue = q, !.nextEntrySeq = v]
           m == Len(ids)
           n == Len(s.queue)
<1>1. /\ m \in Nat /\ DOMAIN ids = 1..m /\ \A k \in 1..m : ids[k] \in TrackIds
      /\ s.nextEntrySeq \in Nat /\ s.queue \in Seq(Entries)
      /\ n \in Nat /\ DOMAIN s.queue = 1..n
    BY LenProperties DEF Good, States
<1>2. entries \in Seq(Entries) /\ Len(entries) = m /\ DOMAIN entries = 1..m
    <2>1. entries \in [1..m -> Entries]
        BY <1>1 DEF Entries
    <2>2. entries \in Seq(Entries)
        BY <1>1, <2>1, SeqDef
    <2>3. DOMAIN entries = 1..m
        BY <1>1
    <2>4. QED
        BY <1>1, <2>2, <2>3, LenProperties
<1>3. \A k \in 1..m : entries[k].id = s.nextEntrySeq + k
    BY <1>1
<1>4. Unique(s) /\ Fits(s, s.playback.entryID)
    BY EntriesParts
<1>5. ASSUME unknown # {}
      PROVE  u \in Nat /\ u >= s.nextEntrySeq
    <2>1. unknown \subseteq Nat \ {0}
        BY <1>1
    <2> HIDE DEF unknown
    <2>2. Min(unknown) \in unknown
        BY <1>5, <2>1, MinNat
    <2>3. Min(unknown) \in Nat \ {0}
        BY <2>1, <2>2, Zenon
    <2>4. QED
        BY <1>1, <2>3
<1>6. ASSUME unknown # {}
      PROVE  Proper(s, Refuse(skipped), cat)
    <2>1. u \in Nat /\ u >= s.nextEntrySeq
        BY <1>5, <1>6
    <2> HIDE DEF u
    <2>2. /\ skipped.queue = s.queue /\ skipped.queueVersion = s.queueVersion
          /\ skipped.contextVersion = s.contextVersion /\ skipped.nextEntrySeq = u
          /\ skipped.version = s.version /\ skipped.tracks = s.tracks
          /\ skipped.order = s.order /\ skipped.shuffle = s.shuffle
          /\ skipped.playback = s.playback /\ skipped.hold = s.hold
          /\ skipped = [s EXCEPT !.nextEntrySeq = skipped.nextEntrySeq]
          /\ s.queueVersion \in Nat /\ s.playback.entryID \in Nat
        BY DEF Good, States, Playbacks
    <2> HIDE DEF skipped
    <2>3. EntriesOk(skipped)
        <3>1. \A i \in DOMAIN s.queue : s.queue[i].id \in 1..u
            BY <1>1, <1>4, <2>1 DEF Unique
        <3>2. s.playback.entryID <= u
            BY <1>1, <1>4, <2>1, <2>2 DEF Fits
        <3>3. QED
            BY <1>4, <2>2, <3>1, <3>2 DEF EntriesOk, Unique, Fits
    <2>4. QED
        BY <2>2, <2>3 DEF Proper, Refuse, Outcome, PlaysOn, SameLength, FromTop, Holding
<1> HIDE DEF entries
<1>7. /\ a \in Seq(Entries) /\ b \in Seq(Entries) /\ q = a \o b
      /\ Len(a) \in Nat /\ Len(b) \in Nat
      /\ DOMAIN a = 1..Len(a) /\ DOMAIN b = 1..Len(b)
    BY <1>1, <1>2
<1>8. /\ \A i \in DOMAIN a : a[i].id \in 1..v /\ a[i].id # s.playback.entryID
      /\ \A i \in DOMAIN b : b[i].id \in 1..v /\ b[i].id # s.playback.entryID
      /\ \A i, j \in DOMAIN a : a[i].id = a[j].id => i = j
      /\ \A i, j \in DOMAIN b : b[i].id = b[j].id => i = j
      /\ \A i \in DOMAIN a, j \in DOMAIN b : a[i].id # b[j].id
    <2> DEFINE x == s.nextEntrySeq
    <2>1. \A i \in 1..n : /\ s.queue[i].id \in 1..x /\ s.queue[i].id # s.playback.entryID
                          /\ s.queue[i].id \in 1..v
        <3>1. \A k \in 1..x : k \in 1..v
            BY <1>1
        <3>2. QED
            BY <1>1, <1>4, <3>1 DEF Unique, Fits
    <2>2. \A k \in 1..m : entries[k].id > x /\ entries[k].id \in 1..v
        <3> HIDE DEF m
        <3>1. \A k \in 1..m : x + k > x /\ x + k \in 1..x + m
            BY <1>1
        <3>2. QED
            BY <1>3, <3>1 DEF m
    <2>3. \A k, l \in 1..m : entries[k].id = entries[l].id => k = l
        <3> HIDE DEF m
        <3>1. \A k, l \in 1..m : x + k = x + l => k = l
            BY <1>1
        <3>2. QED
            BY <1>3, <3>1
    <2>4. s.playback.entryID \in Nat /\ s.playback.entryID <= x
        BY <1>4 DEF Fits, Good, States, Playbacks
    <2>5. \A i, j \in 1..n : s.queue[i].id = s.queue[j].id => i = j
        BY <1>1, <1>4 DEF Unique
    <2>6. \A k \in 1..m : entries[k].id # s.playback.entryID
        BY <1>1, <2>2, <2>4
    <2>7. \A k \in 1..m, i \in 1..n : entries[k].id # s.queue[i].id
        BY <1>1, <2>1, <2>2
    <2>8. CASE atFront
        BY <1>1, <1>2, <2>1, <2>2, <2>3, <2>5, <2>6, <2>7, <2>8
    <2>9. CASE ~atFront
        BY <1>1, <1>2, <2>1, <2>2, <2>3, <2>5, <2>6, <2>7, <2>9
    <2>10. QED
        BY <2>8, <2>9
<1>9. v \in Nat /\ s.nextEntrySeq <= v
    BY <1>1
<1> HIDE DEF a, b, q, v
<1>10. EntriesOk(t)
    <2>1. t.queue = q /\ t.nextEntrySeq = v /\ t.playback = s.playback
        BY DEF Good, States
    <2> HIDE DEF t
    <2>2. /\ Len(q) = Len(a) + Len(b) /\ q \in Seq(Entries)
          /\ \A i \in 1..Len(a) + Len(b) :
                 q[i] = IF i <= Len(a) THEN a[i] ELSE b[i - Len(a)]
        BY <1>7, ConcatProperties
    <2> DEFINE l == Len(a)
               k == Len(b)
    <2>3. l \in Nat /\ k \in Nat /\ DOMAIN a = 1..l /\ DOMAIN b = 1..k /\ DOMAIN q = 1..l + k
        BY <1>7, <2>2, LenProperties
    <2>4. \A i \in 1..l + k : q[i] = IF i <= l THEN a[i] ELSE b[i - l]
        BY <2>2
    <2> HIDE DEF l, k
    <2>5. \A i \in 1..l + k : /\ i <= l => i \in DOMAIN a /\ q[i] = a[i]
                              /\ ~(i <= l) => i - l \in DOMAIN b /\ q[i] = b[i - l]
        BY <2>3, <2>4
    <2>6. \A i \in 1..l + k : q[i].id \in 1..v /\ q[i].id # s.playback.entryID
        BY <1>8, <2>5
    <2>7. \A i, j \in 1..l + k : q[i].id = q[j].id => i = j
        <3> SUFFICES ASSUME NEW i \in 1..l + k, NEW j \in 1..l + k, q[i].id = q[j].id
                     PROVE  i = j
            OBVIOUS
        <3>1. CASE i <= l /\ j <= l
            BY <1>8, <2>5, <3>1
        <3>2. CASE i <= l /\ ~(j <= l)
            BY <1>8, <2>5, <3>2
        <3>3. CASE ~(i <= l) /\ j <= l
            BY <1>8, <2>5, <3>3
        <3>4. CASE ~(i <= l) /\ ~(j <= l)
            <4>1. i - l = j - l
                BY <1>8, <2>5, <3>4
            <4>2. QED
                BY <2>3, <4>1
        <3>5. QED
            BY <3>1, <3>2, <3>3, <3>4
    <2>8. s.playback.entryID <= v
        <3>1. s.playback.entryID \in Nat /\ s.playback.entryID <= s.nextEntrySeq
            BY <1>4 DEF Fits, Good, States, Playbacks
        <3>2. QED
            BY <1>1, <1>9, <3>1
    <2>9. QED
        BY <2>1, <2>3, <2>6, <2>7, <2>8 DEF EntriesOk
<1>11. ASSUME unknown = {}
      PROVE  Proper(s, Did(t, {"queue"}), cat)
    <2>1. \A k \in 1..m : Known(cat, entries[k].trackID)
        BY <1>1, <1>11 DEF entries
    <2>2. AllKnown(s.queue, cat) => AllKnown(q, cat)
        <3> SUFFICES ASSUME AllKnown(s.queue, cat) PROVE AllKnown(q, cat)
            OBVIOUS
        <3>1. \A i \in DOMAIN a : Known(cat, a[i].trackID)
            BY <1>1, <1>2, <2>1 DEF a, AllKnown
        <3>2. \A i \in DOMAIN b : Known(cat, b[i].trackID)
            BY <1>1, <1>2, <2>1 DEF b, AllKnown
        <3> HIDE DEF m, n
        <3>3. /\ Len(q) = Len(a) + Len(b) /\ q \in Seq(Entries)
              /\ \A i \in 1..Len(a) + Len(b) :
                     q[i] = IF i <= Len(a) THEN a[i] ELSE b[i - Len(a)]
            BY <1>7, ConcatProperties
        <3>4. DOMAIN q = 1..Len(a) + Len(b)
            BY <3>3, LenProperties
        <3>5. ASSUME NEW i \in 1..Len(a) + Len(b) PROVE Known(cat, q[i].trackID)
            <4>1. CASE i <= Len(a)
                <5>1. i \in DOMAIN a /\ q[i] = a[i]
                    BY <1>7, <3>3, <4>1
                <5>2. QED
                    BY <3>1, <5>1
            <4>2. CASE ~(i <= Len(a))
                <5> DEFINE k == i - Len(a)
                <5>1. k \in DOMAIN b /\ q[i] = b[k]
                    BY <1>7, <3>3, <4>2
                <5> HIDE DEF k
                <5>2. QED
                    BY <3>2, <5>1
            <4>3. QED
                BY <4>1, <4>2
        <3>6. QED
            BY <3>4, <3>5 DEF AllKnown
    <2>3. QED
        BY <1>10, <2>2, QueueProper
<1>12. Proper(s, Refuse(s), cat)
    BY NothingProper
<1>13. QED
    BY <1>6, <1>11, <1>12 DEF QueueAdd, q, u, v, entries, skipped, t

-----------------------------------------------------------------------------
(* Commands on settings *)

LEMMA SetRepeatProper ==
    ASSUME NEW s, Good(s), EntriesOk(s), NEW mode, NEW cat
    PROVE  Proper(s, SetRepeat(s, mode), cat)
<1> DEFINE t == [s EXCEPT !.repeat = mode]
<1>1. SameLists(s, t) /\ SameItem(s, t)
    BY DEF SameLists, SameItem, FromTop, Holding, Good, States
<1> HIDE DEF t
<1>2. Proper(s, Did(t, {"settings"}), cat)
    BY <1>1, SameItemProper
<1>3. QED
    BY <1>2, NothingProper DEF SetRepeat, t

LEMMA SetWaitForAllProper ==
    ASSUME NEW s, Good(s), EntriesOk(s), NEW on, NEW cat
    PROVE  Proper(s, SetWaitForAll(s, on), cat)
<1> DEFINE t == [s EXCEPT !.waitForAll = on, !.hold = IF on THEN @ ELSE NoHold]
           parts == IF ~on /\ s.hold # NoHold THEN {"settings", "playback"} ELSE {"settings"}
<1>1. SameLists(s, t) /\ SameItem(s, t)
    BY DEF SameLists, SameItem, FromTop, Holding, Good, States
<1>2. parts # {}
    OBVIOUS
<1> HIDE DEF t, parts
<1>3. Proper(s, Did(t, parts), cat)
    BY <1>1, <1>2, SameItemProper
<1>4. QED
    BY <1>3, NothingProper DEF SetWaitForAll, t, parts

-----------------------------------------------------------------------------
(* What catching up, commands and the hold version *)

\* From s to t, ids stay in order, versions do not fall, and the versions of
\* the queue and the context rise with every change of them.
Versioned(s, t, cat) ==
    /\ EntriesOk(t)
    /\ t.version >= s.version
    /\ t.queueVersion >= s.queueVersion /\ t.contextVersion >= s.contextVersion
    /\ t.queue # s.queue => t.queueVersion > s.queueVersion
    /\ t.tracks # s.tracks \/ t.order # s.order => t.contextVersion > s.contextVersion
    /\ PlaysOn(s, t, cat)
    /\ AllKnown(s.queue, cat) => AllKnown(t.queue, cat)

LEMMA VersionedAlong ==
    ASSUME NEW s \in States, NEW m \in States, NEW t \in States, NEW cat,
           Versioned(s, m, cat), Versioned(m, t, cat)
    PROVE  Versioned(s, t, cat)
<1>1. /\ s.queueVersion \in Nat /\ m.queueVersion \in Nat /\ t.queueVersion \in Nat
      /\ s.contextVersion \in Nat /\ m.contextVersion \in Nat /\ t.contextVersion \in Nat
      /\ s.version \in Nat /\ m.version \in Nat /\ t.version \in Nat
    BY DEF States
<1>2. PlaysOn(s, t, cat)
    BY DEF Versioned, PlaysOn, SameLength, FromTop, Holding
<1>3. QED
    BY <1>1, <1>2 DEF Versioned

LEMMA SettleVersioned ==
    ASSUME NEW s, Good(s), EntriesOk(s), NEW time \in Nat, NEW cat, IsCatalog(cat)
    PROVE  LET t == Settle(s, time, cat)
           IN  /\ Versioned(s, t, cat)
               /\ Overdue(s, time) => t.version > s.version
               /\ t.shuffle = s.shuffle
<1> DEFINE m == Normalize(s, time, cat)
           t == [m EXCEPT !.version = @ + 1]
<1>1. Moved(s, m, cat) /\ Good(m)
    BY NormalizeMoved, NormalizeGood
<1> HIDE DEF m
<1>2. /\ t.queue = m.queue /\ t.queueVersion = m.queueVersion /\ t.playback = m.playback
      /\ t.tracks = m.tracks /\ t.order = m.order /\ t.contextVersion = m.contextVersion
      /\ t.shuffle = m.shuffle /\ t.nextEntrySeq = m.nextEntrySeq
      /\ t.version = m.version + 1 /\ t.hold = m.hold
    BY <1>1 DEF Good, States
<1> HIDE DEF t
<1>3. /\ s.queueVersion \in Nat /\ s.contextVersion \in Nat /\ s.version \in Nat
      /\ t.version > s.version
    BY <1>1, <1>2 DEF Moved, Good, States
<1>4. EntriesOk(t)
    BY <1>1, <1>2 DEF Moved, EntriesOk
<1>5. Versioned(s, t, cat) /\ t.shuffle = s.shuffle
    BY <1>1, <1>2, <1>3, <1>4 DEF Versioned, Moved, PlaysOn, SameLength, FromTop, Holding
<1>6. Versioned(s, s, cat)
    BY <1>3 DEF Versioned, PlaysOn, SameLength, FromTop, Holding
<1>7. QED
    BY <1>3, <1>5, <1>6 DEF Settle, m, t

LEMMA CommitVersioned ==
    ASSUME NEW s, Good(s), NEW outcome, NEW cat, Sound(s, outcome), Proper(s, outcome, cat)
    PROVE  LET t == Commit(s, outcome)
           IN  /\ Versioned(s, t, cat)
               /\ outcome.changed # {} => t.version > s.version
               /\ outcome.changed = {} /\ AllKnown(s.queue, cat) =>
                      t = [s EXCEPT !.nextEntrySeq = t.nextEntrySeq]
               /\ t.shuffle # s.shuffle => KeepsTrack(s, t)
<1> DEFINE r == outcome.st
           qv == IF "queue" \in outcome.changed /\ r.queueVersion = s.queueVersion
                 THEN r.queueVersion + 1 ELSE r.queueVersion
           cv == IF "context" \in outcome.changed
                 THEN r.contextVersion + 1 ELSE r.contextVersion
           v == r.version + 1
           t == [r EXCEPT !.version = v, !.queueVersion = qv, !.contextVersion = cv]
<1>1. /\ Good(r) /\ EntriesOk(r) /\ r.version = s.version
      /\ r.contextVersion = s.contextVersion /\ r.queueVersion >= s.queueVersion
      /\ r.queue # s.queue => "queue" \in outcome.changed \/ r.queueVersion > s.queueVersion
      /\ r.tracks # s.tracks \/ r.order # s.order => "context" \in outcome.changed
      /\ PlaysOn(s, r, cat)
      /\ AllKnown(s.queue, cat) => AllKnown(r.queue, cat)
      /\ r.shuffle # s.shuffle => KeepsTrack(s, r)
      /\ outcome.changed = {} /\ AllKnown(s.queue, cat) => r = [s EXCEPT !.nextEntrySeq = r.nextEntrySeq]
    BY DEF Sound, Proper
<1>2. Commit(s, outcome) = IF outcome.changed = {} THEN r ELSE t
    BY DEF Commit
<1>3. /\ s.queueVersion \in Nat /\ s.contextVersion \in Nat /\ s.version \in Nat
      /\ r.queueVersion \in Nat /\ r.contextVersion \in Nat /\ r.version \in Nat
    BY <1>1 DEF Good, States
<1> HIDE DEF r
<1>4. /\ v \in Nat /\ v > s.version /\ v >= s.version
      /\ qv >= s.queueVersion /\ cv >= s.contextVersion
      /\ r.queue # s.queue => qv > s.queueVersion
      /\ r.tracks # s.tracks \/ r.order # s.order => cv > s.contextVersion
    BY <1>1, <1>3
<1> HIDE DEF qv, cv, v
<1>5. /\ t.queue = r.queue /\ t.queueVersion = qv /\ t.playback = r.playback
      /\ t.tracks = r.tracks /\ t.order = r.order /\ t.contextVersion = cv
      /\ t.shuffle = r.shuffle /\ t.nextEntrySeq = r.nextEntrySeq /\ t.version = v
      /\ t.contextIndex = r.contextIndex /\ t.hold = r.hold
    BY <1>1 DEF Good, States
<1> HIDE DEF t
<1>6. EntriesOk(t)
    BY <1>1, <1>5 DEF EntriesOk
<1>7. Versioned(s, t, cat)
    BY <1>1, <1>3, <1>4, <1>5, <1>6 DEF Versioned, PlaysOn, SameLength, FromTop, Holding
<1>8. t.shuffle # s.shuffle => KeepsTrack(s, t)
    BY <1>1, <1>5 DEF KeepsTrack, CurrentTrack
<1>9. ASSUME outcome.changed = {} PROVE Versioned(s, r, cat)
    BY <1>1, <1>3, <1>9 DEF Versioned
<1>10. t.version > s.version
    BY <1>4, <1>5
<1>11. CASE outcome.changed = {}
    BY <1>1, <1>2, <1>9, <1>11
<1>12. CASE outcome.changed # {}
    BY <1>2, <1>7, <1>8, <1>10, <1>12
<1>13. QED
    BY <1>11, <1>12

\* What the hold does to a state: another start, and no hold any more or the
\* same one.
LEMMA CheckHoldVersioned ==
    ASSUME NEW s, Good(s), EntriesOk(s), NEW time \in Nat, NEW allReady \in BOOLEAN, NEW cat
    PROVE  LET t == CheckHold(s, time, allReady)
           IN  /\ Versioned(s, t, cat) /\ KeepsTrack(s, t)
               /\ t # s => t.version > s.version
               /\ t.shuffle = s.shuffle
<1> DEFINE t == CheckHold(s, time, allReady)
           Same(r) ==
               /\ r.queue = s.queue /\ r.queueVersion = s.queueVersion
               /\ r.tracks = s.tracks /\ r.order = s.order
               /\ r.contextVersion = s.contextVersion /\ r.contextIndex = s.contextIndex
               /\ r.shuffle = s.shuffle /\ r.nextEntrySeq = s.nextEntrySeq
               /\ SameItem(s, r)
<1>1. s.queueVersion \in Nat /\ s.contextVersion \in Nat /\ s.version \in Nat
    BY DEF Good, States
<1>2. Same(s) /\ s.version >= s.version
    BY <1>1 DEF SameItem
<1>3. Same(EndHold(s)) /\ EndHold(s).version = s.version + 1
    BY DEF EndHold, SameItem, FromTop, Holding, Good, States
<1>4. Same(ReleaseHold(s, time)) /\ ReleaseHold(s, time).version = s.version + 1
    <2> DEFINE e == EndHold(s)
               a == IF e.playback.anchorMs < time + HoldMarginMs
                    THEN time + ResumeDelayMs ELSE e.playback.anchorMs
               p == [e.playback EXCEPT !.anchorMs = a]
               r == ReleaseHold(s, time)
    <2>1. Good(e) /\ Same(e) /\ e.version = s.version + 1 /\ e.hold = NoHold
        BY <1>3, EndHoldGood
    <2> HIDE DEF e
    <2>2. r = [e EXCEPT !.playback = p]
        BY <2>1 DEF ReleaseHold, e, Good, States, Playbacks
    <2> HIDE DEF a
    <2>3. /\ p.trackID = e.playback.trackID /\ p.entryID = e.playback.entryID
          /\ p.durationMs = e.playback.durationMs
        BY <2>1 DEF Good, States, Playbacks
    <2> HIDE DEF p, r
    <2>4. QED
        BY <2>1, <2>2, <2>3 DEF SameItem, FromTop, Holding, r, Good, States
<1>5. Same(PostponeStart(s, time)) /\ PostponeStart(s, time).version = s.version + 1
    <2> DEFINE p == [s.playback EXCEPT !.anchorMs = time + HoldExtendMs, !.positionMs = 0]
               r == PostponeStart(s, time)
    <2>1. r = [s EXCEPT !.playback = p, !.version = s.version + 1]
        BY DEF PostponeStart, Good, States, Playbacks
    <2>2. /\ p.trackID = s.playback.trackID /\ p.entryID = s.playback.entryID
          /\ p.durationMs = s.playback.durationMs /\ p.positionMs = 0
        BY DEF Good, States, Playbacks
    <2> HIDE DEF p, r
    <2>3. QED
        BY <2>1, <2>2 DEF SameItem, FromTop, Holding, r, Good, States
<1>6. t \in {s, EndHold(s), ReleaseHold(s, time), PostponeStart(s, time)}
    BY DEF CheckHold
<1> HIDE DEF t
<1>7. Same(t) /\ t.version >= s.version /\ (t # s => t.version > s.version)
    <2>1. s.version + 1 > s.version /\ s.version + 1 >= s.version
        BY <1>1
    <2> HIDE DEF Same
    <2>2. QED
        BY <1>2, <1>3, <1>4, <1>5, <1>6, <2>1
<1>8. EntriesOk(t)
    BY <1>7 DEF EntriesOk, SameItem
<1>9. Versioned(s, t, cat)
    BY <1>1, <1>7, <1>8 DEF Versioned, SameItem, PlaysOn, SameLength, FromTop, Holding
<1>10. KeepsTrack(s, t)
    BY <1>7 DEF KeepsTrack, CurrentTrack, SameItem
<1>11. QED
    BY <1>7, <1>9, <1>10 DEF t
-----------------------------------------------------------------------------
(* Catching up in several goes *)

\* No known length is below d: of the current track, of any of the catalog.
Lasts(s, d) == s.playback.durationMs = 0 \/ s.playback.durationMs >= d
AllLast(cat, d) == \A id \in DOMAIN cat : cat[id] = 0 \/ cat[id] >= d

\* The state has a track that ends, but not before time e.
EndsFrom(s, e) == HasEnd(s.playback) => EndsAt(s.playback) >= e

LEMMA SameLengthLasts ==
    ASSUME NEW s, NEW t, NEW cat, SameLength(s, t, cat), NEW d \in Nat, Lasts(s, d),
           AllLast(cat, d)
    PROVE  Lasts(t, d)
BY DEF SameLength, Lasts, AllLast, DurationMs, Known

\* A track that follows at time e lasts for d, or has no known end.
LEMMA AdvanceAutoEnds ==
    ASSUME NEW s, Good(s), NEW e \in Nat, NEW cat, IsCatalog(cat), NEW d \in Nat,
           Lasts(s, d), AllLast(cat, d)
    PROVE  Lasts(AdvanceAuto(s, e, cat), d) /\ EndsFrom(AdvanceAuto(s, e, cat), e + d)
<1> DEFINE wrap == s.repeat = "all"
           taken == TakeNext(s, wrap, cat)
           r == AdvanceAuto(s, e, cat)
<1>1. Good(taken.st) /\ taken.st.playback = s.playback
    <2>1. wrap \in BOOLEAN
        OBVIOUS
    <2> HIDE DEF wrap
    <2>2. QED
        BY <2>1, TakeNextGood DEF TakesOnlyQueueAndPlace
<1>2. /\ SameLength(s, r, cat)
      /\ r.playback.playing => r.playback.positionMs = 0 /\ r.playback.anchorMs = e
    <2>1. CASE s.repeat = "one"
        <3> DEFINE p == [s.playback EXCEPT !.positionMs = 0, !.anchorMs = e]
        <3>1. r = [s EXCEPT !.playback = p]
            BY <2>1 DEF AdvanceAuto, Good, States, Playbacks
        <3>2. /\ p.trackID = s.playback.trackID /\ p.durationMs = s.playback.durationMs
              /\ p.positionMs = 0 /\ p.anchorMs = e
            BY DEF Good, States, Playbacks
        <3> HIDE DEF p, r
        <3>3. r.playback = p
            BY <3>1 DEF Good, States
        <3>4. QED
            BY <3>2, <3>3 DEF SameLength
    <2>2. CASE s.repeat # "one" /\ taken.item = NoItem
        <3>1. r = StopAtEnd(taken.st, e, cat)
            BY <2>2 DEF AdvanceAuto
        <3> HIDE DEF taken, r
        <3> DEFINE t == taken.st
        <3>2. /\ ~r.playback.playing
              /\ t.order = <<>> => /\ r.playback.trackID = t.playback.trackID
                                   /\ r.playback.durationMs = t.playback.durationMs
              /\ t.order # <<>> => r.playback.durationMs = DurationMs(cat, r.playback.trackID)
            BY <1>1, <3>1 DEF StopAtEnd, Good, States
        <3>3. QED
            BY <1>1, <3>2 DEF SameLength
    <2>3. CASE s.repeat # "one" /\ taken.item # NoItem
        <3>1. r = StartItem(taken.st, taken.item, e, cat)
            BY <2>3 DEF AdvanceAuto
        <3> HIDE DEF taken, r
        <3>2. /\ r.playback.trackID = taken.item.trackID
              /\ r.playback.durationMs = DurationMs(cat, taken.item.trackID)
              /\ r.playback.positionMs = 0 /\ r.playback.anchorMs = e
            BY <1>1, <3>1 DEF StartItem, Good, States
        <3>3. QED
            BY <3>2 DEF SameLength
    <2>4. QED
        BY <2>1, <2>2, <2>3
<1> HIDE DEF r
<1>3. Lasts(r, d)
    BY <1>2, SameLengthLasts
<1>4. EndsFrom(r, e + d)
    <2> SUFFICES ASSUME HasEnd(r.playback)
                 PROVE  EndsAt(r.playback) >= e + d
        BY DEF EndsFrom
    <2>1. r.playback.positionMs = 0 /\ r.playback.anchorMs = e
        BY <1>2 DEF HasEnd
    <2>2. r.playback.durationMs \in Nat /\ r.playback.durationMs >= d
        <3>1. Good(r)
            BY AdvanceAutoGood DEF r
        <3>2. QED
            BY <1>3, <3>1 DEF HasEnd, Lasts, Good, States, Playbacks
    <2>3. EndsAt(r.playback) = e + Max({0, r.playback.durationMs - 0})
        BY <2>1 DEF EndsAt
    <2>4. Max({0, r.playback.durationMs - 0}) = r.playback.durationMs
        BY <2>2, MaxOfTwo
    <2>5. QED
        BY <2>2, <2>3, <2>4
<1>5. QED
    BY <1>3, <1>4 DEF r

\* After k iterations, a track that is still overdue ended at k * d or later.
LEMMA IteratedEnds ==
    ASSUME NEW s, Good(s), NEW time \in Nat, NEW cat, IsCatalog(cat), NEW d \in Nat,
           Lasts(s, d), AllLast(cat, d), NEW n \in 0..MaxAdvanceSteps
    PROVE  LET t == Iterated(s, time, cat)[n]
           IN  Good(t) /\ Lasts(t, d) /\ (Overdue(t, time) => EndsFrom(t, n * d))
<1> DEFINE a == Iterated(s, time, cat)
           Fine(k) == Good(a[k]) /\ Lasts(a[k], d) /\ (Overdue(a[k], time) => EndsFrom(a[k], k * d))
           T == {k \in Nat : k <= MaxAdvanceSteps => Fine(k)}
<1>1. /\ a[0] = s
      /\ \A k \in 0..MaxAdvanceSteps - 1 : a[k + 1] = CatchUp(a[k], time, cat)
    BY Iteration
<1> HIDE DEF a
<1>2. 0 \in T
    <2>1. EndsAt(s.playback) >= 0
        BY EndsAtIsLater DEF Good, States
    <2>2. 0 * d = 0
        OBVIOUS
    <2>3. EndsFrom(s, 0 * d)
        BY <2>1, <2>2 DEF EndsFrom
    <2>4. QED
        BY <1>1, <2>3
<1>3. \A k \in T : k + 1 \in T
    <2> SUFFICES ASSUME NEW k \in T, k + 1 <= MaxAdvanceSteps
                 PROVE  Fine(k + 1)
        OBVIOUS
    <2>1. k \in 0..MaxAdvanceSteps - 1 /\ Fine(k)
        BY StepsAssumption
    <2>2. a[k + 1] = CatchUp(a[k], time, cat)
        BY <1>1, <2>1
    <2> DEFINE x == a[k]
               e == EndsAt(x.playback)
    <2>3. Good(x) /\ Lasts(x, d) /\ (Overdue(x, time) => EndsFrom(x, k * d))
        BY <2>1
    <2> HIDE DEF x
    <2>4. CASE Overdue(x, time)
        <3>1. e \in Nat
            BY <2>3, EndsAtIsLater DEF Good, States
        <3>2. e >= k * d
            BY <2>3, <2>4 DEF Overdue, EndsFrom
        <3> HIDE DEF e
        <3> DEFINE y == AdvanceAuto(x, e, cat)
        <3>3. Good(y) /\ Lasts(y, d) /\ EndsFrom(y, e + d)
            BY <2>3, <3>1, AdvanceAutoGood, AdvanceAutoEnds
        <3>4. a[k + 1] = y
            BY <2>2, <2>4 DEF CatchUp, x, e
        <3> HIDE DEF y
        <3>5. (k + 1) * d = k * d + d /\ k * d \in Nat
            OBVIOUS
        <3>6. e + d >= (k + 1) * d
            BY <3>1, <3>2, <3>5
        <3>7. EndsAt(y.playback) \in Nat
            BY <3>3, EndsAtIsLater DEF Good, States
        <3>8. EndsFrom(y, (k + 1) * d)
            BY <3>1, <3>3, <3>5, <3>6, <3>7 DEF EndsFrom
        <3>9. QED
            BY <3>3, <3>4, <3>8
    <2>5. CASE ~Overdue(x, time)
        BY <2>2, <2>3, <2>5 DEF CatchUp, x
    <2>6. QED
        BY <2>4, <2>5
<1>4. T \subseteq Nat
    OBVIOUS
<1> HIDE DEF T
<1>5. T = Nat
    BY <1>2, <1>3, <1>4, NatInduct
<1>6. QED
    BY <1>5, StepsAssumption DEF T, a

\* When that many of the shortest tracks outlast the clock, nothing is overdue
\* after catching up.
LEMMA CatchUpCompletes ==
    ASSUME NEW s, Good(s), NEW time \in Nat, NEW cat, IsCatalog(cat), NEW d \in Nat,
           Lasts(s, d), AllLast(cat, d), MaxAdvanceSteps * d > time
    PROVE  ~Overdue(Normalize(s, time, cat), time)
<1> DEFINE t == Normalize(s, time, cat)
<1>1. MaxAdvanceSteps \in 0..MaxAdvanceSteps /\ MaxAdvanceSteps * d \in Nat
    BY StepsAssumption
<1>2. Good(t) /\ (Overdue(t, time) => EndsFrom(t, MaxAdvanceSteps * d))
    BY <1>1, IteratedEnds DEF Normalize
<1> HIDE DEF t
<1>3. EndsAt(t.playback) \in Nat
    BY <1>2, EndsAtIsLater DEF Good, States
<1>4. ~Overdue(t, time)
    BY <1>1, <1>2, <1>3 DEF Overdue, EndsFrom
<1>5. QED
    BY <1>4 DEF t

\* Whoever catches up at a time and at a later one gets to the same state as
\* who only does the latter, if that gets there at all.
LEMMA CatchUpTwice ==
    ASSUME NEW s, Good(s), NEW time \in Nat, NEW later \in Nat, time <= later,
           NEW cat, IsCatalog(cat), ~Overdue(Normalize(s, later, cat), later)
    PROVE  Normalize(Normalize(s, time, cat), later, cat) = Normalize(s, later, cat)
<1> DEFINE M == MaxAdvanceSteps
           a == Iterated(s, time, cat)
           b == Iterated(s, later, cat)
           Same(k) == \E j \in 0..k : a[k] = b[j] /\ (j = k \/ ~Overdue(a[k], time))
           T == {k \in Nat : k <= M => Good(a[k]) /\ Same(k)}
<1>1. /\ a[0] = s
      /\ \A k \in 0..M - 1 : a[k + 1] = CatchUp(a[k], time, cat)
    BY Iteration
<1>2. /\ b[0] = s
      /\ \A k \in 0..M - 1 : b[k + 1] = CatchUp(b[k], later, cat)
    BY Iteration
<1>3. Normalize(s, time, cat) = a[M] /\ Normalize(s, later, cat) = b[M]
    BY DEF Normalize
<1>4. M \in Nat
    BY StepsAssumption
<1> HIDE DEF a, b, M
<1>5. 0 \in T
    BY <1>1, <1>2
<1>6. \A k \in T : k + 1 \in T
    <2> SUFFICES ASSUME NEW k \in T, k + 1 <= M
                 PROVE  Good(a[k + 1]) /\ Same(k + 1)
        OBVIOUS
    <2>1. k \in 0..M - 1 /\ k \in 0..M /\ Good(a[k]) /\ Same(k)
        BY <1>4
    <2>2. a[k + 1] = CatchUp(a[k], time, cat)
        BY <1>1, <2>1
    <2>3. Good(a[k + 1])
        BY <2>1, <2>2, CatchUpGood
    <2>4. PICK j \in 0..k : a[k] = b[j] /\ (j = k \/ ~Overdue(a[k], time))
        BY <2>1
    <2>5. CASE Overdue(a[k], time)
        <3>1. a[k] = b[k]
            BY <2>4, <2>5
        <3>2. Overdue(a[k], later)
            <4>1. EndsAt(a[k].playback) \in Nat
                BY <2>1, EndsAtIsLater DEF Good, States
            <4>2. QED
                BY <2>5, <4>1 DEF Overdue
        <3>3. b[k + 1] = CatchUp(b[k], later, cat)
            BY <1>2, <2>1
        <3>4. a[k + 1] = b[k + 1]
            BY <2>2, <2>5, <3>1, <3>2, <3>3 DEF CatchUp
        <3>5. k + 1 \in 0..k + 1
            OBVIOUS
        <3>6. QED
            BY <2>3, <3>4, <3>5
    <2>6. CASE ~Overdue(a[k], time)
        <3>1. a[k + 1] = a[k] /\ j \in 0..k + 1
            BY <2>2, <2>4, <2>6 DEF CatchUp
        <3>2. QED
            BY <2>3, <2>4, <2>6, <3>1
    <2>7. QED
        BY <2>5, <2>6
<1>7. T \subseteq Nat
    OBVIOUS
<1> HIDE DEF T
<1>8. T = Nat
    BY <1>5, <1>6, <1>7, NatInduct
<1>9. Same(M)
    BY <1>4, <1>8 DEF T
<1>10. PICK j \in 0..M : a[M] = b[j]
    BY <1>9
\* From there, the later run goes on as the run for the later time did.
<1> DEFINE c == Iterated(b[j], later, cat)
           U == {k \in Nat : k <= M => \/ j + k <= M /\ c[k] = b[j + k]
                                       \/ j + k > M /\ c[k] = b[M]}
<1>11. /\ c[0] = b[j]
       /\ \A k \in 0..M - 1 : c[k + 1] = CatchUp(c[k], later, cat)
    BY Iteration DEF M
<1>12. Normalize(b[j], later, cat) = c[M]
    BY DEF Normalize, M
<1> HIDE DEF c
<1>13. 0 \in U
    BY <1>4, <1>11
<1>14. \A k \in U : k + 1 \in U
    <2> SUFFICES ASSUME NEW k \in U, k + 1 <= M
                 PROVE  \/ j + (k + 1) <= M /\ c[k + 1] = b[j + (k + 1)]
                        \/ j + (k + 1) > M /\ c[k + 1] = b[M]
        OBVIOUS
    <2>1. /\ k \in 0..M - 1 /\ j \in Nat /\ k \in Nat
          /\ \/ j + k <= M /\ c[k] = b[j + k]
             \/ j + k > M /\ c[k] = b[M]
        BY <1>4
    <2>2. c[k + 1] = CatchUp(c[k], later, cat)
        BY <1>11, <2>1
    <2>3. CASE j + k < M
        <3>1. j + k \in 0..M - 1 /\ (j + k) + 1 = j + (k + 1) /\ j + (k + 1) <= M
            BY <1>4, <2>1, <2>3
        <3>2. c[k] = b[j + k]
            BY <1>4, <2>1, <2>3
        <3>3. b[(j + k) + 1] = CatchUp(b[j + k], later, cat)
            BY <1>2, <3>1
        <3>4. QED
            BY <2>2, <3>1, <3>2, <3>3
    <2>4. CASE j + k >= M
        <3>1. c[k] = b[M]
            BY <1>4, <2>1, <2>4
        <3>2. ~Overdue(b[M], later)
            BY <1>3
        <3>3. c[k + 1] = b[M]
            BY <2>2, <3>1, <3>2 DEF CatchUp
        <3>4. j + (k + 1) > M
            BY <1>4, <2>1, <2>4
        <3>5. QED
            BY <3>3, <3>4
    <2>5. QED
        BY <1>4, <2>1, <2>3, <2>4
<1>15. U \subseteq Nat
    OBVIOUS
<1> HIDE DEF U
<1>16. U = Nat
    BY <1>13, <1>14, <1>15, NatInduct
<1>17. \/ j + M <= M /\ c[M] = b[j + M]
       \/ j + M > M /\ c[M] = b[M]
    BY <1>4, <1>16 DEF U
<1>18. j + M <= M => j + M = M
    BY <1>4
<1>19. c[M] = b[M]
    BY <1>17, <1>18
<1>20. QED
    BY <1>3, <1>10, <1>12, <1>19

-----------------------------------------------------------------------------
(* The actor: its invariant *)

\* The state and the stored state are well formed.
GoodStates == TypeOK /\ OrderOk(st) /\ OrderOk(saved)

\* The clock n passes the timer t by no more than the slack.
Follows(n, t) == n <= t + TimerSlack

\* A hold guards the current track, and the timer fires before the wait ends
\* and a margin before the start.
Guards(t, s) ==
    Holding(s) =>
        /\ ~HoldIsStale(s)
        /\ t <= s.hold.untilMs
        /\ t <= s.playback.anchorMs - HoldMarginMs

ClockFollowsTimer == Follows(now, timer)
TimerGuardsHold == Guards(timer, st)

IInv == GoodStates /\ ClockFollowsTimer /\ TimerGuardsHold

-----------------------------------------------------------------------------
(* What the type invariant says of the variables handlers use *)

LEMMA GoodState ==
    ASSUME GoodStates
    PROVE  /\ Good(st) /\ Good(saved) /\ now \in Nat /\ timer \in Nat
           /\ IsCatalog(catalog)
BY ParametersAssumption DEF GoodStates, TypeOK, Good

LEMMA VisibleIsState ==
    ASSUME NEW s \in States
    PROVE  Visible(s) \in States
BY DEF Visible, States

LEMMA NewStateGood == Good(NewState)
<1>1. NewState.queue \in Seq(Entries) /\ NewState.tracks \in Seq(TrackIds)
      /\ NewState.order \in Seq(Nat)
    BY EmptySeq DEF NewState
<1>2. NewState \in States
    BY <1>1 DEF NewState, States, Playbacks, Holds, RepeatModes, NoEntry, NoHold
<1>3. OrderOk(NewState)
    BY EmptySeq DEF NewState, OrderOk
<1>4. QED
    BY <1>2, <1>3 DEF Good

LEMMA InitGood == Init => IInv
<1> SUFFICES ASSUME Init PROVE IInv
    OBVIOUS
<1>1. NewState \in States /\ OrderOk(NewState)
    BY NewStateGood DEF Good
<1>2. TypeOK
    <2>1. now \in Nat /\ timer \in Nat
        BY ParametersAssumption DEF Init, Never
    <2>2. Absent \in [presence : {"absent", "connected", "gone"}, hasStatus : BOOLEAN,
                      status : Statuses \cup {NoStatus}]
        BY DEF Absent
    <2>3. QED
        BY <1>1, <2>1, <2>2 DEF Init, TypeOK, NothingTold
<1>3. ClockFollowsTimer
    BY ParametersAssumption, SlackAssumption DEF Init, ClockFollowsTimer, Follows, Never
<1>4. TimerGuardsHold
    BY DEF Init, TimerGuardsHold, Guards, Holding, NewState
<1>5. QED
    BY <1>1, <1>2, <1>3, <1>4 DEF IInv, GoodStates, Init

-----------------------------------------------------------------------------
(* The timer *)

\* While listeners are being waited for, the current track has not begun, so
\* it cannot have ended either.
LEMMA HeldIsNotOverdue ==
    ASSUME NEW n \in Nat, NEW t \in Nat, NEW s, Good(s), Follows(n, t), Guards(t, s),
           Holding(s)
    PROVE  n < s.playback.anchorMs /\ ~Overdue(s, n)
<1>1. s.playback \in Playbacks /\ s.playback.anchorMs \in Nat
    BY DEF Good, States, Playbacks
<1>2. n < s.playback.anchorMs
    BY <1>1, SlackAssumption, TimingAssumption DEF Follows, Guards
<1>3. EndsAt(s.playback) \in Nat /\ EndsAt(s.playback) >= s.playback.anchorMs
    BY <1>1, EndsAtIsLater
<1>4. QED
    BY <1>1, <1>2, <1>3 DEF Overdue

\* The part of a state that the hold and its timer depend on.
SameHeld(s, t) ==
    /\ t.hold = s.hold
    /\ t.playback.playing = s.playback.playing
    /\ t.playback.trackID = s.playback.trackID
    /\ t.playback.entryID = s.playback.entryID
    /\ t.playback.anchorMs = s.playback.anchorMs

\* What Reschedule sets the timer to at time n in state s.
Rearmed(n, s) == Max({n + 1, Min({Never} \cup Deadlines(s))})

LEMMA HoldCheckBounds ==
    ASSUME NEW s, Good(s)
    PROVE  /\ NextHoldCheck(s) \in Int
           /\ NextHoldCheck(s) <= s.hold.untilMs
           /\ NextHoldCheck(s) <= s.playback.anchorMs - HoldMarginMs
           /\ \/ NextHoldCheck(s) = s.hold.untilMs
              \/ NextHoldCheck(s) = s.playback.anchorMs - HoldMarginMs
<1>1. /\ s.hold.untilMs \in Nat /\ s.playback.anchorMs \in Nat
      /\ s.playback.anchorMs - HoldMarginMs \in Int
    BY TimingAssumption DEF Good, States, Holds, Playbacks
<1>2. QED
    BY <1>1, MinOfTwo DEF NextHoldCheck

\* Re-arming sets the timer to the first deadline, or to the next millisecond.
LEMMA RearmedBounds ==
    ASSUME NEW n \in Nat, NEW s, Good(s), Holding(s) => NextHoldCheck(s) >= 0
    PROVE  /\ Rearmed(n, s) \in Nat /\ Rearmed(n, s) > n
           /\ Holding(s) => \/ Rearmed(n, s) <= NextHoldCheck(s)
                            \/ Rearmed(n, s) = n + 1
<1> DEFINE D == {Never} \cup Deadlines(s)
           h == NextHoldCheck(s)
           least == Min(D)
           r == Rearmed(n, s)
<1>1. s.playback \in Playbacks
    BY DEF Good, States
<1>2. Never \in Nat
    BY ParametersAssumption DEF Never
<1>3. Holding(s) => h \in Nat
    BY HoldCheckBounds
<1>4. D \subseteq Nat
    BY <1>1, <1>2, <1>3, EndsAtIsLater DEF Deadlines
<1>5. Holding(s) => h \in D
    BY DEF Deadlines
<1> HIDE DEF D, h
<1>6. D # {}
    BY DEF D
<1>7. least \in D /\ \A d \in D : least <= d
    BY <1>4, <1>6, MinNat
<1>8. r = Max({n + 1, least})
    BY DEF Rearmed, D
<1> HIDE DEF least, r
<1>9. least \in Nat
    BY <1>4, <1>7
<1>10. r = IF n + 1 >= least THEN n + 1 ELSE least
    BY <1>8, <1>9, MaxOfTwo
<1>11. r \in Nat /\ r > n
    BY <1>9, <1>10
<1>12. Holding(s) => r <= h \/ r = n + 1
    BY <1>3, <1>5, <1>7, <1>9, <1>10
<1>13. QED
    BY <1>11, <1>12 DEF h, r

\* After the hold was evaluated, re-arming the timer guards what is left of it.
LEMMA EvaluatedHoldIsGuarded ==
    ASSUME NEW n \in Nat, NEW s, Good(s), Standing(s, n)
    PROVE  /\ Rearmed(n, s) \in Nat
           /\ Follows(n, Rearmed(n, s))
           /\ Guards(Rearmed(n, s), s)
<1> DEFINE u == s.hold.untilMs
           m == s.playback.anchorMs - HoldMarginMs
           h == NextHoldCheck(s)
           r == Rearmed(n, s)
<1>1. u \in Nat /\ m \in Int /\ s.playback.anchorMs \in Nat /\ HoldMarginMs \in Nat
    BY TimingAssumption DEF Good, States, Holds, Playbacks
<1>2. h \in Int /\ h <= u /\ h <= m /\ (h = u \/ h = m)
    BY HoldCheckBounds
<1>3. Holding(s) => n < u /\ n < m /\ ~HoldIsStale(s)
    BY <1>1 DEF Standing
<1>4. Holding(s) => h > n
    BY <1>1, <1>2, <1>3
<1>5. r \in Nat /\ r > n /\ (Holding(s) => r <= h \/ r = n + 1)
    BY <1>2, <1>4, RearmedBounds
<1> HIDE DEF r, h
<1>6. Holding(s) => r <= u /\ r <= m
    BY <1>1, <1>2, <1>4, <1>5
<1>7. Follows(n, r)
    BY <1>5, SlackAssumption DEF Follows
<1>8. QED
    BY <1>3, <1>5, <1>6, <1>7 DEF Guards, r

\* The same for an event, which may leave the hold alone, and during which the
\* timer t keeps its time if it is due already.
LEMMA EventHoldIsGuarded ==
    ASSUME NEW n \in Nat, NEW t \in Nat, NEW s, Follows(n, t), Guards(t, s),
           NEW s2, Good(s2), Standing(s2, n) \/ SameHeld(s, s2),
           NEW t2,
           \/ t <= n /\ t2 = t
           \/ ~(t <= n /\ \E due \in Deadlines(s2) : due <= n) /\ t2 = Rearmed(n, s2)
    PROVE  t2 \in Nat /\ Follows(n, t2) /\ Guards(t2, s2)
<1> DEFINE u == s2.hold.untilMs
           m == s2.playback.anchorMs - HoldMarginMs
           h == NextHoldCheck(s2)
<1>1. u \in Nat /\ m \in Int /\ s2.playback.anchorMs \in Nat /\ HoldMarginMs \in Nat
    BY TimingAssumption DEF Good, States, Holds, Playbacks
<1>2. h \in Int /\ h <= u /\ h <= m /\ (h = u \/ h = m)
    BY HoldCheckBounds
<1>3. CASE Standing(s2, n) /\ t2 = Rearmed(n, s2)
    BY <1>3, EvaluatedHoldIsGuarded
<1>4. CASE Standing(s2, n) /\ t <= n /\ t2 = t
    <2>1. Holding(s2) => n < u /\ n < m /\ ~HoldIsStale(s2)
        BY <1>1, <1>4 DEF Standing
    <2>2. Holding(s2) => t2 <= u /\ t2 <= m
        BY <1>1, <1>4, <2>1
    <2>3. QED
        BY <1>4, <2>1, <2>2 DEF Guards
<1>5. CASE SameHeld(s, s2)
    <2>1. Holding(s2) => ~HoldIsStale(s2) /\ t <= u /\ t <= m
        BY <1>5 DEF SameHeld, Guards, Holding, HoldIsStale
    <2>2. CASE t2 = t
        BY <2>1, <2>2 DEF Guards
    <2>3. CASE /\ ~(t <= n /\ \E due \in Deadlines(s2) : due <= n)
               /\ t2 = Rearmed(n, s2)
        <3>1. Holding(s2) => h >= t
            BY <1>1, <1>2, <2>1
        <3>2. Holding(s2) => h \in Deadlines(s2)
            BY DEF Deadlines
        <3> HIDE DEF h
        <3>3. Holding(s2) => h > n
            BY <1>2, <2>3, <3>1, <3>2
        <3>4. Holding(s2) => h >= 0
            BY <1>2, <3>3
        <3>5. t2 \in Nat /\ t2 > n /\ (Holding(s2) => t2 <= h \/ t2 = n + 1)
            BY <2>3, <3>4, RearmedBounds DEF h
        <3>6. Holding(s2) => t2 <= u /\ t2 <= m
            BY <1>1, <1>2, <3>3, <3>5
        <3>7. Follows(n, t2)
            BY <3>5, SlackAssumption DEF Follows
        <3>8. QED
            BY <2>1, <3>5, <3>6, <3>7 DEF Guards
    <2>4. QED
        BY <2>2, <2>3
<1>6. QED
    BY <1>3, <1>4, <1>5

-----------------------------------------------------------------------------
(* Handlers *)

\* Everything but the clock, the timer and the room state has its type.
RestOk ==
    /\ member \in [Clients -> [presence : {"absent", "connected", "gone"},
                               hasStatus : BOOLEAN, status : Statuses \cup {NoStatus}]]
    /\ told \in [Clients -> States]
    /\ reports \subseteq [client : Clients, trackID : TrackIds, entryID : Nat, anchorMs : Nat]
    /\ dirty \in BOOLEAN /\ libraryPending \in BOOLEAN
    /\ catalog \in CatalogVersions
    /\ Good(saved)

LEMMA RestIsOk ==
    ASSUME IInv
    PROVE  RestOk
BY DEF IInv, GoodStates, TypeOK, RestOk, Good

\* A handler that keeps types and either evaluates the hold or leaves it alone
\* preserves the invariant once the timer is re-armed.
LEMMA HandledEvent ==
    ASSUME IInv, RestOk', now' = now, Good(st'),
           Standing(st', now) \/ SameHeld(st, st'),
           RescheduleAfterEvent
    PROVE  IInv'
<1>1. /\ now \in Nat /\ timer \in Nat /\ Good(st)
      /\ Follows(now, timer) /\ Guards(timer, st)
    BY GoodState DEF IInv, ClockFollowsTimer, TimerGuardsHold
<1>2. \/ timer <= now /\ timer' = timer
      \/ /\ ~(timer <= now /\ \E due \in Deadlines(st') : due <= now)
         /\ timer' = Rearmed(now, st')
    BY DEF RescheduleAfterEvent, Reschedule, Rearmed
<1>3. timer' \in Nat /\ Follows(now, timer') /\ Guards(timer', st')
    BY <1>1, <1>2, EventHoldIsGuarded
<1>4. GoodStates'
    BY <1>1, <1>3 DEF GoodStates, TypeOK, RestOk, Good
<1>5. QED
    BY <1>3, <1>4 DEF IInv, ClockFollowsTimer, TimerGuardsHold

\* Evaluating the hold and re-arming the timer at the end preserves it, too.
LEMMA HandledTick ==
    ASSUME RestOk', now' \in Nat, Good(st'), Standing(st', now'), Reschedule
    PROVE  IInv'
<1>1. timer' = Rearmed(now', st')
    BY DEF Reschedule, Rearmed
<1>2. timer' \in Nat /\ Follows(now', timer') /\ Guards(timer', st')
    BY <1>1, EvaluatedHoldIsGuarded
<1>3. GoodStates'
    BY <1>2 DEF GoodStates, TypeOK, RestOk, Good
<1>4. QED
    BY <1>2, <1>3 DEF IInv, ClockFollowsTimer, TimerGuardsHold

LEMMA PublishOk ==
    ASSUME RestOk, NEW s, Good(s), NEW changed \in BOOLEAN, Publish(s, changed)
    PROVE  st' = s /\ dirty' \in BOOLEAN /\ told' \in [Clients -> States]
<1>1. Visible(s) \in States /\ NothingTold \in States
    BY VisibleIsState, NewStateGood DEF Good, NothingTold
<1>2. \A c \in Clients : told'[c] \in {NothingTold, Visible(s), told[c]}
    BY DEF Publish
<1>3. \A c \in Clients : told'[c] \in States
    BY <1>1, <1>2 DEF RestOk
<1>4. told' = [c \in Clients |-> told'[c]]
    BY DEF Publish
<1>5. told' \in [Clients -> States]
    BY <1>3, <1>4
<1>6. QED
    BY <1>5 DEF Publish, RestOk

LEMMA CheckHoldAndPublishOk ==
    ASSUME RestOk, now \in Nat, NEW s, Good(s), NEW changed \in BOOLEAN,
           CheckHoldAndPublish(s, changed)
    PROVE  /\ Good(st') /\ Standing(st', now)
           /\ dirty' \in BOOLEAN /\ told' \in [Clients -> States]
<1> DEFINE ready == AllReady(member', s)
           held == CheckHold(s, now, ready)
           change == changed \/ held # s
<1>1. ready \in BOOLEAN /\ change \in BOOLEAN
    BY DEF AllReady
<1>2. Publish(held, change)
    BY DEF CheckHoldAndPublish
<1> HIDE DEF ready, change
<1>3. Good(held) /\ Standing(held, now)
    BY <1>1, CheckHoldGood
<1> HIDE DEF held
<1>4. QED
    BY <1>1, <1>2, <1>3, PublishOk

LEMMA SettledGood ==
    ASSUME IInv
    PROVE  Good(Settled) /\ (~Overdue(st, now) => Settled = st)
BY GoodState, SettleGood DEF IInv, Settled, Settle

\* Whatever the command, handling its outcome preserves the invariant.
LEMMA HandleOk ==
    ASSUME IInv, NEW outcome, Sound(Settled, outcome), Handle(outcome)
    PROVE  /\ now' = now /\ Good(st')
           /\ Standing(st', now) \/ SameHeld(st, st')
           /\ dirty' \in BOOLEAN /\ told' \in [Clients -> States]
           /\ member' = member /\ saved' = saved
           /\ catalog' = catalog /\ libraryPending' = libraryPending
<1> DEFINE applied == Commit(Settled, outcome)
           changed == Overdue(st, now) \/ outcome.changed # {}
<1>1. /\ now \in Nat /\ RestOk /\ Good(st)
      /\ Good(Settled) /\ (~Overdue(st, now) => Settled = st)
    BY GoodState, RestIsOk, SettledGood DEF IInv
<1>2. /\ Good(applied) /\ applied.hold = outcome.st.hold
      /\ applied.playback = outcome.st.playback
    BY <1>1, CommitGood
<1>3. /\ now' = now /\ member' = member /\ saved' = saved
      /\ catalog' = catalog /\ libraryPending' = libraryPending
    BY DEF Handle
<1>4. CASE changed
    <2>1. CheckHoldAndPublish(applied, TRUE)
        BY <1>4 DEF Handle
    <2> HIDE DEF applied
    <2>2. QED
        BY <1>1, <1>2, <1>3, <2>1, CheckHoldAndPublishOk
<1>5. CASE ~changed
    <2>1. Publish(applied, FALSE)
        BY <1>5 DEF Handle
    <2>2. applied.hold = st.hold /\ applied.playback = st.playback
        BY <1>1, <1>2, <1>5 DEF Sound
    <2> HIDE DEF applied
    <2>3. st' = applied /\ dirty' \in BOOLEAN /\ told' \in [Clients -> States]
        BY <1>1, <1>2, <2>1, PublishOk
    <2>4. SameHeld(st, st')
        BY <2>2, <2>3 DEF SameHeld
    <2>5. QED
        BY <1>2, <1>3, <2>3, <2>4
<1>6. QED
    BY <1>4, <1>5

\* The outcome of a command is what the engine guarantees for the settled state.
Allowed(outcome) ==
    /\ Sound(Settled, outcome)
    /\ EntriesOk(Settled) => Proper(Settled, outcome, catalog)

Commanded(c) == \E outcome : Allowed(outcome) /\ Command(c, outcome)

LEMMA CommandPreserves ==
    ASSUME IInv, NEW c, Commanded(c), RescheduleAfterEvent
    PROVE  IInv'
<1> PICK outcome : Allowed(outcome) /\ Command(c, outcome)
    BY DEF Commanded
<1>1. Sound(Settled, outcome) /\ Handle(outcome) /\ reports' = reports
    BY DEF Allowed, Command
<1>2. RestOk
    BY RestIsOk
<1>3. /\ now' = now /\ Good(st')
      /\ Standing(st', now) \/ SameHeld(st, st')
      /\ dirty' \in BOOLEAN /\ told' \in [Clients -> States]
      /\ member' = member /\ saved' = saved
      /\ catalog' = catalog /\ libraryPending' = libraryPending
    BY <1>1, HandleOk
<1>4. RestOk'
    BY <1>1, <1>2, <1>3 DEF RestOk
<1>5. QED
    BY <1>3, <1>4, HandledEvent

-----------------------------------------------------------------------------
(* One lemma per kind of step *)

LEMMA TransportCommanded ==
    ASSUME IInv, NEW c,
           \/ PlayCommand(c) \/ PauseCommand(c) \/ SeekCommand(c)
           \/ NextCommand(c) \/ PrevCommand(c)
    PROVE  Commanded(c)
<1>1. now \in Nat /\ IsCatalog(catalog) /\ Good(Settled) /\ Positions \subseteq Int
    BY GoodState, SettledGood, ParametersAssumption DEF IInv
<1>2. CASE PlayCommand(c)
    <2>1. PICK pos \in Positions \cup {NoValue} : Command(c, Play(Settled, pos, now, catalog))
        BY <1>2 DEF PlayCommand
    <2>2. Allowed(Play(Settled, pos, now, catalog))
        BY <1>1, PlaySound, PlayProper DEF Allowed
    <2>3. QED
        BY <2>1, <2>2 DEF Commanded
<1>3. CASE PauseCommand(c)
    <2>1. PICK pos \in Positions \cup {NoValue} : Command(c, Pause(Settled, pos, now))
        BY <1>3 DEF PauseCommand
    <2>2. Allowed(Pause(Settled, pos, now))
        BY <1>1, PauseSound, PauseProper DEF Allowed
    <2>3. QED
        BY <2>1, <2>2 DEF Commanded
<1>4. CASE SeekCommand(c)
    <2>1. PICK pos \in Positions : Command(c, Seek(Settled, pos, now))
        BY <1>4 DEF SeekCommand
    <2>2. Allowed(Seek(Settled, pos, now))
        BY <1>1, SeekSound, SeekProper DEF Allowed
    <2>3. QED
        BY <2>1, <2>2 DEF Commanded
<1>5. CASE NextCommand(c)
    BY <1>1, <1>5, SkipNextSound, SkipNextProper DEF Commanded, Allowed, NextCommand
<1>6. CASE PrevCommand(c)
    BY <1>1, <1>6, SkipPrevSound, SkipPrevProper DEF Commanded, Allowed, PrevCommand
<1>7. QED
    BY <1>2, <1>3, <1>4, <1>5, <1>6

LEMMA ContextCommanded ==
    ASSUME IInv, NEW c,
           PlayContextCommand(c) \/ JumpCommand(c) \/ ShuffleCommand(c)
    PROVE  Commanded(c)
<1>1. /\ now \in Nat /\ IsCatalog(catalog) /\ Good(Settled)
      /\ ContextRequests \subseteq Seq(TrackIds)
    BY GoodState, SettledGood, ParametersAssumption DEF IInv
<1>2. CASE PlayContextCommand(c)
    <2>1. PICK tracks \in ContextRequests :
              \E first \in 0..Len(tracks) \cup {NoValue} :
                  \E order \in Orders(Len(tracks), IF first = NoValue THEN 0 ELSE first,
                                      Settled.shuffle) :
                      Command(c, PlayContext(Settled, tracks, first, order, now, catalog))
        BY <1>2 DEF PlayContextCommand
    <2>2. PICK first \in 0..Len(tracks) \cup {NoValue} :
              \E order \in Orders(Len(tracks), IF first = NoValue THEN 0 ELSE first,
                                  Settled.shuffle) :
                  Command(c, PlayContext(Settled, tracks, first, order, now, catalog))
        BY <2>1
    <2>3. PICK order \in Orders(Len(tracks), IF first = NoValue THEN 0 ELSE first,
                                Settled.shuffle) :
              Command(c, PlayContext(Settled, tracks, first, order, now, catalog))
        BY <2>2
    <2>4. tracks \in Seq(TrackIds)
        BY <1>1
    <2>5. Allowed(PlayContext(Settled, tracks, first, order, now, catalog))
        BY <1>1, <2>4, PlayContextSound, PlayContextProper DEF Allowed
    <2>6. QED
        BY <2>3, <2>5 DEF Commanded
<1>3. CASE JumpCommand(c)
    <2>1. PICK i \in 0..Len(Settled.order) : Command(c, JumpTo(Settled, i, now, catalog))
        BY <1>3 DEF JumpCommand
    <2>2. Allowed(JumpTo(Settled, i, now, catalog))
        BY <1>1, JumpToSound, JumpToProper DEF Allowed
    <2>3. QED
        BY <2>1, <2>2 DEF Commanded
<1>4. CASE ShuffleCommand(c)
    <2>1. PICK on \in BOOLEAN :
              \E order \in Orders(Len(Settled.tracks), CurrentTrack(Settled), on) :
                  Command(c, SetShuffle(Settled, on, order))
        BY <1>4 DEF ShuffleCommand
    <2>2. PICK order \in Orders(Len(Settled.tracks), CurrentTrack(Settled), on) :
              Command(c, SetShuffle(Settled, on, order))
        BY <2>1
    <2>3. Allowed(SetShuffle(Settled, on, order))
        BY <1>1, SetShuffleSound, SetShuffleProper DEF Allowed
    <2>4. QED
        BY <2>2, <2>3 DEF Commanded
<1>5. QED
    BY <1>2, <1>3, <1>4

LEMMA QueueCommanded ==
    ASSUME IInv, NEW c,
           \/ PlayEntryCommand(c) \/ QueueAddCommand(c) \/ QueueRemoveCommand(c)
           \/ QueueMoveCommand(c) \/ QueueClearCommand(c)
    PROVE  Commanded(c)
<1>1. /\ now \in Nat /\ IsCatalog(catalog) /\ Good(Settled)
      /\ AddRequests \subseteq Seq(TrackIds) /\ Len(Settled.queue) \in Nat
    BY GoodState, SettledGood, ParametersAssumption, LenProperties DEF IInv, Good, States
<1>2. CASE PlayEntryCommand(c)
    <2>1. PICK id \in 1..Settled.nextEntrySeq :
              Command(c, PlayEntry(Settled, id, now, catalog))
        BY <1>2 DEF PlayEntryCommand
    <2>2. Allowed(PlayEntry(Settled, id, now, catalog))
        BY <1>1, PlayEntrySound, PlayEntryProper DEF Allowed
    <2>3. QED
        BY <2>1, <2>2 DEF Commanded
<1>3. CASE QueueAddCommand(c)
    <2>1. PICK ids \in AddRequests, atFront \in BOOLEAN :
              Command(c, QueueAdd(Settled, ids, atFront, catalog))
        BY <1>3 DEF QueueAddCommand
    <2>2. ids \in Seq(TrackIds)
        BY <1>1
    <2>3. Allowed(QueueAdd(Settled, ids, atFront, catalog))
        BY <1>1, <2>2, QueueAddSound, QueueAddProper DEF Allowed
    <2>4. QED
        BY <2>1, <2>3 DEF Commanded
<1>4. CASE QueueRemoveCommand(c)
    <2>1. PICK id \in 1..Settled.nextEntrySeq : Command(c, QueueRemove(Settled, id))
        BY <1>4 DEF QueueRemoveCommand
    <2>2. Allowed(QueueRemove(Settled, id))
        BY <1>1, QueueRemoveSound, QueueRemoveProper DEF Allowed
    <2>3. QED
        BY <2>1, <2>2 DEF Commanded
<1>5. CASE QueueMoveCommand(c)
    <2>1. PICK id \in 1..Settled.nextEntrySeq, to \in 0..(Len(Settled.queue) + 1) :
              Command(c, QueueMove(Settled, id, to))
        BY <1>5 DEF QueueMoveCommand
    <2>2. to \in Int
        BY <1>1
    <2>3. Allowed(QueueMove(Settled, id, to))
        BY <1>1, <2>2, QueueMoveSound, QueueMoveProper DEF Allowed
    <2>4. QED
        BY <2>1, <2>3 DEF Commanded
<1>6. CASE QueueClearCommand(c)
    BY <1>1, <1>6, QueueClearSound, QueueClearProper DEF Commanded, Allowed, QueueClearCommand
<1>7. QED
    BY <1>2, <1>3, <1>4, <1>5, <1>6

LEMMA SettingsCommanded ==
    ASSUME IInv, NEW c, RepeatCommand(c) \/ WaitForAllCommand(c)
    PROVE  Commanded(c)
<1>1. Good(Settled)
    BY SettledGood
<1>2. CASE RepeatCommand(c)
    <2>1. PICK mode \in RepeatModes : Command(c, SetRepeat(Settled, mode))
        BY <1>2 DEF RepeatCommand
    <2>2. QED
        BY <1>1, <2>1, SetRepeatSound, SetRepeatProper DEF Commanded, Allowed
<1>3. CASE WaitForAllCommand(c)
    <2>1. PICK on \in BOOLEAN : Command(c, SetWaitForAll(Settled, on))
        BY <1>3 DEF WaitForAllCommand
    <2>2. QED
        BY <1>1, <2>1, SetWaitForAllSound, SetWaitForAllProper DEF Commanded, Allowed
<1>4. QED
    BY <1>2, <1>3

LEMMA EndedPreserves ==
    ASSUME IInv, NEW r \in reports, EndedCommand(r), RescheduleAfterEvent
    PROVE  IInv'
<1>1. /\ now \in Nat /\ IsCatalog(catalog) /\ Good(Settled) /\ RestOk
    BY GoodState, SettledGood, RestIsOk DEF IInv
<1> DEFINE outcome == Ended(Settled, r.trackID, r.entryID, now, catalog)
<1>2. Sound(Settled, outcome)
    BY <1>1, EndedSound
<1>3. Handle(outcome) /\ reports' \subseteq reports
    BY DEF EndedCommand
<1> HIDE DEF outcome
<1>4. /\ now' = now /\ Good(st')
      /\ Standing(st', now) \/ SameHeld(st, st')
      /\ dirty' \in BOOLEAN /\ told' \in [Clients -> States]
      /\ member' = member /\ saved' = saved
      /\ catalog' = catalog /\ libraryPending' = libraryPending
    BY <1>2, <1>3, HandleOk
<1>5. RestOk'
    BY <1>1, <1>3, <1>4 DEF RestOk
<1>6. QED
    BY <1>4, <1>5, HandledEvent

LEMMA SameHeldSame == \A s : SameHeld(s, s)
BY DEF SameHeld

\* Catching up never touches a hold: what is held has not begun.
LEMMA SettledHold ==
    ASSUME IInv
    PROVE  Overdue(st, now) => ~Holding(st) /\ ~Holding(Settled)
<1>1. /\ now \in Nat /\ timer \in Nat /\ Good(st) /\ IsCatalog(catalog)
      /\ Follows(now, timer) /\ Guards(timer, st)
    BY GoodState DEF IInv, ClockFollowsTimer, TimerGuardsHold
<1>2. Overdue(st, now) => ~Holding(st)
    BY <1>1, HeldIsNotOverdue
<1>3. Settled.hold = st.hold
    BY <1>1, SettleGood DEF Settled
<1>4. QED
    BY <1>2, <1>3 DEF Holding

LEMMA JoinPreserves ==
    ASSUME IInv, NEW c \in Clients, Join(c), RescheduleAfterEvent
    PROVE  IInv'
<1>1. RestOk /\ Good(st) /\ Good(Settled) /\ Visible(st) \in States
    BY RestIsOk, GoodState, SettledGood, VisibleIsState DEF IInv, Good
<1>2. /\ now' = now /\ reports' = reports /\ saved' = saved /\ catalog' = catalog
      /\ libraryPending' = libraryPending
    BY DEF Join
<1>3. member' = [member EXCEPT ![c].presence = "connected", ![c].hasStatus = FALSE]
    BY DEF Join
<1>4. member' \in [Clients -> [presence : {"absent", "connected", "gone"},
                               hasStatus : BOOLEAN, status : Statuses \cup {NoStatus}]]
    BY <1>1, <1>3 DEF RestOk
<1>5. CASE Overdue(st, now)
    <2>1. Publish(Settled, TRUE)
        BY <1>5 DEF Join
    <2>2. st' = Settled /\ dirty' \in BOOLEAN /\ told' \in [Clients -> States]
        BY <1>1, <2>1, PublishOk
    <2>3. Standing(st', now)
        BY <1>5, <2>2, SettledHold DEF Standing
    <2>4. RestOk'
        BY <1>1, <1>2, <1>4, <2>2 DEF RestOk
    <2>5. QED
        BY <1>1, <1>2, <2>2, <2>3, <2>4, HandledEvent
<1>6. CASE ~Overdue(st, now)
    <2>1. told' = [told EXCEPT ![c] = Visible(st)] /\ st' = st /\ dirty' = dirty
        BY <1>6 DEF Join
    <2>2. told' \in [Clients -> States]
        BY <1>1, <2>1 DEF RestOk
    <2>3. RestOk'
        BY <1>1, <1>2, <1>4, <2>1, <2>2 DEF RestOk
    <2>4. QED
        BY <1>1, <1>2, <2>1, <2>3, SameHeldSame, HandledEvent
<1>7. QED
    BY <1>5, <1>6

LEMMA LeavePreserves ==
    ASSUME IInv, NEW c \in Clients, Leave(c), RescheduleAfterEvent
    PROVE  IInv'
<1>1. RestOk /\ Good(st) /\ now \in Nat
    BY RestIsOk, GoodState DEF IInv
<1>2. /\ now' = now /\ reports' = reports /\ saved' = saved /\ catalog' = catalog
      /\ libraryPending' = libraryPending /\ CheckHoldAndPublish(st, FALSE)
    BY DEF Leave
<1>3. member' \in [Clients -> [presence : {"absent", "connected", "gone"},
                               hasStatus : BOOLEAN, status : Statuses \cup {NoStatus}]]
    BY <1>1 DEF Leave, RestOk
<1>4. /\ Good(st') /\ Standing(st', now)
      /\ dirty' \in BOOLEAN /\ told' \in [Clients -> States]
    BY <1>1, <1>2, CheckHoldAndPublishOk
<1>5. RestOk'
    BY <1>1, <1>2, <1>3, <1>4 DEF RestOk
<1>6. QED
    BY <1>2, <1>4, <1>5, HandledEvent

LEMMA StatusPreserves ==
    ASSUME IInv, NEW c \in Clients, NEW status \in Statuses, Status(c, status),
           RescheduleAfterEvent
    PROVE  IInv'
<1>1. RestOk /\ Good(st) /\ now \in Nat
    BY RestIsOk, GoodState DEF IInv
<1>2. /\ now' = now /\ reports' = reports /\ saved' = saved /\ catalog' = catalog
      /\ libraryPending' = libraryPending
    BY DEF Status
<1>3. member' \in [Clients -> [presence : {"absent", "connected", "gone"},
                               hasStatus : BOOLEAN, status : Statuses \cup {NoStatus}]]
    BY <1>1 DEF Status, RestOk
<1>4. CASE status # member[c].status
    <2>1. CheckHoldAndPublish(st, FALSE)
        BY <1>4 DEF Status
    <2>2. /\ Good(st') /\ Standing(st', now)
          /\ dirty' \in BOOLEAN /\ told' \in [Clients -> States]
        BY <1>1, <2>1, CheckHoldAndPublishOk
    <2>3. RestOk'
        BY <1>1, <1>2, <1>3, <2>2 DEF RestOk
    <2>4. QED
        BY <1>2, <2>2, <2>3, HandledEvent
<1>5. CASE status = member[c].status
    <2>1. st' = st /\ dirty' = dirty /\ told' = told
        BY <1>5 DEF Status
    <2>2. RestOk'
        BY <1>1, <1>2, <1>3, <2>1 DEF RestOk
    <2>3. QED
        BY <1>1, <1>2, <2>1, <2>2, SameHeldSame, HandledEvent
<1>6. QED
    BY <1>4, <1>5

\* The current track gets a new duration and nothing else changes.
LEMMA NewDuration ==
    ASSUME NEW s, Good(s), NEW d \in Nat
    PROVE  LET t == [s EXCEPT !.playback.durationMs = d, !.version = @ + 1]
           IN  Good(t) /\ SameHeld(s, t)
<1> DEFINE v == s.version + 1
           p == [s.playback EXCEPT !.durationMs = d]
           t == [s EXCEPT !.playback = p, !.version = v]
<1>1. v \in Nat
    BY DEF Good, States
<1>2. [s EXCEPT !.playback.durationMs = d, !.version = @ + 1] = t
    BY DEF Good, States, Playbacks
<1> HIDE DEF v
<1>3. p \in Playbacks
    BY DEF Good, States, Playbacks
<1>4. t \in States
    BY <1>1, <1>3 DEF Good, States
<1>5. /\ t.tracks = s.tracks /\ t.order = s.order /\ t.contextIndex = s.contextIndex
      /\ t.hold = s.hold /\ t.playback = p
    BY DEF Good, States
<1>6. Good(t)
    BY <1>4, <1>5, SameOrder DEF Good
<1>7. SameHeld(s, t)
    BY <1>5 DEF SameHeld, Good, States, Playbacks
<1>8. QED
    BY <1>2, <1>6, <1>7

LEMMA LibraryChangedPreserves ==
    ASSUME IInv, LibraryChanged, RescheduleAfterEvent
    PROVE  IInv'
<1> DEFINE id == st.playback.trackID
           d == catalog[id]
           renewed == [st EXCEPT !.playback.durationMs = d, !.version = @ + 1]
<1>1. RestOk /\ Good(st) /\ IsCatalog(catalog)
    BY RestIsOk, GoodState DEF IInv
<1>2. /\ now' = now /\ member' = member /\ reports' = reports /\ saved' = saved
      /\ catalog' = catalog /\ libraryPending' = FALSE
    BY DEF LibraryChanged
<1>3. CASE Known(catalog, id) /\ d # st.playback.durationMs
    <2>1. Publish(renewed, TRUE)
        BY <1>3 DEF LibraryChanged
    <2>2. d \in Nat
        BY <1>1, <1>3 DEF IsCatalog, Known
    <2> HIDE DEF d
    <2>3. Good(renewed) /\ SameHeld(st, renewed)
        BY <1>1, <2>2, NewDuration
    <2> HIDE DEF renewed
    <2>4. st' = renewed /\ dirty' \in BOOLEAN /\ told' \in [Clients -> States]
        BY <1>1, <2>1, <2>3, PublishOk
    <2>5. RestOk'
        BY <1>1, <1>2, <2>4 DEF RestOk
    <2>6. QED
        BY <1>2, <2>3, <2>4, <2>5, HandledEvent
<1>4. CASE ~(Known(catalog, id) /\ d # st.playback.durationMs)
    <2>1. st' = st /\ dirty' = dirty /\ told' = told
        BY <1>4 DEF LibraryChanged
    <2>2. RestOk'
        BY <1>1, <1>2, <2>1 DEF RestOk
    <2>3. QED
        BY <1>1, <1>2, <2>1, <2>2, SameHeldSame, HandledEvent
<1>5. QED
    BY <1>3, <1>4

LEMMA SavePreserves ==
    ASSUME IInv, Save, RescheduleAfterEvent
    PROVE  IInv'
<1>1. RestOk /\ Good(st)
    BY RestIsOk, GoodState DEF IInv
<1>2. /\ now' = now /\ st' = st /\ member' = member /\ told' = told
      /\ reports' = reports /\ saved' = st /\ dirty' = FALSE
      /\ catalog' = catalog /\ libraryPending' = libraryPending
    BY DEF Save
<1>3. RestOk'
    BY <1>1, <1>2 DEF RestOk
<1>4. QED
    BY <1>1, <1>2, <1>3, SameHeldSame, HandledEvent

LEMMA TickPreserves ==
    ASSUME IInv, Tick, Reschedule
    PROVE  IInv'
<1>1. RestOk /\ Good(Settled) /\ now \in Nat
    BY RestIsOk, GoodState, SettledGood DEF IInv
<1>2. /\ now' = now /\ reports' = reports /\ saved' = saved /\ catalog' = catalog
      /\ libraryPending' = libraryPending
    BY DEF Tick
<1>3. member' \in [Clients -> [presence : {"absent", "connected", "gone"},
                               hasStatus : BOOLEAN, status : Statuses \cup {NoStatus}]]
    BY <1>1 DEF Tick, RestOk, Absent
<1>4. /\ Good(st') /\ Standing(st', now)
      /\ dirty' \in BOOLEAN /\ told' \in [Clients -> States]
    <2>1. CheckHoldAndPublish(Settled, Overdue(st, now)) /\ Overdue(st, now) \in BOOLEAN
        BY DEF Tick, Overdue, HasEnd
    <2>2. QED
        BY <1>1, <2>1, CheckHoldAndPublishOk
<1>5. RestOk'
    BY <1>1, <1>2, <1>3, <1>4 DEF RestOk
<1>6. QED
    BY <1>1, <1>2, <1>4, <1>5, HandledTick

LEMMA RestartPreserves ==
    ASSUME IInv, Restart, Reschedule
    PROVE  IInv'
<1> DEFINE loaded == [saved EXCEPT !.hold = NoHold]
           s == Settle(loaded, now', catalog)
           n == now'
<1>1. RestOk /\ Good(saved) /\ IsCatalog(catalog) /\ now \in Nat
    BY RestIsOk, GoodState DEF IInv
<1>2. n \in Nat
    BY <1>1, ParametersAssumption DEF Restart
<1>3. Good(loaded) /\ loaded.hold = NoHold
    BY <1>1, NoHoldIsHold, HoldGood DEF Good, States
<1>4. /\ st' = s /\ dirty' = Overdue(loaded, n)
      /\ member' = [c \in Clients |-> Absent]
      /\ told' = [c \in Clients |-> NothingTold]
      /\ libraryPending' = FALSE
      /\ saved' = saved /\ reports' = reports /\ catalog' = catalog
    BY DEF Restart
<1> HIDE DEF loaded
<1>5. Good(s) /\ s.hold = NoHold
    BY <1>1, <1>2, <1>3, SettleGood
<1>6. Standing(st', n)
    BY <1>4, <1>5 DEF Standing, Holding
<1>7. dirty' \in BOOLEAN
    BY <1>4 DEF Overdue, HasEnd
<1>8. RestOk'
    BY <1>1, <1>4, <1>7, NewStateGood DEF RestOk, Absent, NothingTold, Good
<1>9. QED
    BY <1>2, <1>4, <1>5, <1>6, <1>8, HandledTick

LEMMA ElapsePreserves == IInv /\ Elapse => IInv'
<1> SUFFICES ASSUME IInv, Elapse PROVE IInv'
    OBVIOUS
<1>1. /\ now \in Nat /\ timer \in Nat /\ now < timer + TimerSlack /\ now' = now + 1
      /\ timer' = timer /\ st' = st /\ saved' = saved /\ member' = member /\ told' = told
      /\ reports' = reports /\ dirty' = dirty /\ catalog' = catalog
      /\ libraryPending' = libraryPending
    BY GoodState DEF IInv, Elapse
<1>2. GoodStates'
    BY <1>1 DEF IInv, GoodStates, TypeOK
<1>3. ClockFollowsTimer'
    BY <1>1, SlackAssumption DEF ClockFollowsTimer, Follows
<1>4. TimerGuardsHold'
    BY <1>1 DEF IInv, TimerGuardsHold
<1>5. QED
    BY <1>2, <1>3, <1>4 DEF IInv

LEMMA ReportEndPreserves ==
    ASSUME IInv, NEW c \in Clients, ReportEnd(c)
    PROVE  IInv'
<1> DEFINE p == told[c].playback
           r == [client |-> c, trackID |-> p.trackID, entryID |-> p.entryID,
                 anchorMs |-> p.anchorMs]
<1>1. /\ now' = now /\ timer' = timer /\ st' = st /\ saved' = saved /\ member' = member
      /\ told' = told /\ dirty' = dirty /\ catalog' = catalog
      /\ libraryPending' = libraryPending /\ reports' = reports \cup {r}
    BY DEF ReportEnd
<1>2. told[c] \in States
    BY DEF IInv, GoodStates, TypeOK
<1>3. p \in Playbacks /\ p.trackID # NoTrack
    BY <1>2 DEF ReportEnd, States
<1> HIDE DEF p
<1>4. r \in [client : Clients, trackID : TrackIds, entryID : Nat, anchorMs : Nat]
    BY <1>3 DEF Playbacks
<1> HIDE DEF r
<1>5. GoodStates'
    BY <1>1, <1>4 DEF IInv, GoodStates, TypeOK
<1>6. QED
    BY <1>1, <1>5 DEF IInv, ClockFollowsTimer, TimerGuardsHold

LEMMA RescanPreserves == IInv /\ Rescan => IInv'
<1> SUFFICES ASSUME IInv, Rescan PROVE IInv'
    OBVIOUS
<1>1. /\ now' = now /\ timer' = timer /\ st' = st /\ saved' = saved /\ member' = member
      /\ told' = told /\ reports' = reports /\ dirty' = dirty
      /\ catalog' \in CatalogVersions /\ libraryPending' = TRUE
    BY DEF Rescan
<1>2. GoodStates'
    BY <1>1 DEF IInv, GoodStates, TypeOK
<1>3. QED
    BY <1>1, <1>2 DEF IInv, ClockFollowsTimer, TimerGuardsHold

LEMMA EventPreserves == IInv /\ Event /\ RescheduleAfterEvent => IInv'
<1> SUFFICES ASSUME IInv, Event, RescheduleAfterEvent PROVE IInv'
    OBVIOUS
<1>1. CASE \E c \in Clients : ClientEvent(c)
    <2> PICK c \in Clients : ClientEvent(c)
        BY <1>1
    <2>1. CASE \/ PlayCommand(c) \/ PauseCommand(c) \/ SeekCommand(c)
               \/ NextCommand(c) \/ PrevCommand(c)
        BY <2>1, TransportCommanded, CommandPreserves
    <2>2. CASE PlayContextCommand(c) \/ JumpCommand(c) \/ ShuffleCommand(c)
        BY <2>2, ContextCommanded, CommandPreserves
    <2>3. CASE \/ PlayEntryCommand(c) \/ QueueAddCommand(c) \/ QueueRemoveCommand(c)
               \/ QueueMoveCommand(c) \/ QueueClearCommand(c)
        BY <2>3, QueueCommanded, CommandPreserves
    <2>4. CASE RepeatCommand(c) \/ WaitForAllCommand(c)
        BY <2>4, SettingsCommanded, CommandPreserves
    <2>5. CASE Join(c)
        BY <2>5, JoinPreserves
    <2>6. CASE Leave(c)
        BY <2>6, LeavePreserves
    <2>7. CASE \E status \in Statuses : Status(c, status)
        BY <2>7, StatusPreserves
    <2>8. QED
        BY <2>1, <2>2, <2>3, <2>4, <2>5, <2>6, <2>7 DEF ClientEvent
<1>2. CASE \E r \in reports : EndedCommand(r)
    BY <1>2, EndedPreserves
<1>3. CASE LibraryChanged
    BY <1>3, LibraryChangedPreserves
<1>4. CASE Save
    BY <1>4, SavePreserves
<1>5. QED
    BY <1>1, <1>2, <1>3, <1>4 DEF Event

LEMMA NextPreserves == IInv /\ [Next]_vars => IInv'
<1> SUFFICES ASSUME IInv, [Next]_vars PROVE IInv'
    OBVIOUS
<1>1. CASE Event /\ RescheduleAfterEvent
    BY <1>1, EventPreserves
<1>2. CASE Tick /\ Reschedule
    BY <1>2, TickPreserves
<1>3. CASE Restart /\ Reschedule
    BY <1>3, RestartPreserves
<1>4. CASE Elapse
    BY <1>4, ElapsePreserves
<1>5. CASE \E c \in Clients : ReportEnd(c)
    BY <1>5, ReportEndPreserves
<1>6. CASE Rescan
    BY <1>6, RescanPreserves
<1>7. CASE UNCHANGED vars
    BY <1>7 DEF vars, IInv, GoodStates, TypeOK, ClockFollowsTimer, TimerGuardsHold
<1>8. QED
    BY <1>1, <1>2, <1>3, <1>4, <1>5, <1>6, <1>7 DEF Next

-----------------------------------------------------------------------------
(* Theorems about the play order and the hold *)

LEMMA Invariance == Spec => []IInv
BY InitGood, NextPreserves, PTL DEF Spec

\* Every variable keeps its type: no handler leaves the room, the stored room
\* or what a listener was told in a shape the code does not expect.
THEOREM TypeCorrect == Spec => []TypeOK
<1>1. IInv => TypeOK
    BY DEF IInv, GoodStates
<1>2. QED
    BY <1>1, Invariance, PTL

\* The play order stays a permutation of the context, and contextIndex a place
\* in it, whatever is played, shuffled, skipped, rescanned or restarted.
THEOREM PlayOrder == Spec => []ContextOk
<1>1. IInv => ContextOk
    BY DEF IInv, GoodStates, ContextOk
<1>2. QED
    BY <1>1, Invariance, PTL

\* A track that waits for everyone does not begin: the timer reaches the hold
\* before the clock reaches the start, in whatever order events are handled.
THEOREM HeldStart == Spec => []StartWaitsForHold
<1>1. IInv => StartWaitsForHold
    <2> SUFFICES ASSUME IInv, Holding(st) PROVE now < st.playback.anchorMs
        BY DEF StartWaitsForHold
    <2>1. /\ now \in Nat /\ timer \in Nat /\ Good(st)
          /\ Follows(now, timer) /\ Guards(timer, st)
        BY GoodState DEF IInv, ClockFollowsTimer, TimerGuardsHold
    <2>2. QED
        BY <2>1, HeldIsNotOverdue
<1>2. QED
    BY <1>1, Invariance, PTL

\* Nobody can keep the others waiting: a hold is over when its time is up,
\* but for the time it takes to serve the timer.
THEOREM HoldEnds == Spec => []HoldIsBounded
<1>1. IInv => HoldIsBounded
    <2> SUFFICES ASSUME IInv, Holding(st) PROVE now <= st.hold.untilMs + TimerSlack
        BY DEF HoldIsBounded
    <2>1. /\ now \in Nat /\ timer \in Nat /\ st.hold.untilMs \in Nat
          /\ Follows(now, timer) /\ Guards(timer, st)
        BY GoodState DEF IInv, ClockFollowsTimer, TimerGuardsHold, Good, States, Holds
    <2>2. QED
        BY <2>1, SlackAssumption DEF Follows, Guards
<1>2. QED
    BY <1>1, Invariance, PTL

-----------------------------------------------------------------------------
(* What a step does to the room, and whom it tells *)

\* The entry ids of the room and of the stored room are in order.
EntriesInOrder == EntriesOk(st) /\ EntriesOk(saved)

\* The scans find the same tracks, if perhaps of other lengths.
NoneLost == \A cat1, cat2 \in CatalogVersions : DOMAIN cat1 = DOMAIN cat2

\* The library knows what is queued.
QueuesKnown == AllKnown(st.queue, catalog) /\ AllKnown(saved.queue, catalog)

\* Entry ids stay in order, and the versions of the queue and the context
\* tell of their changes.
ListsKept ==
    /\ EntriesOk(st')
    /\ st'.queue # st.queue => st'.queueVersion > st.queueVersion
    /\ st'.tracks # st.tracks \/ st'.order # st.order
           => st'.contextVersion > st.contextVersion
    /\ AllKnown(st.queue, catalog) => AllKnown(st'.queue, catalog)

\* A step either tells everyone of a new version, or changes nothing that
\* anyone sees; then only a listener that joins is told anything.
Announced ==
    /\ dirty' = TRUE
    /\ st'.version > st.version
    /\ \A c \in Connected(member') : told'[c] = Visible(st')

Silent ==
    /\ dirty' = dirty
    /\ AllKnown(st.queue, catalog) => Visible(st') = Visible(st)
    /\ \A c \in Connected(member') :
           \/ told'[c] = Visible(st)
           \/ c \in Connected(member) /\ told'[c] = told[c]

\* What every step of the actor guarantees, a save and a restart excepted.
Orderly ==
    /\ saved' = saved
    /\ ListsKept
    /\ st'.shuffle # st.shuffle /\ ~Overdue(st, now) => KeepsTrack(st, st')
    /\ Announced \/ Silent

LEMMA VersionedParts ==
    ASSUME Versioned(st, st', catalog)
    PROVE  ListsKept
BY DEF Versioned, ListsKept

LEMMA VersionedSame ==
    ASSUME NEW s, Good(s), EntriesOk(s), NEW cat
    PROVE  Versioned(s, s, cat) /\ KeepsTrack(s, s)
<1>1. s.version \in Nat /\ s.queueVersion \in Nat /\ s.contextVersion \in Nat
    BY DEF Good, States
<1>2. QED
    BY <1>1 DEF Versioned, KeepsTrack, PlaysOn, SameLength

LEMMA KeepsTrackAlong ==
    ASSUME NEW s, NEW m, NEW t, KeepsTrack(s, m), KeepsTrack(m, t)
    PROVE  KeepsTrack(s, t)
BY DEF KeepsTrack

\* Catching up tells its changes by versions, too.
LEMMA SettledVersioned ==
    ASSUME IInv, EntriesInOrder
    PROVE  /\ Good(st) /\ Good(Settled) /\ Versioned(st, Settled, catalog)
           /\ Overdue(st, now) => Settled.version > st.version
           /\ ~Overdue(st, now) => Settled = st
           /\ Settled.shuffle = st.shuffle
<1>1. Good(st) /\ EntriesOk(st) /\ now \in Nat /\ IsCatalog(catalog)
    BY GoodState DEF IInv, EntriesInOrder
<1>2. QED
    BY <1>1, SettledGood, SettleVersioned DEF Settled

LEMMA PublishTells ==
    ASSUME dirty \in BOOLEAN, NEW s, NEW changed \in BOOLEAN, Publish(s, changed)
    PROVE  /\ st' = s
           /\ changed => dirty' = TRUE /\ \A c \in Connected(member') : told'[c] = Visible(s)
           /\ ~changed => dirty' = dirty /\ \A c \in Connected(member') : told'[c] = told[c]
<1>1. \A c \in Connected(member') :
          told'[c] = IF changed THEN Visible(s) ELSE told[c]
    BY DEF Publish, Connected
<1>2. QED
    BY <1>1 DEF Publish

\* A handler that ends by evaluating the hold: s is what its own work leaves.
LEMMA CheckHoldAndPublishOrderly ==
    ASSUME IInv, EntriesInOrder, NEW s, Good(s), Versioned(st, s, catalog),
           s.shuffle # st.shuffle /\ ~Overdue(st, now) => KeepsTrack(st, s),
           NEW changed \in BOOLEAN, changed => s.version > st.version, ~changed => s = st,
           Connected(member') \subseteq Connected(member), saved' = saved,
           CheckHoldAndPublish(s, changed)
    PROVE  Orderly /\ Versioned(st, st', catalog)
<1> DEFINE ready == AllReady(member', s)
           held == CheckHold(s, now, ready)
           change == changed \/ held # s
<1>1. /\ now \in Nat /\ Good(st) /\ dirty \in BOOLEAN /\ EntriesOk(s)
      /\ ready \in BOOLEAN /\ change \in BOOLEAN
    BY GoodState, RestIsOk DEF IInv, RestOk, AllReady, Versioned
<1>2. Publish(held, change)
    BY DEF CheckHoldAndPublish
<1> HIDE DEF ready
<1>3. /\ Good(held) /\ Versioned(s, held, catalog) /\ KeepsTrack(s, held)
      /\ held # s => held.version > s.version
      /\ held.shuffle = s.shuffle
    BY <1>1, CheckHoldGood, CheckHoldVersioned
<1> HIDE DEF held
<1>4. Versioned(st, held, catalog)
    BY <1>1, <1>3, VersionedAlong DEF Good
<1>5. held.shuffle # st.shuffle /\ ~Overdue(st, now) => KeepsTrack(st, held)
    BY <1>3, KeepsTrackAlong
<1>6. change => held.version > st.version
    <2>1. /\ st.version \in Nat /\ s.version \in Nat /\ held.version \in Nat
          /\ s.version >= st.version /\ held.version >= s.version
        BY <1>1, <1>3 DEF Good, States, Versioned
    <2>2. QED
        BY <1>3, <2>1
<1>7. ~change => held = st
    OBVIOUS
<1> HIDE DEF change
<1>8. /\ st' = held
      /\ change => dirty' = TRUE /\ \A c \in Connected(member') : told'[c] = Visible(held)
      /\ ~change => dirty' = dirty /\ \A c \in Connected(member') : told'[c] = told[c]
    BY <1>1, <1>2, PublishTells
<1>9. Announced \/ Silent
    <2>1. CASE change
        BY <1>6, <1>8, <2>1 DEF Announced
    <2>2. CASE ~change
        <3>1. /\ st' = st /\ dirty' = dirty
              /\ \A c \in Connected(member') : c \in Connected(member) /\ told'[c] = told[c]
            BY <1>7, <1>8, <2>2
        <3>2. QED
            BY <3>1 DEF Silent
    <2>3. QED
        BY <2>1, <2>2
<1>10. Versioned(st, st', catalog)
    BY <1>4, <1>8
<1>11. QED
    BY <1>5, <1>8, <1>9, <1>10, VersionedParts DEF Orderly

\* A command: catching up, what the engine does, and the hold.
LEMMA HandleOrderly ==
    ASSUME IInv, EntriesInOrder, NEW outcome, Sound(Settled, outcome),
           Proper(Settled, outcome, catalog), Handle(outcome)
    PROVE  Orderly /\ Versioned(st, st', catalog) /\ UNCHANGED <<catalog, libraryPending>>
<1> DEFINE applied == Commit(Settled, outcome)
           changed == Overdue(st, now) \/ outcome.changed # {}
<1>1. /\ Good(st) /\ Good(Settled) /\ Versioned(st, Settled, catalog)
      /\ Overdue(st, now) => Settled.version > st.version
      /\ ~Overdue(st, now) => Settled = st
      /\ Settled.shuffle = st.shuffle
    BY SettledVersioned
<1>2. /\ Good(applied) /\ Versioned(Settled, applied, catalog)
      /\ outcome.changed # {} => applied.version > Settled.version
      /\ outcome.changed = {} /\ AllKnown(Settled.queue, catalog) =>
             applied = [Settled EXCEPT !.nextEntrySeq = applied.nextEntrySeq]
      /\ applied.shuffle # Settled.shuffle => KeepsTrack(Settled, applied)
    BY <1>1, CommitGood, CommitVersioned
<1>3. /\ member' = member /\ saved' = saved /\ UNCHANGED <<catalog, libraryPending>>
      /\ IF changed THEN CheckHoldAndPublish(applied, TRUE) ELSE Publish(applied, FALSE)
    BY DEF Handle
<1> HIDE DEF applied
<1>4. Versioned(st, applied, catalog)
    BY <1>1, <1>2, VersionedAlong DEF Good
<1>5. applied.shuffle # st.shuffle /\ ~Overdue(st, now) => KeepsTrack(st, applied)
    BY <1>1, <1>2
<1>6. CASE changed
    <2>1. applied.version > st.version
        <3>1. /\ st.version \in Nat /\ Settled.version \in Nat /\ applied.version \in Nat
              /\ Settled.version >= st.version /\ applied.version >= Settled.version
            BY <1>1, <1>2 DEF Good, States, Versioned
        <3>2. QED
            BY <1>1, <1>2, <1>6, <3>1
    <2>2. Connected(member') \subseteq Connected(member)
        BY <1>3
    <2>3. CheckHoldAndPublish(applied, TRUE)
        BY <1>3, <1>6
    <2>4. Orderly /\ Versioned(st, st', catalog)
        BY <1>2, <1>3, <1>4, <1>5, <2>1, <2>2, <2>3, CheckHoldAndPublishOrderly
    <2>5. QED
        BY <1>3, <2>4
<1>7. CASE ~changed
    <2>1. dirty \in BOOLEAN
        BY RestIsOk DEF RestOk
    <2>2. /\ st' = applied /\ dirty' = dirty
          /\ \A c \in Connected(member') : told'[c] = told[c]
        BY <1>3, <1>7, <2>1, PublishTells
    <2>3. Settled = st /\ outcome.changed = {}
        BY <1>1, <1>7
    <2>4. ASSUME AllKnown(st.queue, catalog) PROVE Visible(st') = Visible(st)
        <3>1. st' = [st EXCEPT !.nextEntrySeq = applied.nextEntrySeq]
            BY <1>2, <2>2, <2>3, <2>4
        <3>2. QED
            BY <1>1, <3>1 DEF Visible, Good, States
    <2>5. Silent
        BY <1>3, <2>2, <2>4 DEF Silent
    <2>6. ListsKept
        BY <1>4, <2>2, VersionedParts
    <2>7. QED
        BY <1>3, <1>4, <1>5, <2>2, <2>5, <2>6 DEF Orderly
<1>8. QED
    BY <1>6, <1>7


-----------------------------------------------------------------------------
(* What each kind of step does *)

\* The track that plays keeps its length, or has the one the library gives it,
\* and a start that is held remains the start of a whole track.
LengthKept ==
    /\ DurationFollowsCatalog => DurationFollowsCatalog'
    /\ PlaysOn(st, st', catalog)

LEMMA VersionedLength ==
    ASSUME Versioned(st, st', catalog), UNCHANGED <<catalog, libraryPending>>
    PROVE  LengthKept
BY DEF Versioned, LengthKept, DurationFollowsCatalog, PlaysOn, SameLength, DurationMs, Known

LEMMA CommandOrderly ==
    ASSUME IInv, EntriesInOrder, NEW c, Commanded(c)
    PROVE  Orderly /\ LengthKept
<1> PICK outcome : Allowed(outcome) /\ Command(c, outcome)
    BY DEF Commanded
<1>1. EntriesOk(Settled)
    BY SettledVersioned DEF Versioned
<1>2. Sound(Settled, outcome) /\ Proper(Settled, outcome, catalog) /\ Handle(outcome)
    BY <1>1 DEF Allowed, Command
<1>3. QED
    BY <1>2, HandleOrderly, VersionedLength

LEMMA EndedOrderly ==
    ASSUME IInv, EntriesInOrder, NEW r \in reports, EndedCommand(r)
    PROVE  Orderly /\ LengthKept
<1> DEFINE outcome == Ended(Settled, r.trackID, r.entryID, now, catalog)
<1>1. /\ now \in Nat /\ IsCatalog(catalog) /\ Good(Settled) /\ EntriesOk(Settled)
    BY GoodState, SettledVersioned DEF IInv, Versioned
<1>2. Sound(Settled, outcome) /\ Proper(Settled, outcome, catalog)
    BY <1>1, EndedSound, EndedProper
<1>3. Handle(outcome)
    BY DEF EndedCommand
<1> HIDE DEF outcome
<1>4. QED
    BY <1>2, <1>3, HandleOrderly, VersionedLength

\* A newcomer is told the state everyone knows, or everyone a new one.
LEMMA JoinOrderly ==
    ASSUME IInv, EntriesInOrder, NEW c \in Clients, Join(c)
    PROVE  Orderly /\ LengthKept
<1>1. /\ Good(st) /\ EntriesOk(st) /\ RestOk
      /\ Versioned(st, Settled, catalog)
      /\ Overdue(st, now) => Settled.version > st.version
      /\ Settled.shuffle = st.shuffle
    BY SettledVersioned, RestIsOk DEF EntriesInOrder
<1>2. /\ saved' = saved /\ UNCHANGED <<catalog, libraryPending>>
      /\ member' = [member EXCEPT ![c].presence = "connected", ![c].hasStatus = FALSE]
    BY DEF Join
<1>3. CASE Overdue(st, now)
    <2>1. Publish(Settled, TRUE) /\ dirty \in BOOLEAN
        BY <1>1, <1>3 DEF Join, RestOk
    <2>2. /\ st' = Settled /\ dirty' = TRUE
          /\ \A d \in Connected(member') : told'[d] = Visible(Settled)
        BY <2>1, PublishTells
    <2>3. Announced
        BY <1>1, <1>3, <2>2 DEF Announced
    <2>4. Versioned(st, st', catalog) /\ st'.shuffle = st.shuffle
        BY <1>1, <2>2
    <2>5. QED
        BY <1>2, <2>3, <2>4, VersionedParts, VersionedLength DEF Orderly
<1>4. CASE ~Overdue(st, now)
    <2>1. told' = [told EXCEPT ![c] = Visible(st)] /\ st' = st /\ dirty' = dirty
        BY <1>4 DEF Join
    <2>2. \A d \in Connected(member') : d = c \/ d \in Connected(member)
        BY <1>1, <1>2 DEF Connected, RestOk
    <2>3. \A d \in Clients : told'[d] = IF d = c THEN Visible(st) ELSE told[d]
        BY <1>1, <2>1 DEF RestOk
    <2>4. Silent
        BY <2>1, <2>2, <2>3 DEF Silent, Connected
    <2>5. Versioned(st, st', catalog)
        BY <1>1, <2>1, VersionedSame
    <2>6. QED
        BY <1>2, <2>1, <2>4, <2>5, VersionedParts, VersionedLength DEF Orderly
<1>5. QED
    BY <1>3, <1>4

\* Handlers that change nothing of the room themselves.
LEMMA QuietOrderly ==
    ASSUME IInv, EntriesInOrder, saved' = saved, UNCHANGED <<catalog, libraryPending>>,
           Connected(member') \subseteq Connected(member),
           CheckHoldAndPublish(st, FALSE) \/ UNCHANGED <<st, dirty, told>>
    PROVE  Orderly /\ LengthKept
<1>1. Good(st) /\ EntriesOk(st) /\ Versioned(st, st, catalog)
    BY GoodState, VersionedSame DEF IInv, EntriesInOrder
<1>2. CASE CheckHoldAndPublish(st, FALSE)
    <2>1. Orderly /\ Versioned(st, st', catalog)
        BY <1>1, <1>2, CheckHoldAndPublishOrderly
    <2>2. QED
        BY <2>1, VersionedLength
<1>3. CASE UNCHANGED <<st, dirty, told>>
    <2>1. Silent
        BY <1>3 DEF Silent
    <2>2. Versioned(st, st', catalog)
        BY <1>1, <1>3
    <2>3. QED
        BY <1>3, <2>1, <2>2, VersionedParts, VersionedLength DEF Orderly
<1>4. QED
    BY <1>2, <1>3

LEMMA LeaveOrderly ==
    ASSUME IInv, EntriesInOrder, NEW c \in Clients, Leave(c)
    PROVE  Orderly /\ LengthKept
<1>1. Connected(member') \subseteq Connected(member)
    BY RestIsOk DEF Leave, Connected, RestOk
<1>2. /\ saved' = saved /\ UNCHANGED <<catalog, libraryPending>>
      /\ CheckHoldAndPublish(st, FALSE)
    BY DEF Leave
<1>3. QED
    BY <1>1, <1>2, QuietOrderly

LEMMA StatusOrderly ==
    ASSUME IInv, EntriesInOrder, NEW c \in Clients, NEW status \in Statuses, Status(c, status)
    PROVE  Orderly /\ LengthKept
<1>1. Connected(member') \subseteq Connected(member)
    BY RestIsOk DEF Status, Connected, RestOk
<1>2. /\ saved' = saved /\ UNCHANGED <<catalog, libraryPending>>
      /\ CheckHoldAndPublish(st, FALSE) \/ UNCHANGED <<st, dirty, told>>
    BY DEF Status
<1>3. QED
    BY <1>1, <1>2, QuietOrderly

LEMMA TickOrderly ==
    ASSUME IInv, EntriesInOrder, Tick
    PROVE  Orderly /\ LengthKept
<1>1. Connected(member') \subseteq Connected(member)
    BY DEF Tick, Connected, Absent
<1>2. /\ saved' = saved /\ UNCHANGED <<catalog, libraryPending>>
      /\ CheckHoldAndPublish(Settled, Overdue(st, now)) /\ Overdue(st, now) \in BOOLEAN
    BY DEF Tick, Overdue, HasEnd
<1>3. /\ Good(Settled) /\ Versioned(st, Settled, catalog)
      /\ Overdue(st, now) => Settled.version > st.version
      /\ ~Overdue(st, now) => Settled = st
      /\ Settled.shuffle = st.shuffle
    BY SettledVersioned
<1> DEFINE changed == Overdue(st, now)
<1> HIDE DEF changed
<1>4. Orderly /\ Versioned(st, st', catalog)
    BY <1>1, <1>2, <1>3, CheckHoldAndPublishOrderly
<1>5. QED
    BY <1>2, <1>4, VersionedLength

LEMMA LibraryChangedOrderly ==
    ASSUME IInv, EntriesInOrder, LibraryChanged
    PROVE  Orderly /\ LengthKept
<1> DEFINE id == st.playback.trackID
           d == catalog[id]
           p == [st.playback EXCEPT !.durationMs = d]
           v == st.version + 1
           renewed == [st EXCEPT !.playback = p, !.version = v]
<1>1. Good(st) /\ EntriesOk(st) /\ dirty \in BOOLEAN
    BY GoodState, RestIsOk DEF IInv, EntriesInOrder, RestOk
<1>2. saved' = saved /\ member' = member /\ catalog' = catalog
    BY DEF LibraryChanged
<1>3. CASE Known(catalog, id) /\ d # st.playback.durationMs
    <2>1. [st EXCEPT !.playback.durationMs = d, !.version = @ + 1] = renewed
        BY <1>1 DEF Good, States, Playbacks
    <2>2. Publish(renewed, TRUE)
        BY <1>3, <2>1 DEF LibraryChanged
    <2>3. /\ p.durationMs = d /\ p.trackID = id /\ p.entryID = st.playback.entryID
          /\ p.positionMs = st.playback.positionMs /\ v > st.version
        BY <1>1 DEF Good, States, Playbacks
    <2> HIDE DEF p, v
    <2>4. /\ renewed.playback = p /\ renewed.version = v /\ renewed.queue = st.queue
          /\ renewed.nextEntrySeq = st.nextEntrySeq /\ renewed.shuffle = st.shuffle
          /\ renewed.tracks = st.tracks /\ renewed.order = st.order
          /\ renewed.hold = st.hold
        BY <1>1 DEF Good, States
    <2> HIDE DEF renewed
    <2>5. /\ st' = renewed /\ dirty' = TRUE
          /\ \A c \in Connected(member') : told'[c] = Visible(renewed)
        BY <1>1, <2>2, PublishTells
    <2>6. Announced
        BY <2>3, <2>4, <2>5 DEF Announced
    <2>7. ListsKept
        BY <1>1, <2>3, <2>4, <2>5 DEF EntriesOk, ListsKept
    <2>8. LengthKept
        BY <1>2, <1>3, <2>3, <2>4, <2>5
        DEF LengthKept, DurationFollowsCatalog, PlaysOn, SameLength, FromTop, Holding, DurationMs
    <2>9. QED
        BY <1>2, <2>4, <2>5, <2>6, <2>7, <2>8 DEF Orderly
<1>4. CASE ~(Known(catalog, id) /\ d # st.playback.durationMs)
    <2>1. st' = st /\ dirty' = dirty /\ told' = told
        BY <1>4 DEF LibraryChanged
    <2>2. Silent
        BY <1>2, <2>1 DEF Silent
    <2>3. ListsKept
        BY <1>1, <2>1 DEF ListsKept
    <2>4. LengthKept
        BY <1>2, <1>4, <2>1 DEF LengthKept, DurationFollowsCatalog, PlaysOn, SameLength
    <2>5. QED
        BY <1>2, <2>1, <2>2, <2>3, <2>4 DEF Orderly
<1>5. QED
    BY <1>3, <1>4

\* Steps the room does not take part in.
LEMMA ElsewhereOrderly ==
    ASSUME IInv, EntriesInOrder, UNCHANGED <<st, saved, member, told, dirty>>,
           libraryPending' \/ UNCHANGED <<catalog, libraryPending>>
    PROVE  Orderly /\ LengthKept
<1>1. Silent /\ ListsKept
    BY DEF Silent, ListsKept, EntriesInOrder
<1>2. LengthKept
    BY DEF LengthKept, DurationFollowsCatalog, PlaysOn, SameLength
<1>3. QED
    BY <1>1, <1>2 DEF Orderly, EntriesInOrder

LEMMA NextOrderly ==
    ASSUME IInv, EntriesInOrder, [Next]_vars
    PROVE  (Orderly /\ LengthKept) \/ Save \/ Restart
<1>1. ASSUME NEW c \in Clients, ClientEvent(c)
      PROVE  Orderly /\ LengthKept
    <2>1. CASE \/ PlayCommand(c) \/ PauseCommand(c) \/ SeekCommand(c)
               \/ NextCommand(c) \/ PrevCommand(c)
        BY <2>1, TransportCommanded, CommandOrderly
    <2>2. CASE PlayContextCommand(c) \/ JumpCommand(c) \/ ShuffleCommand(c)
        BY <2>2, ContextCommanded, CommandOrderly
    <2>3. CASE \/ PlayEntryCommand(c) \/ QueueAddCommand(c) \/ QueueRemoveCommand(c)
               \/ QueueMoveCommand(c) \/ QueueClearCommand(c)
        BY <2>3, QueueCommanded, CommandOrderly
    <2>4. CASE RepeatCommand(c) \/ WaitForAllCommand(c)
        BY <2>4, SettingsCommanded, CommandOrderly
    <2>5. CASE Join(c)
        BY <2>5, JoinOrderly
    <2>6. CASE Leave(c)
        BY <2>6, LeaveOrderly
    <2>7. CASE \E status \in Statuses : Status(c, status)
        BY <2>7, StatusOrderly
    <2>8. QED
        BY <1>1, <2>1, <2>2, <2>3, <2>4, <2>5, <2>6, <2>7 DEF ClientEvent
<1>2. CASE Event
    BY <1>1, <1>2, EndedOrderly, LibraryChangedOrderly DEF Event
<1>3. CASE Tick
    BY <1>3, TickOrderly
<1>4. CASE Elapse \/ Rescan \/ (\E c \in Clients : ReportEnd(c)) \/ UNCHANGED vars
    <2>1. /\ UNCHANGED <<st, saved, member, told, dirty>>
          /\ libraryPending' \/ UNCHANGED <<catalog, libraryPending>>
        BY <1>4 DEF Elapse, Rescan, ReportEnd, vars
    <2>2. QED
        BY <2>1, ElsewhereOrderly
<1>5. QED
    BY <1>2, <1>3, <1>4 DEF Next

-----------------------------------------------------------------------------
(* Restarting *)

\* What comes back is the stored state, caught up, without its hold.
LEMMA RestartedState ==
    ASSUME IInv, EntriesInOrder, Restart
    PROVE  LET loaded == [saved EXCEPT !.hold = NoHold]
           IN  /\ EntriesOk(st') /\ saved' = saved
               /\ SameLength(saved, st', catalog) /\ FromTop(st')
               /\ AllKnown(saved.queue, catalog) => AllKnown(st'.queue, catalog)
               /\ ~dirty' => st' = loaded
               /\ Connected(member') = {} /\ catalog' = catalog
<1> DEFINE loaded == [saved EXCEPT !.hold = NoHold]
           n == now'
<1>1. Good(saved) /\ EntriesOk(saved) /\ now \in Nat /\ IsCatalog(catalog)
    BY GoodState DEF IInv, EntriesInOrder
<1>2. n \in Nat
    BY <1>1, ParametersAssumption DEF Restart
<1>3. /\ Good(loaded) /\ loaded.queue = saved.queue /\ loaded.playback = saved.playback
      /\ loaded.nextEntrySeq = saved.nextEntrySeq
    BY <1>1, NoHoldIsHold, HoldGood DEF Good, States
<1>4. /\ st' = Settle(loaded, n, catalog) /\ dirty' = Overdue(loaded, n)
      /\ saved' = saved /\ catalog' = catalog /\ member' = [c \in Clients |-> Absent]
    BY DEF Restart
<1> HIDE DEF loaded
<1>5. EntriesOk(loaded)
    BY <1>1, <1>3 DEF EntriesOk
<1>6. Versioned(loaded, st', catalog)
    BY <1>1, <1>2, <1>3, <1>4, <1>5, SettleVersioned
<1>7. ~dirty' => st' = loaded
    BY <1>4 DEF Settle
<1>8. Connected(member') = {}
    BY <1>4 DEF Connected, Absent
<1>9. loaded.hold = NoHold
    BY <1>1 DEF loaded, Good, States
<1>10. FromTop(st') /\ SameLength(saved, st', catalog)
    BY <1>3, <1>6, <1>9 DEF Versioned, PlaysOn, SameLength, FromTop, Holding
<1>11. QED
    BY <1>3, <1>4, <1>6, <1>7, <1>8, <1>10 DEF Versioned, loaded

-----------------------------------------------------------------------------
(* Invariants *)

LEMMA EntriesPreserved ==
    ASSUME IInv, EntriesInOrder, [Next]_vars
    PROVE  EntriesInOrder'
<1>1. CASE Orderly
    BY <1>1 DEF Orderly, ListsKept, EntriesInOrder
<1>2. CASE Save
    BY <1>2 DEF Save, EntriesInOrder
<1>3. CASE Restart
    BY <1>3, RestartedState DEF EntriesInOrder
<1>4. QED
    BY <1>1, <1>2, <1>3, NextOrderly

LEMMA EntriesInvariance == Spec => [](IInv /\ EntriesInOrder)
<1>1. Init => EntriesInOrder
    BY DEF Init, EntriesInOrder, EntriesOk, NewState, NoEntry
<1>2. IInv /\ EntriesInOrder /\ [Next]_vars => EntriesInOrder'
    BY EntriesPreserved
<1>3. QED
    BY <1>1, <1>2, InitGood, NextPreserves, PTL DEF Spec

\* Whoever is connected knows the room's state, and so does the disk when
\* there is nothing left to save.
Current == QueuesKnown /\ EveryoneToldLatest /\ CleanMeansSaved

LEMMA SavedHidden ==
    ASSUME NEW s, Good(s), NEW t, Good(t), [s EXCEPT !.hold = NoHold] = t
    PROVE  [Visible(s) EXCEPT !.hold = NoHold] = [Visible(t) EXCEPT !.hold = NoHold]
BY DEF Visible, Good, States

LEMMA CurrentPreserved ==
    ASSUME NoneLost, IInv, EntriesInOrder, Current, [Next]_vars
    PROVE  Current'
<1>1. catalog \in CatalogVersions /\ catalog' \in CatalogVersions
    BY NextPreserves, RestIsOk DEF RestOk, IInv, GoodStates, TypeOK
<1>2. \A q : AllKnown(q, catalog) => AllKnown(q, catalog')
    BY <1>1 DEF NoneLost, AllKnown, Known
<1>3. CASE Orderly
    <2>1. AllKnown(st'.queue, catalog) /\ saved' = saved
        BY <1>3 DEF Orderly, ListsKept, Current, QueuesKnown
    <2>2. QueuesKnown'
        BY <1>2, <2>1 DEF Current, QueuesKnown
    <2>3. CASE Announced
        BY <2>2, <2>3 DEF Announced, Current, EveryoneToldLatest, CleanMeansSaved
    <2>4. CASE Silent
        <3>1. Visible(st') = Visible(st) /\ dirty' = dirty
            BY <2>4 DEF Silent, Current, QueuesKnown
        <3>2. EveryoneToldLatest'
            BY <2>4, <3>1 DEF Silent, Current, EveryoneToldLatest
        <3>3. CleanMeansSaved'
            BY <2>1, <3>1 DEF Current, CleanMeansSaved
        <3>4. QED
            BY <2>2, <3>2, <3>3 DEF Current
    <2>5. QED
        BY <1>3, <2>3, <2>4 DEF Orderly
<1>4. CASE Save
    <2>1. saved' = st /\ st' = st /\ member' = member /\ told' = told /\ catalog' = catalog
        BY <1>4 DEF Save
    <2>2. QED
        BY <2>1 DEF Current, QueuesKnown, EveryoneToldLatest, CleanMeansSaved
<1>5. CASE Restart
    <2> DEFINE loaded == [saved EXCEPT !.hold = NoHold]
    <2>1. /\ saved' = saved /\ catalog' = catalog /\ Connected(member') = {}
          /\ AllKnown(saved.queue, catalog) => AllKnown(st'.queue, catalog)
          /\ ~dirty' => st' = loaded
        BY <1>5, RestartedState
    <2>2. QueuesKnown' /\ EveryoneToldLatest'
        BY <2>1 DEF Current, QueuesKnown, EveryoneToldLatest
    <2>3. Good(saved) /\ Good(loaded)
        BY GoodState, NoHoldIsHold, HoldGood DEF IInv, Good, States
    <2>4. [Visible(saved) EXCEPT !.hold = NoHold] = [Visible(loaded) EXCEPT !.hold = NoHold]
        BY <2>3, SavedHidden
    <2> HIDE DEF loaded
    <2>5. CleanMeansSaved'
        BY <2>1, <2>4 DEF CleanMeansSaved
    <2>6. QED
        BY <2>2, <2>5 DEF Current
<1>6. QED
    BY <1>3, <1>4, <1>5, NextOrderly

LEMMA CurrentInvariance ==
    ASSUME NoneLost
    PROVE  Spec => [](IInv /\ EntriesInOrder /\ Current)
<1>1. Init => Current
    BY DEF Init, Current, QueuesKnown, AllKnown, NewState, EveryoneToldLatest,
           CleanMeansSaved, Connected, Absent
<1>2. IInv /\ EntriesInOrder /\ Current /\ [Next]_vars => Current'
    BY CurrentPreserved
<1>3. QED
    BY <1>1, <1>2, EntriesInvariance, PTL DEF Spec

-----------------------------------------------------------------------------
(* Theorems about entries, versions and listeners *)

\* Whatever is queued, moved, played or restored, two entries of the queue
\* never share an id, and what plays is not queued as well.
THEOREM QueueOrder == Spec => []QueueOk
<1>1. EntriesInOrder => QueueOk
    BY DEF EntriesInOrder, QueueOk
<1>2. QED
    BY <1>1, EntriesInvariance, PTL

\* No step but a restart changes the queue or the context and keeps the
\* version phones compare: also entries dropped on the way to the next track.
THEOREM PartsAreVersioned == Spec => PartVersionsCoverChanges
<1>1. ASSUME IInv, EntriesInOrder, [Next]_vars
      PROVE  [/\ st'.queue # st.queue => st'.queueVersion > st.queueVersion \/ Restart
              /\ <<st'.tracks, st'.order>> # <<st.tracks, st.order>>
                   => st'.contextVersion > st.contextVersion \/ Restart]_vars
    BY <1>1, NextOrderly DEF Orderly, ListsKept, Save
<1>2. QED
    BY <1>1, EntriesInvariance, PTL DEF Spec, PartVersionsCoverChanges

\* Shuffling changes the order of what comes, not what plays.
THEOREM ShuffleIsSmooth == Spec => ShuffleKeepsTrack
<1>1. ASSUME IInv, EntriesInOrder, [Next]_vars
      PROVE  [st'.shuffle # st.shuffle /\ ~Overdue(st, now) /\ ~Restart
                => /\ CurrentTrack(st') = CurrentTrack(st)
                   /\ st'.playback.trackID = st.playback.trackID]_vars
    BY <1>1, NextOrderly DEF Orderly, KeepsTrack, Save
<1>2. QED
    BY <1>1, EntriesInvariance, PTL DEF Spec, ShuffleKeepsTrack

\* As long as scans find the same tracks, a phone that drops states that are
\* not newer misses nothing: whatever it sees changes with the version.
THEOREM ChangesAreVersioned ==
    ASSUME NoneLost
    PROVE  Spec => VersionCoversChanges
<1>1. ASSUME IInv, EntriesInOrder, Current, [Next]_vars
      PROVE  [Visible(st') # Visible(st) => st'.version > st.version \/ Restart]_vars
    BY <1>1, NextOrderly DEF Orderly, Announced, Silent, Save, Current, QueuesKnown
<1>2. QED
    BY <1>1, CurrentInvariance, PTL DEF Spec, VersionCoversChanges

\* As long as scans find the same tracks, no handler changes what listeners
\* see without telling all of them, whoever joined or left meanwhile.
THEOREM EveryoneIsTold ==
    ASSUME NoneLost
    PROVE  Spec => []EveryoneToldLatest
<1>1. Current => EveryoneToldLatest
    BY DEF Current
<1>2. QED
    BY <1>1, CurrentInvariance, PTL

\* As long as scans find the same tracks, what the save loop takes for saved
\* is: a crash with nothing left to save costs nothing but a hold.
THEOREM CleanIsSaved ==
    ASSUME NoneLost
    PROVE  Spec => []CleanMeansSaved
<1>1. Current => CleanMeansSaved
    BY DEF Current
<1>2. QED
    BY <1>1, CurrentInvariance, PTL

\* Without restarts, which may bring back the length of an earlier scan, the
\* track that plays has the length the last scan found, once the room heard.
THEOREM LengthFollowsScans ==
    ASSUME ~Restarts
    PROVE  Spec => []DurationFollowsCatalog
<1>1. Init => DurationFollowsCatalog
    BY ParametersAssumption, NoTrackAssumption
    DEF Init, DurationFollowsCatalog, NewState, Known, IsCatalog
<1>2. IInv /\ EntriesInOrder /\ DurationFollowsCatalog /\ [Next]_vars
          => DurationFollowsCatalog'
    BY NextOrderly DEF LengthKept, Save, Restart
<1>3. QED
    BY <1>1, <1>2, EntriesInvariance, PTL DEF Spec

-----------------------------------------------------------------------------
(* Looking now and later *)

\* No track of any scan is known to be shorter than d, and so many of them as
\* catching up passes over at once outlast the clock.
TracksLast(d) ==
    /\ \A cat \in CatalogVersions : AllLast(cat, d)
    /\ MaxAdvanceSteps * d > MaxTime + 2

\* What plays, here and in the store, has a length some scan found.
LengthsKnown(d) == Lasts(st, d) /\ Lasts(saved, d)

LEMMA LengthsPreserved ==
    ASSUME NEW d \in Nat, TracksLast(d), IInv, EntriesInOrder, LengthsKnown(d), [Next]_vars
    PROVE  LengthsKnown(d)'
<1>1. AllLast(catalog, d)
    BY RestIsOk DEF RestOk, TracksLast, IInv, GoodStates, TypeOK
<1>2. CASE Orderly /\ LengthKept
    BY <1>1, <1>2, SameLengthLasts DEF Orderly, LengthKept, PlaysOn, LengthsKnown
<1>3. CASE Save
    BY <1>3 DEF Save, LengthsKnown
<1>4. CASE Restart
    <2>1. SameLength(saved, st', catalog) /\ saved' = saved
        BY <1>4, RestartedState
    <2>2. QED
        BY <1>1, <2>1, SameLengthLasts DEF LengthsKnown
<1>5. QED
    BY <1>2, <1>3, <1>4, NextOrderly

\* Nothing but a start is held.
HeldFromTop == FromTop(st)

LEMMA HeldFromTopPreserved ==
    ASSUME IInv, EntriesInOrder, HeldFromTop, [Next]_vars
    PROVE  HeldFromTop'
<1>1. CASE Orderly /\ LengthKept
    BY <1>1 DEF LengthKept, PlaysOn, HeldFromTop
<1>2. CASE Save
    BY <1>2 DEF Save, HeldFromTop
<1>3. CASE Restart
    BY <1>3, RestartedState DEF HeldFromTop
<1>4. QED
    BY <1>1, <1>2, <1>3, NextOrderly

\* The clock does not pass MaxTime.
ClockIsBounded == now <= MaxTime

LEMMA ClockBounded ==
    ASSUME IInv, ClockIsBounded, [Next]_vars
    PROVE  ClockIsBounded'
<1>1. now \in Nat /\ MaxTime \in Nat
    BY GoodState, ParametersAssumption DEF IInv
<1>2. CASE Event \/ Tick
    <2>1. now' = now
        BY <1>2 DEF Event, ClientEvent, Tick, Save, LibraryChanged, EndedCommand, Handle,
            Join, Leave, Status, PlayCommand, PauseCommand, SeekCommand, NextCommand,
            PrevCommand, PlayContextCommand, JumpCommand, PlayEntryCommand, QueueAddCommand,
            QueueRemoveCommand, QueueMoveCommand, QueueClearCommand, ShuffleCommand,
            RepeatCommand, WaitForAllCommand, Command
    <2>2. QED
        BY <2>1 DEF ClockIsBounded
<1>3. CASE Restart
    BY <1>1, <1>3 DEF Restart, ClockIsBounded
<1>4. CASE Elapse
    BY <1>1, <1>4 DEF Elapse, ClockIsBounded
<1>5. CASE Rescan \/ (\E c \in Clients : ReportEnd(c)) \/ UNCHANGED vars
    BY <1>5 DEF Rescan, ReportEnd, vars, ClockIsBounded
<1>6. QED
    BY <1>2, <1>3, <1>4, <1>5 DEF Next

\* As long as no call has to stop at the limit of tracks it may pass over,
\* catching up now and again later comes to the same as catching up later:
\* phones that look at different times agree.
THEOREM CatchingUpIsConfluent ==
    ASSUME NEW d \in Nat, TracksLast(d)
    PROVE  Spec => []CatchUpIsConfluent
<1>1. Init => LengthsKnown(d)
    BY DEF Init, LengthsKnown, Lasts, NewState
<1>2. IInv /\ EntriesInOrder /\ LengthsKnown(d) /\ [Next]_vars => LengthsKnown(d)'
    BY LengthsPreserved
<1>3. IInv /\ LengthsKnown(d) => CatchUpIsConfluent
    <2> SUFFICES ASSUME IInv, LengthsKnown(d), NEW later \in now..(MaxTime + 2)
                 PROVE  Normalize(Normalize(st, now, catalog), later, catalog)
                            = Normalize(st, later, catalog)
        BY DEF CatchUpIsConfluent
    <2>1. Good(st) /\ now \in Nat /\ IsCatalog(catalog) /\ MaxTime \in Nat
        BY GoodState, ParametersAssumption DEF IInv
    <2>2. later \in Nat /\ now <= later /\ MaxAdvanceSteps * d > later
        <3>1. MaxAdvanceSteps * d \in Nat /\ MaxAdvanceSteps * d > MaxTime + 2
            BY StepsAssumption DEF TracksLast
        <3>2. QED
            BY <2>1, <3>1
    <2>3. Lasts(st, d) /\ AllLast(catalog, d)
        BY RestIsOk DEF LengthsKnown, TracksLast, IInv, GoodStates, TypeOK
    <2>4. ~Overdue(Normalize(st, later, catalog), later)
        BY <2>1, <2>2, <2>3, CatchUpCompletes
    <2>5. QED
        BY <2>1, <2>2, <2>4, CatchUpTwice
<1>4. QED
    BY <1>1, <1>2, <1>3, EntriesInvariance, PTL DEF Spec

\* A track whose beginning is at a or later has not ended before a, and one
\* that is known to have any length not at a either.
LEMMA StartIsNotDue ==
    ASSUME NEW p \in Playbacks, NEW n \in Nat, p.anchorMs >= n,
           p.anchorMs > n \/ p.positionMs = 0, HasEnd(p)
    PROVE  EndsAt(p) > n
<1>1. /\ p.anchorMs \in Nat /\ p.durationMs \in Nat /\ p.positionMs \in Nat /\ p.durationMs > 0
      /\ p.durationMs - p.positionMs \in Int
    BY DEF Playbacks, HasEnd
<1>2. EndsAt(p) = p.anchorMs + (IF 0 >= p.durationMs - p.positionMs THEN 0
                                ELSE p.durationMs - p.positionMs)
    BY <1>1, MaxOfTwo DEF EndsAt
<1>3. QED
    BY <1>1, <1>2

\* Evaluating the hold of a track that has not ended leaves nothing due.
LEMMA CheckHoldLeavesNothingDue ==
    ASSUME NEW s, Good(s), NEW n \in Nat, NEW allReady \in BOOLEAN, ~Overdue(s, n), FromTop(s)
    PROVE  \A due \in Deadlines(CheckHold(s, n, allReady)) : due > n
<1> DEFINE t == CheckHold(s, n, allReady)
<1>1. Good(t) /\ Standing(t, n)
    BY CheckHoldGood
<1>2. /\ s.playback \in Playbacks /\ s.playback.anchorMs \in Nat
      /\ HoldMarginMs \in Nat /\ HoldExtendMs \in Nat /\ ResumeDelayMs \in Nat
      /\ HoldMarginMs < HoldExtendMs
    BY TimingAssumption DEF Good, States, Playbacks
<1>3. HasEnd(t.playback) => EndsAt(t.playback) > n
    <2>1. CASE t.playback = s.playback
        <3>1. EndsAt(s.playback) \in Nat
            BY <1>2, EndsAtIsLater
        <3>2. QED
            BY <2>1, <3>1 DEF Overdue
    <2>2. CASE t = ReleaseHold(s, n) /\ Holding(s) /\ t.playback # s.playback
        <3> DEFINE p == [s.playback EXCEPT !.anchorMs = n + ResumeDelayMs]
        <3>1. s.playback.positionMs = 0
            BY <2>2 DEF FromTop
        <3>2. EndHold(s).playback = s.playback
            BY DEF EndHold, Good, States
        <3>3. Good(EndHold(s))
            BY EndHoldGood
        <3>4. t.playback = [s.playback EXCEPT !.anchorMs =
                               IF @ < n + HoldMarginMs THEN n + ResumeDelayMs ELSE @]
            BY <2>2, <3>2, <3>3 DEF ReleaseHold, Good, States, Playbacks
        <3>5. t.playback = p
            BY <1>2, <2>2, <3>4 DEF Playbacks
        <3>6. p.positionMs = 0 /\ p.anchorMs = n + ResumeDelayMs
            BY <1>2, <3>1 DEF Playbacks
        <3> HIDE DEF p, t
        <3>7. t.playback \in Playbacks
            BY <1>1 DEF Good, States
        <3>8. p.anchorMs >= n
            BY <1>2, <3>6
        <3>9. QED
            BY <3>5, <3>6, <3>7, <3>8, StartIsNotDue
    <2>3. CASE t = PostponeStart(s, n)
        <3>1. t.playback = [s.playback EXCEPT !.anchorMs = n + HoldExtendMs, !.positionMs = 0]
            BY <2>3, PostponeStartGood
        <3>2. t.playback.anchorMs = n + HoldExtendMs
            BY <1>2, <3>1 DEF Playbacks
        <3> HIDE DEF t
        <3>3. t.playback \in Playbacks /\ t.playback.anchorMs > n /\ t.playback.anchorMs >= n
            BY <1>1, <1>2, <3>2 DEF Good, States
        <3>4. QED
            BY <3>3, StartIsNotDue
    <2>4. EndHold(s).playback = s.playback
        BY DEF EndHold, Good, States
    <2>5. \/ t = s
          \/ t = EndHold(s)
          \/ t = ReleaseHold(s, n) /\ Holding(s)
          \/ t = PostponeStart(s, n)
        BY DEF CheckHold
    <2> HIDE DEF t
    <2>6. QED
        BY <2>1, <2>2, <2>3, <2>4, <2>5
<1> HIDE DEF t
<1>4. Holding(t) => NextHoldCheck(t) > n
    <2> SUFFICES ASSUME Holding(t) PROVE NextHoldCheck(t) > n
        OBVIOUS
    <2>1. n < t.hold.untilMs /\ t.playback.anchorMs - n > HoldMarginMs
        BY <1>1 DEF Standing
    <2>2. t.playback.anchorMs \in Nat
        BY <1>1 DEF Good, States, Playbacks
    <2>3. QED
        BY <1>1, <1>2, <2>1, <2>2, HoldCheckBounds
<1>5. QED
    BY <1>3, <1>4 DEF Deadlines, t

\* After a tick of the timer nothing is due: the actor does not spin.
THEOREM TicksSettleEverything ==
    ASSUME NEW d \in Nat, TracksLast(d)
    PROVE  Spec => TickLeavesNothingDue
<1>1. Init => LengthsKnown(d) /\ HeldFromTop /\ ClockIsBounded
    BY ParametersAssumption
    DEF Init, LengthsKnown, Lasts, NewState, HeldFromTop, FromTop, ClockIsBounded
<1>2. IInv /\ EntriesInOrder /\ LengthsKnown(d) /\ [Next]_vars => LengthsKnown(d)'
    BY LengthsPreserved
<1>3. IInv /\ EntriesInOrder /\ HeldFromTop /\ [Next]_vars => HeldFromTop'
    BY HeldFromTopPreserved
<1>4. IInv /\ ClockIsBounded /\ [Next]_vars => ClockIsBounded'
    BY ClockBounded
<1>5. ASSUME IInv, EntriesInOrder, LengthsKnown(d), HeldFromTop, ClockIsBounded, [Next]_vars
      PROVE  [(\E due \in Deadlines(st') : due <= now) => ~Tick]_vars
    <2> SUFFICES ASSUME Tick
                 PROVE  ~ \E due \in Deadlines(st') : due <= now
        OBVIOUS
    <2> DEFINE ready == AllReady(member', Settled)
    <2>1. st' = CheckHold(Settled, now, ready) /\ ready \in BOOLEAN
        BY DEF Tick, CheckHoldAndPublish, Publish, AllReady
    <2>2. Good(st) /\ now \in Nat /\ IsCatalog(catalog) /\ MaxTime \in Nat /\ Good(Settled)
        BY <1>5, GoodState, SettledGood, ParametersAssumption DEF IInv
    <2>3. MaxAdvanceSteps * d > now
        <3>1. MaxAdvanceSteps * d \in Nat /\ MaxAdvanceSteps * d > MaxTime + 2
            BY StepsAssumption DEF TracksLast
        <3>2. QED
            BY <1>5, <2>2, <3>1 DEF ClockIsBounded
    <2>4. Lasts(st, d) /\ AllLast(catalog, d)
        BY <1>5, RestIsOk DEF LengthsKnown, TracksLast, RestOk
    <2>5. ~Overdue(Settled, now)
        <3>1. ~Overdue(Normalize(st, now, catalog), now)
            BY <2>2, <2>3, <2>4, CatchUpCompletes
        <3>2. Good(Normalize(st, now, catalog))
            BY <2>2, NormalizeGood
        <3>3. Overdue(st, now) => Settled.playback = Normalize(st, now, catalog).playback
            BY <3>2 DEF Settled, Settle, Good, States
        <3>4. ~Overdue(st, now) => Settled = st
            BY <1>5, SettledGood
        <3>5. QED
            BY <3>1, <3>3, <3>4 DEF Overdue
    <2>6. FromTop(Settled)
        BY <1>5, SettledVersioned DEF Versioned, PlaysOn, HeldFromTop
    <2> HIDE DEF ready
    <2>7. \A due \in Deadlines(st') : due > now
        BY <2>1, <2>2, <2>5, <2>6, CheckHoldLeavesNothingDue
    <2>8. \A due \in Deadlines(st') : due \in Int
        <3>1. Good(st')
            BY <2>1, <2>2, CheckHoldGood
        <3>2. EndsAt(st'.playback) \in Int
            BY <3>1, EndsAtIsLater DEF Good, States
        <3>3. NextHoldCheck(st') \in Int
            BY <3>1, HoldCheckBounds
        <3>4. QED
            BY <3>2, <3>3 DEF Deadlines
    <2>9. QED
        BY <2>2, <2>7, <2>8
<1>6. QED
    BY <1>1, <1>2, <1>3, <1>4, <1>5, EntriesInvariance, PTL DEF Spec, TickLeavesNothingDue

-----------------------------------------------------------------------------
(* The phone's copy of the timeline *)

\* Durations, ends and starts are those of the server.
LEMMA PhoneDuration ==
    ASSUME NEW cat, IsCatalog(cat), NEW id
    PROVE  /\ Phone!DurationOf(cat, id) = Phone!Undefined <=> ~Known(cat, id)
           /\ Phone!Max({0, Phone!DurationOf(cat, id)}) = DurationMs(cat, id)
<1>1. Phone!DurationOf(cat, id) = IF Known(cat, id) THEN cat[id] ELSE -1
    BY DEF Phone!DurationOf, Phone!Undefined, Known
<1>2. Known(cat, id) => cat[id] \in Nat
    BY DEF Known, IsCatalog
<1>3. \A x \in Int : Phone!Max({0, x}) = IF 0 >= x THEN 0 ELSE x
    BY MaxOfTwo DEF Phone!Max, Max
<1>4. QED
    BY <1>1, <1>2, <1>3 DEF Phone!Undefined, DurationMs

LEMMA PhoneEndsAt ==
    ASSUME NEW p \in Playbacks
    PROVE  /\ Phone!EndsAt(p) = Phone!Undefined <=> ~HasEnd(p)
           /\ HasEnd(p) => Phone!EndsAt(p) = EndsAt(p)
<1>1. p.durationMs \in Nat /\ p.playing \in BOOLEAN
    BY DEF Playbacks
<1>2. Phone!EndsAt(p) = IF HasEnd(p) THEN EndsAt(p) ELSE -1
    BY <1>1 DEF Phone!EndsAt, EndsAt, HasEnd, Phone!Max, Max, Phone!Undefined
<1>3. EndsAt(p) \in Nat
    BY EndsAtIsLater
<1>4. QED
    BY <1>2, <1>3 DEF Phone!Undefined

LEMMA PhoneStartItem ==
    ASSUME NEW s, NEW item, NEW anchor, NEW cat, IsCatalog(cat)
    PROVE  Phone!StartItem(s, item, anchor, cat) = StartItem(s, item, anchor, cat)
BY PhoneDuration DEF Phone!StartItem, StartItem

LEMMA PlaybackFields ==
    ASSUME NEW p \in Playbacks
    PROVE  p = [trackID |-> p.trackID, entryID |-> p.entryID, positionMs |-> p.positionMs,
                anchorMs |-> p.anchorMs, playing |-> p.playing, durationMs |-> p.durationMs]
BY DEF Playbacks

LEMMA StoppedPlayback ==
    ASSUME NEW p \in Playbacks, NEW at \in Nat
    PROVE  LET t == [p EXCEPT !.entryID = 0, !.positionMs = 0, !.anchorMs = at, !.playing = FALSE]
           IN  /\ t \in Playbacks
               /\ t = [trackID |-> p.trackID, entryID |-> 0, positionMs |-> 0,
                       anchorMs |-> at, playing |-> FALSE, durationMs |-> p.durationMs]
<1> DEFINE t == [p EXCEPT !.entryID = 0, !.positionMs = 0, !.anchorMs = at, !.playing = FALSE]
<1>1. /\ t \in Playbacks /\ t.trackID = p.trackID /\ t.durationMs = p.durationMs
      /\ t.entryID = 0 /\ t.positionMs = 0 /\ t.anchorMs = at /\ t.playing = FALSE
    BY DEF Playbacks
<1> HIDE DEF t
<1>2. QED
    BY <1>1, PlaybackFields DEF t

LEMMA ParkedPlayback ==
    ASSUME NEW p \in Playbacks, NEW id \in TrackIds, NEW d \in Nat
    PROVE  [p EXCEPT !.trackID = id, !.durationMs = d]
               = [trackID |-> id, entryID |-> p.entryID, positionMs |-> p.positionMs,
                  anchorMs |-> p.anchorMs, playing |-> p.playing, durationMs |-> d]
<1> DEFINE t == [p EXCEPT !.trackID = id, !.durationMs = d]
<1>1. /\ t \in Playbacks /\ t.trackID = id /\ t.durationMs = d
      /\ t.entryID = p.entryID /\ t.positionMs = p.positionMs
      /\ t.anchorMs = p.anchorMs /\ t.playing = p.playing
    BY DEF Playbacks
<1> HIDE DEF t
<1>2. QED
    BY <1>1, PlaybackFields DEF t

LEMMA PhoneStopAtEnd ==
    ASSUME NEW s, Good(s), NEW at \in Nat, NEW cat, IsCatalog(cat)
    PROVE  Phone!StopAtEnd(s, at, cat) = StopAtEnd(s, at, cat)
<1> DEFINE first == ContextTrack(s, 1)
           stopped == [s.playback EXCEPT !.entryID = 0, !.positionMs = 0, !.anchorMs = at,
                                         !.playing = FALSE]
           d == DurationMs(cat, first)
           Parked(id, l) == [trackID |-> id, entryID |-> 0, positionMs |-> 0, anchorMs |-> at,
                             playing |-> FALSE, durationMs |-> l]
<1>1. Phone!ContextTrack(s, 1) = first
    BY DEF Phone!ContextTrack, ContextTrack
<1>2. Phone!Max({0, Phone!DurationOf(cat, first)}) = d /\ d \in Nat
    BY PhoneDuration, DurationIsNat
<1>3. s.playback \in Playbacks /\ s.order \in Seq(Nat)
    BY DEF Good, States
<1>4. CASE s.order = <<>>
    <2>1. Phone!StopAtEnd(s, at, cat) = [s EXCEPT !.playback = stopped]
        BY <1>4 DEF Phone!StopAtEnd
    <2> DEFINE p == Parked(s.playback.trackID, s.playback.durationMs)
    <2>2. StopAtEnd(s, at, cat) = [s EXCEPT !.contextIndex = s.contextIndex, !.playback = p]
        BY <1>4 DEF StopAtEnd, NoEntry
    <2>3. stopped = p
        BY <1>3, StoppedPlayback
    <2> HIDE DEF stopped, p
    <2>4. QED
        BY <2>1, <2>2, <2>3 DEF Good, States
<1>5. CASE s.order # <<>>
    <2>1. first \in TrackIds
        BY <1>3, <1>5, ContextTrackIsTrack, LenProperties, EmptySeq
    <2>2. Phone!StopAtEnd(s, at, cat)
              = [s EXCEPT !.contextIndex = 1,
                          !.playback = [stopped EXCEPT !.trackID = first, !.durationMs = d]]
        BY <1>1, <1>2, <1>5 DEF Phone!StopAtEnd
    <2>3. StopAtEnd(s, at, cat) = [s EXCEPT !.contextIndex = 1, !.playback = Parked(first, d)]
        BY <1>5 DEF StopAtEnd, NoEntry
    <2> HIDE DEF first, d
    <2>4. stopped \in Playbacks /\ stopped = Parked(s.playback.trackID, s.playback.durationMs)
        BY <1>3, StoppedPlayback
    <2>5. stopped.entryID = 0 /\ stopped.positionMs = 0 /\ stopped.anchorMs = at
          /\ stopped.playing = FALSE
        BY <2>4
    <2>6. [stopped EXCEPT !.trackID = first, !.durationMs = d] = Parked(first, d)
        <3> HIDE DEF stopped
        <3>1. QED
            BY <1>2, <2>1, <2>4, <2>5, ParkedPlayback
    <2> HIDE DEF stopped, Parked
    <2>7. QED
        BY <2>2, <2>3, <2>6
<1>6. QED
    BY <1>4, <1>5

\* Dropping entries one at a time.
LEMMA DropNothing ==
    ASSUME NEW s, Good(s)
    PROVE  DropEntries(s, 0) = s
<1>1. s.queue \in Seq(Entries) /\ s.queueVersion \in Nat /\ Len(s.queue) \in Nat
    BY LenProperties DEF Good, States
<1> DEFINE b == SubSeq(s.queue, 1, Len(s.queue))
<1>2. b \in Seq(Entries) /\ DOMAIN b = 1..Len(s.queue) /\ \A i \in 1..Len(s.queue) : b[i] = s.queue[i]
    BY <1>1, SuffixSeq, 0 \in 0..Len(s.queue)
<1>3. b = s.queue
    BY <1>1, <1>2, LenProperties, SeqEqual
<1>4. DropEntries(s, 0) = [s EXCEPT !.queue = b, !.queueVersion = @ + 0]
    BY DEF DropEntries
<1> HIDE DEF b
<1>5. s.queueVersion + 0 = s.queueVersion
    BY <1>1
<1>6. [s EXCEPT !.queue = s.queue, !.queueVersion = s.queueVersion] = s
    BY DEF Good, States
<1>7. QED
    BY <1>3, <1>4, <1>5, <1>6

LEMMA DropOneMore ==
    ASSUME NEW s, Good(s), NEW k \in 1..Len(s.queue)
    PROVE  LET r == DropEntries(s, k - 1)
           IN  /\ Head(r.queue) = s.queue[k]
               /\ [r EXCEPT !.queue = Tail(@), !.queueVersion = @ + 1] = DropEntries(s, k)
<1> DEFINE n == Len(s.queue)
           a == SubSeq(s.queue, k, n)
           b == SubSeq(s.queue, k + 1, n)
           v == s.queueVersion
<1>1. s.queue \in Seq(Entries) /\ v \in Nat /\ n \in Nat
    BY LenProperties DEF Good, States
<1>2. Head(a) = s.queue[k] /\ Tail(a) = b
    BY <1>1, HeadTailOfSubSeq, n \in k..n
<1>3. k - 1 + 1 = k /\ v + (k - 1) + 1 = v + k
    BY <1>1
<1>4. /\ DropEntries(s, k - 1) = [s EXCEPT !.queue = a, !.queueVersion = v + (k - 1)]
      /\ DropEntries(s, k) = [s EXCEPT !.queue = b, !.queueVersion = v + k]
    BY <1>3 DEF DropEntries
<1> HIDE DEF a, b, n, v
<1>5. QED
    BY <1>2, <1>3, <1>4 DEF Good, States

\* What the loop over the queue has come to after every entry.
QueueLoop(f, s, cat) ==
    f = [k \in 0..Len(s.queue) |-> IF k = 0 THEN Phone!Looking(s)
                                   ELSE Phone!TakeEntry(f[k - 1], cat)]

\* The phone takes the entry from the queue the server takes, and drops those
\* before it; or it drops all.
LEMMA PhoneQueue ==
    ASSUME NEW s, Good(s), NEW cat, IsCatalog(cat)
    PROVE  LET l == Phone!SearchQueue(s, cat)
           IN  IF PlayableEntries(s, cat) # {}
               THEN l.done /\ l.s = FromQueue(s, cat).st /\ l.item = FromQueue(s, cat).item
               ELSE ~l.done /\ l.s = DropEntries(s, Len(s.queue))
<1> DEFINE n == Len(s.queue)
           P == PlayableEntries(s, cat)
           m == IF P = {} THEN n + 1 ELSE Min(P)
           found == [trackID |-> s.queue[m].trackID, entryID |-> s.queue[m].id]
           At(k) == IF k < m THEN Phone!Looking(DropEntries(s, k))
                    ELSE [s |-> DropEntries(s, m), item |-> found, done |-> TRUE]
<1>1. n \in Nat /\ DOMAIN s.queue = 1..n
    BY LenProperties DEF Good, States
<1>2. m \in 1..n + 1 /\ (m <= n <=> P # {})
    <2>1. P # {} => Min(P) \in P
        BY PlayableEntriesMin
    <2>2. P \subseteq 1..n
        BY <1>1 DEF PlayableEntries
    <2>3. P # {} => m \in P
        BY <2>1
    <2> HIDE DEF P, n, m
    <2>4. CASE P # {}
        <3>1. m \in 1..n
            BY <2>2, <2>3, <2>4
        <3> HIDE DEF P
        <3>2. m \in 1..n + 1 /\ m <= n
            BY <1>1, <3>1
        <3>3. QED
            BY <2>4, <3>2
    <2>5. CASE P = {}
        BY <1>1, <2>5 DEF m
    <2>6. QED
        BY <2>4, <2>5
<1>3. \A k \in 1..n : (k < m => k \notin P) /\ (k = m => k \in P)
    <2>1. P \subseteq Nat
        BY <1>1 DEF PlayableEntries
    <2>2. P # {} => Min(P) \in P /\ \A k \in P : Min(P) <= k
        BY <2>1, MinNat
    <2>3. QED
        BY <1>1, <1>2, <2>1, <2>2
<1>4. \A k \in 1..n : k \in P <=> Known(cat, s.queue[k].trackID)
    BY <1>1 DEF PlayableEntries
<1>5. P # {} => FromQueue(s, cat).st = DropEntries(s, m) /\ FromQueue(s, cat).item = found
    BY DEF FromQueue
<1> HIDE DEF n, P, m, found
<1>6. At(0) = Phone!Looking(s)
    BY <1>2, DropNothing
<1>7. ASSUME NEW k \in 1..n
      PROVE  At(k) = Phone!TakeEntry(At(k - 1), cat)
    <2>1. k - 1 \in 0..n /\ (k <= m => k - 1 < m) /\ (k > m => ~(k - 1 < m)) /\ k \in Nat
        BY <1>1, <1>2
    <2> DEFINE r == DropEntries(s, k - 1)
               t == DropEntries(s, k)
    <2>2. Head(r.queue) = s.queue[k]
          /\ [r EXCEPT !.queue = Tail(@), !.queueVersion = @ + 1] = t
        BY DropOneMore DEF n
    <2>3. Phone!DurationOf(cat, s.queue[k].trackID) = Phone!Undefined <=> k \notin P
        BY <1>4, PhoneDuration
    <2> HIDE DEF r, t
    <2>4. CASE k < m
        <3>1. At(k - 1) = Phone!Looking(r) /\ At(k) = Phone!Looking(t)
            BY <1>2, <2>1, <2>4 DEF r, t
        <3> HIDE DEF At
        <3>2. k \notin P
            BY <1>3, <2>4
        <3>3. Phone!TakeEntry(Phone!Looking(r), cat) = Phone!Looking(t)
            BY <2>2, <2>3, <3>2 DEF Phone!TakeEntry, Phone!Looking
        <3>4. QED
            BY <3>1, <3>3
    <2>5. CASE k = m
        <3>1. At(k - 1) = Phone!Looking(r)
              /\ At(k) = [s |-> t, item |-> found, done |-> TRUE]
            BY <2>1, <2>5 DEF r, t
        <3> HIDE DEF At
        <3>2. k \in P
            BY <1>3, <2>5
        <3>3. Phone!TakeEntry(Phone!Looking(r), cat) = [s |-> t, item |-> found, done |-> TRUE]
            BY <2>2, <2>3, <2>5, <3>2 DEF Phone!TakeEntry, Phone!Looking, found
        <3>4. QED
            BY <3>1, <3>3
    <2>6. CASE k > m
        <3>1. At(k - 1) = [s |-> DropEntries(s, m), item |-> found, done |-> TRUE]
              /\ At(k) = [s |-> DropEntries(s, m), item |-> found, done |-> TRUE]
            BY <1>2, <2>1, <2>6
        <3> HIDE DEF At
        <3>2. QED
            BY <3>1 DEF Phone!TakeEntry
    <2>7. QED
        BY <1>2, <2>1, <2>4, <2>5, <2>6
<1> DEFINE a == CHOOSE f : QueueLoop(f, s, cat)
           w == [k \in 0..n |-> At(k)]
<1>8. QueueLoop(w, s, cat)
    <2>1. \A k \in 0..n : At(k) = IF k = 0 THEN Phone!Looking(s) ELSE Phone!TakeEntry(w[k - 1], cat)
        <3> TAKE k \in 0..n
        <3>1. CASE k = 0
            BY <1>6, <3>1
        <3>2. CASE k # 0
            <4>1. k \in 1..n /\ k - 1 \in 0..n
                BY <1>1, <3>2
            <4>2. w[k - 1] = At(k - 1)
                BY <4>1
            <4> HIDE DEF w, At
            <4>3. QED
                BY <1>7, <3>2, <4>1, <4>2
        <3>3. QED
            BY <3>1, <3>2
    <2>2. w = [k \in 0..n |-> IF k = 0 THEN Phone!Looking(s) ELSE Phone!TakeEntry(w[k - 1], cat)]
        BY <2>1
    <2> HIDE DEF w, At
    <2>3. QED
        BY <2>2 DEF QueueLoop, n
<1>9. Phone!SearchQueue(s, cat) = a[n]
    BY DEF Phone!SearchQueue, QueueLoop, n
<1> HIDE DEF w
<1>10. QueueLoop(a, s, cat)
    BY <1>8
<1> HIDE DEF a
<1>11. a[0] = At(0) /\ \A k \in 1..n : a[k] = Phone!TakeEntry(a[k - 1], cat)
    <2>1. \A k \in 0..n : a[k] = IF k = 0 THEN Phone!Looking(s) ELSE Phone!TakeEntry(a[k - 1], cat)
        BY <1>10 DEF QueueLoop, n
    <2> HIDE DEF At
    <2>2. QED
        BY <1>1, <1>6, <2>1
<1> DEFINE T == {k \in Nat : k <= n => a[k] = At(k)}
<1> HIDE DEF At
<1>12. 0 \in T
    BY <1>11
<1>13. \A k \in T : k + 1 \in T
    <2> SUFFICES ASSUME NEW k \in T, k + 1 <= n PROVE a[k + 1] = At(k + 1)
        OBVIOUS
    <2>1. k + 1 \in 1..n /\ k + 1 - 1 = k /\ a[k] = At(k)
        BY <1>1
    <2>2. a[k + 1] = Phone!TakeEntry(a[k], cat) /\ At(k + 1) = Phone!TakeEntry(At(k), cat)
        BY <1>7, <1>11, <2>1
    <2>3. QED
        BY <2>1, <2>2
<1>14. T \subseteq Nat
    OBVIOUS
<1> HIDE DEF T
<1>15. T = Nat
    BY <1>12, <1>13, <1>14, NatInduct
<1>16. Phone!SearchQueue(s, cat) = At(n)
    BY <1>1, <1>9, <1>15 DEF T
<1>17. CASE P # {}
    BY <1>1, <1>2, <1>5, <1>16, <1>17 DEF At, P
<1>18. CASE P = {}
    BY <1>1, <1>2, <1>16, <1>18 DEF At, P, Phone!Looking, n
<1>19. QED
    BY <1>17, <1>18

\* What the walk along the play order has come to after every place.
ContextLoop(f, s, wrap, cat) ==
    f = [k \in 0..Len(s.order) |->
            IF k = 0 THEN [s |-> s, idx |-> s.contextIndex, done |-> FALSE, item |-> Phone!NoItem]
            ELSE Phone!Walk(f[k - 1], wrap, cat)]

\* A walk that has come to place idx without success, the end of one, and a
\* successful one.
Searching(s, idx) == [s |-> s, idx |-> idx, done |-> FALSE, item |-> Phone!NoItem]
Exhausted(s) == [s |-> s, idx |-> Len(s.order), done |-> TRUE, item |-> Phone!NoItem]
Found(s, idx) ==
    [s |-> [s EXCEPT !.contextIndex = idx], idx |-> idx, done |-> TRUE,
     item |-> [trackID |-> ContextTrack(s, idx), entryID |-> 0]]

LEMMA PhoneWalks ==
    ASSUME NEW s, Good(s), NEW cat, IsCatalog(cat), NEW wrap \in BOOLEAN, NEW i \in 0..Len(s.order)
    PROVE  LET n == Len(s.order)
               next == IF i < n THEN i + 1 ELSE 1
           IN  /\ i = n /\ ~wrap => Phone!Walk(Searching(s, i), wrap, cat) = Exhausted(s)
               /\ (i < n \/ wrap) /\ ~Known(cat, ContextTrack(s, next))
                  => Phone!Walk(Searching(s, i), wrap, cat) = Searching(s, next)
               /\ (i < n \/ wrap) /\ Known(cat, ContextTrack(s, next))
                  => Phone!Walk(Searching(s, i), wrap, cat) = Found(s, next)
               /\ Phone!Walk(Exhausted(s), wrap, cat) = Exhausted(s)
               /\ \A j : Phone!Walk(Found(s, j), wrap, cat) = Found(s, j)
<1> DEFINE n == Len(s.order)
           next == IF i < n THEN i + 1 ELSE 1
<1>1. n \in Nat
    BY LenProperties DEF Good, States
<1>2. Phone!Following(i, n) = next /\ (i >= n <=> i = n) /\ (i >= n <=> ~(i < n))
    BY <1>1 DEF Phone!Following
<1>3. Phone!ContextTrack(s, next) = ContextTrack(s, next)
    BY DEF Phone!ContextTrack, ContextTrack
<1>4. Phone!DurationOf(cat, ContextTrack(s, next)) = Phone!Undefined
          <=> ~Known(cat, ContextTrack(s, next))
    BY PhoneDuration
<1> HIDE DEF next
<1>5. i = n /\ ~wrap => Phone!Walk(Searching(s, i), wrap, cat) = Exhausted(s)
    BY <1>2 DEF Phone!Walk, Searching, Exhausted
<1>6. (i < n \/ wrap) /\ ~Known(cat, ContextTrack(s, next))
          => Phone!Walk(Searching(s, i), wrap, cat) = Searching(s, next)
    BY <1>2, <1>3, <1>4 DEF Phone!Walk, Searching
<1>7. (i < n \/ wrap) /\ Known(cat, ContextTrack(s, next))
          => Phone!Walk(Searching(s, i), wrap, cat) = Found(s, next)
    BY <1>2, <1>3, <1>4 DEF Phone!Walk, Searching, Found
<1>8. Phone!Walk(Exhausted(s), wrap, cat) = Exhausted(s)
    BY DEF Phone!Walk, Exhausted
<1>9. \A j : Phone!Walk(Found(s, j), wrap, cat) = Found(s, j)
    BY DEF Phone!Walk, Found
<1>10. QED
    BY <1>5, <1>6, <1>7, <1>8, <1>9 DEF next

LEMMA PhoneContext ==
    ASSUME NEW s, Good(s), NEW cat, IsCatalog(cat), NEW wrap \in BOOLEAN
    PROVE  LET l == Phone!SearchContext(s, wrap, cat)
           IN  IF PlayableSteps(s, wrap, cat) # {}
               THEN /\ l.s = FromContext(s, wrap, cat).st
                    /\ l.item = FromContext(s, wrap, cat).item
               ELSE l.s = s /\ l.item = NoItem
<1> DEFINE n == Len(s.order)
           c == s.contextIndex
           K == PlayableSteps(s, wrap, cat)
           m == IF K = {} THEN n + 1 ELSE Min(K)
           Place(k) == ContextPosition(s, k)
           At(k) == IF k >= m THEN Found(s, Place(m))
                    ELSE IF ~wrap /\ c + k > n THEN Exhausted(s)
                    ELSE Searching(s, Place(k))
<1>1. n \in Nat /\ c \in Nat /\ c <= n
    BY LenProperties DEF Good, States, OrderOk
<1>2. K \subseteq 1..n /\ (K # {} => Min(K) \in K /\ \A k \in K : Min(K) <= k)
    <2>1. K \subseteq 1..n
        BY DEF PlayableSteps
    <2>2. K \subseteq Nat
        BY <1>1, <2>1
    <2>3. QED
        BY <2>1, <2>2, MinNat
<1>3. \A k \in 1..n : k \in K <=> (wrap \/ c + k <= n) /\ Known(cat, ContextTrack(s, Place(k)))
    BY DEF PlayableSteps
<1>4. K # {} => /\ FromContext(s, wrap, cat).st = [s EXCEPT !.contextIndex = Place(m)]
                /\ FromContext(s, wrap, cat).item
                       = [trackID |-> ContextTrack(s, Place(m)), entryID |-> 0]
    BY DEF FromContext, NoEntry
<1>5. \A k \in 0..n : Place(k) = IF c + k <= n THEN c + k ELSE c + k - n
    BY <1>1 DEF ContextPosition
<1> HIDE DEF n, c, K, Place
<1>6. m \in 1..n + 1 /\ (m <= n <=> K # {}) /\ (K # {} => m \in K)
    <2>1. CASE K # {}
        <3>1. m \in K /\ m \in 1..n
            BY <1>2, <2>1
        <3> HIDE DEF m
        <3>2. m \in 1..n + 1 /\ m <= n
            BY <1>1, <3>1
        <3>3. QED
            BY <2>1, <3>1, <3>2
    <2>2. CASE K = {}
        BY <1>1, <2>2
    <2>3. QED
        BY <2>1, <2>2
<1>7. \A k \in K : m <= k
    BY <1>2
<1> HIDE DEF m
<1>8. At(0) = Searching(s, c)
    BY <1>1, <1>5, <1>6
<1>9. ASSUME NEW k \in 1..n
      PROVE  At(k) = Phone!Walk(At(k - 1), wrap, cat)
    <2>1. k \in Nat /\ k - 1 \in 0..n /\ k \in 0..n /\ m \in Nat
        BY <1>1, <1>6
    <2> DEFINE i == Place(k - 1)
    <2>2. /\ i \in 0..n
          /\ Place(k) = IF i < n THEN i + 1 ELSE 1
          /\ wrap \/ c + k <= n => i < n \/ wrap
          /\ c + (k - 1) = n => i = n
        <3>1. i = IF c + (k - 1) <= n THEN c + (k - 1) ELSE c + (k - 1) - n
            BY <1>5, <2>1
        <3>2. Place(k) = IF c + k <= n THEN c + k ELSE c + k - n
            BY <1>5, <2>1
        <3> HIDE DEF i
        <3>3. QED
            BY <1>1, <2>1, <3>1, <3>2
    <2> HIDE DEF i
    <2>3. /\ i = n /\ ~wrap => Phone!Walk(Searching(s, i), wrap, cat) = Exhausted(s)
          /\ (i < n \/ wrap) /\ ~Known(cat, ContextTrack(s, Place(k)))
             => Phone!Walk(Searching(s, i), wrap, cat) = Searching(s, Place(k))
          /\ (i < n \/ wrap) /\ Known(cat, ContextTrack(s, Place(k)))
             => Phone!Walk(Searching(s, i), wrap, cat) = Found(s, Place(k))
          /\ Phone!Walk(Exhausted(s), wrap, cat) = Exhausted(s)
          /\ \A j : Phone!Walk(Found(s, j), wrap, cat) = Found(s, j)
        BY <2>2, PhoneWalks DEF n
    <2>4. k >= m \/ (~wrap /\ c + k > n) \/ (k < m /\ (wrap \/ c + k <= n))
        BY <1>1, <2>1
    <2>5. CASE k - 1 >= m
        <3>1. k >= m
            BY <2>1, <2>5
        <3>2. QED
            BY <2>3, <2>5, <3>1
    <2>6. CASE k = m
        <3>1. k \in K /\ ~(k - 1 >= m) /\ k >= m
            BY <1>1, <1>6, <2>1, <2>6
        <3>2. (wrap \/ c + k <= n) /\ Known(cat, ContextTrack(s, Place(k)))
            BY <1>3, <3>1
        <3>3. ~(~wrap /\ c + (k - 1) > n)
            BY <1>1, <2>1, <3>2
        <3>4. At(k - 1) = Searching(s, i)
            BY <3>1, <3>3 DEF i
        <3>5. At(k) = Found(s, Place(k))
            BY <2>6, <3>1
        <3> HIDE DEF At
        <3>6. QED
            BY <2>2, <2>3, <3>2, <3>4, <3>5
    <2>7. CASE k < m /\ (wrap \/ c + k <= n)
        <3>1. k \notin K /\ ~(k - 1 >= m) /\ ~(k >= m)
            BY <1>7, <2>1, <2>7
        <3>2. ~(~wrap /\ c + (k - 1) > n) /\ ~(~wrap /\ c + k > n)
            BY <1>1, <2>1, <2>7
        <3>3. ~Known(cat, ContextTrack(s, Place(k)))
            BY <1>3, <2>7, <3>1
        <3>4. At(k - 1) = Searching(s, i)
            BY <3>1, <3>2 DEF i
        <3>5. At(k) = Searching(s, Place(k))
            BY <3>1, <3>2
        <3> HIDE DEF At
        <3>6. QED
            BY <2>2, <2>3, <2>7, <3>3, <3>4, <3>5
    <2>8. CASE k < m /\ ~wrap /\ c + k > n
        <3>1. ~(k - 1 >= m) /\ ~(k >= m)
            BY <2>1, <2>8
        <3>2. At(k) = Exhausted(s)
            BY <2>8, <3>1
        <3>3. CASE c + (k - 1) > n
            <4>1. At(k - 1) = Exhausted(s)
                BY <2>8, <3>1, <3>3
            <4> HIDE DEF At
            <4>2. QED
                BY <2>3, <3>2, <4>1
        <3>4. CASE ~(c + (k - 1) > n)
            <4>1. At(k - 1) = Searching(s, i)
                BY <3>1, <3>4 DEF i
            <4>2. c + (k - 1) = n
                BY <1>1, <2>1, <2>8, <3>4
            <4> HIDE DEF At
            <4>3. QED
                BY <2>2, <2>3, <2>8, <3>2, <4>1, <4>2
        <3>5. QED
            BY <3>3, <3>4
    <2>9. QED
        BY <1>1, <2>1, <2>4, <2>5, <2>6, <2>7, <2>8
<1> DEFINE a == CHOOSE f : ContextLoop(f, s, wrap, cat)
           w == [k \in 0..n |-> At(k)]
<1>10. ContextLoop(w, s, wrap, cat)
    <2>1. \A k \in 0..n : At(k) = IF k = 0 THEN Searching(s, c)
                                  ELSE Phone!Walk(w[k - 1], wrap, cat)
        <3> TAKE k \in 0..n
        <3>1. CASE k = 0
            BY <1>8, <3>1
        <3>2. CASE k # 0
            <4>1. k \in 1..n /\ k - 1 \in 0..n
                BY <1>1, <3>2
            <4>2. w[k - 1] = At(k - 1)
                BY <4>1
            <4> HIDE DEF w, At
            <4>3. QED
                BY <1>9, <3>2, <4>1, <4>2
        <3>3. QED
            BY <3>1, <3>2
    <2>2. w = [k \in 0..n |-> IF k = 0 THEN Searching(s, c)
                              ELSE Phone!Walk(w[k - 1], wrap, cat)]
        BY <2>1
    <2> HIDE DEF w, At
    <2>3. QED
        BY <2>2 DEF ContextLoop, Searching, n, c
<1>11. Phone!SearchContext(s, wrap, cat) = a[n]
    BY DEF Phone!SearchContext, ContextLoop, n
<1> HIDE DEF w
<1>12. ContextLoop(a, s, wrap, cat)
    BY <1>10
<1> HIDE DEF a
<1>13. a[0] = At(0) /\ \A k \in 1..n : a[k] = Phone!Walk(a[k - 1], wrap, cat)
    <2>1. \A k \in 0..n : a[k] = IF k = 0 THEN Searching(s, c)
                                 ELSE Phone!Walk(a[k - 1], wrap, cat)
        BY <1>12 DEF ContextLoop, Searching, n, c
    <2> HIDE DEF At
    <2>2. QED
        BY <1>1, <1>8, <2>1
<1> DEFINE T == {k \in Nat : k <= n => a[k] = At(k)}
<1> HIDE DEF At
<1>14. 0 \in T
    BY <1>13
<1>15. \A k \in T : k + 1 \in T
    <2> SUFFICES ASSUME NEW k \in T, k + 1 <= n PROVE a[k + 1] = At(k + 1)
        OBVIOUS
    <2>1. k + 1 \in 1..n /\ k + 1 - 1 = k /\ a[k] = At(k)
        BY <1>1
    <2>2. a[k + 1] = Phone!Walk(a[k], wrap, cat) /\ At(k + 1) = Phone!Walk(At(k), wrap, cat)
        BY <1>9, <1>13, <2>1
    <2>3. QED
        BY <2>1, <2>2
<1>16. T \subseteq Nat
    OBVIOUS
<1> HIDE DEF T
<1>17. T = Nat
    BY <1>14, <1>15, <1>16, NatInduct
<1>18. Phone!SearchContext(s, wrap, cat) = At(n)
    BY <1>1, <1>11, <1>17 DEF T
<1>19. CASE K # {}
    <2>1. At(n) = Found(s, Place(m))
        BY <1>1, <1>6, <1>19 DEF At
    <2>2. QED
        BY <1>4, <1>18, <1>19, <2>1 DEF Found, K
<1>20. CASE K = {}
    <2>1. At(n) = Exhausted(s) \/ At(n) = Searching(s, Place(n))
        BY <1>1, <1>6, <1>20 DEF At
    <2>2. At(n).s = s /\ At(n).item = NoItem
        BY <2>1 DEF Exhausted, Searching, NoItem, Phone!NoItem, NoEntry
    <2>3. QED
        BY <1>18, <1>20, <2>2 DEF K
<1>21. QED
    BY <1>19, <1>20

LEMMA PhoneTakeNext ==
    ASSUME NEW s, Good(s), NEW cat, IsCatalog(cat), NEW wrap \in BOOLEAN
    PROVE  /\ Phone!TakeNext(s, wrap, cat).s = TakeNext(s, wrap, cat).st
           /\ Phone!TakeNext(s, wrap, cat).item = TakeNext(s, wrap, cat).item
<1> DEFINE drained == DropEntries(s, Len(s.queue))
           queued == Phone!SearchQueue(s, cat)
<1>1. IF PlayableEntries(s, cat) # {}
      THEN queued.done /\ queued.s = FromQueue(s, cat).st /\ queued.item = FromQueue(s, cat).item
      ELSE ~queued.done /\ queued.s = drained
    BY PhoneQueue
<1>2. Phone!TakeNext(s, wrap, cat) = IF queued.done THEN queued
                                     ELSE Phone!SearchContext(queued.s, wrap, cat)
    BY DEF Phone!TakeNext
<1>3. CASE PlayableEntries(s, cat) # {}
    <2> HIDE DEF queued
    <2>1. QED
        BY <1>1, <1>2, <1>3 DEF TakeNext
<1>4. CASE PlayableEntries(s, cat) = {}
    <2>1. Good(drained)
        BY DropEntriesGood, LenProperties DEF Good, States
    <2>2. PlayableSteps(drained, wrap, cat) = PlayableSteps(s, wrap, cat)
        BY DEF PlayableSteps, ContextPosition, ContextTrack, DropEntries, Good, States
    <2>3. TakeNext(s, wrap, cat) = IF PlayableSteps(s, wrap, cat) # {}
                                   THEN FromContext(drained, wrap, cat)
                                   ELSE [item |-> NoItem, st |-> drained]
        BY <1>4 DEF TakeNext
    <2> HIDE DEF queued, drained
    <2>4. Phone!TakeNext(s, wrap, cat) = Phone!SearchContext(drained, wrap, cat)
        BY <1>1, <1>2, <1>4
    <2>5. QED
        BY <2>1, <2>2, <2>3, <2>4, PhoneContext
<1>5. QED
    BY <1>3, <1>4

\* When a track ends the phone moves on to the state the server moves on to.
LEMMA PhoneAdvanceAuto ==
    ASSUME NEW s, Good(s), NEW at \in Nat, NEW cat, IsCatalog(cat)
    PROVE  Phone!AdvanceAuto(s, at, cat) = AdvanceAuto(s, at, cat)
<1> DEFINE wrap == s.repeat = "all"
           theirs == Phone!TakeNext(s, wrap, cat)
           taken == TakeNext(s, wrap, cat)
<1>1. wrap \in BOOLEAN
    OBVIOUS
<1>2. Phone!AdvanceAuto(s, at, cat) =
          IF s.repeat = "one" THEN [s EXCEPT !.playback.positionMs = 0, !.playback.anchorMs = at]
          ELSE IF theirs.item = Phone!NoItem THEN Phone!StopAtEnd(theirs.s, at, cat)
          ELSE Phone!StartItem(theirs.s, theirs.item, at, cat)
    BY DEF Phone!AdvanceAuto
<1>3. AdvanceAuto(s, at, cat) =
          IF s.repeat = "one" THEN [s EXCEPT !.playback.positionMs = 0, !.playback.anchorMs = at]
          ELSE IF taken.item = NoItem THEN StopAtEnd(taken.st, at, cat)
          ELSE StartItem(taken.st, taken.item, at, cat)
    BY DEF AdvanceAuto
<1> HIDE DEF wrap
<1>4. theirs.s = taken.st /\ theirs.item = taken.item /\ Good(taken.st)
    BY <1>1, PhoneTakeNext, TakeNextGood
<1>5. Phone!NoItem = NoItem
    BY DEF Phone!NoItem, NoItem, NoEntry
<1> HIDE DEF theirs, taken
<1>6. QED
    BY <1>2, <1>3, <1>4, <1>5, PhoneStopAtEnd, PhoneStartItem

LEMMA PhoneCatchUp ==
    ASSUME NEW s, Good(s), NEW n \in Nat, NEW cat, IsCatalog(cat)
    PROVE  Phone!CatchUp(s, n, cat) = CatchUp(s, n, cat)
<1>1. s.playback \in Playbacks
    BY DEF Good, States
<1>2. /\ Phone!EndsAt(s.playback) = Phone!Undefined <=> ~HasEnd(s.playback)
      /\ HasEnd(s.playback) => Phone!EndsAt(s.playback) = EndsAt(s.playback)
      /\ EndsAt(s.playback) \in Nat
    BY <1>1, PhoneEndsAt, EndsAtIsLater
<1>3. Phone!AdvanceAuto(s, EndsAt(s.playback), cat) = AdvanceAuto(s, EndsAt(s.playback), cat)
    BY <1>2, PhoneAdvanceAuto
<1>4. CASE ~HasEnd(s.playback)
    BY <1>2, <1>4 DEF Phone!CatchUp, CatchUp, Overdue
<1>5. CASE HasEnd(s.playback)
    <2>1. n < EndsAt(s.playback) <=> ~(n >= EndsAt(s.playback))
        BY <1>2
    <2>2. QED
        BY <1>2, <1>3, <1>5, <2>1 DEF Phone!CatchUp, CatchUp, Overdue
<1>6. QED
    BY <1>4, <1>5

PhoneLoop(f, s, n, cat) ==
    f = [k \in 0..MaxAdvanceSteps |-> IF k = 0 THEN s ELSE Phone!CatchUp(f[k - 1], n, cat)]

\* However long it hears nothing, a phone is where the server is.
LEMMA PhoneNormalize ==
    ASSUME NEW s, Good(s), NEW n \in Nat, NEW cat, IsCatalog(cat)
    PROVE  Phone!Normalize(s, n, cat) = Normalize(s, n, cat)
<1> DEFINE w == Iterated(s, n, cat)
           M == MaxAdvanceSteps
           a == CHOOSE f : PhoneLoop(f, s, n, cat)
<1>1. M \in Nat
    BY StepsAssumption
<1>2. w[0] = s /\ \A k \in 0..M - 1 : w[k + 1] = CatchUp(w[k], n, cat)
    BY Iteration
<1>3. \A k \in 0..M : Good(w[k])
    <2> DEFINE S == {x \in States : OrderOk(x)}
    <2>1. s \in S /\ \A x \in S : CatchUp(x, n, cat) \in S
        BY CatchUpGood DEF Good
    <2> HIDE DEF S
    <2>2. \A k \in 0..M : w[k] \in S
        BY <2>1, IteratedStays
    <2>3. QED
        BY <2>2 DEF S, Good
<1>4. w = [k \in 0..M |-> w[k]]
    <2>1. w = CHOOSE f : Loop(f, s, n, cat, M)
        BY DEF Iterated, Loop
    <2>2. \E f : Loop(f, s, n, cat, M)
        BY <1>1, IterationExists
    <2> HIDE DEF w
    <2>3. Loop(w, s, n, cat, M)
        BY <2>1, <2>2
    <2>4. QED
        BY <2>3 DEF Loop
<1> HIDE DEF w
<1>5. ASSUME NEW k \in 1..M
      PROVE  w[k] = Phone!CatchUp(w[k - 1], n, cat)
    <2>1. k - 1 \in 0..M - 1 /\ k - 1 \in 0..M /\ k - 1 + 1 = k
        BY <1>1
    <2>2. QED
        BY <1>2, <1>3, <2>1, PhoneCatchUp
<1>6. PhoneLoop(w, s, n, cat)
    <2>1. \A k \in 0..M : w[k] = IF k = 0 THEN s ELSE Phone!CatchUp(w[k - 1], n, cat)
        BY <1>1, <1>2, <1>5
    <2>2. QED
        BY <1>4, <2>1 DEF PhoneLoop
<1>7. Phone!Normalize(s, n, cat) = a[M]
    BY DEF Phone!Normalize, PhoneLoop
<1>8. PhoneLoop(a, s, n, cat)
    BY <1>6
<1> HIDE DEF a
<1>9. a[0] = w[0] /\ \A k \in 1..M : a[k] = Phone!CatchUp(a[k - 1], n, cat)
    <2>1. \A k \in 0..M : a[k] = IF k = 0 THEN s ELSE Phone!CatchUp(a[k - 1], n, cat)
        BY <1>8 DEF PhoneLoop
    <2>2. QED
        BY <1>1, <1>2, <2>1
<1> DEFINE T == {k \in Nat : k <= M => a[k] = w[k]}
<1>10. 0 \in T
    BY <1>9
<1>11. \A k \in T : k + 1 \in T
    <2> SUFFICES ASSUME NEW k \in T, k + 1 <= M PROVE a[k + 1] = w[k + 1]
        OBVIOUS
    <2>1. k + 1 \in 1..M /\ k + 1 - 1 = k /\ a[k] = w[k]
        BY <1>1
    <2>2. QED
        BY <1>5, <1>9, <2>1
<1>12. T \subseteq Nat
    OBVIOUS
<1> HIDE DEF T
<1>13. T = Nat
    BY <1>10, <1>11, <1>12, NatInduct
<1>14. a[M] = w[M]
    BY <1>1, <1>13 DEF T
<1>15. QED
    BY <1>7, <1>14 DEF Normalize, w

-----------------------------------------------------------------------------
(* What a phone fetches ahead *)

\* At the moment a track ends, its successor is what plays.
LEMMA OneTrackOn ==
    ASSUME NEW s, Good(s), HasEnd(s.playback), NEW cat, IsCatalog(cat)
    PROVE  Normalize(s, EndsAt(s.playback), cat) = AdvanceAuto(s, EndsAt(s.playback), cat)
<1> DEFINE e == EndsAt(s.playback)
           x == AdvanceAuto(s, e, cat)
           M == MaxAdvanceSteps
           a == Iterated(s, e, cat)
<1>1. M \in Nat /\ M # 0
    BY StepsAssumption
<1>2. e \in Nat
    BY EndsAtIsLater DEF Good, States
<1>3. a[0] = s /\ \A k \in 0..M - 1 : a[k + 1] = CatchUp(a[k], e, cat)
    BY Iteration
<1>4. Overdue(s, e)
    BY <1>2 DEF Overdue
<1>5. ~Overdue(x, e)
    <2>1. Lasts(s, 1) /\ AllLast(cat, 1)
        BY DEF Lasts, AllLast, IsCatalog, Good, States, Playbacks
    <2> HIDE DEF e
    <2>2. Good(x) /\ EndsFrom(x, e + 1)
        BY <1>2, <2>1, AdvanceAutoGood, AdvanceAutoEnds
    <2> HIDE DEF x
    <2>3. EndsAt(x.playback) \in Nat
        BY <2>2, EndsAtIsLater DEF Good, States
    <2>4. QED
        BY <1>2, <2>2, <2>3 DEF EndsFrom, Overdue
<1>6. CatchUp(s, e, cat) = x /\ CatchUp(x, e, cat) = x
    BY <1>4, <1>5 DEF CatchUp
<1> DEFINE T == {k \in Nat : k + 1 <= M => a[k + 1] = x}
<1> HIDE DEF e, x, a
<1>7. 0 \in T
    <2>1. 0 \in 0..M - 1 /\ 0 + 1 = 1
        BY <1>1
    <2>2. QED
        BY <1>3, <1>6, <2>1
<1>8. \A k \in T : k + 1 \in T
    <2> SUFFICES ASSUME NEW k \in T, k + 1 + 1 <= M
                 PROVE  a[k + 1 + 1] = x
        OBVIOUS
    <2>1. k + 1 \in 0..M - 1 /\ a[k + 1] = x
        BY <1>1
    <2>2. QED
        BY <1>3, <1>6, <2>1
<1>9. T \subseteq Nat
    OBVIOUS
<1> HIDE DEF T
<1>10. T = Nat
    BY <1>7, <1>8, <1>9, NatInduct
<1>11. M - 1 \in Nat /\ M - 1 + 1 = M
    BY <1>1
<1>12. a[M] = x
    BY <1>10, <1>11 DEF T
<1>13. QED
    BY <1>12 DEF Normalize, a, x, e

\* What is taken next is in the catalog.
LEMMA TakenIsKnown ==
    ASSUME NEW s, Good(s), NEW cat, IsCatalog(cat), NEW wrap \in BOOLEAN,
           TakeNext(s, wrap, cat).item # NoItem
    PROVE  Known(cat, TakeNext(s, wrap, cat).item.trackID)
<1> DEFINE drained == DropEntries(s, Len(s.queue))
<1>1. CASE PlayableEntries(s, cat) # {}
    <2>1. Min(PlayableEntries(s, cat)) \in PlayableEntries(s, cat)
        BY <1>1, PlayableEntriesMin
    <2>2. QED
        BY <1>1, <2>1 DEF TakeNext, FromQueue, PlayableEntries
<1>2. CASE PlayableEntries(s, cat) = {} /\ PlayableSteps(s, wrap, cat) # {}
    <2>1. Good(drained)
        BY DropEntriesGood, LenProperties DEF Good, States
    <2>2. PlayableSteps(drained, wrap, cat) = PlayableSteps(s, wrap, cat)
        BY DEF PlayableSteps, ContextPosition, ContextTrack, DropEntries, Good, States
    <2>3. TakeNext(s, wrap, cat) = FromContext(drained, wrap, cat)
        BY <1>2 DEF TakeNext
    <2> HIDE DEF drained
    <2> DEFINE i == ContextPosition(drained, Min(PlayableSteps(drained, wrap, cat)))
    <2>4. Known(cat, ContextTrack(drained, i))
        BY <1>2, <2>1, <2>2, PlayableStep
    <2>5. FromContext(drained, wrap, cat).item.trackID = ContextTrack(drained, i)
        BY DEF FromContext
    <2>6. QED
        BY <2>3, <2>4, <2>5
<1>3. CASE PlayableEntries(s, cat) = {} /\ PlayableSteps(s, wrap, cat) = {}
    BY <1>3 DEF TakeNext
<1>4. QED
    BY <1>1, <1>2, <1>3

\* What follows a track that ends, when it does not begin anew.
LEMMA Successor ==
    ASSUME NEW s, Good(s), NEW e \in Nat, NEW cat, IsCatalog(cat), s.repeat # "one"
    PROVE  LET item == TakeNext(s, s.repeat = "all", cat).item
               p == AdvanceAuto(s, e, cat).playback
           IN  IF item = NoItem THEN ~p.playing ELSE p.trackID = item.trackID
<1> DEFINE wrap == s.repeat = "all"
           taken == TakeNext(s, wrap, cat)
<1>1. wrap \in BOOLEAN
    OBVIOUS
<1>2. AdvanceAuto(s, e, cat) = IF taken.item = NoItem THEN StopAtEnd(taken.st, e, cat)
                               ELSE StartItem(taken.st, taken.item, e, cat)
    BY DEF AdvanceAuto
<1> HIDE DEF wrap
<1>3. Good(taken.st)
    BY <1>1, TakeNextGood
<1>4. StopAtEnd(taken.st, e, cat).playback.playing = FALSE
    <2> HIDE DEF taken
    <2>1. QED
        BY <1>3 DEF StopAtEnd, Good, States
<1>5. StartItem(taken.st, taken.item, e, cat).playback.trackID = taken.item.trackID
    <2> HIDE DEF taken
    <2>1. QED
        BY <1>3 DEF StartItem, Good, States
<1>6. QED
    BY <1>2, <1>4, <1>5 DEF wrap

UpcomingLoop(f, s, n, cat) ==
    f = [k \in 0..n |-> IF k = 0 THEN [s |-> s, out |-> <<>>, done |-> FALSE]
                        ELSE Phone!LookAhead(f[k - 1], cat)]

\* The first of the upcoming tracks is the one the server takes next.
LEMMA PhoneUpcoming ==
    ASSUME NEW s, Good(s), NEW cat, IsCatalog(cat), s.repeat # "one"
    PROVE  LET item == TakeNext(s, s.repeat = "all", cat).item
               ahead == Phone!Upcoming(s, 2, cat)
           IN  IF item = NoItem THEN ahead = <<>>
               ELSE ahead[1] = item.trackID /\ Len(ahead) \in 1..2
<1> DEFINE l0 == [s |-> s, out |-> <<>>, done |-> FALSE]
           l1 == Phone!LookAhead(l0, cat)
           l2 == Phone!LookAhead(l1, cat)
           a == CHOOSE f : UpcomingLoop(f, s, 2, cat)
           w == [k \in 0..2 |-> IF k = 0 THEN l0 ELSE IF k = 1 THEN l1 ELSE l2]
           wrap == s.repeat = "all"
           item == TakeNext(s, wrap, cat).item
<1> HIDE DEF l0, l1, l2
<1>1. UpcomingLoop(w, s, 2, cat)
    <2>1. w[0] = l0 /\ w[1] = l1 /\ w[2] = l2
        OBVIOUS
    <2>2. \A k \in 0..2 : w[k] = IF k = 0 THEN l0 ELSE Phone!LookAhead(w[k - 1], cat)
        <3> TAKE k \in 0..2
        <3> HIDE DEF w
        <3>1. k = 0 \/ k = 1 \/ k = 2
            OBVIOUS
        <3>2. CASE k = 0
            BY <2>1, <3>2
        <3>3. CASE k = 1
            <4>1. k - 1 = 0 /\ k # 0
                BY <3>3
            <4>2. QED
                BY <2>1, <3>3, <4>1 DEF l1
        <3>4. CASE k = 2
            <4>1. k - 1 = 1 /\ k # 0
                BY <3>4
            <4>2. QED
                BY <2>1, <3>4, <4>1 DEF l2
        <3>5. QED
            BY <3>1, <3>2, <3>3, <3>4
    <2>3. w = [k \in 0..2 |-> w[k]]
        OBVIOUS
    <2> HIDE DEF w
    <2>4. w = [k \in 0..2 |-> IF k = 0 THEN l0 ELSE Phone!LookAhead(w[k - 1], cat)]
        BY <2>2, <2>3
    <2>5. QED
        BY <2>4 DEF UpcomingLoop, l0
<1> HIDE DEF w
<1>2. Phone!Upcoming(s, 2, cat) = a[2].out
    BY DEF Phone!Upcoming, UpcomingLoop
<1>3. UpcomingLoop(a, s, 2, cat)
    BY <1>1
<1> HIDE DEF a
<1>4. a[2] = l2
    <2>1. \A k \in 0..2 : a[k] = IF k = 0 THEN l0 ELSE Phone!LookAhead(a[k - 1], cat)
        BY <1>3 DEF UpcomingLoop, l0
    <2>2. a[0] = l0 /\ a[1] = Phone!LookAhead(a[0], cat) /\ a[2] = Phone!LookAhead(a[1], cat)
        BY <2>1
    <2>3. QED
        BY <2>2 DEF l1, l2
<1>5. wrap \in BOOLEAN
    OBVIOUS
<1>6. Phone!TakeNext(s, wrap, cat).item = item /\ Phone!NoItem = NoItem
    <2> HIDE DEF wrap
    <2>1. QED
        BY <1>5, PhoneTakeNext DEF Phone!NoItem, NoItem, NoEntry
<1> DEFINE next == Phone!TakeNext(s, wrap, cat)
<1>7. l1 = IF item = NoItem THEN [l0 EXCEPT !.s = next.s, !.done = TRUE]
           ELSE [l0 EXCEPT !.s = next.s, !.out = Append(@, item.trackID)]
    BY <1>6 DEF Phone!LookAhead, l0, l1
<1> HIDE DEF next, wrap, item
<1>8. CASE item = NoItem
    <2>1. l1.done = TRUE /\ l1.out = <<>>
        BY <1>7, <1>8 DEF l0
    <2>2. l2 = l1
        BY <2>1 DEF Phone!LookAhead, l2
    <2>3. QED
        BY <1>2, <1>4, <1>8, <2>1, <2>2 DEF item, wrap
<1>9. CASE item # NoItem
    <2>1. l1.done = FALSE /\ l1.out = <<item.trackID>>
        BY <1>7, <1>9 DEF l0
    <2> DEFINE more == Phone!TakeNext(l1.s, l1.s.repeat = "all", cat)
    <2>2. l2 = IF more.item = Phone!NoItem THEN [l1 EXCEPT !.s = more.s, !.done = TRUE]
               ELSE [l1 EXCEPT !.s = more.s, !.out = Append(@, more.item.trackID)]
        BY <2>1 DEF Phone!LookAhead, l2
    <2> HIDE DEF more
    <2>3. l2.out = <<item.trackID>> \/ l2.out = Append(<<item.trackID>>, more.item.trackID)
        BY <1>7, <1>9, <2>1, <2>2 DEF l0
    <2>4. l2.out[1] = item.trackID /\ Len(l2.out) \in 1..2
        BY <2>3
    <2>5. QED
        BY <1>2, <1>4, <1>9, <2>4 DEF item, wrap
<1>10. QED
    BY <1>8, <1>9

LEMMA ListedBehind ==
    ASSUME NEW cat, NEW out \in Seq(DOMAIN cat), out # <<>>, NEW id
    PROVE  LET r == Phone!Listed(out, id, cat)
           IN  r \in Seq(DOMAIN cat) /\ r # <<>> /\ r[1] = out[1]
<1>1. CASE Phone!Listed(out, id, cat) = out
    BY <1>1
<1>2. CASE id \in DOMAIN cat /\ Phone!Listed(out, id, cat) = Append(out, id)
    <2>1. 1 \in 1..Len(out)
        BY EmptySeq, LenProperties
    <2>2. QED
        BY <1>2, <2>1, AppendProperties
<1>3. QED
    BY <1>1, <1>2 DEF Phone!Listed

FetchLoop(f, ahead, current, cat) ==
    f = [k \in 0..Len(ahead) |->
            IF k = 0 THEN <<>>
            ELSE IF ahead[k] = current THEN f[k - 1]
            ELSE Phone!Listed(f[k - 1], ahead[k], cat)]

\* The list of what to fetch begins with the first of the upcoming tracks.
LEMMA PhoneFetches ==
    ASSUME NEW s, NEW cat,
           LET ahead == Phone!Upcoming(s, 2, cat)
           IN  /\ Len(ahead) \in 1..2 /\ ahead[1] \in DOMAIN cat
               /\ ahead[1] # s.playback.trackID
    PROVE  LET fetched == Phone!PrefetchList(s, 2, cat)
           IN  fetched # <<>> /\ fetched[1] = Phone!Upcoming(s, 2, cat)[1]
<1> DEFINE ahead == Phone!Upcoming(s, 2, cat)
           m == Len(ahead)
           current == s.playback.trackID
           x1 == Phone!Listed(<<>>, ahead[1], cat)
           x2 == IF ahead[2] = current THEN x1 ELSE Phone!Listed(x1, ahead[2], cat)
           w == [k \in 0..m |-> IF k = 0 THEN <<>> ELSE IF k = 1 THEN x1 ELSE x2]
           a == CHOOSE f : FetchLoop(f, ahead, current, cat)
<1>1. m \in 1..2 /\ ahead[1] \in DOMAIN cat /\ ahead[1] # current
    OBVIOUS
<1>2. Phone!PrefetchList(s, 2, cat) =
          IF current # NoTrack /\ 2 > 0 THEN Phone!Listed(a[m], current, cat) ELSE a[m]
    BY DEF Phone!PrefetchList, FetchLoop
<1> HIDE DEF ahead, current, x1, x2
<1>3. FetchLoop(w, ahead, current, cat)
    <2> HIDE DEF m
    <2>1. /\ w[0] = <<>> /\ w[1] = x1 /\ (m = 2 => w[2] = x2)
        BY <1>1
    <2>2. w = [k \in 0..m |-> w[k]]
        OBVIOUS
    <2> HIDE DEF w
    <2>3. \A k \in 0..m : w[k] = IF k = 0 THEN <<>> ELSE IF ahead[k] = current THEN w[k - 1]
                                 ELSE Phone!Listed(w[k - 1], ahead[k], cat)
        <3> TAKE k \in 0..m
        <3>1. k = 0 \/ k = 1 \/ (k = 2 /\ m = 2)
            BY <1>1
        <3>2. CASE k = 0
            BY <2>1, <3>2
        <3>3. CASE k = 1
            <4>1. k - 1 = 0 /\ k # 0
                BY <3>3
            <4>2. QED
                BY <1>1, <2>1, <3>3, <4>1 DEF x1
        <3>4. CASE k = 2 /\ m = 2
            <4>1. k - 1 = 1 /\ k # 0
                BY <3>4
            <4>2. QED
                BY <2>1, <3>4, <4>1 DEF x2
        <3>5. QED
            BY <3>1, <3>2, <3>3, <3>4
    <2>4. QED
        BY <2>2, <2>3 DEF FetchLoop, m
<1> HIDE DEF w
<1>4. FetchLoop(a, ahead, current, cat)
    BY <1>3
<1> HIDE DEF a
<1>5. a[m] = x1 \/ a[m] = x2
    <2>1. \A k \in 0..m : a[k] = IF k = 0 THEN <<>> ELSE IF ahead[k] = current THEN a[k - 1]
                                 ELSE Phone!Listed(a[k - 1], ahead[k], cat)
        BY <1>4 DEF FetchLoop
    <2> HIDE DEF m
    <2>2. a[0] = <<>> /\ a[1] = x1
        BY <1>1, <2>1 DEF x1
    <2>3. m = 2 => a[2] = x2
        BY <2>1, <2>2 DEF x2
    <2>4. QED
        BY <1>1, <2>2, <2>3
<1>6. x1 \in Seq(DOMAIN cat) /\ x1 # <<>> /\ x1[1] = ahead[1]
    <2>1. x1 = Append(<<>>, ahead[1])
        BY <1>1 DEF x1, Phone!Listed, Phone!Range
    <2>2. QED
        BY <1>1, <2>1
<1>7. x2 \in Seq(DOMAIN cat) /\ x2 # <<>> /\ x2[1] = ahead[1]
    BY <1>6, ListedBehind DEF x2
<1>8. QED
    BY <1>2, <1>5, <1>6, <1>7, ListedBehind DEF ahead

LEMMA AgreeNow ==
    ASSUME Good(st), IsCatalog(catalog), now \in Nat, MaxTime \in Nat
    PROVE  PhonesAgree
<1> SUFFICES ASSUME NEW later \in now..(MaxTime + 1)
             PROVE  LET phone == Phone!Normalize(st, later, catalog)
                        server == Normalize(st, later, catalog)
                    IN  /\ phone = server
                        /\ Phone!Target(phone, later).positionMs
                               = PositionAt(server.playback, later)
    BY DEF PhonesAgree
<1>1. Phone!Normalize(st, later, catalog) = Normalize(st, later, catalog)
    BY PhoneNormalize
<1>2. \A s : Phone!Target(s, later).positionMs = PositionAt(s.playback, later)
    BY DEF Phone!Target, Phone!PositionAt, PositionAt
<1>3. QED
    BY <1>1, <1>2

LEMMA PrefetchNow ==
    ASSUME Good(st), IsCatalog(catalog), now \in Nat
    PROVE  PrefetchComesTrue
<1> DEFINE end == Phone!EndsAt(st.playback)
           next == Normalize(st, end, catalog).playback
           ahead == Phone!Upcoming(st, 2, catalog)
           fetched == Phone!PrefetchList(st, 2, catalog)
           current == st.playback.trackID
           item == TakeNext(st, st.repeat = "all", catalog).item
<1> SUFFICES ASSUME end >= now
             PROVE  IF ahead = <<>> THEN ~next.playing
                    ELSE /\ next.trackID = ahead[1]
                         /\ next.trackID # current
                            => fetched # <<>> /\ fetched[1] = next.trackID
    BY DEF PrefetchComesTrue
<1>1. st.playback \in Playbacks
    BY DEF Good, States
<1>2. HasEnd(st.playback) /\ end = EndsAt(st.playback) /\ end \in Nat
    BY <1>1, PhoneEndsAt, EndsAtIsLater DEF Phone!Undefined
<1>3. next = AdvanceAuto(st, end, catalog).playback
    BY <1>2, OneTrackOn
<1> HIDE DEF end, next
<1>4. CASE st.repeat = "one"
    <2>1. ahead = [i \in 1..2 |-> current]
        BY <1>2, <1>4 DEF Phone!Upcoming, HasEnd
    <2>2. next.trackID = current
        BY <1>3, <1>4 DEF AdvanceAuto, Good, States, Playbacks
    <2>3. ahead[1] = current /\ ahead # <<>>
        <3>1. ahead[1] = current /\ 1 \in DOMAIN ahead
            BY <2>1
        <3>2. QED
            BY <3>1
    <2> HIDE DEF ahead, fetched, current
    <2>4. QED
        BY <2>2, <2>3
<1>5. CASE st.repeat # "one"
    <2>1. IF item = NoItem THEN ahead = <<>> ELSE ahead[1] = item.trackID /\ Len(ahead) \in 1..2
        BY <1>5, PhoneUpcoming
    <2>2. IF item = NoItem THEN ~next.playing ELSE next.trackID = item.trackID
        BY <1>2, <1>3, <1>5, Successor
    <2>3. item # NoItem => item.trackID \in DOMAIN catalog
        <3> DEFINE wrap == st.repeat = "all"
        <3>1. wrap \in BOOLEAN
            OBVIOUS
        <3>2. item = TakeNext(st, wrap, catalog).item
            OBVIOUS
        <3> HIDE DEF wrap, item
        <3>3. QED
            BY <3>1, <3>2, TakenIsKnown DEF Known
    <2> HIDE DEF item
    <2>4. CASE item = NoItem
        BY <2>1, <2>2, <2>4
    <2>5. CASE item # NoItem
        <3>1. /\ ahead[1] = item.trackID /\ Len(ahead) \in 1..2
              /\ next.trackID = item.trackID /\ ahead[1] \in DOMAIN catalog
            BY <2>1, <2>2, <2>3, <2>5
        <3>2. ahead # <<>>
            BY <3>1
        <3>3. next.trackID # current => fetched # <<>> /\ fetched[1] = ahead[1]
            BY <3>1, PhoneFetches
        <3> HIDE DEF ahead, fetched, current
        <3>4. QED
            BY <3>1, <3>2, <3>3
    <2>6. QED
        BY <2>4, <2>5
<1>6. QED
    BY <1>1, <1>4, <1>5 DEF Good, States

\* A phone that follows its own copy of the timeline, however long it hears
\* nothing, is where the server is: for every catalog, queue and context.
THEOREM PhonesFollow == Spec => []PhonesAgree
<1>1. IInv => PhonesAgree
    BY AgreeNow, GoodState, ParametersAssumption DEF IInv
<1>2. QED
    BY <1>1, Invariance, PTL

\* What a phone fetches ahead, and first, is what plays after the current
\* track; when it finds nothing to fetch, playback stops.
THEOREM PrefetchIsRight == Spec => []PrefetchComesTrue
<1>1. IInv => PrefetchComesTrue
    BY PrefetchNow, GoodState DEF IInv
<1>2. QED
    BY <1>1, Invariance, PTL
=============================================================================
