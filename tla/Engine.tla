------------------------------- MODULE Engine -------------------------------
(***************************************************************************)
(* The room engine of internal/room/ops.go: what each command does to a    *)
(* room state, and how the "wait for everyone" hold is evaluated.  As in   *)
(* the code the engine is deterministic, except for the shuffled play      *)
(* order, and it never looks at the clock: the server time is an argument. *)
(***************************************************************************)
EXTENDS Timeline, SequencesExt

CONSTANTS
    NoValue,                 \* an optional field that the command leaves out
    StartDelayMs,            \* lead time before a newly selected track starts
    ResumeDelayMs,           \* lead time for play and seek
    WaitForAllMaxMs,         \* longest wait for listeners to buffer
    PrevRestartThresholdMs,
    PauseTrustWindowMs,
    HoldMarginMs,
    HoldExtendMs,
    MaxQueueLength

ASSUME NoValueAssumption == NoValue \notin Int

\* HoldMarginMs < HoldExtendMs is how the code sets them: 250 and 1000.
ASSUME TimingAssumption ==
    /\ StartDelayMs \in Nat /\ ResumeDelayMs \in Nat /\ WaitForAllMaxMs \in Nat
    /\ PrevRestartThresholdMs \in Nat /\ PauseTrustWindowMs \in Nat
    /\ HoldMarginMs \in Nat /\ HoldExtendMs \in Nat /\ HoldMarginMs < HoldExtendMs
    /\ MaxQueueLength \in Nat

\* The outcome of a command: the new state, which parts of it the command
\* reports as touched, and whether it was refused.
Outcome(s, parts, refused) == [st |-> s, changed |-> parts, refused |-> refused]
NoChange(s) == Outcome(s, {}, FALSE)
Refuse(s) == Outcome(s, {}, TRUE)
Did(s, parts) == Outcome(s, parts, FALSE)

\* Faulty: only the end is checked.
ClampToEnd(s, pos) ==
    IF s.playback.durationMs > 0 /\ pos > s.playback.durationMs
    THEN s.playback.durationMs ELSE pos

Clamp(s, pos) ==
    LET d == s.playback.durationMs
    IN  IF pos < 0 THEN 0 ELSE IF d > 0 /\ pos > d THEN d ELSE pos

\* Starts an item after the lead time and arms the hold when it is enabled.
Start(s, item, now, cat) ==
    [StartItem(s, item, now + StartDelayMs, cat) EXCEPT
        !.hold = IF s.waitForAll /\ WaitForAllMaxMs > 0
                 THEN [trackID |-> item.trackID, entryID |-> item.entryID,
                       untilMs |-> now + WaitForAllMaxMs]
                 ELSE NoHold]

StartContextTrack(s, i, now, cat) ==
    Start([s EXCEPT !.contextIndex = i],
          [trackID |-> ContextTrack(s, i), entryID |-> NoEntry], now, cat)

-----------------------------------------------------------------------------
(* Transport *)

Resume(s, pos, now) ==
    [s EXCEPT !.playback.positionMs =
                  Clamp(s, IF pos = NoValue THEN s.playback.positionMs ELSE pos),
              !.playback.anchorMs = now + ResumeDelayMs,
              !.playback.playing = TRUE,
              !.hold = NoHold]

Play(s, pos, now, cat) ==
    LET taken == TakeNext(s, FALSE, cat)
    IN  IF s.playback.trackID # NoTrack
        THEN IF s.playback.playing THEN NoChange(s)
             ELSE Did(Resume(s, pos, now), {"playback"})
        ELSE IF taken.item = NoItem THEN Refuse(taken.st)
        ELSE Did(Start(taken.st, taken.item, now, cat), {"playback"})

\* The position the listener saw is trusted when it is close to the server's.
PausePosition(s, pos, now) ==
    LET here == PositionAt(s.playback, now)
    IN  IF /\ pos # NoValue
           /\ pos - here <= PauseTrustWindowMs
           /\ here - pos <= PauseTrustWindowMs
        THEN pos ELSE here

Pause(s, pos, now) ==
    IF ~s.playback.playing THEN NoChange(s)
    ELSE Did([s EXCEPT !.playback.positionMs = Clamp(s, PausePosition(s, pos, now)),
                       !.playback.anchorMs = now,
                       !.playback.playing = FALSE,
                       !.hold = NoHold], {"playback"})

Seek(s, pos, now) ==
    IF s.playback.trackID = NoTrack THEN Refuse(s)
    ELSE Did([s EXCEPT !.playback.positionMs = Clamp(s, pos),
                       !.playback.anchorMs =
                           IF s.playback.playing THEN now + ResumeDelayMs ELSE now,
                       !.hold = NoHold], {"playback"})

SkipNext(s, now, cat) ==
    LET taken == TakeNext(s, s.repeat # "off", cat)
    IN  IF taken.item # NoItem
        THEN Did(Start(taken.st, taken.item, now, cat), {"playback"})
        ELSE IF s.playback.trackID = NoTrack THEN NoChange(taken.st)
        ELSE Did([StopAtEnd(taken.st, now, cat) EXCEPT !.hold = NoHold], {"playback"})

\* The context position "previous" goes to, 0 when it restarts the track:
\* from a queued track back to the context track it interrupted, otherwise
\* one back, around the start only when repeating.
PrevPosition(s) ==
    IF s.playback.entryID # NoEntry THEN s.contextIndex
    ELSE IF s.contextIndex > 1 THEN s.contextIndex - 1
    ELSE IF s.repeat = "off" THEN 0
    ELSE Len(s.order)

SkipPrev(s, now, cat) ==
    LET i == IF PositionAt(s.playback, now) > PrevRestartThresholdMs THEN 0
             ELSE PrevPosition(s)
    IN  IF s.playback.trackID = NoTrack THEN NoChange(s)
        ELSE IF i = 0 THEN Seek(s, 0, now)
        ELSE Did(StartContextTrack(s, i, now, cat), {"playback"})

\* A listener reports that the track it plays, of unknown length, has ended.
Ended(s, trackID, entryID, now, cat) ==
    LET p == s.playback
    IN  IF \/ ~p.playing \/ p.durationMs > 0 \/ now < p.anchorMs
           \/ p.trackID # trackID \/ p.entryID # entryID
        THEN NoChange(s)
        ELSE Did(AdvanceAuto(s, now, cat), {"playback"})

-----------------------------------------------------------------------------
(* Context *)

\* Faulty: the given track overwrites the first one instead of trading places.
OrdersOverwritingFirst(n, first, shuffle) ==
    IF ~shuffle THEN {[i \in 1..n |-> i]}
    ELSE {IF first = 0 THEN f ELSE [f EXCEPT ![1] = first] : f \in Bijection(1..n, 1..n)}

\* Faulty: the given track is not put first.
OrdersIgnoringFirst(n, first, shuffle) ==
    IF ~shuffle THEN {[i \in 1..n |-> i]} ELSE Bijection(1..n, 1..n)

\* The play orders over n tracks: the identity, or with shuffle any
\* permutation that starts with the given track (0: with any track).
Orders(n, first, shuffle) ==
    IF ~shuffle THEN {[i \in 1..n |-> i]}
    ELSE {f \in Bijection(1..n, 1..n) : first = 0 \/ f[1] = first}

\* The request stands for what the engine keeps of it: tracks are the known
\* ones of the requested context, first the place of the start track among
\* them (0: none was requested, NoValue: the requested one is not known).
PlayContext(s, tracks, first, order, now, cat) ==
    IF tracks = <<>> \/ first = NoValue THEN Refuse(s)
    ELSE Did(StartContextTrack([s EXCEPT !.tracks = tracks, !.order = order],
                               IF ~s.shuffle /\ first > 0 THEN first ELSE 1, now, cat),
             {"playback", "context"})

JumpTo(s, i, now, cat) ==
    IF i \notin DOMAIN s.order \/ ~Known(cat, ContextTrack(s, i)) THEN Refuse(s)
    ELSE Did(StartContextTrack(s, i, now, cat), {"playback"})

\* The place of the current context track among the tracks, 0 for none.
CurrentTrack(s) == IF s.contextIndex \in DOMAIN s.order THEN s.order[s.contextIndex] ELSE 0

SetShuffle(s, on, order) ==
    LET current == CurrentTrack(s)
    IN  IF s.shuffle = on THEN NoChange(s)
        ELSE IF s.order = <<>> THEN Did([s EXCEPT !.shuffle = on], {"settings"})
        ELSE Did([s EXCEPT !.shuffle = on, !.order = order,
                           !.contextIndex = IF on /\ current # 0 THEN 1 ELSE current],
                 {"settings", "context"})

-----------------------------------------------------------------------------
(* Queue *)

EntryAt(s, id) == {i \in DOMAIN s.queue : s.queue[i].id = id}

PlayEntry(s, id, now, cat) ==
    LET i == Min(EntryAt(s, id))
        e == s.queue[i]
    IN  IF EntryAt(s, id) = {} THEN Refuse(s)
        ELSE IF ~Known(cat, e.trackID) THEN Refuse(s)
        ELSE Did(Start([s EXCEPT !.queue = RemoveAt(@, i)],
                       [trackID |-> e.trackID, entryID |-> e.id], now, cat),
                 {"playback", "queue"})

\* Ids are consumed up to the first unknown track even when it makes the
\* command fail.
QueueAdd(s, ids, atFront, cat) ==
    LET unknown == {k \in DOMAIN ids : ~Known(cat, ids[k])}
        entries == [k \in DOMAIN ids |-> [id |-> s.nextEntrySeq + k, trackID |-> ids[k]]]
    IN  IF ids = <<>> \/ Len(s.queue) + Len(ids) > MaxQueueLength THEN Refuse(s)
        ELSE IF unknown # {} THEN Refuse([s EXCEPT !.nextEntrySeq = @ + Min(unknown) - 1])
        ELSE Did([s EXCEPT !.queue = IF atFront THEN entries \o @ ELSE @ \o entries,
                           !.nextEntrySeq = @ + Len(ids)], {"queue"})

QueueRemove(s, id) ==
    IF EntryAt(s, id) = {} THEN Refuse(s)
    ELSE Did([s EXCEPT !.queue = RemoveAt(@, Min(EntryAt(s, id)))], {"queue"})

QueueMove(s, id, toIndex) ==
    LET from == Min(EntryAt(s, id))
        to   == Max({1, Min({toIndex, Len(s.queue)})})
    IN  IF EntryAt(s, id) = {} THEN Refuse(s)
        ELSE IF to = from THEN NoChange(s)
        ELSE Did([s EXCEPT !.queue = InsertAt(RemoveAt(@, from), to, s.queue[from])],
                 {"queue"})

QueueClear(s) ==
    IF s.queue = <<>> THEN NoChange(s)
    ELSE Did([s EXCEPT !.queue = <<>>], {"queue"})

-----------------------------------------------------------------------------
(* Settings *)

SetRepeat(s, mode) ==
    IF s.repeat = mode THEN NoChange(s)
    ELSE Did([s EXCEPT !.repeat = mode], {"settings"})

SetWaitForAll(s, on) ==
    IF s.waitForAll = on THEN NoChange(s)
    ELSE Did([s EXCEPT !.waitForAll = on, !.hold = IF on THEN @ ELSE NoHold],
             IF ~on /\ s.hold # NoHold THEN {"settings", "playback"} ELSE {"settings"})

-----------------------------------------------------------------------------
(* Versions *)

\* Faulty: what catching up changed is not versioned.
SettleSilently(s, now, cat) == Normalize(s, now, cat)

\* Engine.Normalize: catching up is one change, however many tracks it skips.
Settle(s, now, cat) ==
    IF Overdue(s, now) THEN [Normalize(s, now, cat) EXCEPT !.version = @ + 1] ELSE s

\* Faulty: a new context keeps its version.
CommitWithoutContext(before, outcome) ==
    IF outcome.changed = {} THEN outcome.st ELSE [outcome.st EXCEPT !.version = @ + 1]

\* The end of Engine.Apply: before is the settled state the command started from.
Commit(before, outcome) ==
    LET r == outcome.st
        bumpQueue == "queue" \in outcome.changed /\ r.queueVersion = before.queueVersion
    IN  IF outcome.changed = {} THEN r
        ELSE [r EXCEPT !.version = @ + 1,
                       !.queueVersion = IF bumpQueue THEN @ + 1 ELSE @,
                       !.contextVersion = IF "context" \in outcome.changed THEN @ + 1 ELSE @]

-----------------------------------------------------------------------------
(* The hold *)

Holding(s) == s.hold # NoHold

HoldIsStale(s) ==
    \/ ~s.playback.playing
    \/ s.playback.trackID # s.hold.trackID
    \/ s.playback.entryID # s.hold.entryID

\* Faulty: dropping the hold is not versioned.
EndHoldSilently(s) == [s EXCEPT !.hold = NoHold]

EndHold(s) == [s EXCEPT !.hold = NoHold, !.version = @ + 1]

ReleaseHold(s, now) ==
    [EndHold(s) EXCEPT !.playback.anchorMs =
        IF @ < now + HoldMarginMs THEN now + ResumeDelayMs ELSE @]

\* Faulty: postponed only up to the margin.
PostponeByMargin(s, now) ==
    [s EXCEPT !.playback.anchorMs = now + HoldMarginMs,
              !.playback.positionMs = 0, !.version = @ + 1]

PostponeStart(s, now) ==
    [s EXCEPT !.playback.anchorMs = now + HoldExtendMs,
              !.playback.positionMs = 0, !.version = @ + 1]

CheckHold(s, now, allReady) ==
    IF ~Holding(s) THEN s
    ELSE IF HoldIsStale(s) THEN EndHold(s)
    ELSE IF allReady THEN ReleaseHold(s, now)
    ELSE IF now >= s.hold.untilMs THEN EndHold(s)
    ELSE IF s.playback.anchorMs - now <= HoldMarginMs THEN PostponeStart(s, now)
    ELSE s

\* Faulty: only the end of the wait is considered, or only the next start.
CheckAtEndOfWait(s) == s.hold.untilMs
CheckBeforeStart(s) == s.playback.anchorMs - HoldMarginMs

NextHoldCheck(s) == Min({s.hold.untilMs, s.playback.anchorMs - HoldMarginMs})
=============================================================================
