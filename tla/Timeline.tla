------------------------------ MODULE Timeline ------------------------------
(***************************************************************************)
(* The timeline rules of internal/room/timeline.go: where playback stands  *)
(* at a given server time, and what plays when a track ends.  Everything   *)
(* here is a pure operator on a room state; the state itself is the record *)
(* of internal/room/state.go.                                              *)
(*                                                                         *)
(* Positions in a play order are counted from 1, with 0 for "before the    *)
(* first one" (the code counts from 0 and uses -1).  Queue entry ids are   *)
(* the numbers they are formatted from, with 0 for the empty id.  A        *)
(* catalog is a function from the known tracks to their durations, where   *)
(* duration 0 means that the length is unknown.                            *)
(***************************************************************************)
EXTENDS Integers, Sequences, FiniteSetsExt, Functions

CONSTANTS
    TrackIds,        \* the track ids that may occur anywhere
    NoTrack,         \* the empty track id
    MaxAdvanceSteps  \* maxAdvanceSteps: how many tracks one call may pass over

ASSUME NoTrackAssumption == NoTrack \notin TrackIds
ASSUME StepsAssumption == MaxAdvanceSteps \in Nat \ {0}

RepeatModes == {"off", "all", "one"}
NoEntry == 0

NoHold == [trackID |-> NoTrack, entryID |-> NoEntry, untilMs |-> 0]

\* The state of a fresh room.
NewState ==
    [version |-> 0,
     playback |-> [trackID |-> NoTrack, entryID |-> NoEntry, positionMs |-> 0,
                   anchorMs |-> 0, playing |-> FALSE, durationMs |-> 0],
     contextIndex |-> 0,
     shuffle |-> FALSE,
     repeat |-> "off",
     waitForAll |-> TRUE,
     hold |-> NoHold,
     queueVersion |-> 0,
     queue |-> <<>>,
     contextVersion |-> 0,
     tracks |-> <<>>,
     order |-> <<>>,
     nextEntrySeq |-> 0]

-----------------------------------------------------------------------------
(* Playback *)

Known(cat, id) == id \in DOMAIN cat
DurationMs(cat, id) == IF Known(cat, id) THEN cat[id] ELSE 0

\* The position of playback p at server time now.
PositionAt(p, now) ==
    LET pos == p.positionMs + (now - p.anchorMs)
    IN  IF ~p.playing \/ now <= p.anchorMs THEN p.positionMs
        ELSE IF p.durationMs > 0 /\ pos > p.durationMs THEN p.durationMs
        ELSE pos

\* Whether, and when, the current track of p finishes.
HasEnd(p) == p.playing /\ p.trackID # NoTrack /\ p.durationMs > 0
EndsAt(p) == p.anchorMs + Max({0, p.durationMs - p.positionMs})

-----------------------------------------------------------------------------
(* Choosing the successor of a track *)

NoItem == [trackID |-> NoTrack, entryID |-> NoEntry]
ContextTrack(s, i) == s.tracks[s.order[i]]

\* Entries of the queue, and positions of the context, that can be played.
PlayableEntries(s, cat) == {i \in DOMAIN s.queue : Known(cat, s.queue[i].trackID)}

ContextPosition(s, k) ==
    LET i == s.contextIndex + k
    IN  IF i <= Len(s.order) THEN i ELSE i - Len(s.order)

PlayableSteps(s, wrap, cat) ==
    {k \in 1..Len(s.order) :
        /\ wrap \/ s.contextIndex + k <= Len(s.order)
        /\ Known(cat, ContextTrack(s, ContextPosition(s, k)))}

\* Faulty: the removal does not count as a queue change.
DropEntriesSilently(s, n) == [s EXCEPT !.queue = SubSeq(@, n + 1, Len(@))]

\* Removes the first n entries; every removal counts as a queue change.
DropEntries(s, n) ==
    [s EXCEPT !.queue = SubSeq(@, n + 1, Len(@)), !.queueVersion = @ + n]

\* Faulty: the entry that is about to play stays queued.
FromQueueKeepingEntry(s, cat) ==
    LET n == Min(PlayableEntries(s, cat))
    IN  [item |-> [trackID |-> s.queue[n].trackID, entryID |-> s.queue[n].id],
         st   |-> DropEntries(s, n - 1)]

FromQueue(s, cat) ==
    LET n == Min(PlayableEntries(s, cat))
    IN  [item |-> [trackID |-> s.queue[n].trackID, entryID |-> s.queue[n].id],
         st   |-> DropEntries(s, n)]

FromContext(s, wrap, cat) ==
    LET i == ContextPosition(s, Min(PlayableSteps(s, wrap, cat)))
    IN  [item |-> [trackID |-> ContextTrack(s, i), entryID |-> NoEntry],
         st   |-> [s EXCEPT !.contextIndex = i]]

\* The next item and the state without it: the head of the queue, or the next
\* context track.  Unknown tracks are skipped, unknown queue entries for good.
TakeNext(s, wrap, cat) ==
    LET drained == DropEntries(s, Len(s.queue))
    IN  IF PlayableEntries(s, cat) # {} THEN FromQueue(s, cat)
        ELSE IF PlayableSteps(s, wrap, cat) # {} THEN FromContext(drained, wrap, cat)
        ELSE [item |-> NoItem, st |-> drained]

\* Faulty: the duration of the previous track stays.
StartItemKeepingDuration(s, item, anchor, cat) ==
    [s EXCEPT !.playback = [@ EXCEPT !.trackID = item.trackID, !.entryID = item.entryID,
                                     !.positionMs = 0, !.anchorMs = anchor, !.playing = TRUE]]

StartItem(s, item, anchor, cat) ==
    [s EXCEPT !.playback =
        [trackID |-> item.trackID, entryID |-> item.entryID, positionMs |-> 0,
         anchorMs |-> anchor, playing |-> TRUE,
         durationMs |-> DurationMs(cat, item.trackID)]]

\* Parks playback on the first context track, paused at its beginning, or on
\* the current track when there is no context.
StopAtEnd(s, at, cat) ==
    LET parked == IF s.order = <<>> THEN s.playback.trackID ELSE ContextTrack(s, 1)
    IN  [s EXCEPT
            !.contextIndex = IF s.order = <<>> THEN @ ELSE 1,
            !.playback =
                [trackID |-> parked, entryID |-> NoEntry, positionMs |-> 0,
                 anchorMs |-> at, playing |-> FALSE,
                 durationMs |-> IF s.order = <<>> THEN @.durationMs
                                ELSE DurationMs(cat, parked)]]

\* The current track ends at time at.
AdvanceAuto(s, at, cat) ==
    LET taken == TakeNext(s, s.repeat = "all", cat)
    IN  IF s.repeat = "one"
        THEN [s EXCEPT !.playback.positionMs = 0, !.playback.anchorMs = at]
        ELSE IF taken.item = NoItem THEN StopAtEnd(taken.st, at, cat)
        ELSE StartItem(taken.st, taken.item, at, cat)

-----------------------------------------------------------------------------
(* Catching up with the clock *)

Overdue(s, now) == HasEnd(s.playback) /\ now >= EndsAt(s.playback)

\* Faulty: the successor is anchored at the time somebody looked.
CatchUpFromNow(s, now, cat) ==
    IF Overdue(s, now) THEN AdvanceAuto(s, now, cat) ELSE s

\* One iteration of Normalize's loop: the finished track is replaced by its
\* successor, anchored at the moment it ended.
CatchUp(s, now, cat) ==
    IF Overdue(s, now) THEN AdvanceAuto(s, EndsAt(s.playback), cat) ELSE s

\* The state after every number of iterations of the loop.
Iterated(s, now, cat) ==
    LET after[k \in 0..MaxAdvanceSteps] ==
            IF k = 0 THEN s ELSE CatchUp(after[k - 1], now, cat)
    IN  after

Normalize(s, now, cat) == Iterated(s, now, cat)[MaxAdvanceSteps]

-----------------------------------------------------------------------------
(* What a room state looks like *)

Items == [trackID : TrackIds, entryID : Nat]

Playbacks ==
    [trackID : TrackIds \cup {NoTrack}, entryID : Nat, positionMs : Nat,
     anchorMs : Nat, playing : BOOLEAN, durationMs : Nat]

Entries == [id : Nat, trackID : TrackIds]
Holds == [trackID : TrackIds \cup {NoTrack}, entryID : Nat, untilMs : Nat]

States ==
    [version : Nat, playback : Playbacks, contextIndex : Nat,
     shuffle : BOOLEAN, repeat : RepeatModes, waitForAll : BOOLEAN,
     hold : Holds, queueVersion : Nat, queue : Seq(Entries),
     contextVersion : Nat, tracks : Seq(TrackIds), order : Seq(Nat),
     nextEntrySeq : Nat]

IsCatalog(cat) == DOMAIN cat \subseteq TrackIds /\ cat \in [DOMAIN cat -> Nat]

\* The play order is a permutation of the context, and contextIndex points
\* into it.
OrderOk(s) ==
    /\ Len(s.order) = Len(s.tracks)
    /\ \A i \in DOMAIN s.order : s.order[i] \in DOMAIN s.tracks
    /\ \A i, j \in DOMAIN s.order : s.order[i] = s.order[j] => i = j
    /\ s.contextIndex <= Len(s.order)

\* Entry ids are given out once: no two entries share one, and the entry that
\* plays has left the queue.
EntriesOk(s) ==
    /\ \A i \in DOMAIN s.queue : s.queue[i].id \in 1..s.nextEntrySeq
    /\ \A i, j \in DOMAIN s.queue : s.queue[i].id = s.queue[j].id => i = j
    /\ s.playback.entryID <= s.nextEntrySeq
    /\ \A i \in DOMAIN s.queue : s.queue[i].id # s.playback.entryID
=============================================================================
