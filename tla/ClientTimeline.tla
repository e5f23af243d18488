--------------------------- MODULE ClientTimeline ---------------------------
(***************************************************************************)
(* web/src/sync/timeline.ts: the phone's own copy of the timeline rules,   *)
(* by which it goes on playing without a connection.  Module Timeline      *)
(* states the same rules for the server; this one follows the phone's      *)
(* code, loop by loop, so that comparing the two means something.  States  *)
(* and catalogs are those of Timeline: an id the catalog does not know has *)
(* no duration there, `undefined` here.                                    *)
(***************************************************************************)
EXTENDS Integers, Sequences, FiniteSetsExt, Functions

CONSTANTS
    NoTrack,         \* the empty track id
    MaxAdvanceSteps  \* MAX_ADVANCE_STEPS

Undefined == -1
DurationOf(cat, id) == IF id \in DOMAIN cat THEN cat[id] ELSE Undefined
NoItem == [trackID |-> NoTrack, entryID |-> 0]

PositionAt(p, now) ==
    IF ~p.playing \/ now <= p.anchorMs THEN p.positionMs
    ELSE LET pos == p.positionMs + (now - p.anchorMs)
         IN  IF p.durationMs > 0 /\ pos > p.durationMs THEN p.durationMs ELSE pos

EndsAt(p) ==
    IF ~p.playing \/ p.trackID = NoTrack \/ p.durationMs <= 0 THEN Undefined
    ELSE p.anchorMs + Max({0, p.durationMs - p.positionMs})

ContextTrack(s, orderIdx) == s.tracks[s.order[orderIdx]]

\* takeNext's first loop carries the state, the item found so far, and whether
\* the loop was left.
Looking(s) == [s |-> s, item |-> NoItem, done |-> FALSE]

\* The entry at the head of the queue leaves it, and ends the loop if its track
\* is available.
TakeEntry(l, cat) ==
    LET e == Head(l.s.queue)
        rest == [l.s EXCEPT !.queue = Tail(@), !.queueVersion = @ + 1]
    IN  IF l.done THEN l
        ELSE IF DurationOf(cat, e.trackID) = Undefined THEN Looking(rest)
        ELSE [s |-> rest, item |-> [trackID |-> e.trackID, entryID |-> e.id], done |-> TRUE]

SearchQueue(s, cat) ==
    LET after[k \in 0..Len(s.queue)] ==
            IF k = 0 THEN Looking(s) ELSE TakeEntry(after[k - 1], cat)
    IN  after[Len(s.queue)]

\* Faulty: the search begins anew where it wrapped around, without ending.
WrapBehindFirst(idx, n) == IF idx >= n THEN 2 ELSE idx + 1

\* The place after idx, wrapping around.
Following(idx, n) == IF idx >= n THEN 1 ELSE idx + 1

\* The second loop goes one place further; it ends at the end of the play
\* order, or at a track that is available.
Walk(l, wrap, cat) ==
    LET n == Len(l.s.order)
        idx == Following(l.idx, n)
        id == ContextTrack(l.s, idx)
    IN  IF l.done THEN l
        ELSE IF l.idx >= n /\ ~wrap THEN [l EXCEPT !.done = TRUE]
        ELSE IF DurationOf(cat, id) = Undefined THEN [l EXCEPT !.idx = idx]
        ELSE [s |-> [l.s EXCEPT !.contextIndex = idx], idx |-> idx, done |-> TRUE,
              item |-> [trackID |-> id, entryID |-> 0]]

\* Walks along the play order, once around at most.
SearchContext(s, wrap, cat) ==
    LET after[k \in 0..Len(s.order)] ==
            IF k = 0 THEN [s |-> s, idx |-> s.contextIndex, done |-> FALSE, item |-> NoItem]
            ELSE Walk(after[k - 1], wrap, cat)
    IN  after[Len(s.order)]

TakeNext(s, wrap, cat) ==
    LET queued == SearchQueue(s, cat)
    IN  IF queued.done THEN queued ELSE SearchContext(queued.s, wrap, cat)

StartItem(s, it, anchor, cat) ==
    [s EXCEPT !.playback =
        [trackID |-> it.trackID, entryID |-> it.entryID, positionMs |-> 0, anchorMs |-> anchor,
         playing |-> TRUE, durationMs |-> Max({0, DurationOf(cat, it.trackID)})]]

StopAtEnd(s, at, cat) ==
    LET stopped == [s.playback EXCEPT !.entryID = 0, !.positionMs = 0, !.anchorMs = at,
                                      !.playing = FALSE]
        first == ContextTrack(s, 1)
    IN  IF s.order = <<>> THEN [s EXCEPT !.playback = stopped]
        ELSE [s EXCEPT !.contextIndex = 1,
                       !.playback = [stopped EXCEPT !.trackID = first,
                                                    !.durationMs = Max({0, DurationOf(cat, first)})]]

AdvanceAuto(s, at, cat) ==
    LET next == TakeNext(s, s.repeat = "all", cat)
    IN  IF s.repeat = "one" THEN [s EXCEPT !.playback.positionMs = 0, !.playback.anchorMs = at]
        ELSE IF next.item = NoItem THEN StopAtEnd(next.s, at, cat)
        ELSE StartItem(next.s, next.item, at, cat)

\* One iteration of normalize's loop.
CatchUp(s, now, cat) ==
    LET end == EndsAt(s.playback)
    IN  IF end = Undefined \/ now < end THEN s ELSE AdvanceAuto(s, end, cat)

Normalize(input, now, cat) ==
    LET after[k \in 0..MaxAdvanceSteps] ==
            IF k = 0 THEN input ELSE CatchUp(after[k - 1], now, cat)
    IN  after[MaxAdvanceSteps]

\* Faulty: the queue is forgotten.
UpcomingFromContext(input, n, cat) ==
    LET next == SearchContext(input, input.repeat = "all", cat)
    IN  IF next.item = NoItem THEN <<>> ELSE <<next.item.trackID>>

\* One more track, until there is none.
LookAhead(l, cat) ==
    LET next == TakeNext(l.s, l.s.repeat = "all", cat)
    IN  IF l.done THEN l
        ELSE IF next.item = NoItem THEN [l EXCEPT !.s = next.s, !.done = TRUE]
        ELSE [l EXCEPT !.s = next.s, !.out = Append(@, next.item.trackID)]

\* Up to n tracks that will play after the current one.
Upcoming(input, n, cat) ==
    LET after[k \in 0..n] ==
            IF k = 0 THEN [s |-> input, out |-> <<>>, done |-> FALSE]
            ELSE LookAhead(after[k - 1], cat)
    IN  IF input.repeat = "one" /\ input.playback.trackID # NoTrack
        THEN [i \in 1..n |-> input.playback.trackID]
        ELSE after[n].out

\* A track joins the list of those to fetch once, and only if it is known.
Listed(out, id, cat) ==
    IF id \in Range(out) \/ id \notin DOMAIN cat THEN out ELSE Append(out, id)

\* updatePrefetch: what comes next is fetched first, and what plays now last.
PrefetchList(input, n, cat) ==
    LET current == input.playback.trackID
        ahead == Upcoming(input, n, cat)
        after[k \in 0..Len(ahead)] ==
            IF k = 0 THEN <<>>
            ELSE IF ahead[k] = current THEN after[k - 1]
            ELSE Listed(after[k - 1], ahead[k], cat)
    IN  IF current # NoTrack /\ n > 0 THEN Listed(after[Len(ahead)], current, cat)
        ELSE after[Len(ahead)]

\* What a player should be doing at time now.
Target(s, now) ==
    LET p == s.playback
    IN  [trackID |-> p.trackID, entryID |-> p.entryID, positionMs |-> PositionAt(p, now),
         playing |-> p.playing, durationMs |-> p.durationMs,
         startsInMs |-> IF p.playing /\ now < p.anchorMs THEN p.anchorMs - now ELSE 0]
=============================================================================
