------------------------------- MODULE Player -------------------------------
(***************************************************************************)
(* web/src/audio/player.ts: makes one audio element follow the room.       *)
(*                                                                         *)
(* Everything runs on one thread: a step is a timer, an event of the       *)
(* element, a call of the engine or the answer of resolve().  The element  *)
(* (HTML standard, "media elements") changes at once, but tells so in      *)
(* events that are dispatched later, in order; an element that starts to   *)
(* load something else may drop the events that are still queued.          *)
(*                                                                         *)
(* Where the element is within its track, and how it is brought to where   *)
(* the room is, is module Drift's matter; here a seek only matters for     *)
(* taking the element away from the end of its track.                      *)
(***************************************************************************)
EXTENDS Integers, SequencesExt

CONSTANTS
    NoTrack,
    Tracks,
    Copies,      \* numbers for sources: object URLs, or the network's
    Stored,      \* tracks that are downloaded
    Corrupt,     \* those of them whose stored copy cannot be played
    Interrupts,  \* what may come between: "end" of a track, "system", "gesture"
    MaxChanges,  \* bound on what the room and the listener do
    MaxFaults    \* bound on what goes wrong

ASSUME PlayerAssumption ==
    /\ Copies \subseteq Nat \ {0}
    /\ NoTrack \notin Tracks /\ Corrupt \subseteq Stored /\ Stored \subseteq Tracks
    /\ Interrupts \subseteq {"end", "system", "gesture"} /\ MaxChanges \in Nat /\ MaxFaults \in Nat

VARIABLES
    room,     \* what the engine says should be audible
    player,   \* the fields of AudioPlayer
    loads,    \* calls of resolve() that have not returned, oldest first
    open,     \* sources handed out and not released
    element,  \* the audio element
    events,   \* its events that are not dispatched yet
    browser,  \* whether it lets the page play, and the network
    budget    \* what may still happen

vars == <<room, player, loads, open, element, events, browser, budget>>

NoSource == [copy |-> 0, track |-> NoTrack, cached |-> FALSE]
Sources == [copy : Copies, track : Tracks, cached : BOOLEAN]

TypeOK ==
    /\ room \in [track : Tracks \cup {NoTrack}, playing : BOOLEAN, armed : BOOLEAN,
                 ending : BOOLEAN]
    /\ player \in [trackId : Tracks \cup {NoTrack}, source : Sources \cup {NoSource},
                   loading : BOOLEAN, unavailable : BOOLEAN, bypassCache : BOOLEAN,
                   retry : Tracks \cup {NoTrack}, start : BOOLEAN, selfPause : Nat,
                   endPauseSeen : BOOLEAN, endPauseQueued : BOOLEAN, buffering : BOOLEAN,
                   needsGesture : BOOLEAN, personalPause : BOOLEAN, priming : BOOLEAN,
                   disposed : BOOLEAN]
    /\ loads \in Seq([track : Tracks, bypass : BOOLEAN, latest : BOOLEAN])
    /\ open \subseteq Sources
    /\ element \in [src : Sources \cup {NoSource}, paused : BOOLEAN, ended : BOOLEAN,
                    ready : {"nothing", "metadata", "future", "error"}]
    /\ events \in Seq({"pausedByPlayer", "pausedAtEnd", "pausedBySystem", "playing"})
    /\ browser \in [allows : BOOLEAN, online : BOOLEAN]
    /\ budget \in [changes : 0..MaxChanges, faults : 0..MaxFaults]

-----------------------------------------------------------------------------
(* A handler calls several methods, each of which changes the player and   *)
(* the element; `w` is what they change.                                   *)

World == [p |-> player, e |-> element, q |-> events, l |-> loads]
Becomes(w) == player' = w.p /\ element' = w.e /\ events' = w.q /\ loads' = w.l

(* The audio element *)

HasMetadata(w) == w.e.ready \in {"metadata", "future"}

\* A pause rejects the promises of play() that are still open.
ElPause(w, event) ==
    IF w.e.paused THEN w
    ELSE [w EXCEPT !.e.paused = TRUE, !.q = Append(@, event), !.p.priming = FALSE]

ElPlay(w) ==
    [w EXCEPT !.e.paused = FALSE, !.e.ended = FALSE,
              !.q = IF w.e.paused /\ w.e.ready = "future" THEN Append(@, "playing") ELSE @]

\* Loading stops what was playing, without an event of its own.
ElLoad(w, src, drops) ==
    [w EXCEPT !.e = [src |-> src, paused |-> TRUE, ended |-> FALSE, ready |-> "nothing"],
              !.q = IF drops THEN <<>> ELSE @,
              !.p.priming = FALSE]

-----------------------------------------------------------------------------
(* Methods *)

PauseEl(w) ==
    IF w.e.paused THEN w ELSE ElPause([w EXCEPT !.p.selfPause = @ + 1], "pausedByPlayer")

\* The event of the end that was left is to be expected, unless it was seen.
LeaveEnded(w) ==
    IF ~w.e.ended THEN w
    ELSE [w EXCEPT !.p.endPauseQueued = @ \/ ~w.p.endPauseSeen, !.p.endPauseSeen = FALSE]

PlayEl(w) ==
    LET left == LeaveEnded(w)
    IN  IF browser.allows THEN ElPlay(left) ELSE [left EXCEPT !.p.needsGesture = TRUE]

SeekEl(w) == [LeaveEnded(w) EXCEPT !.e.ended = FALSE]
ClearStart(w) == [w EXCEPT !.p.start = FALSE]

\* Faulty: an answer that comes late is taken for the latest.
LoadKeepingOthers(w, track) ==
    PauseEl([LeaveEnded(w) EXCEPT
        !.l = Append(@, [track |-> track, bypass |-> w.p.bypassCache, latest |-> TRUE]),
        !.p.retry = NoTrack, !.p.start = FALSE, !.p.trackId = track, !.p.loading = TRUE,
        !.p.unavailable = FALSE, !.p.buffering = FALSE])

\* load(), up to where it waits for resolve().  A new generation makes all
\* earlier ones stale.
Load(w, track) ==
    PauseEl([LeaveEnded(w) EXCEPT
        !.l = Append([i \in DOMAIN @ |-> [@[i] EXCEPT !.latest = FALSE]],
                     [track |-> track, bypass |-> w.p.bypassCache, latest |-> TRUE]),
        !.p.retry = NoTrack, !.p.start = FALSE, !.p.trackId = track, !.p.loading = TRUE,
        !.p.unavailable = FALSE, !.p.buffering = FALSE])

\* tick(); `seek` tells whether the element is far enough from where it should
\* be, or the drift controller says so.
Tick(w, seek) ==
    LET p == w.p
        SeekIfFar(v) == IF seek THEN SeekEl(v) ELSE v
        still == PauseEl(ClearStart(w))
        parked == PauseEl(w)
        moving == ClearStart(w)
    IN  IF p.disposed THEN w
        ELSE IF room.track = NoTrack THEN still
        ELSE IF room.track # p.trackId THEN Load(w, room.track)
        ELSE IF p.loading \/ p.unavailable THEN w
        ELSE IF ~room.playing \/ p.personalPause THEN
            IF ~p.personalPause /\ HasMetadata(w) THEN SeekIfFar(still) ELSE still
        ELSE IF room.armed THEN
            [IF HasMetadata(w) THEN SeekIfFar(parked) ELSE parked EXCEPT !.p.start = TRUE]
        ELSE IF room.ending THEN moving
        ELSE IF ~w.e.paused THEN SeekIfFar(moving)
        ELSE IF w.e.ready = "future" THEN PlayEl(SeekEl(moving))
        ELSE [moving EXCEPT !.p.buffering = TRUE]

\* Faulty: the source that is replaced is forgotten.
Abandoned(source) == open

Released(source) == open \ {source}

-----------------------------------------------------------------------------
Init ==
    /\ room = [track |-> NoTrack, playing |-> FALSE, armed |-> FALSE, ending |-> FALSE]
    /\ player = [trackId |-> NoTrack, source |-> NoSource, loading |-> FALSE,
                  unavailable |-> FALSE, bypassCache |-> FALSE, retry |-> NoTrack,
                  start |-> FALSE, selfPause |-> 0, endPauseSeen |-> FALSE,
                  endPauseQueued |-> FALSE, buffering |-> FALSE, needsGesture |-> FALSE,
                  personalPause |-> FALSE, priming |-> FALSE, disposed |-> FALSE]
    /\ loads = <<>> /\ open = {} /\ events = <<>>
    /\ element = [src |-> NoSource, paused |-> TRUE, ended |-> FALSE, ready |-> "nothing"]
    /\ browser \in [allows : BOOLEAN, online : {TRUE}]
    /\ budget = [changes |-> MaxChanges, faults |-> MaxFaults]

Change == budget.changes > 0 /\ budget' = [budget EXCEPT !.changes = @ - 1]
Fault == budget.faults > 0 /\ budget' = [budget EXCEPT !.faults = @ - 1]

\* The room goes on to something else.
RoomChanges ==
    /\ Change
    /\ room' \in [track : Tracks \cup {NoTrack}, playing : BOOLEAN, armed : BOOLEAN,
                  ending : BOOLEAN] \ {room}
    /\ room'.track = NoTrack => ~room'.playing
    /\ room'.armed \/ room'.ending => room'.playing
    /\ ~(room'.armed /\ room'.ending)
    /\ UNCHANGED <<player, loads, open, element, events, browser>>

\* The interval.
TickTimer ==
    /\ ~player.disposed
    /\ \E seek \in BOOLEAN : Becomes(Tick(World, seek))
    /\ UNCHANGED <<room, open, browser, budget>>

\* scheduleStart's timer.
StartTimer ==
    /\ player.start
    /\ \E seek \in BOOLEAN : Becomes(Tick(ClearStart(World), seek))
    /\ UNCHANGED <<room, open, browser, budget>>

\* The timers of load and onError.
RetryTimer ==
    /\ player.retry # NoTrack
    /\ LET w == [World EXCEPT !.p.retry = NoTrack]
       IN  Becomes(IF player.trackId = player.retry THEN Load(w, player.retry) ELSE w)
    /\ UNCHANGED <<room, open, browser, budget>>

-----------------------------------------------------------------------------
(* resolve() returns *)

\* What resolve() may return: the stored copy, or else one from the network.
Resolvable(load) ==
    IF load.track \in Stored /\ ~load.bypass THEN {TRUE} ELSE IF browser.online THEN {FALSE} ELSE {}

Unresolved(w, drops) ==
    [ElLoad(w, NoSource, drops) EXCEPT
        !.p.bypassCache = FALSE, !.p.source = NoSource, !.p.loading = FALSE,
        !.p.unavailable = TRUE, !.p.retry = w.p.trackId]

Resolved(w, source, drops) ==
    [ElLoad(w, source, drops) EXCEPT
        !.p.bypassCache = FALSE, !.p.source = source, !.p.loading = FALSE]

WithoutLoad(i) == [World EXCEPT !.l = RemoveAt(@, i)]

\* The answer is not awaited any more: a source is released at once.
StaleAnswer ==
    \E i \in DOMAIN loads :
        /\ ~loads[i].latest \/ player.disposed
        /\ loads' = RemoveAt(loads, i)
        /\ UNCHANGED <<room, player, open, element, events, browser, budget>>

SourceArrives ==
    \E i \in DOMAIN loads, drops \in BOOLEAN, seek \in BOOLEAN :
        \E cached \in Resolvable(loads[i]), copy \in Copies :
            LET source == [copy |-> copy, track |-> loads[i].track, cached |-> cached]
            IN  /\ loads[i].latest /\ ~player.disposed
                /\ copy \notin {s.copy : s \in open}
                /\ Becomes(Tick(Resolved(WithoutLoad(i), source, drops), seek))
                /\ open' = Released(player.source) \cup (IF cached THEN {source} ELSE {})
                /\ UNCHANGED <<room, browser, budget>>

\* Nothing can be played: offline, or resolve() failed.
NothingArrives ==
    \E i \in DOMAIN loads, drops \in BOOLEAN :
        /\ loads[i].latest /\ ~player.disposed
        /\ IF Resolvable(loads[i]) = {} THEN UNCHANGED budget ELSE Fault
        /\ Becomes(Unresolved(WithoutLoad(i), drops))
        /\ open' = Released(player.source)
        /\ UNCHANGED <<room, browser>>

-----------------------------------------------------------------------------
(* Events of the element *)

\* onReadyish
Ready(w, seek) == Tick([w EXCEPT !.p.buffering = FALSE], seek)

\* Faulty: the pause at an end is counted as one of the player's own.
OnPauseTakingEnds(w) ==
    IF w.p.selfPause > 0 \/ w.e.ended THEN [w EXCEPT !.p.selfPause = @ - 1]
    ELSE IF w.p.endPauseQueued THEN [w EXCEPT !.p.endPauseQueued = FALSE]
    ELSE [w EXCEPT !.p.personalPause = TRUE]

OnPause(w) ==
    IF w.p.selfPause > 0 THEN [w EXCEPT !.p.selfPause = @ - 1]
    ELSE IF w.e.ended THEN [w EXCEPT !.p.endPauseSeen = TRUE]
    ELSE IF w.p.endPauseQueued THEN [w EXCEPT !.p.endPauseQueued = FALSE]
    ELSE [w EXCEPT !.p.personalPause = TRUE]

Taken == [World EXCEPT !.q = Tail(@)]

\* dispose() takes only this listener away.
PauseEvent ==
    /\ events # <<>> /\ Head(events) # "playing"
    /\ Becomes(IF player.disposed THEN Taken ELSE OnPause(Taken))
    /\ UNCHANGED <<room, open, browser, budget>>

\* Sound is heard: the promises of play() are kept, that of unlock() after the
\* listeners have run.
PlayingEvent ==
    /\ events # <<>> /\ Head(events) = "playing"
    /\ \E seek \in BOOLEAN :
          LET w == [Ready(Taken, seek) EXCEPT !.p.needsGesture = FALSE]
          IN  Becomes(IF w.p.priming THEN PauseEl([w EXCEPT !.p.priming = FALSE]) ELSE w)
    /\ UNCHANGED <<room, open, browser, budget>>

Playable == ~(element.src.cached /\ element.src.track \in Corrupt)

\* 'loadedmetadata' and 'canplay'
ElementLoads ==
    /\ element.src # NoSource /\ Playable
    /\ \E ready \in {"metadata", "future"}, seek \in BOOLEAN :
          /\ <<element.ready, ready>> \in
                {<<"nothing", "metadata">>, <<"nothing", "future">>, <<"metadata", "future">>}
          /\ LET w == [World EXCEPT !.e.ready = ready,
                          !.q = IF ready = "future" /\ ~element.paused
                                THEN Append(@, "playing") ELSE @]
             IN  Becomes(Ready(w, seek))
    /\ UNCHANGED <<room, open, browser, budget>>

\* 'waiting' and 'stalled'
ElementStalls ==
    /\ element.ready = "future" /\ Fault
    /\ element' = [element EXCEPT !.ready = "metadata"]
    /\ player' = [player EXCEPT !.buffering = TRUE]
    /\ UNCHANGED <<room, loads, open, events, browser>>

\* Faulty: the stored copy is tried again.
OnErrorAgain(p) ==
    IF p.trackId = NoTrack \/ p.loading THEN p
    ELSE [p EXCEPT !.retry = p.trackId, !.buffering = TRUE]

OnError(p) ==
    IF p.trackId = NoTrack \/ p.loading THEN p
    ELSE [p EXCEPT !.bypassCache = @ \/ p.source.cached, !.retry = p.trackId,
                   !.buffering = TRUE]

\* 'error': loading or decoding failed.  A stored copy may be corrupt.
ElementFails ==
    /\ element.src # NoSource /\ element.ready # "error"
    /\ element' = [element EXCEPT !.ready = "error"]
    /\ player' = OnError(player)
    /\ IF Playable THEN Fault ELSE UNCHANGED budget
    /\ UNCHANGED <<room, loads, open, events, browser>>

Sounding == ~element.paused /\ element.ready = "future"

\* An end was told of before the element comes to the next one.
ReachesEnd ==
    /\ "end" \in Interrupts /\ Sounding /\ ~Contains(events, "pausedAtEnd") /\ Change
    /\ Becomes([ElPause(World, "pausedAtEnd") EXCEPT !.e.ended = TRUE])
    /\ UNCHANGED <<room, open, browser>>

\* A call comes in, the headphones are unplugged.
SystemPauses ==
    /\ "system" \in Interrupts /\ ~element.paused /\ Change
    /\ Becomes(ElPause(World, "pausedBySystem"))
    /\ UNCHANGED <<room, open, browser>>

\* END_PAUSE_GRACE_MS: no event takes longer to be dispatched.
GraceOver ==
    /\ player.endPauseQueued /\ ~Contains(events, "pausedAtEnd")
    /\ player' = [player EXCEPT !.endPauseQueued = FALSE]
    /\ UNCHANGED <<room, loads, open, element, events, browser, budget>>

-----------------------------------------------------------------------------
(* Calls, and the network *)

SetPersonalPause ==
    /\ Change
    /\ \E paused, seek \in BOOLEAN :
          /\ paused # player.personalPause
          /\ Becomes(Tick([World EXCEPT !.p.personalPause = paused], seek))
    /\ UNCHANGED <<room, open, browser>>

\* unlock(): from then on the browser lets the page play.
Unlock ==
    /\ "gesture" \in Interrupts /\ Change
    /\ browser' = [browser EXCEPT !.allows = TRUE]
    /\ \E seek \in BOOLEAN :
          LET asked == [World EXCEPT !.p.needsGesture = FALSE]
              primed == [ElPlay(asked) EXCEPT !.p.priming = TRUE]
          IN  Becomes(Tick(
                IF element.src = NoSource THEN asked
                ELSE IF room.playing /\ ~player.personalPause THEN ElPlay(LeaveEnded(asked))
                ELSE IF Sounding THEN PauseEl(asked)
                ELSE primed, seek))
    /\ UNCHANGED <<room, open>>

\* dispose()
Dispose ==
    /\ ~player.disposed /\ Change
    /\ Becomes(PauseEl([World EXCEPT !.p.disposed = TRUE, !.p.start = FALSE, !.p.retry = NoTrack]))
    /\ open' = Released(player.source)
    /\ UNCHANGED <<room, browser>>

Offline ==
    /\ browser.online /\ Fault
    /\ browser' = [browser EXCEPT !.online = FALSE]
    /\ UNCHANGED <<room, player, loads, open, element, events>>

Online ==
    /\ ~browser.online
    /\ browser' = [browser EXCEPT !.online = TRUE]
    /\ UNCHANGED <<room, player, loads, open, element, events, budget>>

Next ==
    \/ RoomChanges \/ TickTimer \/ StartTimer \/ RetryTimer
    \/ StaleAnswer \/ SourceArrives \/ NothingArrives
    \/ PauseEvent \/ PlayingEvent \/ GraceOver
    \/ ElementLoads \/ ElementStalls \/ ElementFails \/ ReachesEnd \/ SystemPauses
    \/ SetPersonalPause \/ Unlock \/ Dispose \/ Offline \/ Online

\* Timers run, events are dispatched, answers and data arrive, and a network
\* that is gone comes back.
Fairness ==
    /\ WF_vars(TickTimer) /\ WF_vars(RetryTimer)
    /\ WF_vars(PauseEvent) /\ WF_vars(PlayingEvent)
    /\ WF_vars(SourceArrives) /\ WF_vars(NothingArrives)
    /\ WF_vars(ElementLoads) /\ WF_vars(~Playable /\ ElementFails) /\ WF_vars(Online)

Spec == Init /\ [][Next]_vars /\ Fairness

-----------------------------------------------------------------------------
(* Properties *)

\* `state`
State ==
    [trackId |-> player.trackId,
     ready |-> /\ player.trackId # NoTrack /\ ~player.loading /\ ~player.unavailable
               /\ element.ready = "future",
     buffering |-> player.loading \/ player.buffering,
     audible |-> ~element.paused /\ ~player.buffering]

\* reportStatus: what the room is told, by which it decides for whom to wait.
Report ==
    [trackId |-> State.trackId, ready |-> State.ready, buffering |-> State.buffering,
     playing |-> State.audible]

\* However loads overtake each other: an element that is neither loading nor
\* given up has the source of the track it is for, so that a phone that the
\* room takes to be ready, or still to be waited for, is so for that track.
PlaysItsTrack ==
    ~player.disposed =>
        /\ player.trackId # NoTrack /\ ~player.loading /\ ~player.unavailable
           => element.src = player.source /\ element.src.track = player.trackId
        /\ Report.ready => element.src.track = Report.trackId

\* A source that was handed out is released once it is not used, and never
\* while the element plays from it.
SourcesReleased ==
    /\ ~player.disposed => (element.src.cached => element.src \in open)
    /\ open = IF player.source.cached /\ ~player.disposed THEN {player.source} ELSE {}

\* Phones play: with the room playing a track, the element ends up playing it,
\* through calls of resolve that are overtaken or fail, corrupt copies, stalls,
\* ends that come too early and a network that goes away.
Following ==
    element.src.track = room.track /\ Sounding
ShouldPlay ==
    /\ room.playing /\ ~room.armed /\ ~room.ending
    /\ browser.allows /\ ~player.personalPause /\ ~player.disposed
ElementFollows == <>[]ShouldPlay => <>[]Following

\* Not so: what is heard is the track the phone tells the room of.
HeardIsTold == Report.playing => element.src.track = Report.trackId

\* Not so: the end of a track does not stop this phone from following the room.
EndIsNoPause ==
    [][ PauseEvent /\ Head(events) = "pausedAtEnd" => player'.personalPause = player.personalPause ]_vars

\* Not so: a pause by the system (incoming call, headphones removed) is
\* respected, when no other pause and no end of a track is about.
SystemPauseHeeded ==
    [][ PauseEvent /\ events = <<"pausedBySystem">> /\ element.paused /\ ~element.ended
           /\ ~player.endPauseQueued /\ ~player.disposed
        => player'.personalPause ]_vars
=============================================================================
