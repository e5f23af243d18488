-------------------------------- MODULE Room --------------------------------
(***************************************************************************)
(* The room actor of internal/hub/room.go around the engine: one goroutine *)
(* owns the room state and handles, one at a time, joins, leaves, commands *)
(* and statuses of listeners, library changes and its own timer.  Handlers *)
(* end by broadcasting the state when they changed it, and a save loop     *)
(* persists it now and then.                                               *)
(*                                                                         *)
(* Time passes in Elapse.  The actor's timer is re-armed after every event *)
(* to the earliest moment something is due, and a timer that is due to at  *)
(* least a millisecond from then.  The model keeps the moment it was due,  *)
(* and Elapse lets the clock pass it by at most TimerSlack, which stands   *)
(* for that, for scheduling latency and for events that are handled first; *)
(* events that come without end, less than a millisecond apart, are left   *)
(* out.  A tick may also come early, as it does for presence and for the   *)
(* expiry of members.                                                      *)
(***************************************************************************)
EXTENDS Engine

CONSTANTS
    Clients,          \* client ids
    CatalogVersions,  \* the catalogs successive library scans may find
    TimerSlack,       \* how late the timer may be served
    Ops,              \* the operations listeners use
    Positions,        \* positions in commands
    ContextRequests,  \* track lists in playContext
    AddRequests,      \* track lists in queueAdd
    Statuses,         \* statuses listeners report
    Restarts,         \* whether the server may crash and come back
    MaxTime,          \* bound on the clock
    MaxVersion,       \* bound on the version: no commands and scans beyond it
    MaxEntrySeq       \* bound on entry ids: nothing is queued beyond it

\* A hold is re-examined HoldMarginMs before the start it guards, so the timer
\* must be served within that margin.
ASSUME SlackAssumption == TimerSlack \in Nat /\ TimerSlack < HoldMarginMs

ASSUME ParametersAssumption ==
    /\ MaxTime \in Nat /\ Positions \subseteq Int
    /\ ContextRequests \subseteq Seq(TrackIds) /\ AddRequests \subseteq Seq(TrackIds)
    /\ CatalogVersions # {} /\ \A cat \in CatalogVersions : IsCatalog(cat)
    /\ Statuses \subseteq [ready : BOOLEAN, trackID : TrackIds \cup {NoTrack}, buffering : BOOLEAN]

VARIABLES
    now,             \* server time in ms
    timer,           \* when the actor's timer fires
    st,              \* the engine's state
    member,          \* the listeners the room knows, by client id
    told,            \* the snapshot last handed to each listener's connection
    reports,         \* "ended" commands on their way
    dirty, saved,    \* the save loop: unsaved changes, the stored state
    catalog,         \* the library's current catalog
    libraryPending   \* a libraryEvent waits in the inbox

vars == <<now, timer, st, member, told, reports, dirty, saved, catalog, libraryPending>>

NoStatus == [ready |-> FALSE, trackID |-> NoTrack, buffering |-> FALSE]
Absent == [presence |-> "absent", hasStatus |-> FALSE, status |-> NoStatus]
NothingTold == NewState

\* Nothing is due: the timer is set to an hour ahead, beyond the modelled time.
Never == MaxTime + 1

\* What clients get to see of a state, and what is worth saving of it: entry
\* ids are drawn from nextEntrySeq even by commands that fail.
Visible(s) == [s EXCEPT !.nextEntrySeq = 0]

TypeOK ==
    /\ now \in Nat /\ timer \in Nat
    /\ st \in States /\ saved \in States
    /\ member \in [Clients -> [presence : {"absent", "connected", "gone"},
                               hasStatus : BOOLEAN,
                               status : Statuses \cup {NoStatus}]]
    /\ told \in [Clients -> States]
    /\ reports \subseteq [client : Clients, trackID : TrackIds, entryID : Nat, anchorMs : Nat]
    /\ dirty \in BOOLEAN /\ libraryPending \in BOOLEAN
    /\ catalog \in CatalogVersions

Init ==
    /\ now = 0 /\ timer = Never
    /\ st = NewState /\ saved = NewState
    /\ member = [c \in Clients |-> Absent]
    /\ told = [c \in Clients |-> NothingTold]
    /\ reports = {}
    /\ dirty = FALSE /\ libraryPending = FALSE
    /\ catalog \in CatalogVersions

-----------------------------------------------------------------------------
(* Parts of handlers *)

Connected(members) == {c \in Clients : members[c].presence = "connected"}

\* Whether every connected listener has buffered the held track.
AllReady(members, s) ==
    Holding(s) => \A c \in Connected(members) :
                    /\ members[c].hasStatus
                    /\ members[c].status.ready
                    /\ members[c].status.trackID = s.hold.trackID

\* Faulty: only the last handler's changes are left for the save loop.
PublishForgetting(s, changed) ==
    /\ st' = s
    /\ dirty' = changed
    /\ told' = [c \in Clients |-> CASE c \notin Connected(member') -> NothingTold
                                   [] c \in Connected(member') /\ changed -> Visible(s)
                                   [] OTHER -> told[c]]

\* The end of a handler that leaves state s: a change is broadcast to the
\* connected listeners and left for the save loop.
Publish(s, changed) ==
    /\ st' = s
    /\ dirty' = (dirty \/ changed)
    /\ told' = [c \in Clients |-> CASE c \notin Connected(member') -> NothingTold
                                   [] c \in Connected(member') /\ changed -> Visible(s)
                                   [] OTHER -> told[c]]

\* Faulty: a change of the hold alone is not broadcast.
CheckHoldQuietly(s, changed) == Publish(CheckHold(s, now, AllReady(member', s)), changed)

\* checkHold: evaluates the hold after a handler's own work.
CheckHoldAndPublish(s, changed) ==
    LET held == CheckHold(s, now, AllReady(member', s))
    IN  Publish(held, changed \/ held # s)

\* reschedule: the moments the playback needs the timer for, at least a
\* millisecond ahead.
Deadlines(s) ==
    (IF HasEnd(s.playback) THEN {EndsAt(s.playback)} ELSE {})
        \cup (IF Holding(s) THEN {NextHoldCheck(s)} ELSE {})

Reschedule == timer' = Max({now' + 1, Min({Never} \cup Deadlines(st'))})

\* After an event other than the timer's.  If a tick is due and the event was
\* merely handled first, the tick remains due: re-arming delays it by no more
\* than the slack.
RescheduleAfterEvent ==
    IF timer <= now /\ \E due \in Deadlines(st') : due <= now THEN UNCHANGED timer
    ELSE Reschedule

-----------------------------------------------------------------------------
(* Commands *)

Settled == Settle(st, now, catalog)

\* The command handler: Apply, then the hold and the broadcast if anything
\* changed.  The outcome is the engine's for the settled state.
Handle(outcome) ==
    LET applied == Commit(Settled, outcome)
        changed == Overdue(st, now) \/ outcome.changed # {}
    IN  /\ UNCHANGED <<now, member, saved, catalog, libraryPending>>
        /\ IF changed THEN CheckHoldAndPublish(applied, TRUE) ELSE Publish(applied, FALSE)

Command(c, outcome) ==
    /\ c \in Connected(member)
    /\ st.version < MaxVersion
    /\ UNCHANGED reports
    /\ Handle(outcome)

PlayCommand(c) ==
    /\ "play" \in Ops
    /\ \E pos \in Positions \cup {NoValue} : Command(c, Play(Settled, pos, now, catalog))

PauseCommand(c) ==
    /\ "pause" \in Ops
    /\ \E pos \in Positions \cup {NoValue} : Command(c, Pause(Settled, pos, now))

SeekCommand(c) ==
    /\ "seek" \in Ops
    /\ \E pos \in Positions : Command(c, Seek(Settled, pos, now))

NextCommand(c) == "next" \in Ops /\ Command(c, SkipNext(Settled, now, catalog))

PrevCommand(c) == "prev" \in Ops /\ Command(c, SkipPrev(Settled, now, catalog))

PlayContextCommand(c) ==
    /\ "playContext" \in Ops
    /\ \E tracks \in ContextRequests :
        /\ \A i \in DOMAIN tracks : Known(catalog, tracks[i])
        /\ \E first \in 0..Len(tracks) \cup {NoValue} :
            \E order \in Orders(Len(tracks), IF first = NoValue THEN 0 ELSE first,
                                Settled.shuffle) :
                Command(c, PlayContext(Settled, tracks, first, order, now, catalog))

JumpCommand(c) ==
    /\ "jump" \in Ops
    /\ \E i \in 0..Len(Settled.order) : Command(c, JumpTo(Settled, i, now, catalog))

PlayEntryCommand(c) ==
    /\ "playEntry" \in Ops
    /\ \E id \in 1..Settled.nextEntrySeq : Command(c, PlayEntry(Settled, id, now, catalog))

QueueAddCommand(c) ==
    /\ "queueAdd" \in Ops
    /\ st.nextEntrySeq < MaxEntrySeq
    /\ \E ids \in AddRequests, atFront \in BOOLEAN :
        Command(c, QueueAdd(Settled, ids, atFront, catalog))

QueueRemoveCommand(c) ==
    /\ "queueRemove" \in Ops
    /\ \E id \in 1..Settled.nextEntrySeq : Command(c, QueueRemove(Settled, id))

QueueMoveCommand(c) ==
    /\ "queueMove" \in Ops
    /\ \E id \in 1..Settled.nextEntrySeq, to \in 0..(Len(Settled.queue) + 1) :
        Command(c, QueueMove(Settled, id, to))

QueueClearCommand(c) == "queueClear" \in Ops /\ Command(c, QueueClear(Settled))

ShuffleCommand(c) ==
    /\ "shuffle" \in Ops
    /\ \E on \in BOOLEAN :
        \E order \in Orders(Len(Settled.tracks), CurrentTrack(Settled), on) :
            Command(c, SetShuffle(Settled, on, order))

RepeatCommand(c) ==
    /\ "repeat" \in Ops
    /\ \E mode \in RepeatModes : Command(c, SetRepeat(Settled, mode))

WaitForAllCommand(c) ==
    /\ "waitForAll" \in Ops
    /\ \E on \in BOOLEAN : Command(c, SetWaitForAll(Settled, on))

\* A listener whose audio element reached the end of a track of unknown
\* length reports it; the report names the track but not the occasion.  One
\* report per listener is on its way at a time.
ReportEnd(c) ==
    LET p == told[c].playback
    IN  /\ "ended" \in Ops
        /\ c \in Connected(member)
        /\ p.playing /\ p.trackID # NoTrack /\ p.durationMs = 0 /\ now >= p.anchorMs
        /\ \A r \in reports : r.client # c
        /\ st.version < MaxVersion
        /\ reports' = reports \cup {[client |-> c, trackID |-> p.trackID,
                                     entryID |-> p.entryID, anchorMs |-> p.anchorMs]}
        /\ UNCHANGED <<now, timer, st, member, told, dirty, saved, catalog, libraryPending>>

EndedCommand(r) ==
    /\ r.client \in Connected(member)
    /\ reports' = reports \ {r}
    /\ Handle(Ended(Settled, r.trackID, r.entryID, now, catalog))

-----------------------------------------------------------------------------
(* Listeners come and go *)

\* The newcomer gets the state; everyone does when time had to catch up.  A
\* known listener keeps its last status, but it does not count until renewed.
Join(c) ==
    /\ member' = [member EXCEPT ![c].presence = "connected", ![c].hasStatus = FALSE]
    /\ IF Overdue(st, now) THEN Publish(Settled, TRUE)
       ELSE /\ told' = [told EXCEPT ![c] = Visible(st)]
            /\ UNCHANGED <<st, dirty>>
    /\ UNCHANGED <<now, reports, saved, catalog, libraryPending>>

\* A departed listener must not block a held start.
Leave(c) ==
    /\ c \in Connected(member)
    /\ member' = [member EXCEPT ![c].presence = "gone"]
    /\ CheckHoldAndPublish(st, FALSE)
    /\ UNCHANGED <<now, reports, saved, catalog, libraryPending>>

\* A status that says nothing new does not evaluate the hold.
Status(c, status) ==
    /\ c \in Connected(member)
    /\ member' = [member EXCEPT ![c].hasStatus = TRUE, ![c].status = status]
    /\ IF status # member[c].status THEN CheckHoldAndPublish(st, FALSE)
       ELSE UNCHANGED <<st, dirty, told>>
    /\ UNCHANGED <<now, reports, saved, catalog, libraryPending>>

-----------------------------------------------------------------------------
(* The timer, the library and the store *)

Elapse ==
    /\ now < MaxTime /\ now < timer + TimerSlack
    /\ now' = now + 1
    /\ UNCHANGED <<timer, st, member, told, reports, dirty, saved, catalog, libraryPending>>

\* Catches up, evaluates the hold, forgets listeners that stayed away longer
\* than the grace period (any that are gone: the period is not timed here).
Tick ==
    /\ \E expired \in SUBSET {c \in Clients : member[c].presence = "gone"} :
        member' = [c \in Clients |-> IF c \in expired THEN Absent ELSE member[c]]
    /\ CheckHoldAndPublish(Settled, Overdue(st, now))
    /\ UNCHANGED <<now, reports, saved, catalog, libraryPending>>

\* A scan publishes a new catalog and posts a libraryEvent to the room.
Rescan ==
    /\ st.version < MaxVersion
    /\ catalog' \in CatalogVersions \ {catalog}
    /\ libraryPending' = TRUE
    /\ UNCHANGED <<now, timer, st, member, told, reports, dirty, saved>>

\* Durations may have changed after a rescan.
LibraryChanged ==
    LET id == st.playback.trackID
        renew == Known(catalog, id) /\ catalog[id] # st.playback.durationMs
    IN  /\ libraryPending
        /\ libraryPending' = FALSE
        /\ UNCHANGED <<now, member, reports, saved, catalog>>
        /\ IF renew THEN Publish([st EXCEPT !.playback.durationMs = catalog[id],
                                            !.version = @ + 1], TRUE)
           ELSE UNCHANGED <<st, told, dirty>>

Save ==
    /\ Restarts /\ dirty
    /\ saved' = st /\ dirty' = FALSE
    /\ UNCHANGED <<now, st, member, told, reports, catalog, libraryPending>>

\* The server stops, after a last save or by crashing, and comes back at a
\* later time with the stored state, catching up with the time in between.
\* A hold never survives, and every listener has to join again.
Restart ==
    /\ Restarts
    /\ now' \in now..MaxTime
    /\ LET loaded == [saved EXCEPT !.hold = NoHold]
       IN  /\ st' = Settle(loaded, now', catalog)
           /\ dirty' = Overdue(loaded, now')
    /\ member' = [c \in Clients |-> Absent]
    /\ told' = [c \in Clients |-> NothingTold]
    /\ libraryPending' = FALSE
    /\ UNCHANGED <<saved, reports, catalog>>

ClientEvent(c) ==
    \/ PlayCommand(c) \/ PauseCommand(c) \/ SeekCommand(c)
    \/ NextCommand(c) \/ PrevCommand(c)
    \/ PlayContextCommand(c) \/ JumpCommand(c) \/ PlayEntryCommand(c)
    \/ QueueAddCommand(c) \/ QueueRemoveCommand(c) \/ QueueMoveCommand(c)
    \/ QueueClearCommand(c)
    \/ ShuffleCommand(c) \/ RepeatCommand(c) \/ WaitForAllCommand(c)
    \/ Join(c) \/ Leave(c)
    \/ \E status \in Statuses : Status(c, status)

\* Everything the actor's loop may receive, each followed by reschedule.
Event ==
    \/ \E c \in Clients : ClientEvent(c)
    \/ \E r \in reports : EndedCommand(r)
    \/ LibraryChanged
    \/ Save

Next ==
    \/ Event /\ RescheduleAfterEvent
    \/ (Tick \/ Restart) /\ Reschedule
    \/ Elapse
    \/ \E c \in Clients : ReportEnd(c)
    \/ Rescan

Spec == Init /\ [][Next]_vars

-----------------------------------------------------------------------------
(* Safety *)

\* The play order stays a permutation of the context and contextIndex a place
\* in it, through shuffling, wrapping around and replacing the context.
ContextOk == OrderOk(st)

\* Entry ids stay unique over adding, moving, playing and restarting, and an
\* entry that plays is no longer queued.
QueueOk == EntriesOk(st)

\* Every connected listener was last handed the state the room is in: no
\* handler changes what clients see and forgets to broadcast it.
EveryoneToldLatest == \A c \in Connected(member) : told[c] = Visible(st)

\* The save loop only considers the room clean when the stored state is the
\* current one, apart from a hold, which is never restored.
CleanMeansSaved ==
    ~dirty => [Visible(saved) EXCEPT !.hold = NoHold] = [Visible(st) EXCEPT !.hold = NoHold]

\* While listeners are being waited for, the start stays ahead of the clock:
\* the timer and the postponements never let a held track begin.
StartWaitsForHold == Holding(st) /\ ~HoldIsStale(st) => now < st.playback.anchorMs

\* "Wait for everyone" gives up in time, whoever keeps the others waiting.
HoldIsBounded == Holding(st) => now <= st.hold.untilMs + TimerSlack

\* Once the room has heard of the last scan, what plays has the length the
\* library gives it, whichever way and under whichever catalog it was started.
DurationFollowsCatalog ==
    ~libraryPending /\ Known(catalog, st.playback.trackID)
        => st.playback.durationMs = catalog[st.playback.trackID]

\* Catching up now and again later gives what catching up only later gives:
\* phones that follow the timeline on their own agree with the server and
\* with each other, whenever they look.  (The later time is bounded by a
\* little more than MaxTime, for two tracks to end in one go.)
CatchUpIsConfluent ==
    \A later \in now..(MaxTime + 2) :
        Normalize(Normalize(st, now, catalog), later, catalog) = Normalize(st, later, catalog)

\* A tick leaves nothing that is already due, so the actor never re-arms its
\* timer in the past and spins.
TickLeavesNothingDue ==
    [][(\E due \in Deadlines(st') : due <= now) => ~Tick]_vars

\* Clients drop states that are not newer: whatever they see of a room only
\* changes together with its version.
VersionCoversChanges ==
    [][Visible(st') # Visible(st) => st'.version > st.version \/ Restart]_vars

\* The queue and the context are only sent when their own versions changed,
\* so these must change whenever their contents do.
PartVersionsCoverChanges ==
    [][/\ st'.queue # st.queue => st'.queueVersion > st.queueVersion \/ Restart
       /\ <<st'.tracks, st'.order>> # <<st.tracks, st.order>>
            => st'.contextVersion > st.contextVersion \/ Restart]_vars

\* Switching shuffle on or off changes what comes next, not what plays.
ShuffleKeepsTrack ==
    [][st'.shuffle # st.shuffle /\ ~Overdue(st, now) /\ ~Restart
        => /\ CurrentTrack(st') = CurrentTrack(st)
           /\ st'.playback.trackID = st.playback.trackID]_vars

\* Not so: a report about the end of one playing of a track ends no other one.
ReportsEndOnlyTheirTrack ==
    [][\A r \in reports : EndedCommand(r) /\ ~Overdue(st, now)
        /\ r.anchorMs # st.playback.anchorMs => st'.playback = st.playback]_vars
=============================================================================
