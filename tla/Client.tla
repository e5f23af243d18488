------------------------------- MODULE Client -------------------------------
(***************************************************************************)
(* One phone over time: the life of its connection                         *)
(* (web/src/sync/connection.ts), of the engine that uses it                *)
(* (web/src/engine.ts) and of the app around both (web/src/App.tsx).       *)
(*                                                                         *)
(* A room's state is its room and its version: what it says is module      *)
(* Engine's matter, how it is delivered StateDelivery's, and how commands  *)
(* are retried Commands'.  A message arrives as it is sent; one that a     *)
(* closed socket had under way is lost, since its handlers are gone.       *)
(* Reads of the phone's store answer later, in order.                      *)
(***************************************************************************)
EXTENDS Integers, Sequences

CONSTANTS
    Rooms,
    MaxVersion,  \* bound on the versions of a room
    MaxActs,     \* bound on what people do
    MaxFaults,   \* bound on what goes wrong
    Hasty        \* people act while the phone still reads its store

ASSUME BoundsAssumption == MaxVersion \in Nat \ {0} /\ MaxActs \in Nat /\ MaxFaults \in Nat
ASSUME HastyAssumption == Hasty \in BOOLEAN

VARIABLES
    app,        \* App's phase, and whether the server accepts the session
    shell,      \* the status Shell last saw, and its question after the session
    engine,     \* started, listens, was online; reads of snapshots, the save timer
    conn,       \* the fields of RoomConnection
    socket,     \* its WebSocket
    local,      \* the optimistic state and the command it waits for
    room,       \* useSettings' room
    store,      \* snapshots, by room
    versions,   \* the server's rooms
    network,    \* the phone has a network
    budget

vars == <<app, shell, engine, conn, socket, local, room, store, versions, network, budget>>

Empty == [room |-> "none", version |-> 0]
States == [room : Rooms, version : 1..MaxVersion] \cup {Empty}
NoSocket == [at |-> "none", room |-> "none", told |-> 0]
NotLocal == [base |-> -1, pending |-> FALSE]

\* The types of the fields, and the status that tells a stopped connection.
TypeOK ==
    /\ conn.stopped <=> conn.status = "idle"
    /\ app \in [phase : {"checking", "login", "app"}, needsPassword : BOOLEAN, session : BOOLEAN]
    /\ shell \in [status : {"idle", "connecting", "online", "offline"},
                  question : {"none", "armed", "missed"}, asked : BOOLEAN]
    /\ engine.started \in BOOLEAN /\ engine.listens \in BOOLEAN /\ engine.saving \in BOOLEAN
    /\ engine.wasOnline \in BOOLEAN
    /\ engine.reads \in Seq([why : {"start", "switch"}, snapshot : States])
    /\ conn \in [stopped : BOOLEAN, halted : BOOLEAN, reconnect : BOOLEAN, retrying : BOOLEAN,
                 status : {"idle", "connecting", "online", "offline"}, fresh : BOOLEAN,
                 state : States]
    /\ socket \in [at : {"connecting", "open", "joined"}, room : Rooms \cup {"none"},
                   told : 0..MaxVersion] \cup {NoSocket}
    /\ local \in [base : -1..MaxVersion, pending : BOOLEAN]
    /\ room \in Rooms /\ store \in [Rooms -> States] /\ versions \in [Rooms -> 1..MaxVersion]
    /\ network \in BOOLEAN /\ budget \in [acts : 0..MaxActs, faults : 0..MaxFaults]

-----------------------------------------------------------------------------
(* What a handler changes, by the methods it calls *)

World == [c |-> conn, s |-> socket, e |-> engine, l |-> local]
Becomes(w) == conn' = w.c /\ socket' = w.s /\ engine' = w.e /\ local' = w.l

CloseSocket(w) == [w EXCEPT !.s = NoSocket]

Connect(w) ==
    IF w.c.stopped THEN w
    ELSE [w EXCEPT !.s = [NoSocket EXCEPT !.at = "connecting"],
                   !.c.status = IF ~w.c.retrying /\ @ # "offline" THEN "connecting" ELSE "offline"]

\* Faulty: the timer is left to whoever closed the socket.
ScheduleNothing(w) ==
    IF w.c.stopped \/ w.c.halted THEN w
    ELSE [w EXCEPT !.c.status = "offline", !.c.retrying = TRUE]

ScheduleReconnect(w) ==
    IF w.c.stopped \/ w.c.halted THEN w
    ELSE [w EXCEPT !.c.status = "offline", !.c.retrying = TRUE, !.c.reconnect = TRUE]

ReconnectNow(w) ==
    IF w.c.stopped \/ w.c.halted \/ w.s.at # "none" THEN w
    ELSE Connect([w EXCEPT !.c.reconnect = FALSE, !.c.retrying = FALSE])

\* A command that fails takes the optimistic state with it.
CommandFails(w) == IF w.l.pending THEN [w EXCEPT !.l = NotLocal] ELSE w

\* Faulty: takes its own close for a lost link.
StopLater(w) ==
    CommandFails([ScheduleReconnect(CloseSocket(w)) EXCEPT !.c.stopped = TRUE, !.c.reconnect = FALSE])

ConnStop(w) ==
    CommandFails([CloseSocket(w) EXCEPT !.c.stopped = TRUE, !.c.reconnect = FALSE,
                                        !.c.status = "idle"])
ConnStart(w) ==
    IF ~w.c.stopped THEN w
    ELSE Connect([w EXCEPT !.c.stopped = FALSE, !.c.halted = FALSE])
ConnRestart(w) == ConnStart(ConnStop(w))

SetKV(st, r, state) == [st EXCEPT ![r] = state]

\* restoreSnapshot, up to where it waits for the store.
Restoring(w, why, r) ==
    [w EXCEPT !.e.reads = Append(@, [why |-> why, snapshot |-> store[r]])]

EngineStart(w, r) ==
    IF w.e.started THEN w ELSE Restoring([w EXCEPT !.e.started = TRUE], "start", r)

EngineStop(w) ==
    ConnStop([w EXCEPT !.e.started = FALSE, !.e.listens = FALSE, !.e.saving = FALSE])

\* Faulty: goes on with the old room's connection.
ForgetRoom(w, r) ==
    Restoring([w EXCEPT !.l.base = -1, !.c.state = Empty], "start", r)

SwitchRoom(w, r) ==
    Restoring([w EXCEPT !.l.base = -1, !.c.state = Empty], "switch", r)

\* The settings change; only a started engine listens to them.
RoomSet(w, r) == IF r # room /\ w.e.listens THEN SwitchRoom(w, r) ELSE w

\* The update of the settings, which are stored, tells whoever listens.
SettingsUpdate(r, w) == room' = r /\ Becomes(w)

\* A state is shown at once, and saved a little later.
OnServerState(e) == [e EXCEPT !.saving = @ \/ (e.listens /\ e.started)]

\* A link that dropped counts as usable for RECONNECT_GRACE_MS after it was last
\* established, whatever happens within that time.
Usable == conn.status = "online" \/ engine.wasOnline

-----------------------------------------------------------------------------
EngineInit == [started |-> FALSE, listens |-> FALSE, wasOnline |-> FALSE, saving |-> FALSE, reads |-> <<>>]

Init ==
    /\ app \in [phase : {"checking"}, needsPassword : {FALSE}, session : BOOLEAN]
    /\ shell = [status |-> "idle", question |-> "none", asked |-> FALSE]
    /\ engine = EngineInit
    /\ conn = [stopped |-> TRUE, halted |-> FALSE, reconnect |-> FALSE, retrying |-> FALSE,
               status |-> "idle", fresh |-> FALSE, state |-> Empty]
    /\ socket = NoSocket /\ local = NotLocal
    /\ room \in Rooms
    /\ store \in {[r \in Rooms |-> Empty], [r \in Rooms |-> [room |-> r, version |-> 1]]}
    /\ versions = [r \in Rooms |-> 1]
    /\ network \in BOOLEAN
    /\ budget = [acts |-> MaxActs, faults |-> MaxFaults]

Calm == Hasty \/ engine.reads = <<>>
Act == Calm /\ budget.acts > 0 /\ budget' = [budget EXCEPT !.acts = @ - 1]
Fault == budget.faults > 0 /\ budget' = [budget EXCEPT !.faults = @ - 1]

-----------------------------------------------------------------------------
(* The app *)

\* What Shell is told of the connection: by the engine, while it listens.
StatusTold == IF engine'.listens /\ conn'.status # conn.status THEN conn'.status ELSE shell.status

\* The effect of Shell: when it sees "offline" and the browser has a network, a
\* timer is to ask the server, once; when the browser has none, nobody will.
Question(status, online) ==
    IF status # "offline" THEN "none" ELSE IF online THEN "armed" ELSE "missed"

\* The effect runs when Shell appears and when the status it sees has changed; the
\* timer goes with the status and with Shell, an answer on its way does not.
ShellRenders(asked) ==
    LET runs == app.phase # "app" \/ StatusTold # shell.status
    IN  shell' = [status |-> StatusTold, asked |-> asked,
                  question |-> IF app'.phase # "app" THEN "none"
                               ELSE IF runs THEN Question(StatusTold, network')
                               ELSE shell.question]

Rendered == ShellRenders(shell.asked)

Enter == app' = [app EXCEPT !.phase = "app"] /\ Becomes(EngineStart(World, room))

\* resolvePhase: a phone that cannot ask goes on with what it has stored; one
\* without a name or without anything stored is shown the login view.
Check ==
    /\ app.phase = "checking"
    /\ \/ (network => app.session) /\ Enter
       \/ /\ app' = [app EXCEPT !.phase = "login", !.needsPassword = network /\ ~app.session]
          /\ UNCHANGED <<engine, conn, socket, local>>
    /\ UNCHANGED <<room, store, versions, network, budget>> /\ Rendered

\* LoginView's submit: the settings are stored and the app is shown.  The
\* server is asked only for a password.
Login ==
    /\ app.phase = "login" /\ (app.needsPassword => network) /\ Calm
    /\ app' = [phase |-> "app", needsPassword |-> FALSE, session |-> app.session \/ app.needsPassword]
    /\ \E r \in Rooms : SettingsUpdate(r, EngineStart(RoomSet(World, r), r))
    /\ UNCHANGED <<store, versions, network, budget>> /\ Rendered

\* onLogout
Logout ==
    /\ app.phase = "app" /\ Act
    /\ app' = [phase |-> "login", needsPassword |-> TRUE, session |-> FALSE]
    /\ Becomes(EngineStop(World))
    /\ UNCHANGED <<room, store, versions, network>> /\ Rendered

\* The server forgets the session; an open socket goes on.
SessionExpires ==
    /\ app.session /\ Fault
    /\ app' = [app EXCEPT !.session = FALSE]
    /\ UNCHANGED <<shell, engine, conn, socket, local, room, store, versions, network>>

\* The timer of Shell's effect: it asks the server for the session.
AskSession ==
    /\ shell.question = "armed"
    /\ shell' = [shell EXCEPT !.question = "missed", !.asked = TRUE]
    /\ UNCHANGED <<app, engine, conn, socket, local, room, store, versions, network, budget>>

\* The answer: without a session the login view is shown, the engine goes on
\* trying; an answer that all is well, or an error, changes nothing.
SessionAnswered ==
    /\ shell.asked
    /\ app' = IF network /\ ~app.session THEN [app EXCEPT !.phase = "login", !.needsPassword = TRUE]
              ELSE app
    /\ UNCHANGED <<engine, conn, socket, local, room, store, versions, network, budget>>
    /\ ShellRenders(FALSE)

\* The request fails, or the one resolvePhase makes after it.
AnswerLost ==
    /\ shell.asked /\ Fault
    /\ app' \in {app} \cup IF app.session THEN {}
                           ELSE {[app EXCEPT !.phase = "login", !.needsPassword = FALSE]}
    /\ UNCHANGED <<engine, conn, socket, local, room, store, versions, network>>
    /\ ShellRenders(FALSE)

\* The settings view.
ChangeRoom ==
    /\ app.phase = "app" /\ Act
    /\ \E r \in Rooms \ {room} : SettingsUpdate(r, RoomSet(World, r))
    /\ UNCHANGED <<app, store, versions, network>> /\ Rendered

\* takeOver
TakeOver ==
    /\ app.phase = "app" /\ conn.halted /\ Act
    /\ Becomes(ConnRestart(World))
    /\ UNCHANGED <<app, room, store, versions, network>> /\ Rendered

-----------------------------------------------------------------------------
(* The engine *)

\* The rest of restoreSnapshot, when the store has answered.
Restored(w, snapshot) ==
    [w EXCEPT !.e.reads = Tail(@),
              !.c.state = IF snapshot # Empty /\ @ = Empty THEN snapshot ELSE @]

\* What waited for it goes on.
SnapshotRead ==
    /\ engine.reads # <<>>
    /\ LET read == Head(engine.reads)
           restored == Restored(World, read.snapshot)
       IN  Becomes(IF read.why = "switch" THEN ConnRestart(restored)
                   ELSE ConnStart([restored EXCEPT !.e.listens = TRUE]))
    /\ UNCHANGED <<app, room, store, versions, network, budget>> /\ Rendered

\* saveSnapshotSoon's timer.
SaveSnapshot ==
    /\ engine.saving
    /\ engine' = [engine EXCEPT !.saving = FALSE]
    /\ store' = SetKV(store, room, conn.state)
    /\ UNCHANGED <<app, shell, conn, socket, local, room, versions, network, budget>>

\* applyOptimistic: the change shows while the room's state is the one it started from.
AppliedOptimistic(l) == [l EXCEPT !.base = conn.state.version]

\* play, pause and seek.  One command at a time.
Command ==
    /\ app.phase = "app" /\ Usable /\ ~local.pending /\ Act
    /\ local' = [AppliedOptimistic(local) EXCEPT !.pending = TRUE]
    /\ UNCHANGED <<app, shell, engine, conn, socket, room, store, versions, network>>

\* A change of an earlier command goes on showing, and goes if this one fails.
SendOrWarn ==
    /\ Usable /\ ~local.pending
    /\ local' = [local EXCEPT !.pending = TRUE]

\* next, playContext and all others.
PlainCommand ==
    /\ app.phase = "app" /\ Act
    /\ SendOrWarn
    /\ UNCHANGED <<app, shell, engine, conn, socket, room, store, versions, network>>

\* OPTIMISTIC_TTL_MS
OptimisticExpires ==
    /\ local.base >= 0
    /\ local' = [local EXCEPT !.base = -1]
    /\ UNCHANGED <<app, shell, engine, conn, socket, room, store, versions, network, budget>>

\* The server acknowledges what it did; that its state follows is StateArrives.
CommandDone ==
    /\ local.pending /\ socket.at = "joined" /\ versions[socket.room] < MaxVersion
    /\ local' = [local EXCEPT !.pending = FALSE]
    /\ versions' = [versions EXCEPT ![socket.room] = @ + 1]
    /\ UNCHANGED <<app, shell, engine, conn, socket, room, store, network, budget>>

\* The server refuses, or the command grew too old.
CommandRefused ==
    /\ local.pending
    /\ Becomes(CommandFails(World))
    /\ UNCHANGED <<app, shell, room, store, versions, network, budget>>

-----------------------------------------------------------------------------
(* The connection *)

Settled == UNCHANGED <<app, room, store, versions>>

\* onopen: hello names the room of that moment.
SocketOpens ==
    /\ socket.at = "connecting" /\ network /\ app.session
    /\ socket' = [socket EXCEPT !.at = "open", !.room = room]
    /\ Settled /\ UNCHANGED <<shell, engine, conn, local, network, budget>>

\* 'welcome'
Welcomed ==
    /\ socket.at = "open"
    /\ socket' = [socket EXCEPT !.at = "joined"]
    /\ conn' = [conn EXCEPT !.retrying = FALSE, !.fresh = TRUE, !.status = "online"]
    /\ engine' = [engine EXCEPT !.wasOnline = TRUE]
    /\ Settled /\ UNCHANGED <<local, network, budget>> /\ Rendered

\* 'state': the first after a welcome counts whatever its version.
StateArrives ==
    /\ socket.at = "joined" /\ socket.told < versions[socket.room]
    /\ LET version == versions[socket.room]
       IN  /\ socket' = [socket EXCEPT !.told = version]
           /\ IF ~conn.fresh /\ version <= conn.state.version THEN UNCHANGED <<conn, engine>>
              ELSE /\ conn' = [conn EXCEPT !.fresh = FALSE,
                                           !.state = [room |-> socket.room, version |-> version]]
                   /\ engine' = OnServerState(engine)
    /\ Settled /\ UNCHANGED <<shell, local, network, budget>>

\* 'error': this phone was replaced by another tab.
Replaced ==
    /\ socket.at = "joined" /\ ~conn.halted /\ Fault
    /\ conn' = [conn EXCEPT !.halted = TRUE, !.reconnect = FALSE]
    /\ Settled /\ UNCHANGED <<shell, engine, socket, local, network>>

Closes ==
    /\ Becomes(ScheduleReconnect(CloseSocket(World)))
    /\ Settled /\ UNCHANGED network /\ Rendered

\* onclose: the server closes a connection it replaced or one it does not
\* accept; without a network there is none to come.
SocketRefused ==
    /\ socket.at # "none"
    /\ conn.halted \/ (socket.at = "connecting" /\ ~(network /\ app.session))
    /\ UNCHANGED budget /\ Closes

\* onclose, and the watchdog: a link is lost.
LinkLost == socket.at # "none" /\ Fault /\ Closes

\* connect, by its timer.
ReconnectTimer ==
    /\ conn.reconnect
    /\ Becomes(Connect([World EXCEPT !.c.reconnect = FALSE]))
    /\ Settled /\ UNCHANGED <<network, budget>> /\ Rendered

\* onOffline
BrowserOffline ==
    /\ network /\ Fault
    /\ network' = FALSE
    /\ Becomes(IF conn.stopped \/ conn.halted \/ socket.at = "none" THEN World
               ELSE ScheduleReconnect(CloseSocket(World)))
    /\ Settled /\ Rendered

\* onOnline
BrowserOnline ==
    /\ ~network
    /\ network' = TRUE
    /\ Becomes(ReconnectNow(World))
    /\ Settled /\ UNCHANGED budget /\ Rendered

\* onVisible
Visible ==
    /\ Becomes(ReconnectNow(World))
    /\ Settled /\ UNCHANGED <<network, budget>> /\ Rendered

\* Somebody else does something in a room.
RoomChanges ==
    /\ \E r \in Rooms :
          /\ versions[r] < MaxVersion
          /\ versions' = [versions EXCEPT ![r] = @ + 1]
    /\ UNCHANGED <<app, shell, engine, conn, socket, local, room, store, network, budget>>

Next ==
    \/ Check \/ Login \/ Logout \/ SessionExpires \/ ChangeRoom \/ TakeOver
    \/ AskSession \/ SessionAnswered \/ AnswerLost
    \/ SnapshotRead \/ SaveSnapshot \/ Command \/ PlainCommand
    \/ OptimisticExpires \/ CommandDone \/ CommandRefused
    \/ SocketOpens \/ Welcomed \/ StateArrives \/ Replaced \/ SocketRefused \/ LinkLost
    \/ ReconnectTimer \/ BrowserOffline \/ BrowserOnline \/ Visible \/ RoomChanges

\* Timers run, the store and the server answer, and a listener who is asked to
\* log in does.  (Fairness of each of these steps would be a stronger assumption.)
AppStep == Check \/ Login \/ AskSession \/ SessionAnswered \/ SnapshotRead \/ OptimisticExpires
ConnectionStep == SocketOpens \/ Welcomed \/ StateArrives \/ SocketRefused \/ ReconnectTimer

\* A network comes back; nothing need go wrong.
Fairness == WF_vars(AppStep) /\ WF_vars(ConnectionStep) /\ WF_vars(BrowserOnline)

Spec == Init /\ [][Next]_vars /\ Fairness

-----------------------------------------------------------------------------
(* Properties *)

\* "A WebSocket that never gives up": there is a socket or a timer to get one,
\* and never both.
NeverGivesUp ==
    /\ ~conn.stopped /\ ~conn.halted => socket.at # "none" \/ conn.reconnect
    /\ conn.reconnect => socket.at = "none"

\* effectiveState: a local change shows until the room moves on.
Shown ==
    IF local.base >= 0 /\ conn.state.version <= local.base THEN [conn.state EXCEPT !.room = "local"] ELSE conn.state

\* The session is gone, every new connection is refused, and the one question that
\* would tell was asked too early, got no answer or was not asked: the browser had
\* no network when the status became "offline".
Refused ==
    /\ app.phase = "app" /\ ~app.session
    /\ shell.status = "offline" /\ shell.question = "missed" /\ ~shell.asked

UpToDate ==
    /\ conn.status = "online" /\ socket.room = room
    /\ Shown = [room |-> room, version |-> versions[room]]

\* Whatever happened before - sessions that end, rooms changed in mid-connect,
\* lost links, commands refused - a phone ends up showing the room it is set to
\* as that room is, unless another tab took its place or its only question after
\* the session was missed.
ShowsItsRoom == <>[]conn.halted \/ <>[]Refused \/ <>[]UpToDate

\* Not so: a phone that is refused finds out ("after a while of failing, ask the
\* server whether we are logged in").
FindsOut == <>[]conn.halted \/ <>[]UpToDate

\* Not so: what is stored for a room, to continue from, is a state of that room.
SnapshotsOfTheirRoom == \A r \in Rooms : store[r].room \in {r, "none"}
=============================================================================
