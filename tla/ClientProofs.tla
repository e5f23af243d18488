---------------------------- MODULE ClientProofs ----------------------------
(***************************************************************************)
(* Theorems about a phone's connection, for every set of rooms and every   *)
(* number of versions, actions and faults.                                 *)
(***************************************************************************)
EXTENDS Client, TLAPS

Conns == [stopped : BOOLEAN, halted : BOOLEAN, reconnect : BOOLEAN, retrying : BOOLEAN,
          status : {"idle", "connecting", "online", "offline"}, fresh : BOOLEAN, state : States]
Sockets == [at : {"connecting", "open", "joined"}, room : Rooms \cup {"none"},
            told : 0..MaxVersion] \cup {NoSocket}
Reads == [why : {"start", "switch"}, snapshot : States]
Engines == [started : BOOLEAN, listens : BOOLEAN, wasOnline : BOOLEAN, saving : BOOLEAN,
            reads : Seq(Reads)]
Locals == [base : -1..MaxVersion, pending : BOOLEAN]
Worlds == [c : Conns, s : Sockets, e : Engines, l : Locals]

\* A connection that is stopped has nothing to wake it; one that is neither
\* stopped nor halted has either a socket or the timer; a socket that said hello
\* is for a room.
Alive(c, s) ==
    /\ c.stopped <=> c.status = "idle"
    /\ c.stopped => s.at = "none" /\ ~c.reconnect
    /\ ~c.stopped /\ ~c.halted => s.at # "none" \/ c.reconnect
    /\ c.reconnect => s.at = "none"
    /\ s.at \in {"open", "joined"} => s.room \in Rooms

Good(w) == w \in Worlds /\ Alive(w.c, w.s)

\* What is not in a World.
OthersOK ==
    /\ app \in [phase : {"checking", "login", "app"}, needsPassword : BOOLEAN, session : BOOLEAN]
    /\ room \in Rooms /\ store \in [Rooms -> States] /\ versions \in [Rooms -> 1..MaxVersion]
    /\ network \in BOOLEAN /\ budget \in [acts : 0..MaxActs, faults : 0..MaxFaults]

ShellOK == shell \in [status : {"idle", "connecting", "online", "offline"},
                      question : {"none", "armed", "missed"}, asked : BOOLEAN]

IInv == conn \in Conns /\ socket \in Sockets /\ engine \in Engines /\ local \in Locals
        /\ Alive(conn, socket) /\ OthersOK

-----------------------------------------------------------------------------
LEMMA EmptyIsState == Empty \in States
BY DEF States

LEMMA WorldGood ==
    ASSUME IInv
    PROVE  Good(World)
BY DEF IInv, Good, World, Worlds

LEMMA BecomesGood ==
    ASSUME NEW w, Good(w), Becomes(w), OthersOK'
    PROVE  IInv'
BY DEF Good, Worlds, Becomes, IInv, Alive

LEMMA ConnectGood ==
    ASSUME NEW w \in Worlds, w.c.stopped => w.c.status = "idle", w.s.at = "none", ~w.c.reconnect
    PROVE  Good(Connect(w))
<1>1. CASE w.c.stopped
    BY <1>1 DEF Connect, Good, Alive
<1>2. CASE ~w.c.stopped
    <2> DEFINE status == IF ~w.c.retrying /\ w.c.status # "offline" THEN "connecting" ELSE "offline"
               c == [w.c EXCEPT !.status = status]
               s == [NoSocket EXCEPT !.at = "connecting"]
    <2>1. Connect(w) = [w EXCEPT !.s = s, !.c.status = status]
        BY <1>2, SMT DEF Connect, Worlds
    <2>2. c \in Conns /\ s \in Sockets
        <3>1. status \in {"connecting", "offline"}
            OBVIOUS
        <3>2. s \in Sockets
            BY BoundsAssumption DEF Sockets, NoSocket
        <3>3. QED
            BY <3>1, <3>2 DEF Worlds, Conns
    <2>3. Connect(w) \in Worlds /\ Connect(w).c = c /\ Connect(w).s = s
        <3> HIDE DEF s, status
        <3>1. Connect(w) = [w EXCEPT !.s = s, !.c = [@ EXCEPT !.status = status]]
            BY <2>1 DEF Worlds
        <3>2. QED
            BY <3>1, <2>2 DEF Worlds
    <2>4. Alive(c, s)
        BY <1>2 DEF Alive, Worlds, Conns, NoSocket
    <2>5. QED
        BY <2>3, <2>4 DEF Good
<1>3. QED
    BY <1>1, <1>2

LEMMA ScheduleGood ==
    ASSUME NEW w \in Worlds, w.c.stopped <=> w.c.status = "idle",
           w.c.stopped => w.s.at = "none", w.c.stopped \/ w.c.halted => ~w.c.reconnect
    PROVE  Good(ScheduleReconnect(CloseSocket(w)))
<1> DEFINE v == CloseSocket(w)
<1>1. v \in Worlds /\ v.c = w.c /\ v.s = NoSocket
    BY DEF CloseSocket, Worlds, Sockets
<1> HIDE DEF v
<1>2. CASE v.c.stopped \/ v.c.halted
    <2>1. ScheduleReconnect(v) = v
        BY <1>2 DEF ScheduleReconnect
    <2>2. Alive(v.c, NoSocket)
        BY <1>1, <1>2 DEF Alive, NoSocket
    <2>3. Good(ScheduleReconnect(v))
        BY <1>1, <2>1, <2>2 DEF Good
    <2>4. QED
        BY <2>3 DEF v
<1>3. CASE ~v.c.stopped /\ ~v.c.halted
    <2> DEFINE c == [v.c EXCEPT !.status = "offline", !.retrying = TRUE, !.reconnect = TRUE]
    <2>1. ScheduleReconnect(v) = [v EXCEPT !.c = c]
        BY <1>1, <1>3 DEF ScheduleReconnect, Worlds
    <2>2. c \in Conns
        BY <1>1 DEF Worlds, Conns
    <2>3. ScheduleReconnect(v) \in Worlds /\ ScheduleReconnect(v).c = c
          /\ ScheduleReconnect(v).s = NoSocket
        BY <1>1, <2>1, <2>2 DEF Worlds
    <2>4. Alive(c, NoSocket)
        BY <1>1, <1>3 DEF Alive, Worlds, Conns, NoSocket
    <2>5. Good(ScheduleReconnect(v))
        BY <2>3, <2>4 DEF Good
    <2>6. QED
        BY <2>5 DEF v
<1>4. QED
    BY <1>2, <1>3

LEMMA ReconnectGood ==
    ASSUME NEW w, Good(w)
    PROVE  Good(ReconnectNow(w))
<1>1. CASE w.c.stopped \/ w.c.halted \/ w.s.at # "none"
    BY <1>1 DEF ReconnectNow
<1>2. CASE ~(w.c.stopped \/ w.c.halted \/ w.s.at # "none")
    <2> DEFINE v == [w EXCEPT !.c.reconnect = FALSE, !.c.retrying = FALSE]
               c == [w.c EXCEPT !.reconnect = FALSE, !.retrying = FALSE]
    <2>1. c \in Conns /\ c.stopped = w.c.stopped /\ c.status = w.c.status /\ ~c.reconnect
        BY DEF Good, Worlds, Conns
    <2>2. v \in Worlds /\ v.c = c /\ v.s = w.s
        BY <2>1 DEF Good, Worlds
    <2>3. Good(Connect(v))
        BY <1>2, <2>1, <2>2, ConnectGood DEF Good, Alive
    <2>4. QED
        BY <1>2, <2>3 DEF ReconnectNow
<1>3. QED
    BY <1>1, <1>2

LEMMA FailsKeeps ==
    ASSUME NEW w \in Worlds
    PROVE  CommandFails(w) \in Worlds /\ CommandFails(w).c = w.c /\ CommandFails(w).s = w.s
<1>1. NotLocal \in Locals
    BY BoundsAssumption DEF Locals, NotLocal
<1>2. QED
    BY <1>1 DEF CommandFails, Worlds

LEMMA StopGood ==
    ASSUME NEW w \in Worlds
    PROVE  Good(ConnStop(w)) /\ ConnStop(w).c.stopped
<1> DEFINE c == [w.c EXCEPT !.stopped = TRUE, !.reconnect = FALSE, !.status = "idle"]
           v == [CloseSocket(w) EXCEPT !.c.stopped = TRUE, !.c.reconnect = FALSE,
                                       !.c.status = "idle"]
<1>1. c \in Conns /\ c.stopped /\ ~c.reconnect /\ c.status = "idle"
    BY DEF Worlds, Conns
<1>2. v \in Worlds /\ v.c = c /\ v.s = NoSocket
    BY <1>1 DEF CloseSocket, Worlds, Sockets
<1> HIDE DEF c, v
<1>3. Alive(c, NoSocket)
    BY <1>1 DEF Alive, NoSocket
<1>4. Good(CommandFails(v)) /\ CommandFails(v).c.stopped
    BY <1>1, <1>2, <1>3, FailsKeeps DEF Good
<1>5. ConnStop(w) = CommandFails(v)
    BY DEF ConnStop, v
<1>6. QED
    BY <1>4, <1>5

LEMMA StartGood ==
    ASSUME NEW w, Good(w)
    PROVE  Good(ConnStart(w))
<1>1. CASE ~w.c.stopped
    BY <1>1 DEF ConnStart
<1>2. CASE w.c.stopped
    <2> DEFINE c == [w.c EXCEPT !.stopped = FALSE, !.halted = FALSE]
               v == [w EXCEPT !.c.stopped = FALSE, !.c.halted = FALSE]
    <2>1. v \in Worlds /\ v.c = c /\ v.s = w.s
        BY DEF Good, Worlds, Conns
    <2>2. c.stopped = FALSE /\ c.reconnect = w.c.reconnect
        BY DEF Good, Worlds, Conns
    <2>3. Good(Connect(v))
        BY <1>2, <2>1, <2>2, ConnectGood DEF Good, Alive
    <2>4. QED
        BY <1>2, <2>3 DEF ConnStart
<1>3. QED
    BY <1>1, <1>2

LEMMA RestartGood ==
    ASSUME NEW w \in Worlds
    PROVE  Good(ConnRestart(w))
BY StopGood, StartGood DEF ConnRestart

\* What only the engine or the optimistic state has of it.
LEMMA SameLink ==
    ASSUME NEW w, Good(w), NEW v \in Worlds, v.c.stopped = w.c.stopped,
           v.c.status = w.c.status, v.c.halted = w.c.halted, v.c.reconnect = w.c.reconnect,
           v.s = w.s
    PROVE  Good(v)
BY DEF Good, Alive

LEMMA RestoringGood ==
    ASSUME IInv, NEW w, Good(w), NEW why \in {"start", "switch"}, NEW r \in Rooms
    PROVE  Good(Restoring(w, why, r))
<1> DEFINE read == [why |-> why, snapshot |-> store[r]]
           e == [w.e EXCEPT !.reads = Append(@, read)]
<1>1. read \in Reads
    BY DEF IInv, OthersOK, Reads
<1>2. e \in Engines
    BY <1>1 DEF Good, Worlds, Engines
<1> HIDE DEF read
<1>3. Restoring(w, why, r) = [w EXCEPT !.e = e]
    BY DEF Restoring, read, Good, Worlds
<1> HIDE DEF e
<1>4. Restoring(w, why, r) \in Worlds /\ Restoring(w, why, r).c = w.c
      /\ Restoring(w, why, r).s = w.s
    BY <1>2, <1>3 DEF Good, Worlds
<1>5. QED
    BY <1>4 DEF Good

LEMMA EngineStartGood ==
    ASSUME IInv, NEW w, Good(w), NEW r \in Rooms
    PROVE  Good(EngineStart(w, r))
<1> DEFINE v == [w EXCEPT !.e.started = TRUE]
<1>1. v \in Worlds /\ v.c = w.c /\ v.s = w.s
    BY DEF Good, Worlds, Engines
<1>2. Good(v)
    BY <1>1 DEF Good
<1>3. Good(Restoring(v, "start", r))
    BY <1>2, RestoringGood
<1>4. QED
    BY <1>3 DEF EngineStart

LEMMA EngineStopGood ==
    ASSUME NEW w \in Worlds
    PROVE  Good(EngineStop(w))
<1> DEFINE v == [w EXCEPT !.e.started = FALSE, !.e.listens = FALSE, !.e.saving = FALSE]
<1>1. v \in Worlds
    BY DEF Worlds, Engines
<1>2. QED
    BY <1>1, StopGood DEF EngineStop

LEMMA SwitchGood ==
    ASSUME IInv, NEW w, Good(w), NEW r \in Rooms
    PROVE  Good(RoomSet(w, r))
<1> DEFINE c == [w.c EXCEPT !.state = Empty]
           l == [w.l EXCEPT !.base = -1]
           v == [w EXCEPT !.l.base = -1, !.c.state = Empty]
<1>1. c \in Conns /\ l \in Locals
    BY EmptyIsState, BoundsAssumption DEF Good, Worlds, Conns, Locals
<1>2. v \in Worlds /\ v.c = c /\ v.s = w.s
    BY <1>1 DEF Good, Worlds
<1>3. c.stopped = w.c.stopped /\ c.status = w.c.status /\ c.halted = w.c.halted
      /\ c.reconnect = w.c.reconnect
    BY DEF Good, Worlds, Conns
<1>4. Good(v)
    BY <1>2, <1>3, SameLink
<1>5. Good(Restoring(v, "switch", r))
    BY <1>4, RestoringGood
<1>6. QED
    BY <1>5 DEF RoomSet, SwitchRoom

-----------------------------------------------------------------------------
(* The invariant *)

LEMMA InitGood == Init => IInv
<1> SUFFICES ASSUME Init PROVE IInv
    OBVIOUS
<1>1. conn \in Conns /\ Alive(conn, socket)
    BY EmptyIsState DEF Init, Conns, Alive, NoSocket
<1>2. socket \in Sockets /\ local \in Locals
    BY BoundsAssumption DEF Init, Sockets, Locals, NotLocal
<1>3. engine \in Engines
    BY DEF Init, EngineInit, Engines
<1>4. OthersOK
    <2>1. \A r \in Rooms : [room |-> r, version |-> 1] \in States
        BY BoundsAssumption DEF States
    <2>2. store \in [Rooms -> States]
        BY <2>1, EmptyIsState DEF Init
    <2>3. app \in [phase : {"checking", "login", "app"}, needsPassword : BOOLEAN, session : BOOLEAN]
        BY DEF Init
    <2>4. versions \in [Rooms -> 1..MaxVersion] /\ room \in Rooms /\ network \in BOOLEAN
        BY BoundsAssumption DEF Init
    <2>5. budget \in [acts : 0..MaxActs, faults : 0..MaxFaults]
        BY BoundsAssumption DEF Init
    <2>6. QED
        BY <2>2, <2>3, <2>4, <2>5 DEF OthersOK
<1>5. QED
    BY <1>1, <1>2, <1>3, <1>4 DEF IInv

LEMMA AppSteps ==
    ASSUME IInv, Check \/ Login \/ Logout \/ SessionExpires \/ ChangeRoom \/ TakeOver
                 \/ AskSession \/ SessionAnswered \/ AnswerLost
    PROVE  IInv'
<1> USE WorldGood
<1>1. CASE Check
    <2>1. OthersOK'
        BY <1>1 DEF Check, Enter, IInv, OthersOK
    <2>2. CASE Enter
        <3>1. Good(EngineStart(World, room))
            BY EngineStartGood DEF IInv, OthersOK
        <3>2. QED
            BY <2>1, <2>2, <3>1, BecomesGood DEF Enter
    <2>3. CASE UNCHANGED <<engine, conn, socket, local>>
        BY <2>1, <2>3 DEF IInv, Alive
    <2>4. QED
        BY <1>1, <2>2, <2>3 DEF Check
<1>2. CASE Login
    <2>1. PICK r \in Rooms : SettingsUpdate(r, EngineStart(RoomSet(World, r), r))
        BY <1>2 DEF Login
    <2>2. OthersOK'
        BY <1>2, <2>1 DEF Login, SettingsUpdate, IInv, OthersOK
    <2>3. Good(EngineStart(RoomSet(World, r), r))
        BY SwitchGood, EngineStartGood
    <2>4. QED
        BY <2>1, <2>2, <2>3, BecomesGood DEF SettingsUpdate
<1>3. CASE Logout
    <2>1. OthersOK'
        BY <1>3, BoundsAssumption DEF Logout, Act, IInv, OthersOK
    <2>2. Good(EngineStop(World))
        BY EngineStopGood DEF Good
    <2>3. QED
        BY <1>3, <2>1, <2>2, BecomesGood DEF Logout
<1>4. CASE SessionExpires
    <2>1. OthersOK'
        <3>1. app' \in [phase : {"checking", "login", "app"}, needsPassword : BOOLEAN, session : BOOLEAN]
            BY <1>4 DEF SessionExpires, IInv, OthersOK
        <3>2. budget' \in [acts : 0..MaxActs, faults : 0..MaxFaults]
            BY <1>4, BoundsAssumption DEF SessionExpires, Fault, IInv, OthersOK
        <3>3. QED
            BY <1>4, <3>1, <3>2 DEF SessionExpires, IInv, OthersOK
    <2>2. QED
        BY <1>4, <2>1 DEF SessionExpires, IInv, Alive
<1>5. CASE AskSession \/ SessionAnswered
    <2>1. OthersOK'
        BY <1>5 DEF AskSession, SessionAnswered, IInv, OthersOK
    <2>2. QED
        BY <1>5, <2>1 DEF AskSession, SessionAnswered, IInv, Alive
<1>6. CASE ChangeRoom
    <2>1. PICK r \in Rooms : SettingsUpdate(r, RoomSet(World, r))
        BY <1>6 DEF ChangeRoom
    <2>2. OthersOK'
        BY <1>6, <2>1, BoundsAssumption DEF ChangeRoom, Act, SettingsUpdate, IInv, OthersOK
    <2>3. Good(RoomSet(World, r))
        BY SwitchGood
    <2>4. QED
        BY <2>1, <2>2, <2>3, BecomesGood DEF SettingsUpdate
<1>7. CASE TakeOver
    <2>1. OthersOK'
        BY <1>7, BoundsAssumption DEF TakeOver, Act, IInv, OthersOK
    <2>2. Good(ConnRestart(World))
        BY RestartGood DEF Good
    <2>3. QED
        BY <1>7, <2>1, <2>2, BecomesGood DEF TakeOver
<1>8. CASE AnswerLost
    <2>1. OthersOK'
        <3>1. app' \in [phase : {"checking", "login", "app"}, needsPassword : BOOLEAN, session : BOOLEAN]
            BY <1>8 DEF AnswerLost, IInv, OthersOK
        <3>2. budget' \in [acts : 0..MaxActs, faults : 0..MaxFaults]
            BY <1>8, BoundsAssumption DEF AnswerLost, Fault, IInv, OthersOK
        <3>3. QED
            BY <1>8, <3>1, <3>2 DEF AnswerLost, IInv, OthersOK
    <2>2. QED
        BY <1>8, <2>1 DEF AnswerLost, IInv, Alive
<1>9. QED
    BY <1>1, <1>2, <1>3, <1>4, <1>5, <1>6, <1>7, <1>8

LEMMA EngineSteps ==
    ASSUME IInv, SnapshotRead \/ SaveSnapshot \/ Command \/ PlainCommand \/ OptimisticExpires
                 \/ CommandDone \/ CommandRefused
    PROVE  IInv'
<1> USE WorldGood
<1>1. CASE SnapshotRead
    <2> DEFINE read == Head(engine.reads)
               state == IF read.snapshot # Empty /\ conn.state = Empty THEN read.snapshot ELSE conn.state
               c == [conn EXCEPT !.state = state]
               e == [engine EXCEPT !.reads = Tail(@)]
               restored == Restored(World, read.snapshot)
               listening == [restored EXCEPT !.e.listens = TRUE]
    <2>1. OthersOK'
        BY <1>1 DEF SnapshotRead, IInv, OthersOK
    <2>2. state \in States
        <3>1. engine.reads \in Seq(Reads) /\ engine.reads # <<>>
            BY <1>1 DEF SnapshotRead, IInv, Engines
        <3>2. read \in Reads
            BY <3>1
        <3>3. read.snapshot \in States /\ conn.state \in States
            BY <3>2 DEF Reads, IInv, Conns
        <3>4. QED
            BY <3>3
    <2>3. c \in Conns /\ e \in Engines
        <3>1. c \in Conns
            BY <2>2 DEF IInv, Conns
        <3>2. engine.reads \in Seq(Reads) /\ engine.reads # <<>>
            BY <1>1 DEF SnapshotRead, IInv, Engines
        <3>3. Tail(engine.reads) \in Seq(Reads)
            BY <3>2
        <3>4. QED
            BY <3>1, <3>3 DEF IInv, Engines
    <2>4. restored \in Worlds /\ restored.c = c /\ restored.s = socket
        BY <2>3 DEF World, Restored, IInv, Worlds
    <2>5. c.stopped = conn.stopped /\ c.status = conn.status /\ c.halted = conn.halted
          /\ c.reconnect = conn.reconnect
        BY DEF IInv, Conns
    <2>6. Good(restored)
        BY <2>4, <2>5 DEF Good, IInv, Alive
    <2>7. listening \in Worlds /\ listening.c = restored.c /\ listening.s = restored.s
        BY <2>4 DEF Worlds, Engines
    <2>8. Good(ConnRestart(restored)) /\ Good(ConnStart(listening))
        BY <2>4, <2>6, <2>7, SameLink, RestartGood, StartGood
    <2>9. QED
        BY <1>1, <2>1, <2>8, BecomesGood DEF SnapshotRead
<1>2. CASE SaveSnapshot
    <2>1. OthersOK'
        BY <1>2 DEF SaveSnapshot, SetKV, IInv, OthersOK, Conns
    <2>2. engine' \in Engines
        BY <1>2 DEF SaveSnapshot, IInv, Engines
    <2>3. QED
        BY <1>2, <2>1, <2>2 DEF SaveSnapshot, IInv, Alive
<1>3. CASE Command
    <2>1. OthersOK'
        BY <1>3, BoundsAssumption DEF Command, Act, IInv, OthersOK
    <2>2. conn.state.version \in 0..MaxVersion
        BY BoundsAssumption DEF IInv, Conns, States, Empty
    <2>3. local' \in Locals
        <3>1. AppliedOptimistic(local) \in Locals
            BY <2>2, BoundsAssumption DEF AppliedOptimistic, IInv, Locals
        <3>2. QED
            BY <1>3, <3>1 DEF Command, Locals
    <2>4. QED
        BY <1>3, <2>1, <2>3 DEF Command, IInv, Alive
<1>4. CASE PlainCommand
    <2>1. OthersOK'
        BY <1>4, BoundsAssumption DEF PlainCommand, Act, IInv, OthersOK
    <2>2. local' \in Locals
        BY <1>4 DEF PlainCommand, SendOrWarn, IInv, Locals
    <2>3. QED
        BY <1>4, <2>1, <2>2 DEF PlainCommand, IInv, Alive
<1>5. CASE OptimisticExpires
    <2>1. OthersOK'
        BY <1>5 DEF OptimisticExpires, IInv, OthersOK
    <2>2. local' \in Locals
        BY <1>5, BoundsAssumption DEF OptimisticExpires, IInv, Locals
    <2>3. QED
        BY <1>5, <2>1, <2>2 DEF OptimisticExpires, IInv, Alive
<1>6. CASE CommandDone
    <2>1. socket.room \in Rooms
        BY <1>6 DEF CommandDone, IInv, Alive
    <2>2. OthersOK'
        BY <1>6, <2>1, BoundsAssumption DEF CommandDone, IInv, OthersOK
    <2>3. local' \in Locals
        BY <1>6 DEF CommandDone, IInv, Locals
    <2>4. QED
        BY <1>6, <2>2, <2>3 DEF CommandDone, IInv, Alive
<1>7. CASE CommandRefused
    <2>1. OthersOK'
        BY <1>7 DEF CommandRefused, IInv, OthersOK
    <2>2. Good(CommandFails(World))
        BY FailsKeeps DEF Good
    <2>3. QED
        BY <1>7, <2>1, <2>2, BecomesGood DEF CommandRefused
<1>8. QED
    BY <1>1, <1>2, <1>3, <1>4, <1>5, <1>6, <1>7

LEMMA ConnectionSteps ==
    ASSUME IInv, SocketOpens \/ Welcomed \/ StateArrives \/ Replaced \/ SocketRefused \/ LinkLost
                 \/ ReconnectTimer \/ BrowserOffline \/ BrowserOnline \/ Visible
    PROVE  IInv'
<1> USE WorldGood
<1>1. CASE SocketOpens
    <2>1. OthersOK'
        BY <1>1 DEF SocketOpens, Settled, IInv, OthersOK
    <2>2. socket' \in Sockets /\ socket'.at = "open" /\ socket'.room \in Rooms
        <3>1. room \in Rooms /\ socket \in Sockets /\ socket.at = "connecting"
              /\ socket' = [socket EXCEPT !.at = "open", !.room = room]
            BY <1>1 DEF SocketOpens, IInv, OthersOK
        <3>2. socket # NoSocket
            BY <3>1 DEF NoSocket
        <3>3. socket \in [at : {"connecting", "open", "joined"}, room : Rooms \cup {"none"},
                          told : 0..MaxVersion]
            BY <3>1, <3>2 DEF Sockets
        <3>4. QED
            BY <3>1, <3>3 DEF Sockets
    <2>3. QED
        BY <1>1, <2>1, <2>2 DEF SocketOpens, Settled, IInv, Alive
<1>2. CASE Welcomed
    <2>1. OthersOK'
        BY <1>2 DEF Welcomed, Settled, IInv, OthersOK
    <2>2. socket' \in Sockets /\ socket'.at = "joined" /\ socket'.room \in Rooms
        BY <1>2 DEF Welcomed, IInv, Alive, Sockets, NoSocket
    <2>3. /\ conn' \in Conns /\ conn'.status = "online" /\ conn'.stopped = conn.stopped
          /\ conn'.halted = conn.halted /\ conn'.reconnect = conn.reconnect
        BY <1>2 DEF Welcomed, IInv, Conns
    <2>4. engine' \in Engines
        BY <1>2 DEF Welcomed, IInv, Engines
    <2>5. ~conn.stopped /\ ~conn.reconnect
        BY <1>2 DEF Welcomed, IInv, Alive
    <2>6. QED
        BY <1>2, <2>1, <2>2, <2>3, <2>4, <2>5 DEF Welcomed, IInv, Alive
<1>3. CASE StateArrives
    <2> DEFINE version == versions[socket.room]
    <2>1. OthersOK'
        BY <1>3 DEF StateArrives, Settled, IInv, OthersOK
    <2>2. socket.room \in Rooms /\ version \in 1..MaxVersion
        BY <1>3 DEF StateArrives, IInv, Alive, OthersOK
    <2>3. socket' \in Sockets /\ socket'.at = "joined" /\ socket'.room \in Rooms
        BY <1>3, <2>2 DEF StateArrives, IInv, Sockets, NoSocket
    <2>4. [room |-> socket.room, version |-> version] \in States
        BY <2>2 DEF States
    <2>5. /\ conn' \in Conns /\ conn'.status = conn.status /\ conn'.stopped = conn.stopped
          /\ conn'.halted = conn.halted /\ conn'.reconnect = conn.reconnect
        BY <1>3, <2>4 DEF StateArrives, IInv, Conns
    <2>6. engine' \in Engines
        BY <1>3 DEF StateArrives, OnServerState, IInv, Engines
    <2>7. QED
        BY <1>3, <2>1, <2>3, <2>5, <2>6 DEF StateArrives, Settled, IInv, Alive
<1>4. CASE Replaced
    <2>1. OthersOK'
        BY <1>4, BoundsAssumption DEF Replaced, Fault, Settled, IInv, OthersOK
    <2>2. /\ conn' \in Conns /\ conn'.status = conn.status /\ conn'.stopped = conn.stopped
          /\ conn'.halted /\ ~conn'.reconnect
        BY <1>4 DEF Replaced, IInv, Conns
    <2>3. QED
        BY <1>4, <2>1, <2>2 DEF Replaced, Settled, IInv, Alive
<1>5. CASE SocketRefused \/ LinkLost
    <2>1. OthersOK'
        BY <1>5, BoundsAssumption
        DEF SocketRefused, LinkLost, Closes, Fault, Settled, IInv, OthersOK
    <2>2. socket.at # "none" /\ Closes
        BY <1>5 DEF SocketRefused, LinkLost
    <2>3. Good(ScheduleReconnect(CloseSocket(World)))
        BY <2>2, ScheduleGood DEF World, Good, IInv, Alive
    <2>4. QED
        BY <2>1, <2>2, <2>3, BecomesGood DEF Closes
<1>6. CASE ReconnectTimer
    <2> DEFINE c == [conn EXCEPT !.reconnect = FALSE]
               v == [World EXCEPT !.c.reconnect = FALSE]
    <2>1. OthersOK'
        BY <1>6 DEF ReconnectTimer, Settled, IInv, OthersOK
    <2>2. c \in Conns /\ c.stopped = conn.stopped /\ c.status = conn.status /\ ~c.reconnect
        BY DEF IInv, Conns
    <2>3. v \in Worlds /\ v.c = c /\ v.s = socket
        BY <2>2 DEF World, Worlds, IInv
    <2>4. Good(Connect(v))
        BY <1>6, <2>2, <2>3, ConnectGood DEF ReconnectTimer, IInv, Alive
    <2>5. QED
        BY <1>6, <2>1, <2>4, BecomesGood DEF ReconnectTimer
<1>7. CASE BrowserOffline
    <2>1. OthersOK'
        <3>1. budget' \in [acts : 0..MaxActs, faults : 0..MaxFaults]
            BY <1>7, BoundsAssumption DEF BrowserOffline, Fault, IInv, OthersOK
        <3>2. network' \in BOOLEAN
            BY <1>7 DEF BrowserOffline
        <3>3. QED
            BY <1>7, <3>1, <3>2 DEF BrowserOffline, Settled, IInv, OthersOK
    <2>2. CASE conn.stopped \/ conn.halted \/ socket.at = "none"
        BY <1>7, <2>1, <2>2, BecomesGood DEF BrowserOffline
    <2>3. CASE ~(conn.stopped \/ conn.halted \/ socket.at = "none")
        <3>1. Good(ScheduleReconnect(CloseSocket(World)))
            BY <2>3, ScheduleGood DEF World, Good, IInv, Alive
        <3>2. QED
            BY <1>7, <2>1, <2>3, <3>1, BecomesGood DEF BrowserOffline
    <2>4. QED
        BY <2>2, <2>3
<1>8. CASE BrowserOnline \/ Visible
    <2>1. OthersOK'
        BY <1>8 DEF BrowserOnline, Visible, Settled, IInv, OthersOK
    <2>2. QED
        BY <1>8, <2>1, ReconnectGood, BecomesGood DEF BrowserOnline, Visible
<1>9. QED
    BY <1>1, <1>2, <1>3, <1>4, <1>5, <1>6, <1>7, <1>8

LEMMA NextKeeps == IInv /\ [Next]_vars => IInv'
<1> SUFFICES ASSUME IInv, [Next]_vars PROVE IInv'
    OBVIOUS
<1>1. CASE RoomChanges
    <2>1. OthersOK'
        BY <1>1, BoundsAssumption DEF RoomChanges, IInv, OthersOK
    <2>2. QED
        BY <1>1, <2>1 DEF RoomChanges, IInv, Alive
<1>2. CASE UNCHANGED vars
    BY <1>2 DEF vars, IInv, OthersOK, Alive
<1>3. QED
    BY <1>1, <1>2, AppSteps, EngineSteps, ConnectionSteps DEF Next

LEMMA RenderingKeeps ==
    ASSUME IInv, IInv', ShellOK, NEW asked \in BOOLEAN, ShellRenders(asked)
    PROVE  ShellOK'
<1> DEFINE Statuses == {"idle", "connecting", "online", "offline"}
           Questions == {"none", "armed", "missed"}
<1>1. StatusTold \in Statuses
    BY DEF StatusTold, ShellOK, IInv, Conns
<1>2. \A status \in Statuses, on \in BOOLEAN : Question(status, on) \in Questions
    BY DEF Question
<1>3. network' \in BOOLEAN /\ shell.question \in Questions
    BY DEF IInv, OthersOK, ShellOK
<1>4. Question(StatusTold, network') \in Questions
    BY <1>1, <1>2, <1>3
<1>5. shell'.question \in Questions
    BY <1>3, <1>4 DEF ShellRenders
<1>6. QED
    BY <1>1, <1>3, <1>4 DEF ShellRenders, ShellOK

LEMMA ShellKeeps == IInv /\ ShellOK /\ [Next]_vars => ShellOK'
<1> SUFFICES ASSUME IInv, ShellOK, [Next]_vars PROVE ShellOK'
    OBVIOUS
<1>1. IInv'
    BY NextKeeps
<1>2. CASE Rendered
    BY <1>1, <1>2, RenderingKeeps DEF Rendered, ShellOK
<1>3. CASE ShellRenders(FALSE)
    BY <1>1, <1>3, RenderingKeeps
<1>4. CASE AskSession
    BY <1>4 DEF AskSession, ShellOK
<1>5. CASE UNCHANGED shell
    BY <1>5 DEF ShellOK
<1>6. Rendered \/ ShellRenders(FALSE) \/ AskSession \/ UNCHANGED shell
    BY DEF Next, vars, Check, Login, Logout, SessionExpires, ChangeRoom, TakeOver,
           SessionAnswered, AnswerLost, SnapshotRead, SaveSnapshot, Command, PlainCommand,
           OptimisticExpires, CommandDone, CommandRefused, SocketOpens, Welcomed, StateArrives,
           Replaced, SocketRefused, LinkLost, Closes, ReconnectTimer, BrowserOffline,
           BrowserOnline, Visible, RoomChanges
<1>7. QED
    BY <1>2, <1>3, <1>4, <1>5, <1>6

\* Every variable of the phone keeps its type, and a stopped connection is the one
\* that is idle.
THEOREM TypeCorrect == Spec => []TypeOK
<1>1. IInv /\ ShellOK => TypeOK
    BY DEF IInv, ShellOK, TypeOK, Alive, OthersOK, Conns, Sockets, Engines, Reads, Locals
<1>2. Init => ShellOK
    BY DEF Init, ShellOK
<1>3. QED
    BY InitGood, NextKeeps, ShellKeeps, <1>1, <1>2, PTL DEF Spec

\* A connection that is neither stopped nor halted always has a socket or the timer
\* to get one, and never both (connection.ts, "A WebSocket that never gives up").
THEOREM KeepsTrying == Spec => []NeverGivesUp
<1>1. IInv => NeverGivesUp
    BY DEF IInv, NeverGivesUp, Alive
<1>2. QED
    BY InitGood, NextKeeps, <1>1, PTL DEF Spec
=============================================================================
