---------------------------- MODULE StateDelivery ----------------------------
(***************************************************************************)
(* How a room's state reaches a phone: the room actor hands snapshots to   *)
(* the connection (internal/hub/room.go: stateFor, broadcastState), the    *)
(* writer goroutine of the connection sends them (internal/hub/conn.go),   *)
(* and the phone merges what arrives into the state it shows               *)
(* (web/src/sync/connection.ts, mergeState of protocol.ts).                *)
(*                                                                         *)
(* A room state is its version and the contents of its parts, the queue    *)
(* and the context, which are sent only when the connection has not seen   *)
(* them.  Contents are identified by the part's own version and by the     *)
(* server run that wrote them, so that states from before and after a      *)
(* crash are told apart even where their numbers agree.                    *)
(*                                                                         *)
(* The actor and the writer run concurrently.  Every load or store of a    *)
(* sent version, every use of the connection's mutex and every message     *)
(* written is a step of its own.  A message is dequeued and written in one *)
(* step, taken when the link has room for it.                              *)
(***************************************************************************)
EXTENDS Integers, Sequences

CONSTANTS
    Parts,             \* "queue" and "context"
    ControlQueueSize,  \* capacity of the connection's control queue
    LinkCapacity,      \* messages on their way on a link
    Crashes,           \* whether the server may lose unsaved changes
    MaxVersion,        \* bound on the room's changes
    MaxLosses          \* bound on lost and closed connections

ASSUME BoundsAssumption ==
    /\ ControlQueueSize \in Nat \ {0} /\ LinkCapacity \in Nat \ {0}
    /\ MaxVersion \in Nat /\ MaxLosses \in Nat
    /\ Crashes \in BOOLEAN

VARIABLES
    history,   \* the states the room has been in; the server only has the last
    saved,     \* how many of them the store knows
    run,       \* counts the server's crashes
    presence,  \* counts changes of the member list: here the listener's joins
    announced, \* whether the last of them was broadcast
    actor,     \* what the room actor is doing
    conn,      \* the connection, server side
    writer,    \* its writer goroutine
    link,      \* messages on their way to the phone
    phone,     \* the phone's end
    losses     \* connections lost so far

vars == <<history, saved, run, presence, announced, actor, conn, writer, link, phone, losses>>

NotSent == -1
Nothing == [type |-> "nothing"]
Welcome == [type |-> "welcome"]
Pong == [type |-> "pong"]
StateMessage(s, with) == [type |-> "state", state |-> s, with |-> with]
PresenceMessage(n) == [type |-> "presence", members |-> n]

FreshRoom == [version |-> 0, run |-> 0, part |-> [p \in Parts |-> [version |-> 0, run |-> 0]]]
room == history[Len(history)]

\* What the actor is in the middle of: loading the sent versions of the parts
\* in todo, looking at the pending snapshot, setting the new one.
Idle == [at |-> "idle", todo |-> {}, with |-> {}]
Broadcasting == [at |-> "load", todo |-> Parts, with |-> {}]

NewConn ==
    [open |-> FALSE, hello |-> FALSE, joined |-> FALSE, control |-> <<>>,
     state |-> Nothing, presence |-> Nothing, notify |-> FALSE,
     sent |-> [p \in Parts |-> NotSent]]

Top == [at |-> "top", state |-> Nothing, presence |-> Nothing, todo |-> {}]

RoomStates == [version : Nat, run : Nat, part : [Parts -> [version : Nat, run : Nat]]]

ControlMessages == {Welcome, Pong}
StateMessages == [type : {"state"}, state : RoomStates, with : SUBSET Parts]
PresenceMessages == [type : {"presence"}, members : Nat]
Messages == ControlMessages \cup StateMessages \cup PresenceMessages

ConnRecords ==
    [open : BOOLEAN, hello : BOOLEAN, joined : BOOLEAN, control : Seq(ControlMessages),
     state : StateMessages \cup {Nothing}, presence : PresenceMessages \cup {Nothing},
     notify : BOOLEAN, sent : [Parts -> Nat \cup {NotSent}]]

ActorRecords ==
    [at : {"idle", "load", "look", "set"}, todo : SUBSET Parts, with : SUBSET Parts]

WriterRecords ==
    [at : {"top", "take", "write", "confirm", "wait"}, todo : SUBSET Parts,
     state : StateMessages \cup {Nothing}, presence : PresenceMessages \cup {Nothing}]

PhoneRecords ==
    [socket : BOOLEAN, online : BOOLEAN, fresh : BOOLEAN, shown : RoomStates, members : Nat]

\* Besides the types: what the writer writes, it has.
TypeOK ==
    /\ writer.at = "write" => writer.state # Nothing \/ writer.presence # Nothing
    /\ writer.at = "confirm" => writer.state # Nothing
    /\ history \in Seq(RoomStates) /\ history # <<>>
    /\ saved \in 1..Len(history) /\ run \in Nat /\ losses \in Nat
    /\ presence \in Nat /\ announced \in BOOLEAN
    /\ actor \in ActorRecords /\ conn \in ConnRecords /\ writer \in WriterRecords
    /\ link \in Seq(Messages) /\ phone \in PhoneRecords

Init ==
    /\ history = <<FreshRoom>> /\ saved = 1 /\ run = 0 /\ losses = 0
    /\ presence = 0 /\ announced = TRUE
    /\ actor = Idle /\ conn = NewConn /\ writer = Top /\ link = <<>>
    /\ phone = [socket |-> FALSE, online |-> FALSE, fresh |-> FALSE,
                shown |-> FreshRoom, members |-> 0]

-----------------------------------------------------------------------------
(* The room actor *)

\* sendControl: a full control queue closes the connection.
SendControl(c, message) ==
    IF Len(c.control) < ControlQueueSize THEN [c EXCEPT !.control = Append(@, message)]
    ELSE [c EXCEPT !.open = FALSE]

CanQueue == Len(conn.control) < ControlQueueSize \/ losses < MaxLosses
CountOverflow == losses' = IF Len(conn.control) < ControlQueueSize THEN losses ELSE losses + 1

\* The actor handles a hello: the connection becomes the member's, gets the
\* welcome, and is then sent the state.  A catch-up of the timeline at this
\* moment is a Change just before: there is nobody else it would be sent to.
Join ==
    /\ actor.at = "idle" /\ conn.hello /\ conn.open /\ CanQueue
    /\ conn' = SendControl([conn EXCEPT !.hello = FALSE, !.joined = TRUE], Welcome)
    /\ CountOverflow
    /\ actor' = Broadcasting
    /\ presence' = presence + 1 /\ announced' = FALSE
    /\ UNCHANGED <<history, saved, run, writer, link, phone>>

\* A command, the timer or the library changes the state and some parts.
Change(parts) ==
    /\ actor.at = "idle" /\ room.version < MaxVersion
    /\ history' = Append(history,
           [version |-> room.version + 1, run |-> run,
            part |-> [p \in Parts |-> IF p \in parts
                                      THEN [version |-> room.part[p].version + 1, run |-> run]
                                      ELSE room.part[p]]])
    /\ actor' = IF conn.joined THEN Broadcasting ELSE Idle
    /\ UNCHANGED <<saved, run, presence, announced, conn, writer, link, phone, losses>>

\* stateFor, first half: a part goes along when its version was not sent.
LoadSent(p) ==
    /\ actor.at = "load" /\ p \in actor.todo
    /\ LET rest == actor.todo \ {p}
       IN  actor' = [at |-> IF rest = {} THEN "look" ELSE "load", todo |-> rest,
                     with |-> IF conn.sent[p] # room.part[p].version
                              THEN actor.with \cup {p} ELSE actor.with]
    /\ UNCHANGED <<history, saved, run, presence, announced, conn, writer, link, phone, losses>>

\* stateFor, second half: parts of a snapshot that is still pending go along.
LookAtPending ==
    /\ actor.at = "look"
    /\ actor' = [actor EXCEPT !.at = "set",
                              !.with = IF conn.state = Nothing THEN @
                                       ELSE @ \cup conn.state.with]
    /\ UNCHANGED <<history, saved, run, presence, announced, conn, writer, link, phone, losses>>

\* A faulty variant: the writer is not woken.
SetStateQuietly ==
    /\ actor.at = "set"
    /\ conn' = [conn EXCEPT !.state = StateMessage(room, actor.with)]
    /\ actor' = Idle
    /\ UNCHANGED <<history, saved, run, presence, announced, writer, link, phone, losses>>

\* setState: replaces a pending snapshot and wakes the writer.
SetState ==
    /\ actor.at = "set"
    /\ conn' = [conn EXCEPT !.state = StateMessage(room, actor.with), !.notify = TRUE]
    /\ actor' = Idle
    /\ UNCHANGED <<history, saved, run, presence, announced, writer, link, phone, losses>>

\* markPresence, or the tick it left the broadcast to.
BroadcastPresence ==
    /\ actor.at = "idle" /\ ~announced
    /\ announced' = TRUE
    /\ conn' = IF conn.joined
               THEN [conn EXCEPT !.presence = PresenceMessage(presence), !.notify = TRUE]
               ELSE conn
    /\ UNCHANGED <<history, saved, run, presence, actor, writer, link, phone, losses>>

Save ==
    /\ Crashes /\ saved < Len(history)
    /\ saved' = Len(history)
    /\ UNCHANGED <<history, run, presence, announced, actor, conn, writer, link, phone, losses>>

\* The server goes down without saving and comes back with the stored state.
Crash ==
    /\ Crashes /\ run = 0
    /\ run' = run + 1
    /\ history' = SubSeq(history, 1, saved)
    /\ conn' = NewConn /\ actor' = Idle /\ writer' = Top
    /\ UNCHANGED <<saved, presence, announced, link, phone, losses>>

-----------------------------------------------------------------------------
(* The connection's goroutines *)

\* The read loop answers a ping.
AnswerPing ==
    /\ conn.open /\ ~conn.hello /\ CanQueue
    /\ conn' = SendControl(conn, Pong)
    /\ CountOverflow
    /\ UNCHANGED <<history, saved, run, presence, announced, actor, writer, link, phone>>

LinkHasRoom == Len(link) < LinkCapacity

WriteControl(writerStates) ==
    /\ conn.open /\ writer.at \in writerStates /\ conn.control # <<>> /\ LinkHasRoom
    /\ link' = Append(link, Head(conn.control))
    /\ conn' = [conn EXCEPT !.control = Tail(@)]
    /\ writer' = Top
    /\ UNCHANGED <<history, saved, run, presence, announced, actor, phone, losses>>

\* Control messages go first: the writer moves on when there are none.
NoControl ==
    /\ conn.open /\ writer.at = "top" /\ conn.control = <<>>
    /\ writer' = [writer EXCEPT !.at = "take"]
    /\ UNCHANGED <<history, saved, run, presence, announced, actor, conn, link, phone, losses>>

\* A faulty variant: the snapshot stays pending as well.
TakePendingTwice ==
    /\ conn.open /\ writer.at = "take"
    /\ writer' = [at |-> IF conn.state = Nothing /\ conn.presence = Nothing
                         THEN "wait" ELSE "write",
                  state |-> conn.state, presence |-> conn.presence, todo |-> {}]
    /\ UNCHANGED <<history, saved, run, presence, announced, actor, conn, link, phone, losses>>

\* Takes what is pending, the snapshot and the presence together.
TakePending ==
    /\ conn.open /\ writer.at = "take"
    /\ writer' = [at |-> IF conn.state = Nothing /\ conn.presence = Nothing
                         THEN "wait" ELSE "write",
                  state |-> conn.state, presence |-> conn.presence, todo |-> {}]
    /\ conn' = [conn EXCEPT !.state = Nothing, !.presence = Nothing]
    /\ UNCHANGED <<history, saved, run, presence, announced, actor, link, phone, losses>>

\* Writes the snapshot, and then forgets the presence it took with it.
WriteState ==
    /\ conn.open /\ writer.at = "write" /\ writer.state # Nothing /\ LinkHasRoom
    /\ link' = Append(link, writer.state)
    /\ writer' = IF writer.state.with = {} THEN Top
                 ELSE [writer EXCEPT !.at = "confirm", !.todo = writer.state.with]
    /\ UNCHANGED <<history, saved, run, presence, announced, actor, conn, phone, losses>>

\* A faulty variant: remembers the version the room has by now.
ConfirmLatest(p) ==
    /\ conn.open /\ writer.at = "confirm" /\ p \in writer.todo
    /\ conn' = [conn EXCEPT !.sent[p] = room.part[p].version]
    /\ writer' = IF writer.todo = {p} THEN Top ELSE [writer EXCEPT !.todo = @ \ {p}]
    /\ UNCHANGED <<history, saved, run, presence, announced, actor, link, phone, losses>>

\* Remembers the version of a part that was written.
Confirm(p) ==
    /\ conn.open /\ writer.at = "confirm" /\ p \in writer.todo
    /\ conn' = [conn EXCEPT !.sent[p] = writer.state.state.part[p].version]
    /\ writer' = IF writer.todo = {p} THEN Top ELSE [writer EXCEPT !.todo = @ \ {p}]
    /\ UNCHANGED <<history, saved, run, presence, announced, actor, link, phone, losses>>

WritePresence ==
    /\ conn.open /\ writer.at = "write" /\ writer.state = Nothing /\ LinkHasRoom
    /\ link' = Append(link, writer.presence)
    /\ writer' = Top
    /\ UNCHANGED <<history, saved, run, presence, announced, actor, conn, phone, losses>>

\* The writer sleeps until it is notified or a control message comes.
WakeUp ==
    /\ conn.open /\ writer.at = "wait" /\ conn.notify
    /\ conn' = [conn EXCEPT !.notify = FALSE]
    /\ writer' = Top
    /\ UNCHANGED <<history, saved, run, presence, announced, actor, link, phone, losses>>

-----------------------------------------------------------------------------
(* The phone *)

\* A new socket, with hello sent.  What goroutines still do for the old
\* connection nobody sees.
Connect ==
    /\ ~phone.socket
    /\ phone' = [phone EXCEPT !.socket = TRUE]
    /\ conn' = [NewConn EXCEPT !.open = TRUE, !.hello = TRUE]
    /\ actor' = Idle /\ writer' = Top /\ link' = <<>>
    /\ UNCHANGED <<history, saved, run, presence, announced, losses>>

\* Faulty variants: parts that were left out are emptied, or are undefined.
MergeEmptying(shown, message) ==
    [message.state EXCEPT !.part =
        [p \in Parts |-> IF p \in message.with THEN @[p] ELSE FreshRoom.part[p]]]
MergeUndefined(shown, message) ==
    [message.state EXCEPT !.part = [p \in message.with |-> @[p]]]

\* mergeState: parts that were left out are kept.
Merge(shown, message) ==
    [message.state EXCEPT !.part =
        [p \in Parts |-> IF p \in message.with THEN @[p] ELSE shown.part[p]]]

\* The phone takes a state that is newer, or the first one after a welcome.
Received(message) ==
    CASE message.type = "welcome" -> [phone EXCEPT !.online = TRUE, !.fresh = TRUE]
      [] message.type = "state" ->
           IF phone.fresh \/ message.state.version > phone.shown.version
           THEN [phone EXCEPT !.fresh = FALSE, !.shown = Merge(@, message)]
           ELSE phone
      [] message.type = "presence" -> [phone EXCEPT !.members = message.members]
      [] message.type = "pong" -> phone

Receive ==
    /\ phone.socket /\ link # <<>>
    /\ phone' = Received(Head(link))
    /\ link' = Tail(link)
    /\ UNCHANGED <<history, saved, run, presence, announced, actor, conn, writer, losses>>

Hangup ==
    /\ phone' = [phone EXCEPT !.socket = FALSE, !.online = FALSE]
    /\ conn' = NewConn /\ actor' = Idle /\ writer' = Top /\ link' = <<>>
    /\ UNCHANGED <<history, saved, run, presence, announced>>

\* The phone notices that the server has closed the connection.
NoticeClose == phone.socket /\ ~conn.open /\ Hangup /\ UNCHANGED losses

\* The link breaks, or the phone's watchdog gives it up.
LoseLink == phone.socket /\ losses < MaxLosses /\ losses' = losses + 1 /\ Hangup

ActorStep ==
    \/ Join \/ LookAtPending \/ SetState \/ BroadcastPresence
    \/ \E p \in Parts : LoadSent(p)

WriterStep ==
    \/ WriteControl({"top", "wait"}) \/ NoControl \/ TakePending \/ WriteState
    \/ WritePresence \/ WakeUp
    \/ \E p \in Parts : Confirm(p)

Next ==
    \/ ActorStep \/ WriterStep
    \/ \E parts \in SUBSET Parts : Change(parts)
    \/ Save \/ Crash \/ AnswerPing
    \/ Connect \/ Receive \/ NoticeClose \/ LoseLink

\* Goroutines are scheduled, a link that is not lost delivers, and the phone
\* reconnects; nothing makes the room change, a link break or a ping come.
\* Pings come far apart (150 ms, later 3 s), so that the writer does not find a
\* new control message every time it looks: it moves on in the end.
Fairness ==
    /\ WF_vars(ActorStep) /\ WF_vars(WriterStep) /\ SF_vars(NoControl)
    /\ WF_vars(Connect) /\ WF_vars(Receive) /\ WF_vars(NoticeClose)

Spec == Init /\ [][Next]_vars /\ Fairness

-----------------------------------------------------------------------------
(* Properties *)

\* Nothing is on its way to a phone that has joined.
Settled ==
    /\ phone.online /\ conn.open /\ conn.joined /\ link = <<>>
    /\ actor.at = "idle" /\ announced
    /\ writer.at = "wait" /\ conn.control = <<>> /\ ~conn.notify

\* "A phone on a bad network always catches up with the newest state": once
\* everything was delivered, the phone shows what the room is in, with the
\* queue and the context, although those were only sent now and then.
CaughtUp == Settled => phone.shown = room

\* Not so: the same for the member list.
PresenceArrives == Settled => phone.members = presence

\* "Within one connection versions only grow": the states on their way, in the
\* order in which they will arrive, and the one the phone took before them.
\* The phone's rule to drop what is not newer thus drops nothing it needs once
\* it has taken a state of the connection, even after a crash of the server.
InWriter == IF writer.at = "write" THEN writer.state ELSE Nothing
ToCome == link \o <<InWriter, conn.state>>
IsState(m) == m.type = "state"
VersionsGrow ==
    conn.open =>
        /\ \A i, j \in DOMAIN ToCome : i < j /\ IsState(ToCome[i]) /\ IsState(ToCome[j])
               => ToCome[i].state.version < ToCome[j].state.version
        /\ phone.online /\ ~phone.fresh
               => \A i \in DOMAIN ToCome : IsState(ToCome[i])
                    => phone.shown.version < ToCome[i].state.version

\* Once changes and losses end, the phone catches up for good.
EventuallyCaughtUp == <>[](phone.shown = room)

\* The phone shows whole states of the room, in their order.
Promise == INSTANCE Snapshots WITH First <- FreshRoom, shown <- phone.shown
KeepsPromise == Promise!Spec
=============================================================================
