--------------------------- MODULE DeliveryProofs ---------------------------
(***************************************************************************)
(* Theorems about the delivery of a room's state, for every set of parts,  *)
(* capacity and number of changes and losses: within a connection versions *)
(* only grow, whatever the server goes through; and as long as it loses    *)
(* nothing, a phone to which everything was delivered shows the room's     *)
(* state, and on its way there only states of the room, in their order.    *)
(***************************************************************************)
EXTENDS StateDelivery, SequenceTheorems, TLAPS

-----------------------------------------------------------------------------
(* The inductive invariant for versions *)

\* Message m, if it is a state, is older than n, if that is one.
Before(m, n) == IsState(m) /\ IsState(n) => m.state.version < n.state.version

\* What is on its way to the phone, last of all a snapshot w in the writer and
\* a pending one c, is in order.
InOrder(l, w, c) ==
    /\ \A i, j \in DOMAIN l : i < j => Before(l[i], l[j])
    /\ \A i \in DOMAIN l : Before(l[i], w) /\ Before(l[i], c)
    /\ Before(w, c)

\* The states on a link with messages l, and all those on their way.
StatesIn(l) == {m \in {l[i] : i \in DOMAIN l} : IsState(m)}
Coming == StatesIn(link) \cup {m \in {InWriter, conn.state} : IsState(m)}

ComingInOrder == InOrder(link, InWriter, conn.state)

\* An open connection over which nobody has joined yet carries no state, and
\* the phone was not welcomed over it; nothing is pending where nobody joined.
NothingBeforeJoin ==
    ~conn.joined =>
        /\ actor.at = "idle" /\ conn.state = Nothing /\ writer.state = Nothing
        /\ conn.presence = Nothing /\ writer.presence = Nothing
        /\ conn.open =>
            /\ ~phone.online /\ \A i \in DOMAIN link : link[i] = Pong
            /\ \A i \in DOMAIN conn.control : conn.control[i] = Pong

\* While the actor is about to broadcast, what was sent before is older than
\* the room; otherwise it is not newer.
RoomIsNewest ==
    conn.joined => \A m \in Coming :
        /\ m.state.version <= room.version
        /\ actor.at # "idle" => m.state.version < room.version

\* What the phone took over this connection is older than what still comes.
PhoneIsBehind ==
    /\ phone.online => phone.socket
    /\ phone.online /\ ~phone.fresh =>
        /\ \A m \in Coming : phone.shown.version < m.state.version
        /\ conn.joined => /\ phone.shown.version <= room.version
                          /\ actor.at # "idle" => phone.shown.version < room.version

\* A hello is handled once over a connection.
JoinsOnce == conn.joined => ~conn.hello

VInv == TypeOK /\ ComingInOrder /\ NothingBeforeJoin /\ RoomIsNewest /\ PhoneIsBehind

-----------------------------------------------------------------------------
(* The inductive invariant for contents, while the server does not crash *)

\* Versions number the room's states, and every change of a part has a new
\* version.
HistoryOk ==
    /\ run = 0
    /\ \A i \in DOMAIN history :
        /\ history[i].version = i - 1 /\ history[i].run = 0
        /\ \A p \in Parts : history[i].part[p].run = 0
    /\ \A i, j \in DOMAIN history : i <= j =>
            \A p \in Parts : history[i].part[p].version <= history[j].part[p].version

\* A state the room was in.
WasRoom(s) == s.version + 1 \in DOMAIN history /\ s = history[s.version + 1]

\* States that come were the room's, none older than the phone's.
ComingIsGenuine ==
    /\ WasRoom(phone.shown)
    /\ \A m \in Coming : WasRoom(m.state) /\ phone.shown.version <= m.state.version

\* The phone shows part p of message m, or a state that comes before m has it.
Supplied(m, p) ==
    \/ phone.shown.part[p] = m.state.part[p]
    \/ \E n \in Coming : n.state.version < m.state.version
                         /\ n.state.part[p] = m.state.part[p]

\* What a message leaves out, the phone has by then.
LeftOutIsKnown == \A m \in Coming : \A p \in Parts \ m.with : Supplied(m, p)

\* The phone shows part p in version v or a later one, or will when it has
\* received what was written.
Written(p, v) ==
    \/ v <= phone.shown.part[p].version
    \/ \E m \in StatesIn(link) : v <= m.state.part[p].version

\* The versions the connection believes to be sent were written.
SentIsWritten ==
    /\ \A p \in Parts : conn.sent[p] # NotSent => Written(p, conn.sent[p])
    /\ writer.at = "confirm" =>
        /\ IsState(writer.state)
        /\ \A p \in Parts : Written(p, writer.state.state.part[p].version)

\* What the actor decided to leave out was written in the room's version, and
\* is not in the snapshot it will replace.
LeavesOutWritten ==
    /\ actor.at # "idle" =>
         \A p \in Parts \ (actor.todo \cup actor.with) : Written(p, room.part[p].version)
    /\ actor.at \in {"look", "set"} => actor.todo = {}
    /\ actor.at = "set" /\ IsState(conn.state) => conn.state.with \subseteq actor.with

\* Between broadcasts the room's state is shown or on its way.
RoomComes ==
    conn.joined /\ actor.at = "idle" =>
        phone.shown = room \/ \E m \in Coming : m.state = room

\* The writer only sleeps with a snapshot pending when it is notified.
NoLostWakeUp == writer.at = "wait" /\ ~conn.notify => conn.state = Nothing

CInv ==
    /\ HistoryOk /\ ComingIsGenuine /\ LeftOutIsKnown /\ SentIsWritten
    /\ LeavesOutWritten /\ RoomComes /\ NoLostWakeUp

-----------------------------------------------------------------------------
(* Types *)

LEMMA ControlIsMessage ==
    /\ Welcome \in ControlMessages /\ Pong \in ControlMessages
    /\ ControlMessages \subseteq Messages /\ StateMessages \subseteq Messages
    /\ PresenceMessages \subseteq Messages
BY DEF ControlMessages, Messages

\* A state message is told from the others by its type.
LEMMA StateIsState ==
    ASSUME NEW m
    PROVE  /\ m \in Messages \cup {Nothing} => (IsState(m) <=> m \in StateMessages)
           /\ m \in StateMessages => m.state \in RoomStates /\ m.with \in SUBSET Parts
           /\ ~IsState(Nothing) /\ ~IsState(Welcome) /\ ~IsState(Pong)
BY DEF Messages, ControlMessages, StateMessages, PresenceMessages, IsState, Nothing, Welcome, Pong

LEMMA RoomIsState ==
    ASSUME TypeOK
    PROVE  /\ Len(history) \in Nat \ {0} /\ DOMAIN history = 1..Len(history)
           /\ room \in RoomStates
BY DEF TypeOK, room

LEMMA FreshRoomIsState == FreshRoom \in RoomStates
BY DEF FreshRoom, RoomStates

LEMMA RestingType ==
    /\ NewConn \in ConnRecords /\ Top \in WriterRecords
    /\ Idle \in ActorRecords /\ Broadcasting \in ActorRecords
BY DEF NewConn, ConnRecords, Top, WriterRecords, Idle, Broadcasting, ActorRecords

LEMMA NewConnEmpty ==
    ASSUME NEW c, c = NewConn \/ c = [NewConn EXCEPT !.open = TRUE, !.hello = TRUE]
    PROVE  /\ c.state = Nothing /\ c.presence = Nothing /\ ~c.joined /\ c.control = <<>>
           /\ c.sent = [p \in Parts |-> NotSent] /\ ~c.notify
<1>1. /\ NewConn.state = Nothing /\ NewConn.presence = Nothing /\ ~NewConn.joined
      /\ NewConn.control = <<>> /\ NewConn.sent = [p \in Parts |-> NotSent] /\ ~NewConn.notify
    BY DEF NewConn
<1>2. QED
    BY <1>1, RestingType DEF ConnRecords

LEMMA InitType == Init => TypeOK
<1> SUFFICES ASSUME Init PROVE TypeOK
    OBVIOUS
<1>1. history \in Seq(RoomStates) /\ history # <<>> /\ Len(history) = 1
    BY FreshRoomIsState DEF Init
<1>2. QED
    BY <1>1, RestingType, FreshRoomIsState DEF Init, TypeOK, PhoneRecords, Top

LEMMA SendControlType ==
    ASSUME NEW c \in ConnRecords, NEW message \in ControlMessages
    PROVE  SendControl(c, message) \in ConnRecords
<1>1. Append(c.control, message) \in Seq(ControlMessages)
    BY DEF ConnRecords
<1>2. [c EXCEPT !.control = Append(@, message)] \in ConnRecords
    BY <1>1 DEF ConnRecords
<1>3. [c EXCEPT !.open = FALSE] \in ConnRecords
    BY DEF ConnRecords
<1>4. QED
    BY <1>2, <1>3 DEF SendControl

LEMMA MergeType ==
    ASSUME NEW shown \in RoomStates, NEW m \in StateMessages
    PROVE  Merge(shown, m) \in RoomStates
<1>1. m.state \in RoomStates
    BY StateIsState
<1>2. \A p \in Parts : m.state.part[p] \in [version : Nat, run : Nat]
                       /\ shown.part[p] \in [version : Nat, run : Nat]
    BY <1>1 DEF RoomStates
<1> DEFINE part == [p \in Parts |-> IF p \in m.with THEN m.state.part[p] ELSE shown.part[p]]
<1>3. part \in [Parts -> [version : Nat, run : Nat]]
    BY <1>2
<1>4. Merge(shown, m) = [m.state EXCEPT !.part = part]
    BY DEF Merge
<1> HIDE DEF part
<1>5. QED
    BY <1>1, <1>3, <1>4 DEF RoomStates

LEMMA ChangeType == TypeOK /\ (\E parts \in SUBSET Parts : Change(parts)) => TypeOK'
<1> SUFFICES ASSUME TypeOK, NEW parts \in SUBSET Parts, Change(parts) PROVE TypeOK'
    OBVIOUS
<1> DEFINE part == [p \in Parts |-> IF p \in parts
                                    THEN [version |-> room.part[p].version + 1, run |-> run]
                                    ELSE room.part[p]]
           new == [version |-> room.version + 1, run |-> run, part |-> part]
<1>1. room \in RoomStates /\ run \in Nat
    BY RoomIsState DEF TypeOK
<1>2. \A p \in Parts : room.part[p] \in [version : Nat, run : Nat]
    BY <1>1 DEF RoomStates
<1>3. part \in [Parts -> [version : Nat, run : Nat]]
    BY <1>1, <1>2
<1>4. history' = Append(history, new)
    BY DEF Change
<1> HIDE DEF part
<1>5. new \in RoomStates
    BY <1>1, <1>3 DEF RoomStates
<1> HIDE DEF new
<1>6. history' \in Seq(RoomStates) /\ history' # <<>> /\ Len(history') = Len(history) + 1
    BY <1>4, <1>5 DEF TypeOK
<1>7. actor' = IF conn.joined THEN Broadcasting ELSE Idle
    BY DEF Change
<1>8. QED
    BY <1>6, <1>7, RoomIsState, RestingType DEF Change, TypeOK

LEMMA ActorType == TypeOK /\ (ActorStep \/ AnswerPing) => TypeOK'
<1> SUFFICES ASSUME TypeOK, ActorStep \/ AnswerPing PROVE TypeOK'
    OBVIOUS
<1>1. CASE Join
    <2>1. [conn EXCEPT !.hello = FALSE, !.joined = TRUE] \in ConnRecords
        BY DEF TypeOK, ConnRecords
    <2>2. conn' \in ConnRecords
        BY <1>1, <2>1, SendControlType, ControlIsMessage DEF Join
    <2>3. losses' \in Nat
        BY <1>1 DEF Join, CountOverflow, TypeOK
    <2>4. /\ history' = history /\ saved' = saved /\ run' = run /\ announced' = FALSE
          /\ presence' \in Nat /\ actor' = Broadcasting
          /\ writer' = writer /\ link' = link /\ phone' = phone
        BY <1>1 DEF Join, TypeOK
    <2>5. QED
        BY <2>2, <2>3, <2>4, RestingType DEF TypeOK
<1>2. ASSUME NEW p \in Parts, LoadSent(p) PROVE TypeOK'
    BY <1>2 DEF LoadSent, TypeOK, ActorRecords
<1>3. CASE LookAtPending
    <2>1. conn.state # Nothing => conn.state.with \in SUBSET Parts
        BY StateIsState DEF TypeOK, ConnRecords
    <2>2. QED
        BY <1>3, <2>1 DEF LookAtPending, TypeOK, ActorRecords
<1>4. CASE SetState
    <2>1. StateMessage(room, actor.with) \in StateMessages
        BY RoomIsState DEF StateMessage, StateMessages, TypeOK, ActorRecords
    <2>2. conn' \in ConnRecords
        BY <1>4, <2>1 DEF SetState, TypeOK, ConnRecords
    <2>3. QED
        BY <1>4, <2>2, RestingType DEF SetState, TypeOK
<1>5. CASE BroadcastPresence
    <2>1. PresenceMessage(presence) \in PresenceMessages
        BY DEF PresenceMessage, PresenceMessages, TypeOK
    <2>2. conn' \in ConnRecords
        BY <1>5, <2>1 DEF BroadcastPresence, TypeOK, ConnRecords
    <2>3. QED
        BY <1>5, <2>2 DEF BroadcastPresence, TypeOK
<1>6. CASE AnswerPing
    <2>1. conn' \in ConnRecords
        BY <1>6, SendControlType, ControlIsMessage DEF AnswerPing, TypeOK
    <2>2. losses' \in Nat
        BY <1>6 DEF AnswerPing, CountOverflow, TypeOK
    <2>3. QED
        BY <1>6, <2>1, <2>2 DEF AnswerPing, TypeOK
<1>7. QED
    BY <1>1, <1>2, <1>3, <1>4, <1>5, <1>6 DEF ActorStep

LEMMA WriterType == TypeOK /\ WriterStep => TypeOK'
<1> SUFFICES ASSUME TypeOK, WriterStep PROVE TypeOK'
    OBVIOUS
<1>1. CASE WriteControl({"top", "wait"})
    <2>1. Head(conn.control) \in ControlMessages /\ Tail(conn.control) \in Seq(ControlMessages)
        BY <1>1 DEF WriteControl, TypeOK, ConnRecords
    <2>2. link' \in Seq(Messages)
        BY <1>1, <2>1, ControlIsMessage DEF WriteControl, TypeOK
    <2>3. conn' \in ConnRecords
        BY <1>1, <2>1 DEF WriteControl, TypeOK, ConnRecords
    <2>4. QED
        BY <1>1, <2>2, <2>3, RestingType DEF WriteControl, TypeOK, Top
<1>2. CASE NoControl
    BY <1>2 DEF NoControl, TypeOK, WriterRecords
<1>3. CASE TakePending
    <2>1. /\ conn.state \in StateMessages \cup {Nothing}
          /\ conn.presence \in PresenceMessages \cup {Nothing}
        BY DEF TypeOK, ConnRecords
    <2>2. conn' \in ConnRecords
        BY <1>3 DEF TakePending, TypeOK, ConnRecords
    <2>3. QED
        BY <1>3, <2>1, <2>2 DEF TakePending, TypeOK, WriterRecords
<1>4. CASE WriteState
    <2>1. writer.state \in StateMessages /\ writer.state.with \in SUBSET Parts
        BY <1>4, StateIsState DEF WriteState, TypeOK, WriterRecords
    <2>2. link' \in Seq(Messages)
        BY <1>4, <2>1, ControlIsMessage DEF WriteState, TypeOK
    <2>3. QED
        BY <1>4, <2>1, <2>2, RestingType DEF WriteState, TypeOK, WriterRecords, Top
<1>5. CASE WritePresence
    <2>1. writer.presence \in PresenceMessages
        BY <1>5 DEF WritePresence, TypeOK, WriterRecords
    <2>2. link' \in Seq(Messages)
        BY <1>5, <2>1, ControlIsMessage DEF WritePresence, TypeOK
    <2>3. QED
        BY <1>5, <2>2, RestingType DEF WritePresence, TypeOK, Top
<1>6. CASE WakeUp
    BY <1>6, RestingType DEF WakeUp, TypeOK, ConnRecords, Top
<1>7. ASSUME NEW p \in Parts, Confirm(p) PROVE TypeOK'
    <2>1. writer.state \in StateMessages
        BY <1>7 DEF Confirm, TypeOK, WriterRecords
    <2>2. writer.state.state.part[p] \in [version : Nat, run : Nat]
        BY <2>1, StateIsState DEF RoomStates
    <2>3. conn' \in ConnRecords
        BY <1>7, <2>2 DEF Confirm, TypeOK, ConnRecords
    <2>4. QED
        BY <1>7, <2>3, RestingType DEF Confirm, TypeOK, Top, WriterRecords
<1>8. QED
    BY <1>1, <1>2, <1>3, <1>4, <1>5, <1>6, <1>7 DEF WriterStep

LEMMA ReceiveType == TypeOK /\ Receive => TypeOK'
<1> SUFFICES ASSUME TypeOK, Receive PROVE TypeOK'
    OBVIOUS
<1> DEFINE m == Head(link)
<1>1. m \in Messages /\ link' \in Seq(Messages)
    BY DEF Receive, TypeOK
<1>2. phone' = Received(m)
    BY DEF Receive
<1> HIDE DEF m
<1>3. m.type = "state" => Merge(phone.shown, m) \in RoomStates
    BY <1>1, StateIsState, MergeType DEF TypeOK, IsState, PhoneRecords
<1>4. m.type = "presence" => m.members \in Nat
    BY <1>1 DEF Messages, ControlMessages, StateMessages, PresenceMessages, Welcome, Pong
<1>5. m.type \in {"welcome", "state", "presence", "pong"}
    BY <1>1 DEF Messages, ControlMessages, StateMessages, PresenceMessages, Welcome, Pong
<1>6. phone' \in PhoneRecords
    <2>1. CASE m.type = "welcome"
        BY <1>2, <2>1 DEF Received, TypeOK, PhoneRecords
    <2>2. CASE m.type = "state"
        BY <1>2, <1>3, <2>2 DEF Received, TypeOK, PhoneRecords
    <2>3. CASE m.type = "presence"
        BY <1>2, <1>4, <2>3 DEF Received, TypeOK, PhoneRecords
    <2>4. CASE m.type = "pong"
        BY <1>2, <2>4 DEF Received, TypeOK, PhoneRecords
    <2>5. QED
        BY <1>5, <2>1, <2>2, <2>3, <2>4
<1>7. QED
    BY <1>1, <1>6 DEF Receive, TypeOK

LEMMA ConnectionType ==
    TypeOK /\ (Save \/ Crash \/ Connect \/ NoticeClose \/ LoseLink) => TypeOK'
<1> SUFFICES ASSUME TypeOK, Save \/ Crash \/ Connect \/ NoticeClose \/ LoseLink PROVE TypeOK'
    OBVIOUS
<1>1. CASE Save
    BY <1>1, RoomIsState DEF Save, TypeOK
<1>2. CASE Crash
    <2>1. history' = SubSeq(history, 1, saved) /\ saved' = saved
        BY <1>2 DEF Crash
    <2>2. history' \in Seq(RoomStates) /\ Len(history') = saved
        BY <2>1, RoomIsState DEF TypeOK
    <2>3. history' # <<>> /\ saved' \in 1..Len(history')
        BY <2>1, <2>2, RoomIsState DEF TypeOK
    <2>4. QED
        BY <1>2, <2>2, <2>3, RestingType DEF Crash, TypeOK, Top
<1>3. CASE Connect
    <2>1. [NewConn EXCEPT !.open = TRUE, !.hello = TRUE] \in ConnRecords
        BY RestingType DEF ConnRecords
    <2>2. link' \in Seq(Messages) /\ phone' \in PhoneRecords
        BY <1>3, EmptySeq DEF Connect, TypeOK, PhoneRecords
    <2>3. QED
        BY <1>3, <2>1, <2>2, RestingType DEF Connect, TypeOK, Top
<1>4. CASE Hangup /\ losses' \in Nat
    <2>1. link' \in Seq(Messages) /\ phone' \in PhoneRecords
        BY <1>4, EmptySeq DEF Hangup, TypeOK, PhoneRecords
    <2>2. QED
        BY <1>4, <2>1, RestingType DEF Hangup, TypeOK, Top
<1>5. QED
    BY <1>1, <1>2, <1>3, <1>4 DEF NoticeClose, LoseLink, TypeOK

LEMMA NextType == TypeOK /\ [Next]_vars => TypeOK'
<1>1. TypeOK /\ UNCHANGED vars => TypeOK'
    BY DEF vars, TypeOK
<1>2. QED
    BY <1>1, ChangeType, ActorType, WriterType, ReceiveType, ConnectionType DEF Next

\* The actor, the writer and the phone only ever handle messages of the kind
\* they expect, and the phone always shows a state that is whole, with all its
\* parts.
THEOREM TypeCorrect == Spec => []TypeOK
BY InitType, NextType, PTL DEF Spec

-----------------------------------------------------------------------------
(* Messages on a link *)

LEMMA WrittenLast ==
    ASSUME NEW l \in Seq(Messages), NEW m \in Messages
    PROVE  /\ StatesIn(Append(l, m)) = StatesIn(l) \cup {n \in {m} : IsState(n)}
           /\ \A w, c : InOrder(l, w, c) /\ ~IsState(m) => InOrder(Append(l, m), w, c)
           /\ \A c : InOrder(l, m, c) => InOrder(Append(l, m), Nothing, c)
<1> DEFINE a == Append(l, m)
<1>1. /\ Len(l) \in Nat /\ DOMAIN l = 1..Len(l) /\ DOMAIN a = 1..(Len(l) + 1)
      /\ \A i \in DOMAIN l : a[i] = l[i]
      /\ a[Len(l) + 1] = m
    OBVIOUS
<1> HIDE DEF a
<1>2. StatesIn(a) = StatesIn(l) \cup {n \in {m} : IsState(n)}
    <2>1. \A i \in DOMAIN a : (i \in DOMAIN l /\ a[i] = l[i]) \/ a[i] = m
        BY <1>1
    <2>2. \A i \in DOMAIN l : i \in DOMAIN a /\ a[i] = l[i]
        BY <1>1
    <2>3. \E i \in DOMAIN a : a[i] = m
        BY <1>1
    <2>4. QED
        BY <2>1, <2>2, <2>3 DEF StatesIn
<1>3. ASSUME NEW w, NEW c, InOrder(l, w, c), ~IsState(m)
      PROVE  InOrder(a, w, c)
    <2>1. \A n : Before(m, n) /\ Before(n, m)
        BY <1>3 DEF Before
    <2>2. QED
        BY <1>1, <1>3, <2>1 DEF InOrder
<1>4. ASSUME NEW c, InOrder(l, m, c)
      PROVE  InOrder(a, Nothing, c)
    <2>1. \A n : Before(n, Nothing) /\ Before(Nothing, n)
        BY StateIsState DEF Before
    <2>2. \A i, j \in DOMAIN a : i < j => Before(a[i], a[j])
        BY <1>1, <1>4 DEF InOrder
    <2>3. \A i \in DOMAIN a : Before(a[i], c)
        BY <1>1, <1>4 DEF InOrder
    <2>4. QED
        BY <2>1, <2>2, <2>3 DEF InOrder
<1>5. QED
    BY <1>2, <1>3, <1>4 DEF a

LEMMA ReceivedFirst ==
    ASSUME NEW l \in Seq(Messages), l # <<>>, NEW w, NEW c, InOrder(l, w, c)
    PROVE  /\ StatesIn(l) = StatesIn(Tail(l)) \cup {n \in {Head(l)} : IsState(n)}
           /\ InOrder(Tail(l), w, c)
           /\ IsState(Head(l)) =>
                \A m \in StatesIn(Tail(l)) \cup {n \in {w, c} : IsState(n)} :
                    Head(l).state.version < m.state.version
<1> DEFINE h == Head(l)
           t == Tail(l)
<1>1. /\ Len(l) \in Nat \ {0} /\ DOMAIN l = 1..Len(l)
      /\ Len(t) = Len(l) - 1 /\ DOMAIN t = 1..Len(t)
      /\ \A i \in DOMAIN t : t[i] = l[i + 1]
      /\ h = l[1]
    OBVIOUS
<1> HIDE DEF h, t
<1>2. \A i \in DOMAIN t : i + 1 \in DOMAIN l /\ t[i] = l[i + 1] /\ 1 < i + 1
    BY <1>1
<1>3. \A i \in DOMAIN l : i = 1 \/ (i - 1 \in DOMAIN t /\ l[i] = t[i - 1])
    BY <1>1
<1>4. 1 \in DOMAIN l
    BY <1>1
<1>5. StatesIn(l) = StatesIn(t) \cup {n \in {h} : IsState(n)}
    <2>1. \A i \in DOMAIN l : l[i] = h \/ \E j \in DOMAIN t : l[i] = t[j]
        BY <1>1, <1>3
    <2>2. \A i \in DOMAIN t : \E j \in DOMAIN l : t[i] = l[j]
        BY <1>2
    <2>3. \E i \in DOMAIN l : l[i] = h
        BY <1>1, <1>4
    <2>4. QED
        BY <2>1, <2>2, <2>3 DEF StatesIn
<1>6. \A i, j \in DOMAIN t : i < j => i + 1 < j + 1
    BY <1>1
<1>7. InOrder(t, w, c)
    BY <1>2, <1>6 DEF InOrder
<1>8. ASSUME NEW m \in StatesIn(t) \cup {n \in {w, c} : IsState(n)}, IsState(h)
      PROVE  h.state.version < m.state.version
    <2>1. IsState(m)
        BY DEF StatesIn
    <2>2. \A i \in DOMAIN t : Before(h, t[i])
        BY <1>1, <1>2, <1>4 DEF InOrder
    <2>3. Before(h, w) /\ Before(h, c)
        BY <1>1, <1>4 DEF InOrder
    <2>4. Before(h, m)
        BY <2>2, <2>3 DEF StatesIn
    <2>5. QED
        BY <1>8, <2>1, <2>4 DEF Before
<1>9. QED
    BY <1>5, <1>7, <1>8 DEF h, t

LEMMA ComingType ==
    ASSUME TypeOK
    PROVE  /\ InWriter \in StateMessages \cup {Nothing}
           /\ conn.state \in StateMessages \cup {Nothing}
           /\ \A m \in Coming : m \in StateMessages /\ m.state \in RoomStates
                                /\ m.state.version \in Nat /\ m.with \in SUBSET Parts
<1>1. /\ InWriter \in StateMessages \cup {Nothing}
      /\ conn.state \in StateMessages \cup {Nothing}
    BY DEF TypeOK, InWriter, WriterRecords, ConnRecords
<1>2. \A i \in DOMAIN link : link[i] \in Messages
    BY DEF TypeOK
<1>3. \A m \in Coming : m \in StateMessages
    BY <1>1, <1>2, StateIsState DEF Coming, StatesIn
<1>4. \A s \in RoomStates : s.version \in Nat
    BY DEF RoomStates
<1>5. QED
    BY <1>1, <1>3, <1>4, StateIsState

\* With no state in the writer, or none pending, there is one less to come.
LEMMA ComingParts ==
    /\ Coming = StatesIn(link) \cup {m \in {InWriter} : IsState(m)}
                               \cup {m \in {conn.state} : IsState(m)}
    /\ ~IsState(Nothing)
BY StateIsState DEF Coming

-----------------------------------------------------------------------------
(* Versions only grow *)

LEMMA InitVersions == Init => VInv
<1> SUFFICES ASSUME Init PROVE VInv
    OBVIOUS
<1>1. TypeOK
    BY InitType
<1>2. InWriter = Nothing /\ conn.state = Nothing /\ DOMAIN link = {}
    BY DEF Init, InWriter, Top, NewConn
<1>3. Coming = {}
    BY <1>2, StateIsState DEF Coming, StatesIn
<1>4. ComingInOrder
    BY <1>2, StateIsState DEF ComingInOrder, InOrder, Before
<1>5. QED
    BY <1>1, <1>2, <1>3, <1>4
       DEF Init, VInv, NothingBeforeJoin, RoomIsNewest, PhoneIsBehind, NewConn, Idle, Top

\* A step that neither sends the phone anything nor lets it move on.
LEMMA SameStates ==
    ASSUME VInv, TypeOK', ComingInOrder', NothingBeforeJoin', Coming' \subseteq Coming,
           history' = history, phone' = phone, conn'.joined = conn.joined,
           actor'.at # "idle" => actor.at # "idle"
    PROVE  VInv'
<1>1. room' = room
    BY DEF room
<1>2. RoomIsNewest'
    BY <1>1 DEF VInv, RoomIsNewest
<1>3. PhoneIsBehind'
    BY <1>1 DEF VInv, PhoneIsBehind
<1>4. QED
    BY <1>2, <1>3 DEF VInv

\* What the writer does to the states on their way: nothing but moving them on.
LEMMA WriterMoves ==
    ASSUME TypeOK, ComingInOrder, NothingBeforeJoin, WriterStep
    PROVE  Coming' = Coming /\ ComingInOrder' /\ NothingBeforeJoin'
<1>1. CASE WriteControl({"top", "wait"})
    <2> DEFINE m == Head(conn.control)
    <2>1. /\ conn.control \in Seq(ControlMessages) /\ conn.control # <<>>
          /\ link' = Append(link, m) /\ writer' = Top /\ writer.at \in {"top", "wait"}
          /\ conn' = [conn EXCEPT !.control = Tail(@)]
          /\ actor' = actor /\ phone' = phone
        BY <1>1 DEF WriteControl, TypeOK, ConnRecords
    <2>2. m \in ControlMessages /\ m \in Messages /\ ~IsState(m)
        <3>1. m \in ControlMessages
            BY <2>1
        <3>2. QED
            BY <3>1, ControlIsMessage, StateIsState DEF ControlMessages
    <2> HIDE DEF m
    <2>3. /\ conn'.state = conn.state /\ conn'.joined = conn.joined /\ conn'.open = conn.open
          /\ conn'.presence = conn.presence
        BY <2>1 DEF TypeOK, ConnRecords
    <2>4. InWriter = Nothing /\ InWriter' = Nothing
        BY <2>1 DEF InWriter, Top
    <2>5. link \in Seq(Messages)
        BY DEF TypeOK
    <2>6. StatesIn(link') = StatesIn(link)
        <3>1. StatesIn(Append(link, m)) = StatesIn(link) \cup {n \in {m} : IsState(n)}
            BY <2>2, <2>5, WrittenLast
        <3>2. {n \in {m} : IsState(n)} = {}
            BY <2>2
        <3>3. QED
            BY <2>1, <3>1, <3>2
    <2>7. Coming' = Coming
        BY <2>3, <2>4, <2>6 DEF Coming
    <2>8. ComingInOrder'
        BY <2>1, <2>2, <2>3, <2>4, <2>5, WrittenLast DEF ComingInOrder
    <2>9. NothingBeforeJoin'
        <3>1. SUFFICES ASSUME ~conn.joined
                       PROVE  /\ actor'.at = "idle" /\ conn'.state = Nothing
                              /\ writer'.state = Nothing
                              /\ conn'.presence = Nothing /\ writer'.presence = Nothing
                              /\ conn'.open =>
                                    /\ ~phone'.online /\ \A i \in DOMAIN link' : link'[i] = Pong
                                    /\ \A i \in DOMAIN conn'.control : conn'.control[i] = Pong
            BY <2>3 DEF NothingBeforeJoin
        <3>2. /\ actor'.at = "idle" /\ conn'.state = Nothing /\ writer'.state = Nothing
              /\ conn'.presence = Nothing /\ writer'.presence = Nothing
            BY <2>1, <2>3, <3>1 DEF NothingBeforeJoin, Top
        <3>3. ASSUME conn'.open
              PROVE  /\ ~phone'.online /\ \A i \in DOMAIN link' : link'[i] = Pong
                     /\ \A i \in DOMAIN conn'.control : conn'.control[i] = Pong
            <4>1. /\ ~phone.online /\ \A i \in DOMAIN link : link[i] = Pong
                  /\ \A i \in DOMAIN conn.control : conn.control[i] = Pong
                BY <2>3, <3>1, <3>3 DEF NothingBeforeJoin
            <4>2. m = Pong
                BY <2>1, <4>1 DEF m
            <4>3. \A i \in DOMAIN Append(link, m) : Append(link, m)[i] = Pong
                BY <2>5, <4>1, <4>2
            <4>4. conn'.control = Tail(conn.control)
                BY <2>1 DEF TypeOK, ConnRecords
            <4>5. \A i \in DOMAIN Tail(conn.control) : Tail(conn.control)[i] = Pong
                BY <2>1, <4>1
            <4>6. QED
                BY <2>1, <4>1, <4>3, <4>4, <4>5
        <3>4. QED
            BY <3>2, <3>3
    <2>10. QED
        BY <2>7, <2>8, <2>9
<1>2. CASE NoControl
    <2>1. /\ InWriter = Nothing /\ InWriter' = Nothing /\ writer'.state = writer.state
          /\ writer'.presence = writer.presence
          /\ link' = link /\ conn' = conn /\ actor' = actor /\ phone' = phone
        BY <1>2 DEF NoControl, InWriter, TypeOK, WriterRecords
    <2>2. QED
        BY <2>1 DEF Coming, ComingInOrder, NothingBeforeJoin
<1>3. CASE TakePending
    <2>1. /\ InWriter = Nothing /\ InWriter' = conn.state
          /\ conn'.presence = Nothing /\ writer'.presence = conn.presence
          /\ conn'.state = Nothing /\ writer'.state = conn.state /\ conn'.joined = conn.joined
          /\ conn'.open = conn.open /\ conn'.control = conn.control
          /\ link' = link /\ actor' = actor /\ phone' = phone
        BY <1>3 DEF TakePending, InWriter, TypeOK, ConnRecords
    <2>2. Coming' = Coming
        BY <2>1 DEF Coming
    <2>3. \A m : Before(m, Nothing) /\ Before(Nothing, m)
        BY StateIsState DEF Before
    <2>4. ComingInOrder'
        BY <2>1, <2>3 DEF ComingInOrder, InOrder
    <2>5. QED
        BY <2>1, <2>2, <2>4 DEF NothingBeforeJoin
<1>4. CASE WriteState
    <2>1. /\ InWriter = writer.state /\ InWriter' = Nothing /\ writer.state # Nothing
          /\ conn'.presence = conn.presence
          /\ link' = Append(link, writer.state)
          /\ conn' = conn /\ actor' = actor /\ phone' = phone
        BY <1>4 DEF WriteState, InWriter, TypeOK, WriterRecords, Top
    <2>2. link \in Seq(Messages) /\ writer.state \in Messages
        BY <2>1, ControlIsMessage DEF TypeOK, WriterRecords
    <2>3. Coming' = Coming
        BY <2>1, <2>2, WrittenLast, StateIsState DEF Coming
    <2>4. ComingInOrder'
        BY <2>1, <2>2, WrittenLast DEF ComingInOrder
    <2>5. QED
        BY <2>1, <2>3, <2>4 DEF NothingBeforeJoin
<1>5. CASE WritePresence
    <2>1. /\ InWriter = Nothing /\ InWriter' = Nothing /\ writer.presence \in PresenceMessages
          /\ link' = Append(link, writer.presence) /\ writer' = Top
          /\ conn' = conn /\ actor' = actor /\ phone' = phone /\ writer.at = "write"
        BY <1>5 DEF WritePresence, InWriter, TypeOK, WriterRecords, Top
    <2>2. link \in Seq(Messages) /\ writer.presence \in Messages /\ ~IsState(writer.presence)
        BY <2>1, ControlIsMessage DEF TypeOK, PresenceMessages, IsState
    <2>3. Coming' = Coming
        BY <2>1, <2>2, WrittenLast DEF Coming
    <2>4. ComingInOrder'
        BY <2>1, <2>2, WrittenLast DEF ComingInOrder
    <2>5. conn.joined
        BY <2>1 DEF NothingBeforeJoin, TypeOK
    <2>6. QED
        BY <2>1, <2>3, <2>4, <2>5 DEF NothingBeforeJoin
<1>6. CASE WakeUp
    <2>1. /\ InWriter = Nothing /\ InWriter' = Nothing /\ writer'.state = Nothing
          /\ writer'.presence = Nothing /\ conn'.presence = conn.presence
          /\ link' = link /\ actor' = actor /\ phone' = phone
          /\ conn'.state = conn.state /\ conn'.joined = conn.joined
          /\ conn'.open = conn.open /\ conn'.control = conn.control
        BY <1>6 DEF WakeUp, InWriter, TypeOK, ConnRecords, Top
    <2>2. QED
        BY <2>1 DEF Coming, ComingInOrder, NothingBeforeJoin
<1>7. ASSUME NEW p \in Parts, Confirm(p)
      PROVE  Coming' = Coming /\ ComingInOrder' /\ NothingBeforeJoin'
    <2>1. /\ InWriter = Nothing /\ InWriter' = Nothing /\ writer.state # Nothing
          /\ conn'.presence = conn.presence
          /\ link' = link /\ actor' = actor /\ phone' = phone
          /\ conn'.state = conn.state /\ conn'.joined = conn.joined
          /\ conn'.open = conn.open /\ conn'.control = conn.control
        BY <1>7 DEF Confirm, InWriter, TypeOK, ConnRecords, WriterRecords, Top
    <2>2. QED
        BY <2>1 DEF Coming, ComingInOrder, NothingBeforeJoin
<1>8. QED
    BY <1>1, <1>2, <1>3, <1>4, <1>5, <1>6, <1>7 DEF WriterStep

LEMMA WriterVersions == VInv /\ WriterStep => VInv'
<1> SUFFICES ASSUME VInv, WriterStep PROVE VInv'
    OBVIOUS
<1>1. Coming' = Coming /\ ComingInOrder' /\ NothingBeforeJoin'
    BY WriterMoves DEF VInv
<1>2. TypeOK'
    BY WriterType DEF VInv
<1>3. history' = history /\ phone' = phone /\ actor' = actor /\ conn'.joined = conn.joined
    BY DEF VInv, WriterStep, WriteControl, NoControl, TakePending, WriteState, WritePresence,
           WakeUp, Confirm, TypeOK, ConnRecords
<1>4. QED
    BY <1>1, <1>2, <1>3, SameStates

\* Control messages, presence and what the actor only looks at: the states on
\* their way are the same.
LEMMA QuietSteps ==
    ASSUME VInv,
           Save \/ AnswerPing \/ BroadcastPresence \/ LookAtPending \/ \E p \in Parts : LoadSent(p)
    PROVE  VInv' /\ Coming' = Coming
<1>1. TypeOK'
    BY ActorType, ConnectionType DEF VInv, ActorStep
<1>2. history' = history /\ phone' = phone /\ link' = link /\ writer' = writer
    BY DEF Save, AnswerPing, BroadcastPresence, LookAtPending, LoadSent
<1>3. conn'.state = conn.state /\ conn'.joined = conn.joined
    BY DEF Save, AnswerPing, BroadcastPresence, LookAtPending, LoadSent, SendControl,
           VInv, TypeOK, ConnRecords
<1>4. actor'.at # "idle" <=> actor.at # "idle"
    <2>1. CASE Save \/ AnswerPing \/ BroadcastPresence
        BY <2>1 DEF Save, AnswerPing, BroadcastPresence
    <2>2. CASE LookAtPending
        <3>1. actor'.at = "set"
            BY <2>2 DEF LookAtPending, VInv, TypeOK, ActorRecords
        <3>2. QED
            BY <2>2, <3>1 DEF LookAtPending
    <2>3. ASSUME NEW p \in Parts, LoadSent(p) PROVE actor'.at # "idle" <=> actor.at # "idle"
        <3>1. actor'.at = IF actor.todo \ {p} = {} THEN "look" ELSE "load"
            BY <2>3 DEF LoadSent
        <3>2. actor.at = "load"
            BY <2>3 DEF LoadSent
        <3>3. QED
            BY <3>1, <3>2
    <2>4. QED
        BY <2>1, <2>2, <2>3
<1>5. Coming' = Coming /\ ComingInOrder'
    BY <1>2, <1>3 DEF Coming, ComingInOrder, InWriter, VInv
<1>6. NothingBeforeJoin'
    <2>1. CASE AnswerPing
        <3>1. /\ conn' = SendControl(conn, Pong) /\ conn.control \in Seq(ControlMessages)
              /\ actor' = actor
            BY <2>1 DEF AnswerPing, VInv, TypeOK, ConnRecords
        <3>2. /\ conn'.presence = conn.presence
              /\ conn'.open => conn.open
              /\ conn'.control \in {conn.control, Append(conn.control, Pong)}
            BY <3>1 DEF SendControl, VInv, TypeOK, ConnRecords
        <3>3. (\A i \in DOMAIN conn.control : conn.control[i] = Pong)
                => \A i \in DOMAIN conn'.control : conn'.control[i] = Pong
            BY <3>1, <3>2
        <3>4. CASE conn.joined
            BY <1>3, <3>4 DEF NothingBeforeJoin
        <3>5. CASE ~conn.joined
            <4>1. /\ actor.at = "idle" /\ conn.state = Nothing /\ writer.state = Nothing
                  /\ conn.presence = Nothing /\ writer.presence = Nothing
                  /\ conn.open => /\ ~phone.online /\ \A i \in DOMAIN link : link[i] = Pong
                                  /\ \A i \in DOMAIN conn.control : conn.control[i] = Pong
                BY <3>5 DEF VInv, NothingBeforeJoin
            <4>2. /\ actor'.at = "idle" /\ conn'.state = Nothing /\ writer'.state = Nothing
                  /\ conn'.presence = Nothing /\ writer'.presence = Nothing
                BY <1>2, <1>3, <3>1, <3>2, <4>1
            <4>3. conn'.open => /\ ~phone'.online /\ \A i \in DOMAIN link' : link'[i] = Pong
                                /\ \A i \in DOMAIN conn'.control : conn'.control[i] = Pong
                BY <1>2, <3>2, <3>3, <4>1
            <4>4. QED
                BY <4>2, <4>3 DEF NothingBeforeJoin
        <3>6. QED
            BY <3>4, <3>5
    <2>2. CASE BroadcastPresence
        <3>1. conn.joined => NothingBeforeJoin'
            BY <1>3 DEF NothingBeforeJoin
        <3>2. ~conn.joined => conn' = conn /\ actor' = actor
            BY <2>2 DEF BroadcastPresence
        <3>3. QED
            BY <1>2, <3>1, <3>2 DEF VInv, NothingBeforeJoin
    <2>3. CASE Save \/ LookAtPending \/ \E p \in Parts : LoadSent(p)
        <3>1. conn' = conn
            BY <2>3 DEF Save, LookAtPending, LoadSent
        <3>2. QED
            BY <1>2, <1>4, <3>1 DEF VInv, NothingBeforeJoin
    <2>4. QED
        BY <2>1, <2>2, <2>3
<1>7. QED
    BY <1>1, <1>2, <1>3, <1>4, <1>5, <1>6, SameStates

\* The first broadcast over a connection.
LEMMA JoinVersions ==
    ASSUME VInv, JoinsOnce, Join
    PROVE  VInv' /\ Coming = {} /\ Coming' = {}
<1>1. TypeOK'
    BY ActorType DEF VInv, ActorStep
<1>2. /\ history' = history /\ phone' = phone /\ link' = link /\ writer' = writer
      /\ actor.at = "idle" /\ conn.open
    BY DEF Join
<1>3. /\ conn'.state = conn.state /\ conn'.joined = TRUE /\ room' = room
    BY <1>2 DEF Join, SendControl, VInv, TypeOK, ConnRecords, room
<1>4. Coming' = Coming /\ ComingInOrder'
    BY <1>2, <1>3 DEF Coming, ComingInOrder, InWriter, VInv
<1>5. /\ \A i \in DOMAIN link : link[i] = Pong
      /\ conn.state = Nothing /\ writer.state = Nothing /\ ~phone.online
    BY <1>2 DEF VInv, NothingBeforeJoin, JoinsOnce, Join
<1>6. Coming = {}
    BY <1>5, StateIsState DEF Coming, StatesIn, InWriter
<1>7. QED
    BY <1>1, <1>2, <1>3, <1>4, <1>5, <1>6
       DEF VInv, NothingBeforeJoin, RoomIsNewest, PhoneIsBehind

\* A change is newer than whatever was sent.
LEMMA ChangeVersions == VInv /\ (\E parts \in SUBSET Parts : Change(parts)) => VInv'
<1> SUFFICES ASSUME VInv, NEW parts \in SUBSET Parts, Change(parts) PROVE VInv'
    OBVIOUS
<1>1. TypeOK'
    BY ChangeType DEF VInv
<1>2. /\ conn' = conn /\ phone' = phone /\ link' = link /\ writer' = writer
      /\ actor.at = "idle" /\ actor' = IF conn.joined THEN Broadcasting ELSE Idle
    BY DEF Change
<1>3. room'.version = room.version + 1 /\ room.version \in Nat
    <2>1. Len(history') = Len(history) + 1 /\ history'[Len(history')].version = room.version + 1
        BY RoomIsState DEF Change, VInv, TypeOK
    <2>2. room.version \in Nat
        BY RoomIsState DEF VInv, RoomStates
    <2>3. QED
        BY <2>1, <2>2 DEF room
<1>4. Coming' = Coming /\ ComingInOrder'
    BY <1>2 DEF Coming, ComingInOrder, InWriter, VInv
<1>5. NothingBeforeJoin'
    BY <1>2 DEF NothingBeforeJoin, VInv, Idle
<1>6. conn.joined => \A m \in Coming : m.state.version < room'.version
    BY <1>3, ComingType DEF VInv, RoomIsNewest
<1>7. RoomIsNewest'
    <2>1. \A m \in Coming : m.state.version \in Nat
        BY ComingType DEF VInv
    <2>2. \A m \in Coming : m.state.version < room'.version => m.state.version <= room'.version
        BY <1>3, <2>1
    <2>3. conn'.joined => \A m \in Coming' : m.state.version < room'.version
        BY <1>2, <1>4, <1>6
    <2>4. QED
        BY <1>4, <2>2, <2>3 DEF RoomIsNewest
<1>8. phone.shown.version \in Nat
    BY DEF VInv, TypeOK, PhoneRecords, RoomStates
<1>9. PhoneIsBehind'
    BY <1>2, <1>3, <1>4, <1>8 DEF PhoneIsBehind, VInv
<1>10. QED
    BY <1>1, <1>4, <1>5, <1>7, <1>9 DEF VInv

\* The snapshot that is set takes the place of an older one.
LEMMA SetStateVersions ==
    ASSUME VInv, SetState
    PROVE  /\ VInv' /\ conn.joined
           /\ conn'.state = StateMessage(room, actor.with) /\ conn'.state \in Coming'
           /\ Coming' \subseteq Coming \cup {conn'.state}
           /\ Coming \subseteq Coming' \cup {conn.state}
<1> DEFINE new == StateMessage(room, actor.with)
<1>1. TypeOK'
    BY ActorType DEF VInv, ActorStep
<1>2. /\ history' = history /\ phone' = phone /\ link' = link /\ writer' = writer
      /\ actor.at = "set" /\ actor' = Idle /\ room' = room
    BY DEF SetState, room
<1>3. /\ conn'.state = new /\ conn'.joined = conn.joined /\ conn'.open = conn.open
    BY DEF SetState, VInv, TypeOK, ConnRecords
<1>4. conn.joined
    BY <1>2 DEF VInv, NothingBeforeJoin
<1>5. IsState(new) /\ new.state = room
    BY DEF StateMessage, IsState
<1>6. InWriter' = InWriter
    BY <1>2 DEF InWriter
<1> HIDE DEF new
<1>7. /\ Coming' = StatesIn(link) \cup {m \in {InWriter} : IsState(m)} \cup {new}
      /\ Coming' \subseteq Coming \cup {new}
      /\ Coming \subseteq Coming' \cup {conn.state}
    BY <1>2, <1>3, <1>5, <1>6 DEF Coming
<1>8. \A m \in Coming : m.state.version < room.version
    BY <1>2, <1>4 DEF VInv, RoomIsNewest
<1>9. ComingInOrder'
    <2>1. \A m : m \in Coming => Before(m, new)
        BY <1>5, <1>8 DEF Before
    <2>2. \A i \in DOMAIN link : Before(link[i], new)
        BY <2>1 DEF Coming, StatesIn, Before
    <2>3. Before(InWriter, new)
        BY <2>1 DEF Coming, Before
    <2>4. QED
        BY <1>2, <1>3, <1>6, <2>2, <2>3 DEF VInv, ComingInOrder, InOrder
<1>10. RoomIsNewest'
    <2>1. room.version \in Nat
        BY RoomIsState DEF VInv, RoomStates
    <2>2. \A m \in Coming' : m.state.version <= room.version
        BY <1>5, <1>7, <1>8, <2>1, ComingType DEF VInv
    <2>3. QED
        BY <1>2, <2>2 DEF RoomIsNewest, Idle
<1>11. PhoneIsBehind'
    <2>1. ASSUME phone.online, ~phone.fresh
          PROVE  /\ \A m \in Coming' : phone.shown.version < m.state.version
                 /\ phone.shown.version <= room.version
        BY <1>2, <1>4, <1>5, <1>7, <2>1 DEF VInv, PhoneIsBehind
    <2>2. QED
        BY <1>2, <2>1 DEF VInv, PhoneIsBehind, Idle
<1>12. QED
    BY <1>1, <1>3, <1>4, <1>5, <1>7, <1>9, <1>10, <1>11 DEF VInv, NothingBeforeJoin, new

\* The state received is the oldest of those on their way.
LEMMA ReceiveTakesFirst ==
    ASSUME TypeOK, ComingInOrder, Receive
    PROVE  /\ Head(link) \in Messages
           /\ Coming' \subseteq Coming /\ Coming \subseteq Coming' \cup {Head(link)}
           /\ ComingInOrder'
           /\ IsState(Head(link)) =>
                /\ Head(link) \in Coming
                /\ \A m \in Coming' : Head(link).state.version < m.state.version
<1>1. /\ link \in Seq(Messages) /\ link # <<>> /\ link' = Tail(link)
      /\ conn' = conn /\ InWriter' = InWriter
    BY DEF TypeOK, Receive, InWriter
<1> DEFINE h == Head(link)
<1>2. h \in Messages
    BY <1>1
<1>3. /\ StatesIn(link) = StatesIn(link') \cup {n \in {h} : IsState(n)}
      /\ InOrder(link', InWriter, conn.state)
      /\ IsState(h) => \A m \in StatesIn(link') \cup {n \in {InWriter, conn.state} : IsState(n)} :
                            h.state.version < m.state.version
    BY <1>1, ReceivedFirst DEF ComingInOrder
<1> HIDE DEF h
<1>4. Coming' = StatesIn(link') \cup {n \in {InWriter, conn.state} : IsState(n)}
    BY <1>1 DEF Coming
<1>5. Coming' \subseteq Coming /\ Coming \subseteq Coming' \cup {h}
    BY <1>3, <1>4 DEF Coming
<1>6. IsState(h) => h \in Coming
    BY <1>3 DEF Coming
<1>7. ComingInOrder'
    BY <1>1, <1>3 DEF ComingInOrder
<1>8. QED
    BY <1>2, <1>3, <1>4, <1>5, <1>6, <1>7 DEF h

\* What the phone does with a message.
LEMMA ReceivedCases ==
    ASSUME TypeOK, NEW m \in Messages
    PROVE  /\ Received(m).socket = phone.socket
           /\ \/ /\ IsState(m) /\ (phone.fresh \/ m.state.version > phone.shown.version)
                 /\ Received(m).shown = Merge(phone.shown, m)
                 /\ Received(m).fresh = FALSE /\ Received(m).online = phone.online
              \/ /\ IsState(m) /\ ~phone.fresh /\ m.state.version <= phone.shown.version
                 /\ Received(m) = phone
              \/ /\ m = Welcome
                 /\ Received(m).shown = phone.shown
                 /\ Received(m).fresh /\ Received(m).online
              \/ /\ ~IsState(m) /\ m # Welcome
                 /\ Received(m).shown = phone.shown
                 /\ Received(m).fresh = phone.fresh /\ Received(m).online = phone.online
<1>1. phone \in PhoneRecords /\ phone.shown.version \in Nat
    BY DEF TypeOK, PhoneRecords, RoomStates
<1>2. CASE m \in ControlMessages
    <2>1. ~IsState(m)
        BY <1>2, StateIsState DEF ControlMessages
    <2>2. CASE m = Welcome
        <3>1. Received(m) = [phone EXCEPT !.online = TRUE, !.fresh = TRUE]
            BY <2>2 DEF Received, Welcome
        <3>2. QED
            BY <1>1, <2>1, <2>2, <3>1 DEF PhoneRecords
    <2>3. CASE m = Pong
        <3>1. Received(m) = phone /\ m # Welcome
            BY <2>3 DEF Received, Welcome, Pong
        <3>2. QED
            BY <2>1, <3>1
    <2>4. QED
        BY <1>2, <2>2, <2>3 DEF ControlMessages
<1>3. CASE m \in StateMessages
    <2>1. IsState(m) /\ m.type = "state" /\ m.state.version \in Nat
        BY <1>3, StateIsState DEF IsState, RoomStates
    <2>2. Received(m) = IF phone.fresh \/ m.state.version > phone.shown.version
                        THEN [phone EXCEPT !.fresh = FALSE, !.shown = Merge(@, m)]
                        ELSE phone
        BY <2>1 DEF Received
    <2>3. QED
        BY <1>1, <2>1, <2>2 DEF PhoneRecords
<1>4. CASE m \in PresenceMessages
    <2>1. m.type = "presence" /\ ~IsState(m) /\ m # Welcome
        BY <1>4 DEF PresenceMessages, IsState, Welcome
    <2>2. Received(m) = [phone EXCEPT !.members = m.members]
        BY <2>1 DEF Received
    <2>3. QED
        BY <1>1, <2>1, <2>2 DEF PhoneRecords
<1>5. QED
    BY <1>2, <1>3, <1>4 DEF Messages

LEMMA MergeVersion ==
    ASSUME NEW shown \in RoomStates, NEW m \in StateMessages
    PROVE  Merge(shown, m).version = m.state.version
BY StateIsState DEF Merge, RoomStates

LEMMA ReceiveVersions == VInv /\ Receive => VInv'
<1> SUFFICES ASSUME VInv, Receive PROVE VInv'
    OBVIOUS
<1> DEFINE h == Head(link)
<1>1. TypeOK'
    BY ReceiveType DEF VInv
<1>2. /\ h \in Messages /\ Coming' \subseteq Coming /\ ComingInOrder'
      /\ IsState(h) => h \in Coming /\ \A m \in Coming' : h.state.version < m.state.version
    BY ReceiveTakesFirst DEF VInv
<1>3. /\ history' = history /\ conn' = conn /\ actor' = actor /\ writer' = writer
      /\ phone' = Received(h) /\ phone.socket /\ room' = room
      /\ link' = Tail(link) /\ link # <<>> /\ link \in Seq(Messages)
    BY DEF Receive, room, VInv, TypeOK
<1>4. NothingBeforeJoin'
    <2>1. ASSUME ~conn.joined, conn.open
          PROVE  ~phone'.online /\ \A i \in DOMAIN link' : link'[i] = Pong
        <3>1. ~phone.online /\ \A i \in DOMAIN link : link[i] = Pong
            BY <2>1 DEF VInv, NothingBeforeJoin
        <3>2. h = Pong /\ \A i \in DOMAIN link' : link'[i] = Pong
            BY <1>3, <3>1
        <3>3. Received(h) = phone
            BY <3>2 DEF Received, Pong
        <3>4. QED
            BY <1>3, <3>1, <3>2, <3>3
    <2>2. QED
        BY <1>3, <2>1 DEF VInv, NothingBeforeJoin
<1>5. RoomIsNewest'
    BY <1>2, <1>3 DEF VInv, RoomIsNewest
<1>6. PhoneIsBehind'
    <2>1. phone'.socket
        BY <1>2, <1>3, ReceivedCases DEF VInv
    <2>2. CASE phone' = phone
        BY <1>2, <1>3, <2>1, <2>2 DEF VInv, PhoneIsBehind
    <2>3. CASE IsState(h) /\ phone'.shown = Merge(phone.shown, h) /\ phone'.online = phone.online
        <3>1. phone'.shown.version = h.state.version
            BY <1>2, <2>3, MergeVersion, StateIsState DEF VInv, TypeOK, PhoneRecords
        <3>2. conn.joined => /\ h.state.version <= room.version
                             /\ actor.at # "idle" => h.state.version < room.version
            BY <1>2, <2>3 DEF VInv, RoomIsNewest
        <3>3. QED
            BY <1>2, <1>3, <2>1, <2>3, <3>1, <3>2 DEF PhoneIsBehind
    <2>4. CASE phone'.fresh
        BY <2>1, <2>4 DEF PhoneIsBehind
    <2>5. CASE /\ phone'.shown = phone.shown
               /\ phone'.fresh = phone.fresh /\ phone'.online = phone.online
        BY <1>2, <1>3, <2>1, <2>5 DEF VInv, PhoneIsBehind
    <2>6. QED
        <3> HIDE DEF h
        <3>1. QED
            BY <1>2, <1>3, <2>2, <2>3, <2>4, <2>5, ReceivedCases DEF VInv
<1>7. QED
    BY <1>1, <1>2, <1>4, <1>5, <1>6 DEF VInv

\* A connection begins and ends empty; a crash leaves what is on the link.
LEMMA ConnectionVersions ==
    ASSUME VInv, Crash \/ Connect \/ NoticeClose \/ LoseLink
    PROVE  VInv' /\ Coming' \subseteq Coming
<1>1. TypeOK'
    BY ConnectionType DEF VInv
<1>2. /\ conn'.state = Nothing /\ conn'.presence = Nothing /\ ~conn'.joined
      /\ conn'.control = <<>> /\ actor' = Idle /\ writer' = Top
      /\ phone'.shown = phone.shown /\ phone'.fresh = phone.fresh
    <2>1. conn' = NewConn \/ conn' = [NewConn EXCEPT !.open = TRUE, !.hello = TRUE]
        BY DEF Crash, Connect, NoticeClose, LoseLink, Hangup
    <2>2. /\ conn'.state = Nothing /\ conn'.presence = Nothing /\ ~conn'.joined
          /\ conn'.control = <<>>
        BY <2>1, NewConnEmpty
    <2>3. /\ actor' = Idle /\ writer' = Top
          /\ phone'.shown = phone.shown /\ phone'.fresh = phone.fresh
        BY DEF Crash, Connect, NoticeClose, LoseLink, Hangup, VInv, TypeOK, PhoneRecords
    <2>4. QED
        BY <2>2, <2>3
<1>3. InWriter' = Nothing
    BY <1>2 DEF InWriter, Top
<1>4. \A m : Before(m, Nothing) /\ Before(Nothing, m)
    BY StateIsState DEF Before
<1>5. CASE Crash
    <2>1. link' = link /\ ~conn'.open /\ phone' = phone
        BY <1>5 DEF Crash, NewConn
    <2>2. Coming' \subseteq Coming
        BY <1>2, <1>3, <2>1, StateIsState DEF Coming
    <2>3. ComingInOrder'
        BY <1>2, <1>3, <1>4, <2>1 DEF VInv, ComingInOrder, InOrder
    <2>4. NothingBeforeJoin'
        BY <1>2, <2>1 DEF NothingBeforeJoin, Idle, Top
    <2>5. RoomIsNewest' /\ PhoneIsBehind'
        BY <1>2, <2>1, <2>2 DEF VInv, RoomIsNewest, PhoneIsBehind
    <2>6. QED
        BY <1>1, <2>2, <2>3, <2>4, <2>5 DEF VInv
<1>6. CASE Connect \/ NoticeClose \/ LoseLink
    <2>1. link' = <<>> /\ ~phone'.online
        BY <1>6 DEF Connect, NoticeClose, LoseLink, Hangup, VInv, TypeOK, PhoneRecords,
                    PhoneIsBehind
    <2>2. Coming' = {}
        BY <1>2, <1>3, <2>1, StateIsState DEF Coming, StatesIn
    <2>3. ComingInOrder'
        BY <1>2, <1>3, <1>4, <2>1 DEF ComingInOrder, InOrder
    <2>4. NothingBeforeJoin'
        BY <1>2, <2>1 DEF NothingBeforeJoin, Idle, Top
    <2>5. RoomIsNewest' /\ PhoneIsBehind'
        BY <1>2, <2>1, <2>2 DEF RoomIsNewest, PhoneIsBehind
    <2>6. QED
        BY <1>1, <2>2, <2>3, <2>4, <2>5 DEF VInv
<1>7. QED
    BY <1>5, <1>6

LEMMA JoinsOnceStep == TypeOK /\ JoinsOnce /\ [Next]_vars => JoinsOnce'
<1> SUFFICES ASSUME TypeOK, JoinsOnce, [Next]_vars PROVE JoinsOnce'
    OBVIOUS
<1>1. CASE conn'.joined = conn.joined /\ conn'.hello = conn.hello
    BY <1>1 DEF JoinsOnce
<1>2. CASE ActorStep \/ AnswerPing
    BY <1>2 DEF ActorStep, AnswerPing, Join, LookAtPending, SetState, BroadcastPresence, LoadSent,
                SendControl, TypeOK, ConnRecords, JoinsOnce
<1>3. CASE WriterStep
    BY <1>1, <1>3 DEF WriterStep, WriteControl, NoControl, TakePending, WriteState, WritePresence,
                      WakeUp, Confirm, TypeOK, ConnRecords
<1>4. CASE Crash \/ Connect \/ NoticeClose \/ LoseLink
    <2>1. conn' = NewConn \/ conn' = [NewConn EXCEPT !.open = TRUE, !.hello = TRUE]
        BY <1>4 DEF Crash, Connect, NoticeClose, LoseLink, Hangup
    <2>2. ~conn'.joined
        BY <2>1, NewConnEmpty
    <2>3. QED
        BY <2>2 DEF JoinsOnce
<1>5. CASE Save \/ Receive \/ (\E parts \in SUBSET Parts : Change(parts)) \/ UNCHANGED vars
    BY <1>1, <1>5 DEF Save, Receive, Change, vars
<1>6. QED
    BY <1>2, <1>3, <1>4, <1>5 DEF Next

LEMMA NextVersions == VInv /\ JoinsOnce /\ [Next]_vars => VInv' /\ JoinsOnce'
<1> SUFFICES ASSUME VInv, JoinsOnce, [Next]_vars PROVE VInv'
    BY JoinsOnceStep DEF VInv
<1>1. UNCHANGED vars => VInv'
    BY DEF vars, VInv, TypeOK, ComingInOrder, NothingBeforeJoin, RoomIsNewest, PhoneIsBehind,
           Coming, InWriter, room
<1>2. QED
    BY <1>1, WriterVersions, QuietSteps, JoinVersions, ChangeVersions, SetStateVersions,
       ReceiveVersions, ConnectionVersions DEF Next, ActorStep

\* In the order of ToCome, what is on its way only gets newer.
LEMMA InOrderGrows == VInv => VersionsGrow
<1> SUFFICES ASSUME VInv PROVE VersionsGrow
    OBVIOUS
<1> DEFINE n == Len(link)
<1>1. /\ n \in Nat /\ DOMAIN link = 1..n /\ DOMAIN ToCome = 1..(n + 2)
      /\ \A i \in DOMAIN link : ToCome[i] = link[i]
      /\ ToCome[n + 1] = InWriter /\ ToCome[n + 2] = conn.state
    <2>1. link \in Seq(Messages)
        BY DEF VInv, TypeOK
    <2>2. QED
        BY <2>1 DEF ToCome
<1> HIDE DEF n
<1>2. \A i \in DOMAIN ToCome : i \in DOMAIN link \/ i = n + 1 \/ i = n + 2
    BY <1>1
<1>3. \A i, j \in DOMAIN ToCome : i < j => Before(ToCome[i], ToCome[j])
    <2> SUFFICES ASSUME NEW i \in DOMAIN ToCome, NEW j \in DOMAIN ToCome, i < j
                 PROVE  Before(ToCome[i], ToCome[j])
        OBVIOUS
    <2>1. InOrder(link, InWriter, conn.state)
        BY DEF VInv, ComingInOrder
    <2>2. CASE i \in DOMAIN link /\ j \in DOMAIN link
        BY <1>1, <2>1, <2>2 DEF InOrder
    <2>3. CASE i \in DOMAIN link /\ j \in {n + 1, n + 2}
        BY <1>1, <2>1, <2>3 DEF InOrder
    <2>4. CASE i = n + 1 /\ j = n + 2
        BY <1>1, <2>1, <2>4 DEF InOrder
    <2>5. QED
        BY <1>1, <1>2, <2>2, <2>3, <2>4
<1>4. \A i \in DOMAIN ToCome : IsState(ToCome[i]) => ToCome[i] \in Coming
    <2> SUFFICES ASSUME NEW i \in DOMAIN ToCome, IsState(ToCome[i]) PROVE ToCome[i] \in Coming
        OBVIOUS
    <2>1. CASE i \in DOMAIN link
        BY <1>1, <2>1 DEF Coming, StatesIn
    <2>2. CASE i = n + 1 \/ i = n + 2
        BY <1>1, <2>2 DEF Coming
    <2>3. QED
        BY <1>2, <2>1, <2>2
<1>5. QED
    BY <1>3, <1>4 DEF VersionsGrow, Before, VInv, PhoneIsBehind

\* Within one connection versions only grow, however the actor, the writer and
\* the phone are interleaved and whatever the server forgets in a crash.
THEOREM VersionsOnlyGrow == Spec => []VersionsGrow
<1>1. Init => JoinsOnce
    BY DEF Init, JoinsOnce, NewConn
<1>2. QED
    BY <1>1, InitVersions, NextVersions, InOrderGrows, PTL DEF Spec

-----------------------------------------------------------------------------
(* Contents, while the server does not crash *)

\* States of the room are ordered by their versions, part by part.
LEMMA RoomsOrdered ==
    ASSUME TypeOK, HistoryOk
    PROVE  /\ WasRoom(room) /\ room.version = Len(history) - 1
           /\ \A s : WasRoom(s) => s \in RoomStates /\ s.version <= room.version
           /\ \A s, t : WasRoom(s) /\ WasRoom(t) /\ s.version = t.version => s = t
           /\ \A s, t : WasRoom(s) /\ WasRoom(t) /\ s.version <= t.version =>
                \A p \in Parts : s.part[p].version <= t.part[p].version
           /\ \A s, t : WasRoom(s) /\ WasRoom(t) =>
                \A p \in Parts : s.part[p].version = t.part[p].version => s.part[p] = t.part[p]
<1>1. Len(history) \in Nat \ {0} /\ DOMAIN history = 1..Len(history) /\ room \in RoomStates
    BY RoomIsState
<1>2. \A i \in DOMAIN history : history[i] \in RoomStates /\ history[i].version = i - 1
    BY DEF TypeOK, HistoryOk
<1>3. room.version = Len(history) - 1 /\ WasRoom(room)
    BY <1>1, <1>2 DEF room, WasRoom
<1>4. \A s : WasRoom(s) => /\ s \in RoomStates /\ s.version \in Nat
                           /\ s.version <= room.version
                           /\ s.version + 1 \in DOMAIN history /\ s = history[s.version + 1]
    BY <1>1, <1>2, <1>3 DEF WasRoom, RoomStates
<1>5. \A s, t : WasRoom(s) /\ WasRoom(t) /\ s.version = t.version => s = t
    BY DEF WasRoom
<1>6. ASSUME NEW s, NEW t, WasRoom(s), WasRoom(t), s.version <= t.version, NEW p \in Parts
      PROVE  s.part[p].version <= t.part[p].version
    <2>1. s.version + 1 <= t.version + 1
        BY <1>4, <1>6
    <2>2. \A i, j \in DOMAIN history :
            i <= j => history[i].part[p].version <= history[j].part[p].version
        BY DEF HistoryOk
    <2>3. QED
        BY <1>4, <1>6, <2>1, <2>2
<1>7. ASSUME NEW s, NEW t, WasRoom(s), WasRoom(t), NEW p \in Parts,
             s.part[p].version = t.part[p].version
      PROVE  s.part[p] = t.part[p]
    <2>1. s.part[p].run = 0 /\ t.part[p].run = 0
        BY <1>4, <1>7 DEF HistoryOk
    <2>2. s.part[p] \in [version : Nat, run : Nat] /\ t.part[p] \in [version : Nat, run : Nat]
        BY <1>4, <1>7 DEF RoomStates
    <2>3. QED
        BY <1>7, <2>1, <2>2
<1>8. QED
    BY <1>3, <1>4, <1>5, <1>6, <1>7

\* A state between two that share a part has it, too.
LEMMA PartsBetween ==
    ASSUME TypeOK, HistoryOk, NEW s, NEW t, NEW u, WasRoom(s), WasRoom(t), WasRoom(u),
           s.version <= t.version, t.version <= u.version,
           NEW p \in Parts, u.part[p].version <= s.part[p].version
    PROVE  s.part[p] = u.part[p] /\ t.part[p] = u.part[p]
<1>1. /\ s.part[p].version \in Nat /\ t.part[p].version \in Nat /\ u.part[p].version \in Nat
    BY RoomsOrdered DEF RoomStates
<1>2. s.part[p].version <= t.part[p].version /\ t.part[p].version <= u.part[p].version
    BY RoomsOrdered
<1>3. s.part[p].version = u.part[p].version /\ t.part[p].version = u.part[p].version
    BY <1>1, <1>2
<1>4. QED
    BY <1>3, RoomsOrdered

LEMMA ChangeHistory ==
    ASSUME TypeOK, HistoryOk, NEW parts \in SUBSET Parts, Change(parts)
    PROVE  HistoryOk' /\ \A s : WasRoom(s) => WasRoom(s)'
<1> DEFINE part == [p \in Parts |-> IF p \in parts
                                    THEN [version |-> room.part[p].version + 1, run |-> run]
                                    ELSE room.part[p]]
           new == [version |-> room.version + 1, run |-> run, part |-> part]
           n == Len(history)
<1>1. /\ n \in Nat \ {0} /\ DOMAIN history = 1..n /\ room \in RoomStates
      /\ room = history[n] /\ room.version = n - 1 /\ run = 0
    BY RoomIsState, RoomsOrdered DEF HistoryOk, room
<1>2. /\ history' = Append(history, new) /\ run' = run
    BY DEF Change
<1>3. \A p \in Parts : room.part[p] \in [version : Nat, run : Nat] /\ room.part[p].run = 0
    BY <1>1 DEF RoomStates, HistoryOk
<1>4. \A p \in Parts : /\ part[p].run = 0 /\ part[p].version \in Nat
                       /\ room.part[p].version <= part[p].version
    <2> SUFFICES ASSUME NEW p \in Parts
                 PROVE  /\ part[p].run = 0 /\ part[p].version \in Nat
                        /\ room.part[p].version <= part[p].version
        OBVIOUS
    <2>1. CASE p \in parts
        <3>1. part[p] = [version |-> room.part[p].version + 1, run |-> run]
            BY <2>1
        <3>2. QED
            BY <1>1, <1>3, <3>1
    <2>2. CASE p \notin parts
        <3>1. part[p] = room.part[p]
            BY <2>2
        <3>2. QED
            BY <1>3, <3>1
    <2>3. QED
        BY <2>1, <2>2
<1> HIDE DEF part
<1>5. new.version = n /\ new.run = 0 /\ new.part = part
    BY <1>1
<1> HIDE DEF new
<1>6. /\ DOMAIN history' = 1..(n + 1) /\ history'[n + 1] = new
      /\ \A i \in 1..n : history'[i] = history[i]
    BY <1>1, <1>2 DEF TypeOK
<1> HIDE DEF n
<1>7. \A i \in 1..n : \A p \in Parts : history[i].part[p].version \in Nat
    <2>1. \A i \in 1..n : history[i] \in RoomStates
        BY <1>1 DEF TypeOK
    <2>2. QED
        BY <2>1 DEF RoomStates
<1>8. ASSUME NEW i \in 1..(n + 1), NEW j \in 1..(n + 1), i <= j, NEW p \in Parts
      PROVE  history'[i].part[p].version <= history'[j].part[p].version
    <2>1. CASE j <= n
        <3>1. i \in 1..n /\ j \in 1..n
            BY <1>1, <1>8, <2>1
        <3>2. history[i].part[p].version <= history[j].part[p].version
            BY <1>1, <1>8, <3>1 DEF HistoryOk
        <3>3. QED
            BY <1>6, <3>1, <3>2
    <2>2. CASE i = n + 1 /\ j = n + 1
        BY <1>4, <1>5, <1>6, <2>2
    <2>3. CASE i <= n /\ j = n + 1
        <3>1. history[i].part[p].version <= room.part[p].version
            BY <1>1, <2>3 DEF HistoryOk
        <3>2. room.part[p].version \in Nat
            BY <1>3
        <3>3. QED
            BY <1>1, <1>4, <1>5, <1>6, <1>7, <2>3, <3>1, <3>2
    <2>4. QED
        BY <1>1, <2>1, <2>2, <2>3
<1>9. \A i \in 1..(n + 1) : /\ history'[i].version = i - 1 /\ history'[i].run = 0
                            /\ \A p \in Parts : history'[i].part[p].run = 0
    <2>1. \A i \in 1..n : /\ history[i].version = i - 1 /\ history[i].run = 0
                          /\ \A p \in Parts : history[i].part[p].run = 0
        BY <1>1 DEF HistoryOk
    <2>2. \A i \in 1..(n + 1) : i \in 1..n \/ i = n + 1
        BY <1>1
    <2>3. QED
        BY <1>1, <1>4, <1>5, <1>6, <2>1, <2>2
<1>10. HistoryOk'
    BY <1>1, <1>2, <1>6, <1>8, <1>9 DEF HistoryOk
<1>11. \A s : WasRoom(s) => WasRoom(s)'
    BY <1>1, <1>6 DEF WasRoom
<1>12. QED
    BY <1>10, <1>11

LEMMA SameHistory == history' = history => \A s : WasRoom(s)' <=> WasRoom(s)
BY DEF WasRoom

\* With the same states on their way and the same shown, what is written stays
\* written, and what is known stays known.
LEMMA SameKnown ==
    ASSUME Coming' = Coming, phone'.shown = phone.shown
    PROVE  LeftOutIsKnown => LeftOutIsKnown'
BY DEF LeftOutIsKnown, Supplied

LEMMA StaysWritten ==
    ASSUME StatesIn(link) \subseteq StatesIn(link'), phone'.shown = phone.shown
    PROVE  \A p, v : Written(p, v) => Written(p, v)'
BY DEF Written

\* What a step need not show again when the room and the phone do not move and
\* the states on their way are the same.
LEMMA SameContents ==
    ASSUME VInv, CInv, Coming' = Coming, phone' = phone, history' = history, run' = run
    PROVE  HistoryOk' /\ ComingIsGenuine' /\ LeftOutIsKnown' /\ room' = room
           /\ (conn'.joined = conn.joined /\ (actor'.at = "idle" => actor.at = "idle")
                => RoomComes')
<1>1. HistoryOk' /\ room' = room
    BY DEF CInv, HistoryOk, room
<1>2. ComingIsGenuine'
    BY SameHistory DEF CInv, ComingIsGenuine
<1>3. LeftOutIsKnown'
    BY SameKnown DEF CInv
<1>4. conn'.joined = conn.joined /\ (actor'.at = "idle" => actor.at = "idle") => RoomComes'
    BY <1>1 DEF CInv, RoomComes
<1>5. QED
    BY <1>1, <1>2, <1>3, <1>4

LEMMA WriterContents == VInv /\ CInv /\ WriterStep => CInv'
<1> SUFFICES ASSUME VInv, CInv, WriterStep PROVE CInv'
    OBVIOUS
<1>1. Coming' = Coming
    BY WriterMoves DEF VInv
<1>2. /\ history' = history /\ run' = run /\ phone' = phone /\ actor' = actor
      /\ conn'.joined = conn.joined
    BY DEF VInv, WriterStep, WriteControl, NoControl, TakePending, WriteState, WritePresence,
           WakeUp, Confirm, TypeOK, ConnRecords
<1>3. HistoryOk' /\ ComingIsGenuine' /\ LeftOutIsKnown' /\ RoomComes' /\ room' = room
    BY <1>1, <1>2, SameContents
<1>4. StatesIn(link) \subseteq StatesIn(link')
    <2>1. link' = link \/ \E m \in Messages : link' = Append(link, m)
        <3>1. CASE WriteControl({"top", "wait"})
            <4>1. Head(conn.control) \in Messages
                BY <3>1, ControlIsMessage DEF WriteControl, VInv, TypeOK, ConnRecords
            <4>2. QED
                BY <3>1, <4>1 DEF WriteControl
        <3>2. CASE WriteState \/ WritePresence
            <4>1. writer.state # Nothing => writer.state \in Messages
                BY ControlIsMessage DEF VInv, TypeOK, WriterRecords
            <4>2. writer.presence # Nothing => writer.presence \in Messages
                BY ControlIsMessage DEF VInv, TypeOK, WriterRecords
            <4>3. QED
                BY <3>2, <4>1, <4>2 DEF WriteState, WritePresence, VInv, TypeOK
        <3>3. QED
            BY <3>1, <3>2 DEF WriterStep, NoControl, TakePending, WakeUp, Confirm
    <2>2. QED
        BY <2>1, WrittenLast DEF VInv, TypeOK
<1>5. \A p, v : Written(p, v) => Written(p, v)'
    BY <1>2, <1>4, StaysWritten
<1>6. conn'.state = conn.state \/ conn'.state = Nothing
    BY DEF VInv, WriterStep, WriteControl, NoControl, TakePending, WriteState, WritePresence,
           WakeUp, Confirm, TypeOK, ConnRecords
<1>7. LeavesOutWritten'
    BY <1>2, <1>3, <1>5, <1>6, StateIsState DEF CInv, LeavesOutWritten
<1>8. SentIsWritten'
    <2>1. CASE WriteControl({"top", "wait"}) \/ NoControl \/ TakePending \/ WritePresence \/ WakeUp
        <3>1. conn'.sent = conn.sent
            BY <2>1 DEF WriteControl, NoControl, TakePending, WritePresence, WakeUp,
                        VInv, TypeOK, ConnRecords
        <3>2. writer'.at # "confirm"
            BY <2>1 DEF WriteControl, NoControl, TakePending, WritePresence, WakeUp, Top,
                        VInv, TypeOK, WriterRecords
        <3>3. QED
            BY <1>5, <3>1, <3>2 DEF CInv, SentIsWritten
    <2>2. CASE WriteState
        <3>1. /\ conn' = conn /\ link' = Append(link, writer.state)
              /\ writer.state \in StateMessages /\ writer.state \in Messages
              /\ IsState(writer.state)
            BY <2>2, ControlIsMessage, StateIsState DEF WriteState, VInv, TypeOK, WriterRecords
        <3>2. writer'.at = "confirm" => writer'.state = writer.state
            BY <2>2 DEF WriteState, Top, VInv, TypeOK, WriterRecords
        <3>3. writer.state \in StatesIn(link')
            BY <3>1, WrittenLast DEF VInv, TypeOK
        <3>4. \A p \in Parts : writer.state.state.part[p].version \in Nat
            BY <3>1, StateIsState DEF RoomStates
        <3>5. writer'.at = "confirm" =>
                /\ IsState(writer'.state)
                /\ \A p \in Parts : Written(p, writer.state.state.part[p].version)'
            BY <3>1, <3>2, <3>3, <3>4 DEF Written
        <3>6. QED
            BY <1>5, <3>1, <3>2, <3>5 DEF CInv, SentIsWritten
    <2>3. ASSUME NEW p \in Parts, Confirm(p) PROVE SentIsWritten'
        <3>1. /\ writer.at = "confirm" /\ IsState(writer.state)
              /\ \A q \in Parts : Written(q, writer.state.state.part[q].version)
            BY <2>3 DEF Confirm, CInv, SentIsWritten
        <3>2. writer'.at = "confirm" => writer'.state = writer.state
            BY <2>3 DEF Confirm, Top, VInv, TypeOK, WriterRecords
        <3>3. \A q \in Parts : conn'.sent[q] \in {conn.sent[q], writer.state.state.part[q].version}
            BY <2>3 DEF Confirm, VInv, TypeOK, ConnRecords
        <3>4. QED
            BY <1>5, <3>1, <3>2, <3>3 DEF CInv, SentIsWritten
    <2>4. QED
        BY <2>1, <2>2, <2>3 DEF WriterStep
<1>9. NoLostWakeUp'
    <2>1. CASE TakePending
        BY <2>1 DEF TakePending, NoLostWakeUp, VInv, TypeOK, ConnRecords
    <2>2. CASE WriteControl({"top", "wait"}) \/ NoControl \/ WritePresence \/ WakeUp \/ WriteState
               \/ \E p \in Parts : Confirm(p)
        <3>1. writer'.at # "wait"
            <4>1. CASE writer' = Top
                BY <4>1 DEF Top
            <4>2. CASE NoControl
                BY <4>2 DEF NoControl, VInv, TypeOK, WriterRecords
            <4>3. CASE WriteState
                BY <4>1, <4>3 DEF WriteState, VInv, TypeOK, WriterRecords
            <4>4. ASSUME NEW p \in Parts, Confirm(p) PROVE writer'.at # "wait"
                <5>1. writer' = Top \/ writer'.at = writer.at
                    BY <4>4 DEF Confirm, VInv, TypeOK, WriterRecords
                <5>2. QED
                    BY <4>1, <4>4, <5>1 DEF Confirm
            <4>5. QED
                BY <2>2, <4>1, <4>2, <4>3, <4>4 DEF WriteControl, WritePresence, WakeUp
        <3>2. QED
            BY <3>1 DEF NoLostWakeUp
    <2>3. QED
        BY <2>1, <2>2 DEF WriterStep
<1>10. QED
    BY <1>3, <1>7, <1>8, <1>9 DEF CInv

\* What the actor loads is what was written, and stays so until it decides.
LEMMA QuietContents ==
    ASSUME VInv, CInv,
           Save \/ AnswerPing \/ BroadcastPresence \/ LookAtPending \/ \E p \in Parts : LoadSent(p)
    PROVE  CInv'
<1>1. Coming' = Coming
    BY QuietSteps
<1>2. /\ history' = history /\ run' = run /\ phone' = phone /\ link' = link /\ writer' = writer
    BY DEF Save, AnswerPing, BroadcastPresence, LookAtPending, LoadSent
<1>3. conn'.state = conn.state /\ conn'.joined = conn.joined /\ conn'.sent = conn.sent
    BY DEF Save, AnswerPing, BroadcastPresence, LookAtPending, LoadSent, SendControl,
           VInv, TypeOK, ConnRecords
<1>4. actor'.at = "idle" => actor.at = "idle"
    <2>1. CASE Save \/ AnswerPing \/ BroadcastPresence
        BY <2>1 DEF Save, AnswerPing, BroadcastPresence
    <2>2. CASE LookAtPending
        <3>1. actor'.at = "set"
            BY <2>2 DEF LookAtPending, VInv, TypeOK, ActorRecords
        <3>2. QED
            BY <3>1
    <2>3. ASSUME NEW p \in Parts, LoadSent(p) PROVE actor'.at # "idle"
        <3>1. actor'.at = IF actor.todo \ {p} = {} THEN "look" ELSE "load"
            BY <2>3 DEF LoadSent
        <3>2. QED
            BY <3>1
    <2>4. QED
        BY <2>1, <2>2, <2>3
<1>5. HistoryOk' /\ ComingIsGenuine' /\ LeftOutIsKnown' /\ RoomComes' /\ room' = room
    BY <1>1, <1>2, <1>3, <1>4, SameContents
<1>6. \A p, v : Written(p, v) => Written(p, v)'
    BY <1>2, StaysWritten
<1>7. SentIsWritten'
    BY <1>2, <1>3, <1>6 DEF CInv, SentIsWritten
<1>8. conn'.notify \/ conn'.notify = conn.notify
    BY DEF Save, AnswerPing, BroadcastPresence, LookAtPending, LoadSent, SendControl,
           VInv, TypeOK, ConnRecords
<1>9. NoLostWakeUp'
    BY <1>2, <1>3, <1>8 DEF CInv, NoLostWakeUp
<1>10. LeavesOutWritten'
    <2>1. CASE Save \/ AnswerPing \/ BroadcastPresence
        <3>1. actor' = actor
            BY <2>1 DEF Save, AnswerPing, BroadcastPresence
        <3>2. QED
            BY <1>3, <1>5, <1>6, <3>1 DEF CInv, LeavesOutWritten
    <2>2. CASE LookAtPending
        <3>1. /\ actor.at = "look" /\ actor'.at = "set" /\ actor'.todo = actor.todo
              /\ actor'.with = IF conn.state = Nothing THEN actor.with
                               ELSE actor.with \cup conn.state.with
            BY <2>2 DEF LookAtPending, VInv, TypeOK, ActorRecords
        <3>2. IsState(conn.state) => conn.state # Nothing
            BY StateIsState
        <3>3. QED
            BY <1>3, <1>5, <1>6, <3>1, <3>2 DEF CInv, LeavesOutWritten
    <2>3. ASSUME NEW p \in Parts, LoadSent(p) PROVE LeavesOutWritten'
        <3>1. /\ actor.at = "load" /\ actor'.todo = actor.todo \ {p}
              /\ actor'.at = IF actor.todo \ {p} = {} THEN "look" ELSE "load"
              /\ actor'.with = IF conn.sent[p] # room.part[p].version
                               THEN actor.with \cup {p} ELSE actor.with
            BY <2>3 DEF LoadSent
        <3>2. room.part[p].version \in Nat
            BY RoomIsState DEF VInv, RoomStates
        <3>3. p \notin actor'.with => Written(p, room.part[p].version)
            <4>1. p \notin actor'.with => conn.sent[p] = room.part[p].version
                BY <3>1
            <4>2. room.part[p].version # NotSent
                BY <3>2 DEF NotSent
            <4>3. QED
                BY <4>1, <4>2 DEF CInv, SentIsWritten
        <3>4. \A q \in Parts \ (actor'.todo \cup actor'.with) : Written(q, room.part[q].version)
            BY <3>1, <3>3 DEF CInv, LeavesOutWritten
        <3>5. actor'.at # "set" /\ (actor'.at = "look" => actor'.todo = {})
            BY <3>1
        <3>6. QED
            BY <1>5, <1>6, <3>4, <3>5 DEF LeavesOutWritten
    <2>4. QED
        BY <2>1, <2>2, <2>3
<1>11. QED
    BY <1>5, <1>7, <1>9, <1>10 DEF CInv

LEMMA JoinContents == VInv /\ JoinsOnce /\ CInv /\ Join => CInv'
<1> SUFFICES ASSUME VInv, JoinsOnce, CInv, Join PROVE CInv'
    OBVIOUS
<1>1. Coming' = Coming
    BY JoinVersions
<1>2. /\ history' = history /\ run' = run /\ phone' = phone /\ link' = link /\ writer' = writer
      /\ actor' = Broadcasting
    BY DEF Join
<1>3. /\ conn'.state = conn.state /\ conn'.sent = conn.sent /\ conn'.notify = conn.notify
    BY DEF Join, SendControl, VInv, TypeOK, ConnRecords
<1>4. HistoryOk' /\ ComingIsGenuine' /\ LeftOutIsKnown'
    BY <1>1, <1>2, SameContents
<1>5. \A p, v : Written(p, v) => Written(p, v)'
    BY <1>2, StaysWritten
<1>6. SentIsWritten' /\ NoLostWakeUp'
    BY <1>2, <1>3, <1>5 DEF CInv, SentIsWritten, NoLostWakeUp
<1>7. LeavesOutWritten' /\ RoomComes'
    BY <1>2 DEF LeavesOutWritten, RoomComes, Broadcasting
<1>8. QED
    BY <1>4, <1>6, <1>7 DEF CInv

LEMMA ChangeContents == VInv /\ CInv /\ (\E parts \in SUBSET Parts : Change(parts)) => CInv'
<1> SUFFICES ASSUME VInv, CInv, NEW parts \in SUBSET Parts, Change(parts) PROVE CInv'
    OBVIOUS
<1>1. Coming' = Coming /\ actor'.at = IF conn.joined THEN "load" ELSE "idle"
    BY DEF Change, Coming, InWriter, Broadcasting, Idle
<1>2. /\ phone' = phone /\ link' = link /\ writer' = writer /\ conn' = conn
      /\ actor'.at # "idle" => actor'.todo = Parts
    BY DEF Change, Broadcasting, Idle
<1>3. HistoryOk' /\ \A s : WasRoom(s) => WasRoom(s)'
    BY ChangeHistory DEF VInv, CInv
<1>4. ComingIsGenuine'
    BY <1>1, <1>2, <1>3 DEF CInv, ComingIsGenuine
<1>5. LeftOutIsKnown'
    BY <1>1, <1>2, SameKnown DEF CInv
<1>6. \A p, v : Written(p, v) => Written(p, v)'
    BY <1>2, StaysWritten
<1>7. SentIsWritten' /\ NoLostWakeUp'
    BY <1>2, <1>6 DEF CInv, SentIsWritten, NoLostWakeUp
<1>8. LeavesOutWritten' /\ RoomComes'
    BY <1>1, <1>2 DEF LeavesOutWritten, RoomComes
<1>9. QED
    BY <1>3, <1>4, <1>5, <1>7, <1>8 DEF CInv

\* What the new snapshot leaves out was written in the version the room has.
LEMMA SetStateContents == VInv /\ CInv /\ SetState => CInv'
<1> SUFFICES ASSUME VInv, CInv, SetState PROVE CInv'
    OBVIOUS
<1> DEFINE new == StateMessage(room, actor.with)
<1>1. /\ TypeOK /\ HistoryOk /\ conn.joined /\ conn'.state = new /\ new \in Coming'
      /\ Coming' \subseteq Coming \cup {new} /\ Coming \subseteq Coming' \cup {conn.state}
    BY SetStateVersions DEF VInv, CInv
<1>2. /\ history' = history /\ run' = run /\ phone' = phone /\ link' = link /\ writer' = writer
      /\ actor.at = "set" /\ actor' = Idle /\ room' = room /\ actor.with \in SUBSET Parts
    BY DEF SetState, room, VInv, TypeOK, ActorRecords
<1>3. /\ conn'.sent = conn.sent /\ conn'.notify = TRUE
    BY DEF SetState, VInv, TypeOK, ConnRecords
<1>4. IsState(new) /\ new.state = room /\ new.with = actor.with
    BY DEF StateMessage, IsState
<1> HIDE DEF new
<1>5. \A m \in Coming : m.state.version < room.version
    BY <1>1, <1>2 DEF VInv, RoomIsNewest
<1>6. HistoryOk'
    BY <1>2 DEF CInv, HistoryOk
<1>7. WasRoom(room) /\ WasRoom(phone.shown) /\ phone.shown.version <= room.version
    BY <1>1, RoomsOrdered DEF CInv, ComingIsGenuine
<1>8. ComingIsGenuine'
    BY <1>1, <1>2, <1>4, <1>7, SameHistory DEF CInv, ComingIsGenuine
<1>9. \A p, v : Written(p, v) => Written(p, v)'
    BY <1>2, StaysWritten
<1>10. SentIsWritten' /\ NoLostWakeUp'
    BY <1>2, <1>3, <1>9 DEF CInv, SentIsWritten, NoLostWakeUp
<1>11. LeavesOutWritten' /\ RoomComes'
    BY <1>1, <1>2, <1>4 DEF LeavesOutWritten, RoomComes, Idle
<1>12. LeftOutIsKnown'
    <2> SUFFICES ASSUME NEW m \in Coming', NEW p \in Parts \ m.with PROVE Supplied(m, p)'
        BY DEF LeftOutIsKnown
    <2>1. CASE m = new
        <3>1. Written(p, room.part[p].version)
            BY <1>2, <1>4, <2>1 DEF CInv, LeavesOutWritten
        <3>2. CASE room.part[p].version <= phone.shown.part[p].version
            <4>1. phone.shown.part[p] = room.part[p]
                BY <1>1, <1>7, <3>2, PartsBetween, RoomIsState DEF RoomStates
            <4>2. QED
                BY <1>2, <1>4, <2>1, <4>1 DEF Supplied
        <3>3. ASSUME NEW n \in StatesIn(link), room.part[p].version <= n.state.part[p].version
              PROVE  Supplied(m, p)'
            <4>1. n \in Coming /\ n \in Coming'
                BY <1>2 DEF Coming
            <4>2. WasRoom(n.state) /\ n.state.version < room.version
                BY <1>5, <4>1 DEF CInv, ComingIsGenuine
            <4>3. n.state.version <= room.version /\ room.version <= room.version
                BY <1>1, <1>7, <4>2, RoomsOrdered DEF RoomStates
            <4>4. n.state.part[p] = room.part[p]
                BY <1>1, <1>7, <3>3, <4>2, <4>3, PartsBetween
            <4>5. QED
                BY <1>4, <2>1, <4>1, <4>2, <4>4 DEF Supplied
        <3>4. QED
            BY <3>1, <3>2, <3>3 DEF Written
    <2>2. CASE m # new
        <3>1. /\ m \in Coming
              /\ m \in StatesIn(link) \cup {n \in {InWriter} : IsState(n)}
            <4>1. Coming' = StatesIn(link) \cup {n \in {InWriter, new} : IsState(n)}
                BY <1>1, <1>2 DEF Coming, InWriter
            <4>2. QED
                BY <1>1, <2>2, <4>1
        <3>2. Supplied(m, p)
            BY <3>1 DEF CInv, LeftOutIsKnown
        <3>3. ASSUME NEW n \in Coming, n.state.version < m.state.version
              PROVE  n \in Coming'
            <4>1. CASE n = conn.state
                <5>1. IsState(n) /\ IsState(m)
                    BY DEF Coming, StatesIn
                <5>2. Before(m, n)
                    BY <3>1, <4>1 DEF VInv, ComingInOrder, InOrder, StatesIn
                <5>3. m.state.version < n.state.version
                    BY <5>1, <5>2 DEF Before
                <5>4. m.state.version \in Nat /\ n.state.version \in Nat
                    BY <1>1, <3>1, ComingType
                <5>5. QED
                    BY <3>3, <5>3, <5>4
            <4>2. QED
                BY <1>1, <4>1
        <3>4. QED
            BY <1>2, <3>2, <3>3 DEF Supplied
    <2>3. QED
        BY <2>1, <2>2
<1>13. QED
    BY <1>6, <1>8, <1>10, <1>11, <1>12 DEF CInv

\* The phone shows the state it receives: what was left out, it had.
LEMMA ShowsReceived ==
    ASSUME VInv, CInv, Receive, IsState(Head(link))
    PROVE  phone'.shown = Head(link).state
<1> DEFINE h == Head(link)
<1>1. /\ h \in Messages /\ h \in Coming /\ TypeOK /\ HistoryOk
      /\ Coming \subseteq Coming' \cup {h}
      /\ \A m \in Coming' : h.state.version < m.state.version
    BY ReceiveTakesFirst DEF VInv, CInv
<1>2. phone' = Received(h)
    BY DEF Receive
<1> HIDE DEF h
<1>3. /\ WasRoom(phone.shown) /\ WasRoom(h.state)
      /\ phone.shown.version <= h.state.version
    BY <1>1 DEF CInv, ComingIsGenuine
<1>4. h \in StateMessages /\ h.state \in RoomStates /\ phone.shown \in RoomStates
    BY <1>1, ComingType DEF TypeOK, PhoneRecords
<1>5. CASE Received(h).shown = Merge(phone.shown, h)
    <2>1. \A n \in Coming : ~(n.state.version < h.state.version)
        <3>1. \A n \in Coming : n.state.version \in Nat
            BY <1>1, ComingType
        <3>2. QED
            BY <1>1, <3>1
    <2>2. \A p \in Parts \ h.with : phone.shown.part[p] = h.state.part[p]
        BY <1>1, <2>1 DEF CInv, LeftOutIsKnown, Supplied
    <2>3. [p \in Parts |-> IF p \in h.with THEN h.state.part[p] ELSE phone.shown.part[p]]
            = h.state.part
        BY <1>4, <2>2 DEF RoomStates
    <2>4. Merge(phone.shown, h) = h.state
        BY <1>4, <2>3 DEF Merge, RoomStates
    <2>5. QED
        BY <1>2, <1>5, <2>4 DEF h
<1>6. CASE ~phone.fresh /\ h.state.version <= phone.shown.version /\ Received(h) = phone
    <2>1. h.state.version = phone.shown.version
        <3>1. h.state.version \in Nat /\ phone.shown.version \in Nat
            BY <1>4 DEF RoomStates
        <3>2. QED
            BY <1>3, <1>6, <3>1
    <2>2. h.state = phone.shown
        BY <1>1, <1>3, <2>1, RoomsOrdered
    <2>3. QED
        BY <1>2, <1>6, <2>2 DEF h
<1>7. QED
    BY <1>1, <1>5, <1>6, StateIsState, ReceivedCases DEF h

LEMMA ReceiveContents == VInv /\ CInv /\ Receive => CInv'
<1> SUFFICES ASSUME VInv, CInv, Receive PROVE CInv'
    OBVIOUS
<1> DEFINE h == Head(link)
<1>1. /\ h \in Messages /\ TypeOK /\ HistoryOk
      /\ Coming' \subseteq Coming /\ Coming \subseteq Coming' \cup {h}
      /\ IsState(h) => /\ h \in Coming
                       /\ \A m \in Coming' : h.state.version < m.state.version
    BY ReceiveTakesFirst DEF VInv, CInv
<1>2. /\ history' = history /\ run' = run /\ actor' = actor /\ conn' = conn /\ writer' = writer
      /\ room' = room /\ phone' = Received(h)
    BY DEF Receive, room
<1>3. StatesIn(link) = StatesIn(link') \cup {n \in {h} : IsState(n)}
    BY ReceivedFirst DEF Receive, VInv, TypeOK, ComingInOrder
<1>4. IsState(h) => phone'.shown = h.state
    BY ShowsReceived
<1> HIDE DEF h
<1>5. ~IsState(h) => phone'.shown = phone.shown /\ Coming' = Coming /\ StatesIn(link') = StatesIn(link)
    <2>1. ASSUME ~IsState(h) PROVE StatesIn(link') = StatesIn(link)
        BY <1>3, <2>1
    <2>2. ~IsState(h) => Coming' = Coming
        BY <1>2, <2>1 DEF Coming, InWriter
    <2>3. QED
        BY <1>1, <1>2, <2>1, <2>2, ReceivedCases
<1>6. HistoryOk'
    BY <1>2 DEF CInv, HistoryOk
<1>7. IsState(h) => WasRoom(h.state) /\ phone.shown.version <= h.state.version
    BY <1>1 DEF CInv, ComingIsGenuine
<1>8. WasRoom(phone.shown) /\ \A m \in Coming' : WasRoom(m.state) /\ m.state.version \in Nat
    BY <1>1, ComingType DEF CInv, ComingIsGenuine
<1>9. ComingIsGenuine'
    <2>1. CASE IsState(h)
        <3>1. h.state.version \in Nat
            BY <1>1, <2>1, ComingType
        <3>2. \A m \in Coming' : phone'.shown.version <= m.state.version
            BY <1>1, <1>4, <1>8, <2>1, <3>1
        <3>3. QED
            BY <1>2, <1>4, <1>7, <1>8, <2>1, <3>2, SameHistory DEF ComingIsGenuine
    <2>2. CASE ~IsState(h)
        BY <1>2, <1>5, <2>2, SameHistory DEF CInv, ComingIsGenuine
    <2>3. QED
        BY <2>1, <2>2
<1>10. \A p \in Parts, v \in Nat : Written(p, v) => Written(p, v)'
    <2>1. CASE IsState(h)
        <3> SUFFICES ASSUME NEW p \in Parts, NEW v \in Nat, Written(p, v) PROVE Written(p, v)'
            OBVIOUS
        <3>1. phone.shown.part[p].version <= h.state.part[p].version
            BY <1>1, <1>7, <1>8, <2>1, RoomsOrdered
        <3>2. phone.shown.part[p].version \in Nat /\ h.state.part[p].version \in Nat
            BY <1>1, <1>7, <1>8, <2>1, RoomsOrdered DEF RoomStates
        <3>3. CASE v <= phone.shown.part[p].version
            BY <1>4, <2>1, <3>1, <3>2, <3>3 DEF Written
        <3>4. ASSUME NEW m \in StatesIn(link), v <= m.state.part[p].version PROVE Written(p, v)'
            BY <1>3, <1>4, <2>1, <3>4 DEF Written
        <3>5. QED
            BY <3>3, <3>4 DEF Written
    <2>2. CASE ~IsState(h)
        BY <1>5, <2>2 DEF Written
    <2>3. QED
        BY <2>1, <2>2
<1>11. SentIsWritten'
    <2>1. \A p \in Parts : conn.sent[p] # NotSent => conn.sent[p] \in Nat
        BY <1>1 DEF TypeOK, ConnRecords
    <2>2. ASSUME writer.at = "confirm", NEW p \in Parts
          PROVE  writer.state.state.part[p].version \in Nat
        <3>1. writer.state \in StateMessages
            BY <1>1, <2>2 DEF TypeOK, WriterRecords
        <3>2. QED
            BY <3>1, StateIsState DEF RoomStates
    <2>3. QED
        BY <1>2, <1>10, <2>1, <2>2 DEF CInv, SentIsWritten
<1>12. LeavesOutWritten'
    <2>1. \A p \in Parts : room.part[p].version \in Nat
        BY <1>1, RoomIsState DEF RoomStates
    <2>2. QED
        BY <1>2, <1>10, <2>1 DEF CInv, LeavesOutWritten
<1>13. NoLostWakeUp'
    BY <1>2 DEF CInv, NoLostWakeUp
<1>14. RoomComes'
    <2>1. CASE IsState(h)
        <3>1. CASE phone.shown = room
            <4>1. h.state.version <= room.version /\ WasRoom(room)
                BY <1>1, <1>7, <2>1, RoomsOrdered
            <4>2. h.state.version = room.version
                BY <1>1, <1>7, <2>1, <3>1, <4>1, RoomsOrdered DEF RoomStates
            <4>3. h.state = room
                BY <1>1, <1>7, <2>1, <4>1, <4>2, RoomsOrdered
            <4>4. QED
                BY <1>2, <1>4, <2>1, <4>3 DEF RoomComes
        <3>2. ASSUME NEW m \in Coming, m.state = room PROVE RoomComes'
            BY <1>1, <1>2, <1>4, <2>1, <3>2 DEF RoomComes
        <3>3. QED
            BY <1>2, <3>1, <3>2 DEF CInv, RoomComes
    <2>2. CASE ~IsState(h)
        BY <1>2, <1>5, <2>2 DEF CInv, RoomComes
    <2>3. QED
        BY <2>1, <2>2
<1>15. LeftOutIsKnown'
    <2>1. CASE IsState(h)
        <3> SUFFICES ASSUME NEW m \in Coming', NEW p \in Parts \ m.with PROVE Supplied(m, p)'
            BY DEF LeftOutIsKnown
        <3>1. Supplied(m, p)
            BY <1>1 DEF CInv, LeftOutIsKnown
        <3>2. CASE phone.shown.part[p] = m.state.part[p]
            <4>1. h.state.version <= m.state.version
                BY <1>1, <1>8, <2>1, ComingType
            <4>2. m.state.part[p].version <= phone.shown.part[p].version
                BY <1>1, <1>8, <3>2, RoomsOrdered DEF RoomStates
            <4>3. h.state.part[p] = m.state.part[p]
                BY <1>1, <1>7, <1>8, <2>1, <4>1, <4>2, PartsBetween
            <4>4. QED
                BY <1>4, <2>1, <4>3 DEF Supplied
        <3>3. ASSUME NEW n \in Coming, n.state.version < m.state.version,
                     n.state.part[p] = m.state.part[p]
              PROVE  Supplied(m, p)'
            BY <1>1, <1>4, <2>1, <3>3 DEF Supplied
        <3>4. QED
            BY <3>1, <3>2, <3>3 DEF Supplied
    <2>2. CASE ~IsState(h)
        BY <1>5, <2>2, SameKnown DEF CInv
    <2>3. QED
        BY <2>1, <2>2
<1>16. QED
    BY <1>6, <1>9, <1>11, <1>12, <1>13, <1>14, <1>15 DEF CInv

LEMMA ConnectionContents ==
    ASSUME VInv, CInv, Connect \/ NoticeClose \/ LoseLink
    PROVE  CInv'
<1>1. conn' = NewConn \/ conn' = [NewConn EXCEPT !.open = TRUE, !.hello = TRUE]
    BY DEF Connect, NoticeClose, LoseLink, Hangup
<1>2. /\ conn'.state = Nothing /\ ~conn'.joined /\ \A p \in Parts : conn'.sent[p] = NotSent
    BY <1>1, NewConnEmpty
<1>3. /\ actor' = Idle /\ writer' = Top /\ link' = <<>> /\ phone'.shown = phone.shown
      /\ history' = history /\ run' = run
    BY DEF Connect, NoticeClose, LoseLink, Hangup, VInv, TypeOK, PhoneRecords
<1>4. Coming' = {}
    BY <1>2, <1>3, StateIsState DEF Coming, StatesIn, InWriter, Top
<1>5. HistoryOk' /\ ComingIsGenuine' /\ LeftOutIsKnown'
    BY <1>3, <1>4, SameHistory DEF CInv, HistoryOk, ComingIsGenuine, LeftOutIsKnown
<1>6. SentIsWritten' /\ LeavesOutWritten' /\ RoomComes' /\ NoLostWakeUp'
    BY <1>2, <1>3 DEF SentIsWritten, LeavesOutWritten, RoomComes, NoLostWakeUp, Idle, Top
<1>7. QED
    BY <1>5, <1>6 DEF CInv

LEMMA InitContents == Init => CInv
<1> SUFFICES ASSUME Init PROVE CInv
    OBVIOUS
<1>1. /\ history = <<FreshRoom>> /\ DOMAIN history = {1} /\ history[1] = FreshRoom
      /\ run = 0 /\ room = FreshRoom /\ phone.shown = FreshRoom
    BY DEF Init, room
<1>2. /\ FreshRoom.version = 0 /\ FreshRoom.run = 0
      /\ \A p \in Parts : FreshRoom.part[p].run = 0 /\ FreshRoom.part[p].version = 0
    BY DEF FreshRoom
<1>3. conn.state = Nothing /\ ~conn.joined /\ \A p \in Parts : conn.sent[p] = NotSent
    BY NewConnEmpty DEF Init
<1>4. Coming = {}
    BY <1>3, StateIsState DEF Init, Coming, StatesIn, InWriter, Top
<1>5. HistoryOk
    BY <1>1, <1>2 DEF HistoryOk
<1>6. ComingIsGenuine /\ LeftOutIsKnown
    BY <1>1, <1>2, <1>4 DEF ComingIsGenuine, LeftOutIsKnown, WasRoom
<1>7. SentIsWritten /\ LeavesOutWritten /\ RoomComes /\ NoLostWakeUp
    BY <1>3 DEF Init, SentIsWritten, LeavesOutWritten, RoomComes, NoLostWakeUp, Idle, Top
<1>8. QED
    BY <1>5, <1>6, <1>7 DEF CInv

LEMMA NextContents ==
    ASSUME ~Crashes
    PROVE  VInv /\ JoinsOnce /\ CInv /\ [Next]_vars => CInv'
<1>1. ~Crash /\ ~Save
    BY DEF Crash, Save
<1>2. VInv /\ CInv /\ UNCHANGED vars => CInv'
    <2> SUFFICES ASSUME VInv, CInv, UNCHANGED vars PROVE CInv'
        OBVIOUS
    <2>1. Coming' = Coming
        BY DEF vars, Coming, InWriter
    <2>2. HistoryOk' /\ ComingIsGenuine' /\ LeftOutIsKnown' /\ room' = room /\ RoomComes'
        BY <2>1, SameContents DEF vars
    <2>3. SentIsWritten' /\ LeavesOutWritten' /\ NoLostWakeUp'
        BY <2>2, StaysWritten DEF vars, CInv, SentIsWritten, LeavesOutWritten, NoLostWakeUp
    <2>4. QED
        BY <2>2, <2>3 DEF CInv
<1>3. QED
    BY <1>1, <1>2, WriterContents, QuietContents, JoinContents, ChangeContents,
       SetStateContents, ReceiveContents, ConnectionContents DEF Next, ActorStep

\* A server that loses nothing never leaves a phone behind: when everything was
\* delivered, the phone shows the room, with the parts it was once sent.
THEOREM PhoneCatchesUp ==
    ASSUME ~Crashes
    PROVE  Spec => []CaughtUp
<1>1. Init => VInv /\ JoinsOnce /\ CInv
    BY InitVersions, InitContents DEF Init, JoinsOnce, NewConn
<1>2. VInv /\ JoinsOnce /\ CInv /\ [Next]_vars => (VInv /\ JoinsOnce /\ CInv)'
    BY NextVersions, NextContents
<1>3. CInv => CaughtUp
    <2> SUFFICES ASSUME CInv, Settled PROVE phone.shown = room
        BY DEF CaughtUp
    <2>1. conn.state = Nothing /\ InWriter = Nothing /\ DOMAIN link = {}
        BY DEF Settled, CInv, NoLostWakeUp, InWriter
    <2>2. Coming = {}
        BY <2>1, StateIsState DEF Coming, StatesIn
    <2>3. QED
        BY <2>2 DEF Settled, CInv, RoomComes
<1>4. QED
    BY <1>1, <1>2, <1>3, PTL DEF Spec

LEMMA PromisedStep ==
    ASSUME VInv, CInv, [Next]_vars, ~Crashes
    PROVE  [Promise!Change \/ Promise!Show]_<<history, phone.shown>>
<1>1. CASE history' = history /\ phone'.shown = phone.shown
    BY <1>1
<1>2. ASSUME NEW parts \in SUBSET Parts, Change(parts)
      PROVE  Promise!Change
    <2>1. history \in Seq(RoomStates)
        BY DEF VInv, TypeOK
    <2>2. \A m : /\ Len(Append(history, m)) = Len(history) + 1
                 /\ SubSeq(Append(history, m), 1, Len(history)) = history
        BY <2>1
    <2>3. QED
        BY <1>2, <2>2 DEF Change, Promise!Change
<1>3. CASE Receive
    <2> DEFINE h == Head(link)
    <2>1. h \in Messages /\ (IsState(h) => h \in Coming) /\ phone' = Received(h)
          /\ history' = history /\ TypeOK /\ HistoryOk
        BY <1>3, ReceiveTakesFirst DEF Receive, VInv, CInv
    <2>2. IsState(h) => phone'.shown = h.state
        BY <1>3, ShowsReceived
    <2> HIDE DEF h
    <2>3. CASE ~IsState(h)
        BY <1>1, <2>1, <2>3, ReceivedCases
    <2>4. CASE IsState(h)
        <3>1. /\ WasRoom(phone.shown) /\ WasRoom(h.state)
              /\ phone.shown.version <= h.state.version
            BY <2>1, <2>4 DEF CInv, ComingIsGenuine
        <3>2. phone.shown.version \in Nat /\ h.state.version \in Nat
            BY <2>1, <3>1, RoomsOrdered DEF RoomStates
        <3>3. CASE phone.shown.version = h.state.version
            <4>1. phone.shown = h.state
                BY <2>1, <3>1, <3>3, RoomsOrdered
            <4>2. QED
                BY <1>1, <2>1, <2>2, <2>4, <4>1
        <3>4. CASE phone.shown.version < h.state.version
            <4>1. /\ phone.shown.version + 1 \in DOMAIN history
                  /\ h.state.version + 1 \in DOMAIN history
                  /\ phone.shown.version + 1 < h.state.version + 1
                  /\ history[phone.shown.version + 1] = phone.shown
                  /\ history[h.state.version + 1] = h.state
                BY <3>1, <3>2, <3>4 DEF WasRoom
            <4>2. Promise!Show
                BY <2>1, <2>2, <2>4, <4>1 DEF Promise!Show
            <4>3. QED
                BY <4>2
        <3>5. QED
            BY <3>1, <3>2, <3>3, <3>4
    <2>5. QED
        BY <2>3, <2>4
<1>4. CASE ActorStep \/ WriterStep \/ AnswerPing \/ Connect \/ NoticeClose \/ LoseLink
           \/ UNCHANGED vars
    <2>1. history' = history /\ phone'.shown = phone.shown
        BY <1>4 DEF ActorStep, Join, LookAtPending, SetState, BroadcastPresence, LoadSent,
                    WriterStep, WriteControl, NoControl, TakePending, WriteState, WritePresence,
                    WakeUp, Confirm, AnswerPing, Connect, NoticeClose, LoseLink, Hangup, vars,
                    VInv, TypeOK, PhoneRecords
    <2>2. QED
        BY <1>1, <2>1
<1>5. QED
    BY <1>2, <1>3, <1>4 DEF Next, Save, Crash

\* What the phone shows is at every moment one whole state of the room, and it
\* moves on from it only to a later one: the delivery implements Snapshots.
THEOREM DeliveryKeepsPromise ==
    ASSUME ~Crashes
    PROVE  Spec => KeepsPromise
<1>1. Init => VInv /\ JoinsOnce /\ CInv
    BY InitVersions, InitContents DEF Init, JoinsOnce, NewConn
<1>2. VInv /\ JoinsOnce /\ CInv /\ [Next]_vars => (VInv /\ JoinsOnce /\ CInv)'
    BY NextVersions, NextContents
<1>3. VInv /\ CInv /\ [Next]_vars => [Promise!Change \/ Promise!Show]_<<history, phone.shown>>
    BY PromisedStep
<1>4. Init => Promise!Init
    BY DEF Init, Promise!Init
<1>5. QED
    BY <1>1, <1>2, <1>3, <1>4, PTL DEF Spec, KeepsPromise, Promise!Spec
=============================================================================
