------------------------------ MODULE Commands ------------------------------
(***************************************************************************)
(* The way of a command from a phone to the room actor and of its          *)
(* acknowledgement back: web/src/sync/connection.ts keeps a command        *)
(* pending until it is acknowledged or too old, resends it, and replays it *)
(* over the next connection; internal/hub/room.go remembers the commands a *)
(* listener had acknowledged, and ignores what arrives over a connection   *)
(* that is no longer the listener's.                                       *)
(*                                                                         *)
(* Commands are numbered in the order the user gives them.  What a command *)
(* does is left open: applied and before are the commands worked off.      *)
(* A connection's uplink holds everything between the phone and the actor, *)
(* on the wire or in the room's inbox.  The inbox merges the connections,  *)
(* so the actor may next find the first message of any of them.            *)
(*                                                                         *)
(* Instead of a clock, everything that has an age carries it, up to one    *)
(* more than the longest anybody asks for.                                 *)
(***************************************************************************)
EXTENDS Integers, SequencesExt

CONSTANTS
    MaxCommands,     \* bound on the commands given
    MaxPending,      \* how many of them a user has pending at a time
    MaxConnections,  \* bound on the connections made
    ResendAfter,     \* RESEND_AFTER
    CommandTTL,      \* COMMAND_TTL
    MemberGrace,     \* memberGrace
    RecentCommands,  \* recentCommands
    Restarts         \* whether the server may restart

\* In the code: 4 s, 8 s, 120 s.
ASSUME AgesAssumption ==
    /\ ResendAfter \in Nat /\ CommandTTL \in Nat /\ MemberGrace \in Nat
    /\ ResendAfter <= CommandTTL /\ CommandTTL <= MemberGrace

\* In the code 64 are remembered, and nobody has that many pending in 8 s.
ASSUME RecentAssumption ==
    /\ RecentCommands \in Nat \ {0} /\ MaxPending \in Nat /\ MaxPending <= RecentCommands

ASSUME BoundsAssumption ==
    MaxCommands \in Nat /\ MaxConnections \in Nat /\ Restarts \in BOOLEAN

VARIABLES
    command,   \* the phone's view of each command
    phone,     \* its current connection, and whether it was welcomed
    uplink,    \* per connection: messages on their way to the actor
    downlink,  \* per connection: answers on their way to the phone
    reading,   \* the connections whose read loop still runs
    joined,    \* those of them that know their room
    member,    \* the listener as the room knows it
    applied,   \* the commands applied since the server started, in their order
    before     \* those applied before it last restarted

vars == <<command, phone, uplink, downlink, reading, joined, member, applied, before>>

Ids == 1..MaxCommands
Connections == 1..MaxConnections
NoConn == 0

\* Messages that are no command: up, and down.
Hello == 0
Leave == -1
Welcome == 0

NotGiven == [status |-> "notGiven", age |-> 0, sinceSent |-> 0]
NoMember == [known |-> FALSE, conn |-> NoConn, away |-> 0, recent |-> <<>>]

Opened == DOMAIN uplink
Given == {c \in Ids : command[c].status # "notGiven"}
Pending(cmds) == {c \in Ids : cmds[c].status = "pending"}

Init ==
    /\ command = [c \in Ids |-> NotGiven]
    /\ phone = [conn |-> NoConn, online |-> FALSE]
    /\ uplink = <<>> /\ downlink = <<>> /\ reading = {} /\ joined = {}
    /\ member = NoMember
    /\ applied = <<>> /\ before = {}

-----------------------------------------------------------------------------
(* The phone *)

\* Writes messages to the current connection; lost when it has ended.
Written(messages) ==
    IF phone.conn \notin reading THEN uplink ELSE [uplink EXCEPT ![phone.conn] = @ \o messages]

\* The user gives a command: it goes out at once only while online.
Give(c) ==
    /\ command[c].status = "notGiven" /\ \A b \in 1..(c - 1) : b \in Given
    /\ Cardinality(Pending(command)) < MaxPending
    /\ command' = [command EXCEPT ![c].status = "pending"]
    /\ uplink' = IF phone.online THEN Written(<<c>>) ELSE uplink
    /\ UNCHANGED <<phone, downlink, reading, joined, member, applied, before>>

\* A new socket says hello.  The phone has discarded the previous one, which
\* the server may not have noticed.
Connect ==
    /\ phone.conn = NoConn /\ Len(uplink) < MaxConnections
    /\ phone' = [conn |-> Len(uplink) + 1, online |-> FALSE]
    /\ uplink' = Append(uplink, <<Hello>>)
    /\ downlink' = Append(downlink, <<>>)
    /\ reading' = reading \cup {Len(uplink) + 1}
    /\ UNCHANGED <<command, joined, member, applied, before>>

\* The socket closes, or the watchdog or the browser gives it up.
Disconnect ==
    /\ phone.conn # NoConn
    /\ phone' = [conn |-> NoConn, online |-> FALSE]
    /\ downlink' = [downlink EXCEPT ![phone.conn] = <<>>]
    /\ UNCHANGED <<command, uplink, reading, joined, member, applied, before>>

Expired(c) == command[c].age > CommandTTL

\* The commands of a set in the order they were given, in one sequence.
InOrder(cmds) ==
    {messages \in [1..Cardinality(cmds) -> cmds] :
        /\ Range(messages) = cmds
        /\ \A i, j \in DOMAIN messages : i < j => messages[i] < messages[j]}

\* Pending commands that are too old expire, those in again are written once
\* more in the order they were given.
Rewrite(again) ==
    /\ command' = [c \in Ids |->
           IF c \notin Pending(command) THEN command[c]
           ELSE IF Expired(c) THEN [command[c] EXCEPT !.status = "expired"]
           ELSE IF c \in again THEN [command[c] EXCEPT !.sinceSent = 0]
           ELSE command[c]]
    /\ \E messages \in InOrder({c \in again : ~Expired(c)}) : uplink' = Written(messages)

\* The welcome: everything pending is replayed.
ReceiveWelcome ==
    /\ phone.conn # NoConn
    /\ downlink[phone.conn] # <<>> /\ Head(downlink[phone.conn]) = Welcome
    /\ downlink' = [downlink EXCEPT ![phone.conn] = Tail(@)]
    /\ phone' = [phone EXCEPT !.online = TRUE]
    /\ Rewrite(Pending(command))
    /\ UNCHANGED <<reading, joined, member, applied, before>>

\* An acknowledgement settles its command if that is still pending.
ReceiveAck ==
    /\ phone.conn # NoConn
    /\ downlink[phone.conn] # <<>> /\ Head(downlink[phone.conn]) \in Ids
    /\ LET c == Head(downlink[phone.conn])
       IN  command' = IF c \in Pending(command) THEN [command EXCEPT ![c].status = "acked"]
                      ELSE command
    /\ downlink' = [downlink EXCEPT ![phone.conn] = Tail(@)]
    /\ UNCHANGED <<phone, uplink, reading, joined, member, applied, before>>

\* Every second: old commands expire, and while online those that were not
\* acknowledged for a while are sent again.
Tick ==
    /\ Rewrite(IF phone.online
               THEN {c \in Pending(command) : command[c].sinceSent > ResendAfter} ELSE {})
    /\ UNCHANGED <<phone, downlink, reading, joined, member, applied, before>>

-----------------------------------------------------------------------------
(* The server *)

\* The actor takes the first message of a connection from its inbox.
Takes(k, message) ==
    /\ k \in Opened /\ uplink[k] # <<>> /\ Head(uplink[k]) = message
    /\ uplink' = [uplink EXCEPT ![k] = Tail(@)]
    /\ UNCHANGED <<command, phone, reading, joined, before>>

\* What is answered over a connection the phone has discarded is lost.
Answered(k, message) ==
    IF k # phone.conn THEN downlink ELSE [downlink EXCEPT ![k] = Append(@, message)]

\* join: the connection becomes the listener's, in the place of an older one.
HandleHello(k) ==
    /\ Takes(k, Hello)
    /\ member' = [member EXCEPT !.known = TRUE, !.conn = k, !.away = 0]
    /\ downlink' = Answered(k, Welcome)
    /\ UNCHANGED applied

\* Faulty: any connection that said who it is may speak for the listener.
SpeaksOverAny(k) == member.known /\ member.conn # NoConn

\* memberFor: whether the listener still speaks over connection k.
Speaks(k) == member.known /\ member.conn = k

\* Faulty: nothing is ever forgotten.
RememberAll(recent, c) == Append(recent, c)

\* Faulty: one too few are kept.
RememberFewer(recent, c) ==
    LET longer == Append(recent, c)
    IN  SubSeq(longer, Max({1, Len(longer) - RecentCommands + 2}), Len(longer))

\* remember: the oldest are forgotten.
Remember(recent, c) ==
    LET longer == Append(recent, c)
    IN  SubSeq(longer, Max({1, Len(longer) - RecentCommands + 1}), Len(longer))

\* A command of the listener is applied and remembered, unless it was before;
\* it is acknowledged either way.
HandleCommand(k, c) ==
    /\ k \notin reading \ joined /\ Takes(k, c)
    /\ IF ~Speaks(k) THEN UNCHANGED <<member, applied, downlink>>
       ELSE /\ downlink' = Answered(member.conn, c)
            /\ IF c \in Range(member.recent) THEN UNCHANGED <<member, applied>>
               ELSE /\ member' = [member EXCEPT !.recent = Remember(@, c)]
                    /\ applied' = Append(applied, c)

\* The read loop, which waits for the join, learns that it is done.
FinishJoin(k) ==
    /\ k \in reading \ joined /\ Hello \notin Range(uplink[k])
    /\ joined' = joined \cup {k}
    /\ UNCHANGED <<command, phone, uplink, downlink, reading, member, applied, before>>

\* The read loop of a connection ends, for whatever reason: what it had not
\* read is lost, and it announces the end behind what it had.  One that is
\* still waiting for its join has read no more than the hello, and announces
\* nothing.
EndConnection(k) ==
    /\ k \in reading
    /\ reading' = reading \ {k} /\ joined' = joined \ {k}
    /\ \E read \in 0..Len(uplink[k]) :
        LET posted == SubSeq(uplink[k], 1, read)
        IN  IF k \in joined THEN uplink' = [uplink EXCEPT ![k] = Append(posted, Leave)]
            ELSE /\ posted \in {<<>>, <<Hello>>}
                 /\ uplink' = [uplink EXCEPT ![k] = posted]
    /\ UNCHANGED <<command, phone, downlink, member, applied, before>>

HandleLeave(k) ==
    /\ Takes(k, Leave)
    /\ member' = IF Speaks(k) THEN [member EXCEPT !.conn = NoConn] ELSE member
    /\ UNCHANGED <<downlink, applied, before>>

\* The actor's tick forgets a listener that stayed away.
ForgetMember ==
    /\ member.known /\ member.conn = NoConn /\ member.away > MemberGrace
    /\ member' = NoMember
    /\ UNCHANGED <<command, phone, uplink, downlink, reading, joined, applied, before>>

\* An orderly restart: the state was saved, the listeners were not.
Restart ==
    /\ Restarts
    /\ member' = NoMember
    /\ uplink' = [k \in Opened |-> <<>>] /\ reading' = {} /\ joined' = {}
    /\ applied' = <<>> /\ before' = before \cup Range(applied)
    /\ UNCHANGED <<command, phone, downlink>>

-----------------------------------------------------------------------------
Older(age, limit) == Min({age + 1, limit + 1})

\* Time passes for everybody.
Elapse ==
    /\ command' = [c \in Ids |->
           IF c \notin Pending(command) THEN command[c]
           ELSE [command[c] EXCEPT !.age = Older(@, CommandTTL),
                                   !.sinceSent = Older(@, ResendAfter)]]
    /\ member' = IF member.known /\ member.conn = NoConn
                 THEN [member EXCEPT !.away = Older(@, MemberGrace)] ELSE member
    /\ UNCHANGED <<phone, uplink, downlink, reading, joined, applied, before>>

Next ==
    \/ \E c \in Ids : Give(c)
    \/ Connect \/ Disconnect \/ ReceiveWelcome \/ ReceiveAck \/ Tick
    \/ \E k \in Opened :
        \/ HandleHello(k) \/ FinishJoin(k) \/ HandleLeave(k) \/ EndConnection(k)
        \/ \E c \in Ids : HandleCommand(k, c)
    \/ ForgetMember \/ Restart \/ Elapse

Spec == Init /\ [][Next]_vars

-----------------------------------------------------------------------------
(* Properties *)

\* Commands take effect once and in the order the user gave them, although
\* they are resent, replayed over other connections and arrive late, as long as
\* the server runs.  (Across its restarts see AppliedAtMostOnce.)
AppliedInOrder == \A i, j \in DOMAIN applied : i < j => applied[i] < applied[j]

\* Not so: a repeated command is applied once, across restarts too.
AppliedAtMostOnce == IsInjective(applied) /\ Range(applied) \cap before = {}

\* A command the phone saw acknowledged is never applied again, by whatever
\* copies of it are still on their way, and not even by a server that has
\* restarted and no longer remembers it.
SettledIsNeverRepeated ==
    [][\A c \in Ids : command[c].status = "acked" => applied' # Append(applied, c)]_vars

\* Not so: once every connection has ended and the actor has worked off its inbox, it
\* holds the listener for gone, and forgets it after the grace period.
DepartedListenersLeave ==
    (reading = {} /\ \A k \in Opened : uplink[k] = <<>>) => member.conn = NoConn

\* As long as the phone may send a command again, the room recognises it,
\* though it forgets old commands and listeners that stay away.
RetriesAreRecognised ==
    \A c \in Pending(command) : c \in Range(applied) /\ ~Expired(c) => c \in Range(member.recent)
=============================================================================
