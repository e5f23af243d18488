--------------------------- MODULE CommandsProofs ---------------------------
(***************************************************************************)
(* Theorems about the way of a command, for every number of commands and   *)
(* connections and all limits the assumptions allow: commands take effect  *)
(* in the order they were given, none twice while the server runs, and     *)
(* none after the phone saw it acknowledged; what the phone may still send *)
(* again, the room recognises.                                             *)
(***************************************************************************)
EXTENDS Commands, FiniteSetTheorems, TLAPS

-----------------------------------------------------------------------------
(* The inductive invariant *)

Upward == Ids \cup {Hello, Leave}
Downward == Ids \cup {Welcome}
Views == [status : {"notGiven", "pending", "acked", "expired"}, age : Nat, sinceSent : Nat]

TypesOk ==
    /\ command \in [Ids -> Views]
    /\ uplink \in Seq(Seq(Upward)) /\ downlink \in Seq(Seq(Downward))
    /\ Len(downlink) = Len(uplink)
    /\ phone \in [conn : Nat, online : BOOLEAN] /\ phone.conn <= Len(uplink)
    /\ reading \subseteq Opened /\ joined \subseteq reading
    /\ member \in [known : BOOLEAN, conn : Nat, away : Nat, recent : Seq(Ids)]
    /\ member.conn <= Len(uplink) /\ Len(member.recent) <= RecentCommands
    /\ applied \in Seq(Ids) /\ before \subseteq Ids

\* Commands are given one after the other, and what is anywhere was given.
GivenInOrder ==
    /\ \A c \in Ids : c \notin Given => command[c] = NotGiven
    /\ \A c \in Given : \A b \in Ids : b < c => b \in Given
    /\ Range(applied) \subseteq Given
    /\ \A k \in Opened : /\ Range(uplink[k]) \cap Ids \subseteq Given
                         /\ Range(downlink[k]) \cap Ids \subseteq Given

\* Those that are pending are the last ones given, the older the longer.
PendingAreLast ==
    /\ Cardinality(Pending(command)) <= MaxPending
    /\ \A b \in Pending(command) : \A c \in Given :
        b < c => c \in Pending(command) /\ command[c].age <= command[b].age

\* Before its hello is handled, a connection carries no command, is nobody's,
\* and the phone heard nothing over it.
HelloComesFirst ==
    \A k \in Opened : Hello \in Range(uplink[k]) =>
        /\ Range(uplink[k]) \cap Ids = {} /\ ~Speaks(k)
        /\ \A i, j \in DOMAIN uplink[k] : uplink[k][i] = Hello /\ uplink[k][j] = Hello => i = j
        /\ phone.conn = k => ~phone.online /\ downlink[k] = <<>>

\* What the room remembers are the last commands applied, in their order.
RemembersApplied ==
    /\ Range(member.recent) \subseteq Range(applied)
    /\ \A i, j \in DOMAIN member.recent : i < j => member.recent[i] < member.recent[j]
    /\ ~member.known => member.recent = <<>>
    /\ member.conn # NoConn => member.known /\ member.away = 0

\* A pending command stays remembered, unless the listener was away for so
\* long that it has expired.
PendingAreRemembered ==
    \A c \in Pending(command) : c \in Range(applied) =>
        /\ ~Expired(c) => c \in Range(member.recent)
        /\ member.known => member.away <= command[c].age \/ Expired(c)

\* A pending command given before one that was applied was applied itself.
AppliedInTurn ==
    \A b \in Pending(command) : \A c \in Range(applied) : b < c => b \in Range(applied)

\* Command b is in sequence q before position i.
Ahead(q, i, b) == \E j \in 1..(i - 1) : q[j] = b

\* What holds of the command at position i of the line q of messages from the
\* listener's connection, when commands P are pending, A were applied, and the
\* room remembers R.
InLine(q, i, P, A, R) ==
    \* an earlier command still pending is ahead of it or applied
    /\ \A b \in P : b < q[i] => Ahead(q, i, b) \/ b \in A
    \* if a later one was applied, or is ahead, it was applied itself, or is
    \* ahead of the later one
    /\ \A d \in A : q[i] < d => q[i] \in A
    /\ \A j \in 1..(i - 1) : q[i] < q[j] => Ahead(q, j, q[i]) \/ q[i] \in A
    \* if it was applied, the room remembers that, and will when its turn comes
    /\ q[i] \in A => q[i] \in R
    /\ Cardinality({d \in Ids : q[i] < d /\ (d \in R \/ Ahead(q, i, d))}) < RecentCommands

Lines ==
    \A k \in Opened : Speaks(k) =>
        \A i \in DOMAIN uplink[k] : uplink[k][i] \in Ids =>
            InLine(uplink[k], i, Pending(command), Range(applied), Range(member.recent))

\* The phone hears of commands in the order they were given.
AcksInOrder ==
    \A k \in Opened : k = phone.conn =>
        \A i \in DOMAIN downlink[k] : downlink[k][i] \in Ids =>
            \A b \in Pending(command) : b < downlink[k][i] => Ahead(downlink[k], i, b)

\* Over the phone's connection, everything pending was sent, in this order,
\* once the phone is online, and may have been acknowledged already.
SentInOrder ==
    \A k \in Opened : k = phone.conn /\ Speaks(k) =>
        /\ Range(downlink[k]) \cap Ids \subseteq Range(applied)
        /\ \A i \in DOMAIN uplink[k] : uplink[k][i] \in Ids =>
             \A b \in Pending(command) :
                b < uplink[k][i] => Ahead(uplink[k], i, b) \/ b \in Range(downlink[k])
        /\ phone.online /\ k \in reading =>
             Pending(command) \subseteq Range(uplink[k]) \cup Range(downlink[k])

\* Copies of a command that was acknowledged are on their way only as long as
\* the server that applied it runs.
OnItsWay(c) == \E k \in Opened : c \in Range(uplink[k])
AckedWasApplied ==
    /\ \A c \in Ids : command[c].status = "acked" /\ OnItsWay(c) => c \in Range(applied)
    /\ \A k \in Opened : k = phone.conn =>
        \A c \in Range(downlink[k]) \cap Ids :
            c \in Range(applied) \/ (k \notin reading /\ ~OnItsWay(c))

IInv ==
    /\ TypesOk /\ GivenInOrder /\ PendingAreLast /\ HelloComesFirst
    /\ RemembersApplied /\ PendingAreRemembered /\ AppliedInTurn /\ AppliedInOrder
    /\ Lines /\ AcksInOrder /\ SentInOrder /\ AckedWasApplied

-----------------------------------------------------------------------------
(* Sequences and sets *)

LEMMA PutType ==
    ASSUME NEW S, NEW s \in Seq(S), NEW k \in DOMAIN s, NEW x \in S
    PROVE  /\ [s EXCEPT ![k] = x] \in Seq(S)
           /\ Len([s EXCEPT ![k] = x]) = Len(s) /\ DOMAIN [s EXCEPT ![k] = x] = DOMAIN s
           /\ \A j \in DOMAIN s : [s EXCEPT ![k] = x][j] = IF j = k THEN x ELSE s[j]
OBVIOUS

LEMMA AppendRange ==
    ASSUME NEW S, NEW s \in Seq(S), NEW x \in S
    PROVE  Append(s, x) \in Seq(S) /\ Range(Append(s, x)) = Range(s) \cup {x}
<1>1. /\ Append(s, x) \in Seq(S) /\ DOMAIN Append(s, x) = 1..(Len(s) + 1)
      /\ Append(s, x)[Len(s) + 1] = x /\ Len(s) \in Nat /\ DOMAIN s = 1..Len(s)
      /\ \A i \in DOMAIN s : Append(s, x)[i] = s[i]
    OBVIOUS
<1>2. \A i \in DOMAIN Append(s, x) : i \in DOMAIN s \/ i = Len(s) + 1
    BY <1>1
<1>3. Len(s) + 1 \in DOMAIN Append(s, x) /\ \A i \in DOMAIN s : i \in DOMAIN Append(s, x)
    BY <1>1
<1>4. QED
    BY <1>1, <1>2, <1>3 DEF Range

LEMMA ConcatRange ==
    ASSUME NEW S, NEW s \in Seq(S), NEW t \in Seq(S)
    PROVE  /\ s \o t \in Seq(S) /\ Range(s \o t) = Range(s) \cup Range(t)
           /\ Len(s \o t) = Len(s) + Len(t) /\ DOMAIN (s \o t) = 1..(Len(s) + Len(t))
           /\ \A i \in DOMAIN s : (s \o t)[i] = s[i]
           /\ \A i \in DOMAIN t : (s \o t)[Len(s) + i] = t[i]
<1>1. /\ s \o t \in Seq(S) /\ Len(s) \in Nat /\ Len(t) \in Nat
      /\ DOMAIN s = 1..Len(s) /\ DOMAIN t = 1..Len(t)
      /\ Len(s \o t) = Len(s) + Len(t) /\ DOMAIN (s \o t) = 1..(Len(s) + Len(t))
      /\ \A i \in DOMAIN s : (s \o t)[i] = s[i]
      /\ \A i \in DOMAIN t : (s \o t)[Len(s) + i] = t[i]
    OBVIOUS
<1>2. \A i \in 1..(Len(s) + Len(t)) : i \in DOMAIN s \/ \E j \in DOMAIN t : i = Len(s) + j
    <2> SUFFICES ASSUME NEW i \in 1..(Len(s) + Len(t)), i \notin DOMAIN s
                 PROVE  \E j \in DOMAIN t : i = Len(s) + j
        OBVIOUS
    <2>1. i - Len(s) \in DOMAIN t /\ i = Len(s) + (i - Len(s))
        BY <1>1
    <2>2. QED
        BY <2>1
<1>3. /\ \A i \in DOMAIN s : i \in DOMAIN (s \o t)
      /\ \A i \in DOMAIN t : Len(s) + i \in DOMAIN (s \o t)
    BY <1>1
<1>4. Range(s \o t) = Range(s) \cup Range(t)
    <2>1. \A y \in Range(s \o t) : y \in Range(s) \cup Range(t)
        BY <1>1, <1>2 DEF Range
    <2>2. \A y \in Range(s) \cup Range(t) : y \in Range(s \o t)
        BY <1>1, <1>3 DEF Range
    <2>3. QED
        BY <2>1, <2>2
<1>5. QED
    BY <1>1, <1>4

LEMMA TailRange ==
    ASSUME NEW S, NEW s \in Seq(S), s # <<>>
    PROVE  /\ Head(s) \in S /\ Tail(s) \in Seq(S) /\ Head(s) = s[1] /\ 1 \in DOMAIN s
           /\ Len(s) \in Nat /\ DOMAIN s = 1..Len(s)
           /\ Len(Tail(s)) = Len(s) - 1 /\ DOMAIN Tail(s) = 1..(Len(s) - 1)
           /\ \A i \in DOMAIN Tail(s) : i + 1 \in DOMAIN s /\ Tail(s)[i] = s[i + 1]
           /\ \A i \in DOMAIN s : i = 1 \/ (i - 1 \in DOMAIN Tail(s) /\ s[i] = Tail(s)[i - 1])
           /\ Range(s) = {Head(s)} \cup Range(Tail(s))
<1>1. /\ Head(s) \in S /\ Tail(s) \in Seq(S) /\ Head(s) = s[1] /\ 1 \in DOMAIN s
      /\ Len(s) \in Nat \ {0} /\ DOMAIN s = 1..Len(s)
      /\ Len(Tail(s)) = Len(s) - 1 /\ DOMAIN Tail(s) = 1..(Len(s) - 1)
      /\ \A i \in DOMAIN Tail(s) : i + 1 \in DOMAIN s /\ Tail(s)[i] = s[i + 1]
    OBVIOUS
<1>2. \A i \in DOMAIN s : i = 1 \/ (i - 1 \in DOMAIN Tail(s) /\ s[i] = Tail(s)[i - 1])
    BY <1>1
<1>3. Range(s) = {Head(s)} \cup Range(Tail(s))
    <2>1. \A y \in Range(s) : y \in {Head(s)} \cup Range(Tail(s))
        BY <1>1, <1>2 DEF Range
    <2>2. \A y \in {Head(s)} \cup Range(Tail(s)) : y \in Range(s)
        BY <1>1 DEF Range
    <2>3. QED
        BY <2>1, <2>2
<1>4. QED
    BY <1>1, <1>2, <1>3

LEMMA PrefixRange ==
    ASSUME NEW S, NEW s \in Seq(S), NEW n \in 0..Len(s)
    PROVE  /\ SubSeq(s, 1, n) \in Seq(S) /\ Len(SubSeq(s, 1, n)) = n
           /\ DOMAIN SubSeq(s, 1, n) = 1..n
           /\ \A i \in 1..n : i \in DOMAIN s /\ SubSeq(s, 1, n)[i] = s[i]
           /\ Range(SubSeq(s, 1, n)) \subseteq Range(s)
<1>1. /\ SubSeq(s, 1, n) \in Seq(S) /\ Len(SubSeq(s, 1, n)) = n
      /\ DOMAIN SubSeq(s, 1, n) = 1..n
      /\ \A i \in 1..n : i \in DOMAIN s /\ SubSeq(s, 1, n)[i] = s[i]
    OBVIOUS
<1>2. Range(SubSeq(s, 1, n)) \subseteq Range(s)
    BY <1>1 DEF Range
<1>3. QED
    BY <1>1, <1>2

LEMMA IdSets ==
    ASSUME NEW T \in SUBSET Ids
    PROVE  /\ IsFiniteSet(T) /\ Cardinality(T) \in Nat
           /\ \A U \in SUBSET T : IsFiniteSet(U) /\ Cardinality(U) <= Cardinality(T)
<1>1. IsFiniteSet(Ids)
    BY FS_Interval, BoundsAssumption DEF Ids
<1>2. IsFiniteSet(T) /\ Cardinality(T) \in Nat
    BY <1>1, FS_Subset, FS_CardinalityType
<1>3. \A U \in SUBSET T : IsFiniteSet(U) /\ Cardinality(U) <= Cardinality(T)
    BY <1>2, FS_Subset
<1>4. QED
    BY <1>2, <1>3

LEMMA IdsAreNumbers ==
    /\ \A c \in Ids : c \in Int /\ c \in Upward /\ c \in Downward /\ c # Hello /\ c # Leave /\ c # Welcome
    /\ Upward \subseteq Int /\ Downward \subseteq Int
    /\ Hello \in Upward /\ Leave \in Upward /\ Welcome \in Downward
    /\ Hello \notin Ids /\ Leave \notin Ids /\ Welcome \notin Ids /\ Hello # Leave
BY BoundsAssumption DEF Ids, Upward, Downward, Hello, Leave, Welcome

\* Of two numbers, the community modules' Min and Max are what one expects.
LEMMA MinMaxOfTwo ==
    ASSUME NEW a \in Int, NEW b \in Int
    PROVE  /\ Min({a, b}) = IF a <= b THEN a ELSE b
           /\ Max({a, b}) = IF a <= b THEN b ELSE a
<1>1. Min({a, b}) = IF a <= b THEN a ELSE b
    BY DEF Min
<1>2. Max({a, b}) = IF a <= b THEN b ELSE a
    BY DEF Max
<1>3. QED
    BY <1>1, <1>2

LEMMA InOrderType ==
    ASSUME NEW cmds \in SUBSET Ids, NEW m \in InOrder(cmds)
    PROVE  /\ m \in Seq(Ids) /\ Range(m) = cmds
           /\ \A i, j \in DOMAIN m : i < j => m[i] < m[j]
<1>1. Cardinality(cmds) \in Nat
    BY IdSets
<1>2. m \in [1..Cardinality(cmds) -> Ids]
    BY DEF InOrder
<1>3. m \in Seq(Ids)
    BY <1>1, <1>2
<1>4. QED
    BY <1>3 DEF InOrder

-----------------------------------------------------------------------------
(* Types *)

LEMMA ConnTypes ==
    ASSUME TypesOk, NEW k \in Opened
    PROVE  /\ uplink[k] \in Seq(Upward) /\ downlink[k] \in Seq(Downward)
           /\ k \in DOMAIN downlink /\ k \in Nat /\ k # NoConn /\ k <= Len(uplink)
BY DEF TypesOk, Opened, NoConn

LEMMA OpenedIs ==
    ASSUME TypesOk
    PROVE  Opened = 1..Len(uplink) /\ DOMAIN downlink = Opened /\ Len(uplink) \in Nat
BY DEF TypesOk, Opened

\* What writing does to the uplinks.
LEMMA WrittenType ==
    ASSUME TypesOk, NEW m \in Seq(Ids)
    PROVE  /\ Written(m) \in Seq(Seq(Upward)) /\ Len(Written(m)) = Len(uplink)
           /\ DOMAIN Written(m) = Opened
           /\ \A k \in Opened :
                Written(m)[k] = IF k = phone.conn /\ k \in reading THEN uplink[k] \o m
                                ELSE uplink[k]
<1>1. CASE phone.conn \notin reading
    BY <1>1, OpenedIs DEF Written, TypesOk
<1>2. CASE phone.conn \in reading
    <2>1. phone.conn \in Opened /\ uplink[phone.conn] \in Seq(Upward)
        BY <1>2, ConnTypes DEF TypesOk
    <2>2. m \in Seq(Upward)
        BY DEF Upward
    <2>3. uplink[phone.conn] \o m \in Seq(Upward)
        BY <2>1, <2>2
    <2>4. Written(m) = [uplink EXCEPT ![phone.conn] = uplink[phone.conn] \o m]
        BY <1>2 DEF Written
    <2>5. uplink \in Seq(Seq(Upward))
        BY DEF TypesOk
    <2>6. QED
        BY <1>2, <2>1, <2>3, <2>4, <2>5, PutType DEF Opened
<1>3. QED
    BY <1>1, <1>2

\* Writing pending commands once more changes no more of the phone's view than
\* that some are given up.
LEMMA RewriteViews ==
    ASSUME TypesOk, NEW again \in SUBSET Pending(command), Rewrite(again)
    PROVE  /\ command' \in [Ids -> Views]
           /\ \A c \in Ids : command'[c].age = command[c].age
           /\ \A c \in Ids : command[c].status # "pending" => command'[c] = command[c]
           /\ Pending(command)' = {c \in Pending(command) : ~Expired(c)}
           /\ \A c \in Ids : command'[c].status = "acked" => command[c].status = "acked"
           /\ Given' = Given
           /\ \E m \in Seq(Ids) :
                /\ Range(m) = {c \in again : ~Expired(c)}
                /\ \A i, j \in DOMAIN m : i < j => m[i] < m[j]
                /\ uplink' = Written(m)
<1> DEFINE View(c) == IF c \notin Pending(command) THEN command[c]
                      ELSE IF Expired(c) THEN [command[c] EXCEPT !.status = "expired"]
                      ELSE IF c \in again THEN [command[c] EXCEPT !.sinceSent = 0]
                      ELSE command[c]
<1>1. command' = [c \in Ids |-> View(c)]
    BY DEF Rewrite
<1>2. \A c \in Ids : command[c] \in Views
    BY DEF TypesOk
<1>3. \A c \in Ids : /\ View(c) \in Views /\ View(c).age = command[c].age
                     /\ command[c].status # "pending" => View(c) = command[c]
                     /\ View(c).status = IF command[c].status = "pending" /\ Expired(c)
                                         THEN "expired" ELSE command[c].status
    <2> SUFFICES ASSUME NEW c \in Ids
                 PROVE  /\ View(c) \in Views /\ View(c).age = command[c].age
                        /\ command[c].status # "pending" => View(c) = command[c]
                        /\ View(c).status = IF command[c].status = "pending" /\ Expired(c)
                                            THEN "expired" ELSE command[c].status
        OBVIOUS
    <2>1. command[c] \in Views
        BY <1>2
    <2>2. c \in Pending(command) <=> command[c].status = "pending"
        BY DEF Pending
    <2>3. QED
        BY <2>1, <2>2 DEF Views
<1> HIDE DEF View
<1>4. \A c \in Ids : command'[c] = View(c)
    BY <1>1
<1>5. \E m \in InOrder({c \in again : ~Expired(c)}) : uplink' = Written(m)
    BY DEF Rewrite
<1>6. {c \in again : ~Expired(c)} \in SUBSET Ids
    BY DEF Pending
<1>7. Pending(command)' = {c \in Pending(command) : ~Expired(c)} /\ Given' = Given
    BY <1>3, <1>4 DEF Pending, Given
<1>8. command' \in [Ids -> Views]
    BY <1>1, <1>3
<1>9. QED
    BY <1>3, <1>4, <1>5, <1>6, <1>7, <1>8, InOrderType

LEMMA PhoneTypes ==
    ASSUME TypesOk,
           (\E c \in Ids : Give(c)) \/ Connect \/ Disconnect \/ ReceiveWelcome \/ ReceiveAck \/ Tick
    PROVE  TypesOk'
<1>1. ASSUME NEW c \in Ids, Give(c) PROVE TypesOk'
    <2>1. command' \in [Ids -> Views]
        BY <1>1 DEF Give, TypesOk, Views
    <2> DEFINE m == <<c>>
    <2>2. m \in Seq(Ids) /\ (uplink' = uplink \/ uplink' = Written(m))
        BY <1>1 DEF Give
    <2> HIDE DEF m
    <2>3. uplink' \in Seq(Seq(Upward)) /\ Len(uplink') = Len(uplink) /\ DOMAIN uplink' = Opened
        BY <2>2, WrittenType DEF TypesOk, Opened
    <2>4. QED
        BY <1>1, <2>1, <2>3 DEF Give, TypesOk, Opened
<1>2. CASE Connect
    <2>1. <<Hello>> \in Seq(Upward) /\ <<>> \in Seq(Downward)
        BY IdsAreNumbers
    <2>2. /\ uplink' \in Seq(Seq(Upward)) /\ downlink' \in Seq(Seq(Downward))
          /\ Len(uplink') = Len(uplink) + 1 /\ Len(downlink') = Len(uplink')
          /\ DOMAIN uplink' = 1..(Len(uplink) + 1)
        BY <1>2, <2>1 DEF Connect, TypesOk
    <2>3. reading' \subseteq Opened'
        BY <1>2, <2>2, OpenedIs DEF Connect, TypesOk, Opened
    <2>4. QED
        BY <1>2, <2>2, <2>3, OpenedIs DEF Connect, TypesOk
<1>3. CASE Disconnect
    <2>1. phone.conn \in Opened /\ <<>> \in Seq(Downward)
        BY <1>3, OpenedIs DEF Disconnect, TypesOk, NoConn
    <2>2. downlink' \in Seq(Seq(Downward)) /\ Len(downlink') = Len(downlink)
        BY <1>3, <2>1, OpenedIs, PutType DEF Disconnect, TypesOk
    <2>3. QED
        BY <1>3, <2>2 DEF Disconnect, TypesOk, Opened, NoConn
<1>4. CASE ReceiveWelcome \/ ReceiveAck
    <2>1. phone.conn \in Opened
        BY <1>4, OpenedIs DEF ReceiveWelcome, ReceiveAck, TypesOk, NoConn
    <2>2. /\ Tail(downlink[phone.conn]) \in Seq(Downward)
          /\ downlink' = [downlink EXCEPT ![phone.conn] = Tail(downlink[phone.conn])]
        BY <1>4, <2>1, ConnTypes DEF ReceiveWelcome, ReceiveAck
    <2>3. downlink' \in Seq(Seq(Downward)) /\ Len(downlink') = Len(downlink)
        BY <2>1, <2>2, OpenedIs, PutType DEF TypesOk
    <2>4. CASE ReceiveWelcome
        <3>1. command' \in [Ids -> Views] /\ \E m \in Seq(Ids) : uplink' = Written(m)
            BY <2>4, RewriteViews DEF ReceiveWelcome
        <3>2. uplink' \in Seq(Seq(Upward)) /\ Len(uplink') = Len(uplink) /\ DOMAIN uplink' = Opened
            BY <3>1, WrittenType
        <3>3. phone' \in [conn : Nat, online : BOOLEAN] /\ phone'.conn = phone.conn
            BY <2>4 DEF ReceiveWelcome, TypesOk
        <3>4. QED
            BY <2>3, <2>4, <3>1, <3>2, <3>3 DEF ReceiveWelcome, TypesOk, Opened
    <2>5. CASE ReceiveAck
        <3>1. command' \in [Ids -> Views]
            BY <2>5 DEF ReceiveAck, TypesOk, Views
        <3>2. QED
            BY <2>3, <2>5, <3>1 DEF ReceiveAck, TypesOk, Opened
    <2>6. QED
        BY <1>4, <2>4, <2>5
<1>5. CASE Tick
    <2> DEFINE again == IF phone.online
                        THEN {c \in Pending(command) : command[c].sinceSent > ResendAfter} ELSE {}
    <2>1. again \in SUBSET Pending(command) /\ Rewrite(again)
        BY <1>5 DEF Tick
    <2> HIDE DEF again
    <2>2. command' \in [Ids -> Views] /\ \E m \in Seq(Ids) : uplink' = Written(m)
        BY <2>1, RewriteViews
    <2>3. uplink' \in Seq(Seq(Upward)) /\ Len(uplink') = Len(uplink) /\ DOMAIN uplink' = Opened
        BY <2>2, WrittenType
    <2>4. QED
        BY <1>5, <2>2, <2>3 DEF Tick, TypesOk, Opened
<1>6. QED
    BY <1>1, <1>2, <1>3, <1>4, <1>5

LEMMA TakesType ==
    ASSUME TypesOk, NEW k \in Opened, NEW message, Takes(k, message)
    PROVE  /\ uplink' \in Seq(Seq(Upward)) /\ Len(uplink') = Len(uplink) /\ Opened' = Opened
           /\ message \in Range(uplink[k]) /\ uplink[k] # <<>> /\ message = Head(uplink[k])
           /\ uplink'[k] = Tail(uplink[k])
           /\ \A j \in Opened : j # k => uplink'[j] = uplink[j]
           /\ command' = command /\ phone' = phone /\ reading' = reading /\ joined' = joined
           /\ before' = before
<1>1. uplink[k] \in Seq(Upward) /\ uplink[k] # <<>> /\ message = Head(uplink[k])
    BY ConnTypes DEF Takes
<1>2. Tail(uplink[k]) \in Seq(Upward) /\ message \in Range(uplink[k])
    BY <1>1, TailRange
<1>3. uplink' = [uplink EXCEPT ![k] = Tail(uplink[k])]
    BY DEF Takes
<1>4. uplink \in Seq(Seq(Upward)) /\ k \in DOMAIN uplink
    BY DEF TypesOk, Opened
<1>5. /\ uplink' \in Seq(Seq(Upward)) /\ Len(uplink') = Len(uplink)
      /\ DOMAIN uplink' = DOMAIN uplink
      /\ \A j \in DOMAIN uplink : uplink'[j] = IF j = k THEN Tail(uplink[k]) ELSE uplink[j]
    BY <1>2, <1>3, <1>4, PutType
<1>6. QED
    BY <1>1, <1>2, <1>4, <1>5 DEF Takes, Opened

LEMMA AnsweredType ==
    ASSUME TypesOk, NEW k \in Opened, NEW message \in Downward
    PROVE  /\ Answered(k, message) \in Seq(Seq(Downward))
           /\ Len(Answered(k, message)) = Len(downlink)
           /\ DOMAIN Answered(k, message) = Opened
           /\ \A j \in Opened :
                Answered(k, message)[j] = IF j = k /\ k = phone.conn THEN Append(downlink[k], message)
                                          ELSE downlink[j]
<1>1. CASE k # phone.conn
    BY <1>1, OpenedIs DEF Answered, TypesOk
<1>2. CASE k = phone.conn
    <2>1. Append(downlink[k], message) \in Seq(Downward)
        BY ConnTypes
    <2>2. Answered(k, message) = [downlink EXCEPT ![k] = Append(downlink[k], message)]
        BY <1>2 DEF Answered
    <2>3. QED
        BY <1>2, <2>1, <2>2, OpenedIs, PutType DEF TypesOk
<1>3. QED
    BY <1>1, <1>2

\* The oldest of the remembered commands makes room for a new one.
LEMMA RememberType ==
    ASSUME NEW recent \in Seq(Ids), Len(recent) <= RecentCommands, NEW c \in Ids
    PROVE  /\ Remember(recent, c) \in Seq(Ids) /\ Len(Remember(recent, c)) <= RecentCommands
           /\ c \in Range(Remember(recent, c))
           /\ Range(Remember(recent, c)) \subseteq Range(recent) \cup {c}
           /\ \/ Remember(recent, c) = Append(recent, c)
              \/ /\ Len(recent) = RecentCommands
                 /\ Remember(recent, c) = Append(Tail(recent), c) /\ recent # <<>>
<1>1. RecentCommands \in Nat \ {0} /\ Len(recent) \in Nat
    BY RecentAssumption
<1>2. Append(recent, c) \in Seq(Ids) /\ Len(Append(recent, c)) = Len(recent) + 1
    OBVIOUS
<1> DEFINE n == Len(Append(recent, c)) - RecentCommands + 1
           start == Max({1, n})
<1>3. /\ n \in Int /\ n <= 2 /\ (n = 2 <=> Len(recent) = RecentCommands)
      /\ Remember(recent, c) = SubSeq(Append(recent, c), start, Len(Append(recent, c)))
    BY <1>1, <1>2 DEF Remember
<1>4. start = IF Len(recent) = RecentCommands THEN 2 ELSE 1
    <2> HIDE DEF n
    <2>1. \A a, b \in Int : Max({a, b}) = IF a <= b THEN b ELSE a
        BY MinMaxOfTwo
    <2>2. 1 \in Int
        OBVIOUS
    <2>3. Max({1, n}) = IF 1 <= n THEN n ELSE 1
        BY <1>3, <2>1, <2>2, Zenon
    <2>4. QED
        BY <1>1, <1>3, <2>3
<1> HIDE DEF start
<1>5. Remember(recent, c)
        = SubSeq(Append(recent, c), IF Len(recent) = RecentCommands THEN 2 ELSE 1, Len(recent) + 1)
    BY <1>2, <1>3, <1>4
<1>6. CASE Len(recent) = RecentCommands
    <2>1. Remember(recent, c) = Append(Tail(recent), c) /\ recent # <<>>
        BY <1>1, <1>2, <1>5, <1>6
    <2>2. Tail(recent) \in Seq(Ids) /\ Range(Tail(recent)) \subseteq Range(recent)
          /\ Len(Tail(recent)) = Len(recent) - 1
        BY <2>1, TailRange
    <2> DEFINE t == Tail(recent)
    <2>3. t \in Seq(Ids)
        BY <2>2
    <2> HIDE DEF t
    <2>4. Range(Append(t, c)) = Range(t) \cup {c}
        BY <2>3, AppendRange
    <2>5. Range(Remember(recent, c)) = Range(t) \cup {c}
        BY <2>1, <2>4 DEF t
    <2>6. QED
        BY <1>1, <1>6, <2>1, <2>2, <2>5 DEF t
<1>7. CASE Len(recent) # RecentCommands
    <2>1. Remember(recent, c) = Append(recent, c)
        BY <1>1, <1>2, <1>5, <1>7
    <2>2. Range(Remember(recent, c)) = Range(recent) \cup {c}
        BY <2>1, AppendRange
    <2>3. QED
        BY <1>1, <1>2, <1>7, <2>1, <2>2
<1>8. QED
    BY <1>6, <1>7

\* A restart leaves every connection empty.
LEMMA EmptiedType ==
    ASSUME TypesOk, Restart
    PROVE  /\ uplink' \in Seq(Seq(Upward)) /\ Len(uplink') = Len(uplink) /\ Opened' = Opened
           /\ \A k \in Opened : uplink'[k] = <<>>
<1>1. uplink' = [k \in 1..Len(uplink) |-> <<>>] /\ Len(uplink) \in Nat
    BY OpenedIs DEF Restart
<1>2. <<>> \in Seq(Upward)
    OBVIOUS
<1>3. uplink' \in [1..Len(uplink) -> Seq(Upward)]
    BY <1>1, <1>2
<1>4. uplink' \in Seq(Seq(Upward)) /\ Len(uplink') = Len(uplink) /\ DOMAIN uplink' = 1..Len(uplink)
    BY <1>1, <1>3
<1>5. QED
    BY <1>1, <1>4, OpenedIs DEF Opened

LEMMA EndedType ==
    ASSUME TypesOk, NEW k \in Opened, EndConnection(k)
    PROVE  /\ uplink' \in Seq(Seq(Upward)) /\ Len(uplink') = Len(uplink) /\ Opened' = Opened
           /\ \A j \in Opened : j # k => uplink'[j] = uplink[j]
           /\ k \in joined \/ uplink'[k] \in {<<>>, <<Hello>>}
           /\ \E n \in 0..Len(uplink[k]) :
                 LET posted == SubSeq(uplink[k], 1, n)
                 IN  uplink'[k] = posted \/ uplink'[k] = Append(posted, Leave)
<1>1. /\ uplink[k] \in Seq(Upward) /\ k \in DOMAIN uplink /\ uplink \in Seq(Seq(Upward))
    BY ConnTypes DEF TypesOk, Opened
<1>2. PICK n \in 0..Len(uplink[k]) :
        LET posted == SubSeq(uplink[k], 1, n)
        IN  IF k \in joined THEN uplink' = [uplink EXCEPT ![k] = Append(posted, Leave)]
            ELSE /\ posted \in {<<>>, <<Hello>>}
                 /\ uplink' = [uplink EXCEPT ![k] = posted]
    BY DEF EndConnection
<1> DEFINE posted == SubSeq(uplink[k], 1, n)
           left == IF k \in joined THEN Append(posted, Leave) ELSE posted
<1>3. posted \in Seq(Upward)
    BY <1>1, <1>2, PrefixRange
<1>4. /\ uplink' = [uplink EXCEPT ![k] = left]
      /\ k \in joined \/ left \in {<<>>, <<Hello>>}
      /\ left = posted \/ left = Append(posted, Leave)
    BY <1>2
<1>5. left \in Seq(Upward)
    <2> HIDE DEF posted
    <2>1. QED
        BY <1>3, IdsAreNumbers
<1> HIDE DEF left
<1>6. /\ uplink' \in Seq(Seq(Upward)) /\ Len(uplink') = Len(uplink) /\ DOMAIN uplink' = DOMAIN uplink
      /\ \A j \in DOMAIN uplink : uplink'[j] = IF j = k THEN left ELSE uplink[j]
    BY <1>1, <1>4, <1>5, PutType
<1>7. QED
    BY <1>1, <1>2, <1>4, <1>6 DEF Opened

LEMMA HandlerTypes ==
    ASSUME TypesOk, NEW k \in Opened,
           HandleHello(k) \/ HandleLeave(k) \/ (\E c \in Ids : HandleCommand(k, c))
    PROVE  TypesOk'
<1>1. CASE HandleHello(k)
    <2>1. Takes(k, Hello) /\ Welcome \in Downward
        BY <1>1, IdsAreNumbers DEF HandleHello
    <2>2. downlink' \in Seq(Seq(Downward)) /\ Len(downlink') = Len(downlink)
        BY <1>1, <2>1, AnsweredType DEF HandleHello
    <2>3. member' \in [known : BOOLEAN, conn : Nat, away : Nat, recent : Seq(Ids)]
          /\ member'.conn = k /\ member'.recent = member.recent
        BY <1>1, ConnTypes DEF HandleHello, TypesOk
    <2>4. applied' = applied
        BY <1>1 DEF HandleHello
    <2>5. QED
        BY <2>1, <2>2, <2>3, <2>4, TakesType, ConnTypes DEF TypesOk
<1>2. CASE HandleLeave(k)
    <2>1. Takes(k, Leave) /\ downlink' = downlink /\ applied' = applied
        BY <1>2 DEF HandleLeave
    <2>2. member' \in [known : BOOLEAN, conn : Nat, away : Nat, recent : Seq(Ids)]
          /\ member'.conn \in {member.conn, 0} /\ member'.recent = member.recent
        BY <1>2 DEF HandleLeave, TypesOk, NoConn
    <2>3. /\ uplink' \in Seq(Seq(Upward)) /\ Len(uplink') = Len(uplink) /\ Opened' = Opened
          /\ phone' = phone /\ command' = command /\ reading' = reading /\ joined' = joined
          /\ before' = before
        BY <2>1, TakesType
    <2>4. member'.conn <= Len(uplink)
        BY <2>2, OpenedIs DEF TypesOk
    <2>5. QED
        BY <2>1, <2>2, <2>3, <2>4 DEF TypesOk
<1>3. ASSUME NEW c \in Ids, HandleCommand(k, c) PROVE TypesOk'
    <2>1. Takes(k, c) /\ c \in Downward
        BY <1>3, IdsAreNumbers DEF HandleCommand
    <2>2. CASE ~Speaks(k)
        BY <1>3, <2>1, <2>2, TakesType DEF HandleCommand, TypesOk
    <2>3. CASE Speaks(k)
        <3>1. downlink' \in Seq(Seq(Downward)) /\ Len(downlink') = Len(downlink)
            BY <1>3, <2>1, <2>3, AnsweredType DEF HandleCommand, Speaks
        <3>2. member.recent \in Seq(Ids) /\ Len(member.recent) <= RecentCommands
            BY DEF TypesOk
        <3>3. Remember(member.recent, c) \in Seq(Ids)
              /\ Len(Remember(member.recent, c)) <= RecentCommands
            <4> DEFINE recent == member.recent
            <4>1. recent \in Seq(Ids) /\ Len(recent) <= RecentCommands
                BY <3>2
            <4> HIDE DEF recent
            <4>2. Remember(recent, c) \in Seq(Ids) /\ Len(Remember(recent, c)) <= RecentCommands
                BY <4>1, RememberType
            <4>3. QED
                BY <4>2 DEF recent
        <3>4. /\ member' \in [known : BOOLEAN, conn : Nat, away : Nat, recent : Seq(Ids)]
              /\ member'.conn = member.conn /\ Len(member'.recent) <= RecentCommands
              /\ applied' \in Seq(Ids)
            <4>1. CASE c \in Range(member.recent)
                BY <1>3, <2>3, <4>1 DEF HandleCommand, TypesOk
            <4>2. CASE c \notin Range(member.recent)
                <5>1. /\ member' = [member EXCEPT !.recent = Remember(member.recent, c)]
                      /\ applied' = Append(applied, c)
                    BY <1>3, <2>3, <4>2 DEF HandleCommand
                <5>2. Append(applied, c) \in Seq(Ids)
                    BY AppendRange DEF TypesOk
                <5>3. QED
                    BY <3>3, <5>1, <5>2 DEF TypesOk
            <4>3. QED
                BY <4>1, <4>2
        <3>5. QED
            BY <2>1, <3>1, <3>4, TakesType DEF TypesOk
    <2>4. QED
        BY <2>2, <2>3
<1>4. QED
    BY <1>1, <1>2, <1>3

LEMMA ElapseViews ==
    ASSUME TypesOk, Elapse
    PROVE  /\ command' \in [Ids -> Views] /\ member' \in [known : BOOLEAN, conn : Nat, away : Nat, recent : Seq(Ids)]
           /\ \A c \in Ids : command'[c].status = command[c].status
           /\ \A c \in Ids : command[c].status # "pending" => command'[c] = command[c]
           /\ \A c \in Pending(command) :
                command'[c].age = IF command[c].age <= CommandTTL THEN command[c].age + 1
                                  ELSE CommandTTL + 1
           /\ member'.known = member.known /\ member'.conn = member.conn
           /\ member'.recent = member.recent
           /\ member'.away \in {member.away, member.away + 1, MemberGrace + 1}
           /\ member'.away <= member.away + 1
           /\ member.conn # NoConn => member'.away = member.away
<1>1. \A a \in Nat, l \in Nat : Older(a, l) = IF a <= l THEN a + 1 ELSE l + 1
    <2> SUFFICES ASSUME NEW a \in Nat, NEW l \in Nat
                 PROVE  Older(a, l) = IF a <= l THEN a + 1 ELSE l + 1
        OBVIOUS
    <2> DEFINE x == a + 1
               y == l + 1
    <2>1. x \in Int /\ y \in Int /\ (x <= y <=> a <= l)
        OBVIOUS
    <2>2. Older(a, l) = Min({x, y})
        BY DEF Older
    <2> HIDE DEF x, y
    <2>3. \A b, c \in Int : Min({b, c}) = IF b <= c THEN b ELSE c
        BY MinMaxOfTwo
    <2>4. Min({x, y}) = IF x <= y THEN x ELSE y
        BY <2>1, <2>3, Zenon
    <2>5. QED
        BY <2>1, <2>2, <2>4 DEF x, y
<1>2. CommandTTL \in Nat /\ ResendAfter \in Nat /\ MemberGrace \in Nat
    BY AgesAssumption
<1> DEFINE View(c) == IF c \notin Pending(command) THEN command[c]
                      ELSE [command[c] EXCEPT !.age = Older(@, CommandTTL),
                                              !.sinceSent = Older(@, ResendAfter)]
<1>3. command' = [c \in Ids |-> View(c)]
    BY DEF Elapse
<1>4. \A c \in Ids : /\ View(c) \in Views /\ View(c).status = command[c].status
                     /\ command[c].status # "pending" => View(c) = command[c]
                     /\ c \in Pending(command) => View(c).age = Older(command[c].age, CommandTTL)
    <2> SUFFICES ASSUME NEW c \in Ids
                 PROVE  /\ View(c) \in Views /\ View(c).status = command[c].status
                        /\ command[c].status # "pending" => View(c) = command[c]
                        /\ c \in Pending(command) => View(c).age = Older(command[c].age, CommandTTL)
        OBVIOUS
    <2>1. command[c] \in Views
        BY DEF TypesOk
    <2>2. Older(command[c].age, CommandTTL) \in Nat /\ Older(command[c].sinceSent, ResendAfter) \in Nat
        BY <1>1, <1>2, <2>1 DEF Views
    <2>3. c \in Pending(command) <=> command[c].status = "pending"
        BY DEF Pending
    <2>4. QED
        BY <2>1, <2>2, <2>3 DEF Views
<1> HIDE DEF View
<1>5. \A c \in Ids : command'[c] = View(c)
    BY <1>3
<1>6. command' \in [Ids -> Views]
    BY <1>3, <1>4
<1>7. \A c \in Pending(command) : command[c].age \in Nat
    BY DEF Pending, TypesOk, Views
<1>8. \A c \in Pending(command) :
                command'[c].age = IF command[c].age <= CommandTTL THEN command[c].age + 1
                                  ELSE CommandTTL + 1
    BY <1>1, <1>2, <1>4, <1>5, <1>7 DEF Pending
<1>9. /\ member.away \in Nat
      /\ member' = IF member.known /\ member.conn = NoConn
                   THEN [member EXCEPT !.away = Older(member.away, MemberGrace)] ELSE member
    BY DEF Elapse, TypesOk
<1>10. Older(member.away, MemberGrace) \in {member.away + 1, MemberGrace + 1}
       /\ Older(member.away, MemberGrace) <= member.away + 1 /\ Older(member.away, MemberGrace) \in Nat
    BY <1>1, <1>2, <1>9
<1>11. /\ member' \in [known : BOOLEAN, conn : Nat, away : Nat, recent : Seq(Ids)]
       /\ member'.known = member.known /\ member'.conn = member.conn
       /\ member'.recent = member.recent
       /\ member'.away \in {member.away, member.away + 1, MemberGrace + 1}
       /\ member'.away <= member.away + 1
       /\ member.conn # NoConn => member'.away = member.away
    <2>1. CASE ~(member.known /\ member.conn = NoConn)
        BY <1>9, <2>1 DEF TypesOk
    <2>2. CASE member.known /\ member.conn = NoConn
        <3> DEFINE away == Older(member.away, MemberGrace)
        <3>1. away \in Nat /\ away \in {member.away + 1, MemberGrace + 1} /\ away <= member.away + 1
            BY <1>10
        <3>2. member' = [member EXCEPT !.away = away]
            BY <1>9, <2>2
        <3> HIDE DEF away
        <3>3. /\ member' \in [known : BOOLEAN, conn : Nat, away : Nat, recent : Seq(Ids)]
              /\ member'.known = member.known /\ member'.conn = member.conn
              /\ member'.recent = member.recent /\ member'.away = away
            BY <3>1, <3>2 DEF TypesOk
        <3>4. QED
            BY <2>2, <3>1, <3>3
    <2>3. QED
        BY <2>1, <2>2
<1>12. QED
    BY <1>4, <1>5, <1>6, <1>8, <1>11

LEMMA ServerTypes ==
    ASSUME TypesOk,
           (\E k \in Opened : FinishJoin(k) \/ EndConnection(k)) \/ ForgetMember \/ Restart \/ Elapse
    PROVE  TypesOk'
<1>1. ASSUME NEW k \in Opened, FinishJoin(k) PROVE TypesOk'
    BY <1>1 DEF FinishJoin, TypesOk, Opened
<1>2. ASSUME NEW k \in Opened, EndConnection(k) PROVE TypesOk'
    <2>1. /\ uplink' \in Seq(Seq(Upward)) /\ Len(uplink') = Len(uplink) /\ Opened' = Opened
        BY <1>2, EndedType
    <2>2. QED
        BY <1>2, <2>1 DEF EndConnection, TypesOk
<1>3. NoMember \in [known : BOOLEAN, conn : Nat, away : Nat, recent : Seq(Ids)]
      /\ NoMember.conn = 0 /\ Len(NoMember.recent) = 0 /\ 0 <= RecentCommands
    BY RecentAssumption DEF NoMember, NoConn
<1>4. CASE ForgetMember
    BY <1>3, <1>4, OpenedIs DEF ForgetMember, TypesOk, Opened
<1>5. CASE Restart
    <2>1. Range(applied) \subseteq Ids
        BY DEF TypesOk, Range
    <2>2. /\ uplink' \in Seq(Seq(Upward)) /\ Len(uplink') = Len(uplink) /\ Opened' = Opened
        BY <1>5, EmptiedType
    <2>3. applied' \in Seq(Ids) /\ before' \subseteq Ids
        BY <1>5, <2>1 DEF Restart, TypesOk
    <2>4. QED
        BY <1>3, <1>5, <2>2, <2>3, OpenedIs DEF Restart, TypesOk
<1>6. CASE Elapse
    BY <1>6, ElapseViews DEF Elapse, TypesOk, Opened
<1>7. QED
    BY <1>1, <1>2, <1>4, <1>5, <1>6

LEMMA NextTypes == TypesOk /\ [Next]_vars => TypesOk'
<1>1. TypesOk /\ UNCHANGED vars => TypesOk'
    BY DEF vars, TypesOk, Opened
<1>2. QED
    BY <1>1, PhoneTypes, HandlerTypes, ServerTypes DEF Next

-----------------------------------------------------------------------------
(* A line of messages *)

\* What is behind a command does not concern it, nor does what is no longer
\* pending.
LEMMA LineKept ==
    ASSUME NEW q, NEW p, NEW n \in Nat \ {0}, \A i \in 1..n : p[i] = q[i],
           NEW P, NEW Q, \A b \in Q : b < q[n] => b \in P,
           NEW A, NEW R, InLine(q, n, P, A, R)
    PROVE  InLine(p, n, Q, A, R)
<1>1. \A i \in 1..n : \A b : Ahead(p, i, b) <=> Ahead(q, i, b)
    BY DEF Ahead
<1>2. n \in 1..n /\ p[n] = q[n] /\ \A j \in 1..(n - 1) : j \in 1..n /\ p[j] = q[j]
    OBVIOUS
<1>3. {d \in Ids : p[n] < d /\ (d \in R \/ Ahead(p, n, d))}
        = {d \in Ids : q[n] < d /\ (d \in R \/ Ahead(q, n, d))}
    BY <1>1, <1>2
<1>4. QED
    BY <1>1, <1>2, <1>3 DEF InLine

\* The first of a line is applied, if it was not, and remembered.
LEMMA LineMoves ==
    ASSUME NEW q \in Seq(Upward), NEW i \in Nat \ {0}, i + 1 \in DOMAIN q, q[i + 1] \in Ids,
           q[1] \in Ids,
           NEW P \in SUBSET Ids, NEW A \in SUBSET Ids, NEW R \in SUBSET A, NEW S \in SUBSET Ids,
           S \subseteq R \cup {q[1]}, q[1] \in S,
           \A d \in R : \/ d \in S
                        \/ Cardinality({e \in Ids : d < e /\ e \in R \cup {q[1]}}) >= RecentCommands,
           InLine(q, i + 1, P, A, R)
    PROVE  InLine(Tail(q), i, P, A \cup {q[1]}, S)
<1>1. /\ q # <<>> /\ i \in DOMAIN Tail(q) /\ Len(q) \in Nat /\ DOMAIN q = 1..Len(q)
      /\ \A j \in DOMAIN Tail(q) : j + 1 \in DOMAIN q /\ Tail(q)[j] = q[j + 1]
      /\ \A j \in 1..i : j \in DOMAIN Tail(q)
    <2>1. q # <<>>
        OBVIOUS
    <2>2. Len(q) \in Nat /\ DOMAIN q = 1..Len(q) /\ DOMAIN Tail(q) = 1..(Len(q) - 1)
        BY <2>1, TailRange
    <2>3. QED
        BY <2>1, <2>2, TailRange
<1> DEFINE t == Tail(q)
           x == q[i + 1]
           c == q[1]
<1>2. t[i] = x /\ x \in Ids /\ x \in Int /\ c \in Int
    BY <1>1, IdsAreNumbers
<1>3. \A j \in 1..i : t[j] = q[j + 1]
    BY <1>1
<1>4. RecentCommands \in Nat
    BY RecentAssumption
<1>5. \A j \in 1..i : \A b : /\ Ahead(q, j + 1, b) => b = c \/ Ahead(t, j, b)
                             /\ Ahead(t, j, b) => Ahead(q, j + 1, b)
    <2> SUFFICES ASSUME NEW j \in 1..i, NEW b
                 PROVE  /\ Ahead(q, j + 1, b) => b = c \/ Ahead(t, j, b)
                        /\ Ahead(t, j, b) => Ahead(q, j + 1, b)
        OBVIOUS
    <2>1. ASSUME NEW n \in 1..(j + 1 - 1), q[n] = b, b # c PROVE Ahead(t, j, b)
        <3>1. n # 1
            BY <2>1
        <3>2. n - 1 \in 1..(j - 1) /\ n - 1 \in 1..i /\ (n - 1) + 1 = n
            BY <3>1
        <3>3. t[n - 1] = b
            BY <1>3, <2>1, <3>2
        <3>4. QED
            BY <3>2, <3>3 DEF Ahead
    <2>2. ASSUME NEW n \in 1..(j - 1), t[n] = b PROVE Ahead(q, j + 1, b)
        <3>1. n + 1 \in 1..(j + 1 - 1) /\ n \in 1..i
            OBVIOUS
        <3>2. QED
            BY <1>3, <2>2, <3>1 DEF Ahead
    <2>3. QED
        BY <2>1, <2>2 DEF Ahead
<1> HIDE DEF t
<1>6. \A b : Ahead(q, i + 1, b) => b = c \/ Ahead(t, i, b)
    BY <1>5
<1>7. Ahead(q, i + 1, c)
    BY DEF Ahead
<1>8. \A b \in P : b < x => Ahead(t, i, b) \/ b \in A \cup {c}
    BY <1>6 DEF InLine
<1>9. x < c => x \in A
    <2>1. 1 \in 1..(i + 1 - 1) /\ ~Ahead(q, 1, x)
        BY DEF Ahead
    <2>2. QED
        BY <2>1 DEF InLine
<1>10. \A d \in A \cup {c} : x < d => x \in A \cup {c}
    BY <1>9 DEF InLine
<1>11. \A j \in 1..(i - 1) : x < t[j] => Ahead(t, j, x) \/ x \in A \cup {c}
    <2> SUFFICES ASSUME NEW j \in 1..(i - 1), x < t[j] PROVE Ahead(t, j, x) \/ x \in A \cup {c}
        OBVIOUS
    <2>1. j + 1 \in 1..(i + 1 - 1) /\ j \in 1..i
        OBVIOUS
    <2>2. x < q[j + 1]
        BY <1>3, <2>1
    <2>3. Ahead(q, j + 1, x) \/ x \in A
        BY <2>1, <2>2 DEF InLine
    <2>4. QED
        BY <1>5, <2>1, <2>3
<1> DEFINE Ahd == {d \in Ids : x < d /\ (d \in R \/ Ahead(q, i + 1, d))}
<1>12. Cardinality(Ahd) < RecentCommands /\ Ahd \in SUBSET Ids
    BY DEF InLine
<1>13. x \in A \cup {c} => x \in S
    <2>1. CASE x = c
        BY <2>1
    <2>2. CASE x \in A /\ x # c
        <3>1. x \in R
            BY <2>2 DEF InLine
        <3> DEFINE E == {e \in Ids : x < e /\ e \in R \cup {c}}
        <3>2. E \subseteq Ahd
            BY <1>7
        <3>3. Cardinality(E) <= Cardinality(Ahd) /\ Cardinality(Ahd) \in Nat /\ Cardinality(E) \in Nat
            BY <1>12, <3>2, IdSets
        <3>4. ~(Cardinality(E) >= RecentCommands)
            BY <1>4, <1>12, <3>3
        <3>5. QED
            BY <3>1, <3>4
    <2>3. QED
        BY <2>1, <2>2
<1>14. Cardinality({d \in Ids : x < d /\ (d \in S \/ Ahead(t, i, d))}) < RecentCommands
    <2> DEFINE E == {d \in Ids : x < d /\ (d \in S \/ Ahead(t, i, d))}
    <2>1. i \in 1..i
        OBVIOUS
    <2>2. E \subseteq Ahd
        BY <1>5, <1>7, <2>1
    <2>3. Cardinality(E) <= Cardinality(Ahd) /\ Cardinality(Ahd) \in Nat /\ Cardinality(E) \in Nat
        BY <1>12, <2>2, IdSets
    <2>4. QED
        BY <1>4, <1>12, <2>3
<1>15. InLine(t, i, P, A \cup {c}, S)
    BY <1>2, <1>8, <1>10, <1>11, <1>13, <1>14 DEF InLine
<1>16. QED
    BY <1>15 DEF t

\* Commands written behind a line find their place in it.
LEMMA LineGrows ==
    ASSUME NEW q \in Seq(Upward), NEW m \in Seq(Ids), NEW i \in DOMAIN m,
           \A j, l \in DOMAIN m : j < l => m[j] < m[l],
           NEW P, NEW A \in SUBSET Ids, NEW R \in SUBSET A,
           \A b \in P : b < m[i] => Ahead(m, i, b) \/ b \in Range(q) \/ b \in A,
           \A d \in A : m[i] < d => m[i] \in A,
           \A j \in DOMAIN q : m[i] < q[j] => Ahead(q, j, m[i]) \/ m[i] \in A,
           m[i] \in A => m[i] \in R,
           Cardinality({d \in Ids : m[i] < d /\ d \in A \cup Range(q) \cup Range(m)}) < RecentCommands
    PROVE  InLine(q \o m, Len(q) + i, P, A, R)
<1> DEFINE p == q \o m
           n == Len(q) + i
           x == m[i]
<1>1. m \in Seq(Upward) /\ Len(q) \in Nat /\ Len(m) \in Nat /\ DOMAIN m = 1..Len(m)
      /\ DOMAIN q = 1..Len(q) /\ i \in Nat /\ x \in Ids /\ x \in Int
    BY IdsAreNumbers
<1>2. /\ \A j \in DOMAIN q : p[j] = q[j]
      /\ \A j \in DOMAIN m : p[Len(q) + j] = m[j]
    BY <1>1, ConcatRange
<1> HIDE DEF p
<1>3. p[n] = x /\ n \in Nat
    BY <1>1, <1>2
<1>4. \A b : Ahead(m, i, b) => Ahead(p, n, b)
    <2> SUFFICES ASSUME NEW j \in 1..(i - 1) PROVE Ahead(p, n, m[j])
        BY DEF Ahead
    <2>1. j \in DOMAIN m /\ Len(q) + j \in 1..(n - 1)
        BY <1>1
    <2>2. QED
        BY <1>2, <2>1 DEF Ahead
<1>5. \A b : b \in Range(q) => Ahead(p, n, b)
    <2> SUFFICES ASSUME NEW j \in DOMAIN q PROVE Ahead(p, n, q[j])
        BY DEF Range
    <2>1. j \in 1..(n - 1)
        BY <1>1
    <2>2. QED
        BY <1>2, <2>1 DEF Ahead
<1>6. \A j \in 1..(n - 1) : j \in DOMAIN q \/ \E l \in 1..(i - 1) : l \in DOMAIN m /\ j = Len(q) + l
    <2> SUFFICES ASSUME NEW j \in 1..(n - 1), j \notin DOMAIN q
                 PROVE  \E l \in 1..(i - 1) : l \in DOMAIN m /\ j = Len(q) + l
        OBVIOUS
    <2>1. j - Len(q) \in 1..(i - 1) /\ j - Len(q) \in DOMAIN m /\ j = Len(q) + (j - Len(q))
        BY <1>1
    <2>2. QED
        BY <2>1
<1>7. \A b \in P : b < x => Ahead(p, n, b) \/ b \in A
    BY <1>4, <1>5
<1>8. \A j \in DOMAIN q : \A b : Ahead(q, j, b) => Ahead(p, j, b)
    <2> SUFFICES ASSUME NEW j \in DOMAIN q, NEW l \in 1..(j - 1) PROVE Ahead(p, j, q[l])
        BY DEF Ahead
    <2>1. l \in DOMAIN q
        BY <1>1
    <2>2. QED
        BY <1>2, <2>1 DEF Ahead
<1>9. \A j \in 1..(n - 1) : x < p[j] => Ahead(p, j, x) \/ x \in A
    <2> SUFFICES ASSUME NEW j \in 1..(n - 1), x < p[j] PROVE Ahead(p, j, x) \/ x \in A
        OBVIOUS
    <2>1. CASE j \in DOMAIN q
        BY <1>2, <1>8, <2>1
    <2>2. ASSUME NEW l \in 1..(i - 1), l \in DOMAIN m, j = Len(q) + l PROVE FALSE
        <3>1. p[j] = m[l] /\ m[l] < x /\ m[l] \in Int
            BY <1>1, <1>2, <2>2, IdsAreNumbers
        <3>2. QED
            BY <1>1, <3>1
    <2>3. QED
        BY <1>6, <2>1, <2>2
<1>10. \A d \in Ids : Ahead(p, n, d) => d \in Range(q) \cup Range(m)
    <2> SUFFICES ASSUME NEW j \in 1..(n - 1) PROVE p[j] \in Range(q) \cup Range(m)
        BY DEF Ahead
    <2>1. QED
        BY <1>2, <1>6 DEF Range
<1>11. Cardinality({d \in Ids : x < d /\ (d \in R \/ Ahead(p, n, d))}) < RecentCommands
    <2> DEFINE E == {d \in Ids : x < d /\ (d \in R \/ Ahead(p, n, d))}
               F == {d \in Ids : x < d /\ d \in A \cup Range(q) \cup Range(m)}
    <2>1. E \subseteq F /\ F \in SUBSET Ids
        BY <1>10
    <2>2. Cardinality(E) <= Cardinality(F) /\ Cardinality(E) \in Nat /\ Cardinality(F) \in Nat
        BY <2>1, IdSets
    <2>3. QED
        BY <2>2, RecentAssumption
<1>12. InLine(p, n, P, A, R)
    BY <1>3, <1>7, <1>9, <1>11 DEF InLine
<1>13. QED
    BY <1>12 DEF p

\* What the room forgets when it remembers a new command is old: there are as
\* many later ones as it can remember.
LEMMA DroppedIsOld ==
    ASSUME NEW recent \in Seq(Ids), Len(recent) <= RecentCommands, NEW c \in Ids,
           \A i, j \in DOMAIN recent : i < j => recent[i] < recent[j],
           \A d \in Range(recent) : d < c
    PROVE  /\ \A d \in Range(recent) :
                \/ d \in Range(Remember(recent, c))
                \/ Cardinality({e \in Ids : d < e /\ e \in Range(recent) \cup {c}}) >= RecentCommands
           /\ \A i, j \in DOMAIN Remember(recent, c) :
                i < j => Remember(recent, c)[i] < Remember(recent, c)[j]
<1> DEFINE N == RecentCommands
<1>1. N \in Nat \ {0} /\ Len(recent) \in Nat /\ DOMAIN recent = 1..Len(recent) /\ c \in Int
      /\ \A i \in DOMAIN recent : recent[i] \in Int /\ recent[i] \in Ids
    BY RecentAssumption, IdsAreNumbers
<1>2. \A i \in DOMAIN recent : recent[i] < c
    BY DEF Range
<1>3. CASE Remember(recent, c) = Append(recent, c)
    <2>1. Range(Append(recent, c)) = Range(recent) \cup {c}
        BY AppendRange
    <2>2. /\ DOMAIN Append(recent, c) = 1..(Len(recent) + 1) /\ Append(recent, c)[Len(recent) + 1] = c
          /\ \A i \in 1..Len(recent) : Append(recent, c)[i] = recent[i]
        OBVIOUS
    <2>3. \A i, j \in DOMAIN Append(recent, c) : i < j => Append(recent, c)[i] < Append(recent, c)[j]
        BY <1>1, <1>2, <2>2
    <2>4. QED
        BY <1>3, <2>1, <2>3
<1>4. CASE /\ Len(recent) = N /\ recent # <<>>
           /\ Remember(recent, c) = Append(Tail(recent), c)
    <2> DEFINE t == Tail(recent)
    <2>1. /\ t \in Seq(Ids) /\ DOMAIN t = 1..(N - 1) /\ Len(t) = N - 1
          /\ \A i \in DOMAIN t : i + 1 \in DOMAIN recent /\ t[i] = recent[i + 1]
          /\ Range(recent) = {recent[1]} \cup Range(t) /\ 1 \in DOMAIN recent
        BY <1>4, TailRange
    <2> HIDE DEF t
    <2>2. Range(Append(t, c)) = Range(t) \cup {c}
        BY <2>1, AppendRange
    <2>3. /\ DOMAIN Append(t, c) = 1..N /\ Append(t, c)[N] = c
          /\ \A i \in 1..(N - 1) : Append(t, c)[i] = t[i]
        BY <1>1, <2>1
    <2>4. \A i, j \in DOMAIN Append(t, c) : i < j => Append(t, c)[i] < Append(t, c)[j]
        <3> SUFFICES ASSUME NEW i \in 1..N, NEW j \in 1..N, i < j
                     PROVE  Append(t, c)[i] < Append(t, c)[j]
            BY <2>3
        <3>1. i \in 1..(N - 1)
            BY <1>1
        <3>2. i \in 1..(N - 1) /\ i \in DOMAIN t /\ Append(t, c)[i] = recent[i + 1] /\ i + 1 \in DOMAIN recent
            BY <2>1, <2>3, <3>1
        <3>3. CASE j = N
            BY <1>2, <2>3, <3>2, <3>3
        <3>4. CASE j # N
            <4>1. Append(t, c)[j] = recent[j + 1] /\ j + 1 \in DOMAIN recent /\ i + 1 < j + 1
                BY <1>1, <2>1, <2>3, <3>4
            <4>2. QED
                BY <3>2, <4>1
        <3>5. QED
            BY <3>3, <3>4
    <2>5. Cardinality({e \in Ids : recent[1] < e /\ e \in Range(recent) \cup {c}}) >= N
        <3> DEFINE E == {e \in Ids : recent[1] < e /\ e \in Range(recent) \cup {c}}
                   f == [i \in 1..N |-> Append(t, c)[i]]
        <3>1. \A i \in 1..N : Append(t, c)[i] \in E
            <4> SUFFICES ASSUME NEW i \in 1..N PROVE Append(t, c)[i] \in E
                OBVIOUS
            <4>1. CASE i = N
                BY <1>1, <1>2, <2>1, <2>3, <4>1
            <4>2. CASE i # N
                <5>1. i \in 1..(N - 1) /\ i \in DOMAIN t /\ Append(t, c)[i] = recent[i + 1]
                      /\ i + 1 \in DOMAIN recent /\ 1 < i + 1
                    BY <1>1, <2>1, <2>3, <4>2
                <5>2. recent[i + 1] \in Range(recent) /\ recent[1] < recent[i + 1] /\ recent[i + 1] \in Ids
                    BY <1>1, <2>1, <5>1 DEF Range
                <5>3. QED
                    BY <5>1, <5>2
            <4>3. QED
                BY <4>1, <4>2
        <3> HIDE DEF E
        <3>2. f \in [1..N -> E]
            BY <3>1
        <3>3. \A i, j \in 1..N : f[i] = f[j] => i = j
            <4>1. \A i \in 1..N : Append(t, c)[i] \in Int
                BY <3>1, IdsAreNumbers DEF E
            <4>2. \A i, j \in 1..N : i < j \/ j < i \/ i = j
                OBVIOUS
            <4>3. \A i \in 1..N : f[i] = Append(t, c)[i]
                OBVIOUS
            <4> HIDE DEF f
            <4>4. \A i, j \in 1..N : i < j => f[i] < f[j]
                BY <2>3, <2>4, <4>3
            <4>5. \A i \in 1..N : f[i] \in Int
                BY <4>1, <4>3
            <4>6. QED
                BY <4>2, <4>4, <4>5
        <3>4. f \in Injection(1..N, E)
            BY <3>2, <3>3 DEF Injection, IsInjective
        <3>5. IsFiniteSet(E)
            BY IdSets DEF E
        <3>6. Cardinality(1..N) = N
            BY <1>1, FS_Interval
        <3>7. Cardinality(1..N) <= Cardinality(E)
            BY <3>4, <3>5, FS_Injection
        <3>8. Cardinality(E) \in Nat
            BY <3>5, FS_CardinalityType
        <3>9. QED
            BY <1>1, <3>6, <3>7, <3>8 DEF E
    <2>6. \A d \in Range(recent) : d \in Range(Append(t, c)) \/ d = recent[1]
        BY <2>1, <2>2
    <2>7. Remember(recent, c) = Append(t, c)
        BY <1>4 DEF t
    <2>8. QED
        BY <2>4, <2>5, <2>6, <2>7
<1>5. QED
    BY <1>3, <1>4, RememberType

-----------------------------------------------------------------------------
(* What the phone does *)

\* Giving a command, the replay that follows a welcome, and the phone's tick
\* have this in common: commands that are pending, or new, are written in the
\* order they were given.
Writes(m) ==
    /\ m \in Seq(Ids) /\ uplink' = Written(m)
    /\ \A i, j \in DOMAIN m : i < j => m[i] < m[j]
    /\ Range(m) \subseteq Pending(command)'
    /\ \A c \in Pending(command)' : c \in Pending(command) \/ c \notin Given
    /\ \A c \in Range(m) : ~Expired(c)
    /\ \A c \in Ids : /\ command'[c].age = command[c].age
                      /\ command'[c].status = "acked" => command[c].status = "acked"
    /\ UNCHANGED <<reading, joined, member, applied, before>>
    /\ phone'.conn = phone.conn
    /\ (phone' = phone /\ downlink' = downlink) \/ ReceiveWelcome
    /\ m # <<>> => phone.online \/ ReceiveWelcome
    \* what is pending was sent already, or is sent now
    /\ phone'.online /\ phone.online =>
          \A c \in Pending(command)' : c \in Pending(command) \/ c \in Range(m)
    /\ ReceiveWelcome => Pending(command)' = Range(m)

LEMMA GiveViews ==
    ASSUME TypesOk, GivenInOrder, NEW c \in Ids, Give(c)
    PROVE  /\ Pending(command)' = Pending(command) \cup {c} /\ Given' = Given \cup {c}
           /\ c \notin Given /\ command[c] = NotGiven /\ command'[c].age = 0 /\ command[c].age = 0
           /\ \A b \in Ids : b < c => b \in Given
           /\ \A b \in Ids : b # c => command'[b] = command[b]
           /\ command'[c].status = "pending" /\ \A b \in Given : b < c
<1>1. c \notin Given /\ command[c] = NotGiven /\ command[c].age = 0
    BY DEF Give, Given, GivenInOrder, NotGiven
<1>2. command' = [command EXCEPT ![c] = [command[c] EXCEPT !.status = "pending"]]
    BY DEF Give
<1>3. /\ \A b \in Ids : b # c => command'[b] = command[b]
      /\ command'[c] = [command[c] EXCEPT !.status = "pending"]
    BY <1>2 DEF TypesOk
<1>4. command'[c].status = "pending" /\ command'[c].age = 0
    BY <1>1, <1>3 DEF NotGiven
<1>5. Pending(command)' = Pending(command) \cup {c} /\ Given' = Given \cup {c}
    BY <1>3, <1>4 DEF Pending, Given
<1>6. \A b \in Ids : b < c => b \in Given
    BY BoundsAssumption DEF Give, Ids
<1>7. \A b \in Given : b < c
    <2> SUFFICES ASSUME NEW b \in Given, ~(b < c) PROVE FALSE
        OBVIOUS
    <2>1. b \in Ids /\ b # c
        BY <1>1 DEF Given
    <2>2. c < b
        BY <2>1, IdsAreNumbers
    <2>3. QED
        BY <1>1, <2>2 DEF GivenInOrder
<1>8. QED
    BY <1>1, <1>3, <1>4, <1>5, <1>6, <1>7

LEMMA GiveWrites ==
    ASSUME TypesOk, GivenInOrder, NEW c \in Ids, Give(c)
    PROVE  \E m : Writes(m)
<1> DEFINE m == IF phone.online THEN <<c>> ELSE <<>>
<1>1. /\ m \in Seq(Ids) /\ \A i, j \in DOMAIN m : i < j => m[i] < m[j]
      /\ Range(m) = IF phone.online THEN {c} ELSE {}
      /\ m # <<>> => phone.online
    BY DEF Range
<1>2. uplink' = Written(m)
    <2>1. CASE phone.online
        BY <2>1 DEF Give
    <2>2. CASE ~phone.online
        <3>1. uplink' = uplink
            BY <2>2 DEF Give
        <3>2. phone.conn \in reading => uplink[phone.conn] \in Seq(Upward) /\ uplink \in Seq(Seq(Upward))
                                        /\ phone.conn \in DOMAIN uplink
            BY ConnTypes DEF TypesOk, Opened
        <3>3. phone.conn \in reading => uplink[phone.conn] \o <<>> = uplink[phone.conn]
            BY <3>2
        <3>4. phone.conn \in reading => [uplink EXCEPT ![phone.conn] = uplink[phone.conn]] = uplink
            BY <3>2
        <3>5. QED
            BY <2>2, <3>1, <3>3, <3>4 DEF Written
    <2>3. QED
        BY <2>1, <2>2
<1>3. Range(m) \subseteq Pending(command)' /\ \A x \in Range(m) : x = c
    BY <1>1, GiveViews
<1>4. ~Expired(c)
    BY GiveViews, AgesAssumption DEF Expired
<1>5. \A x \in Pending(command)' : x \in Pending(command) \/ (x \notin Given /\ x = c)
    BY GiveViews
<1>6. \A b \in Ids : /\ command'[b].age = command[b].age
                     /\ command'[b].status = "acked" => command[b].status = "acked"
    BY GiveViews
<1>7. /\ UNCHANGED <<reading, joined, member, applied, before>>
      /\ phone' = phone /\ downlink' = downlink
    BY DEF Give
<1>8. ~ReceiveWelcome
    BY GiveViews DEF ReceiveWelcome, Rewrite, Pending, Given
<1> HIDE DEF m
<1>9. \E n : Writes(n)
    <2>1. Writes(m)
        BY <1>1, <1>2, <1>3, <1>4, <1>5, <1>6, <1>7, <1>8 DEF Writes
    <2>2. QED
        BY <2>1
<1>10. QED
    BY <1>9

LEMMA WelcomeWrites ==
    ASSUME TypesOk, ReceiveWelcome
    PROVE  \E m : Writes(m)
<1>1. Rewrite(Pending(command)) /\ Pending(command) \in SUBSET Pending(command)
    BY DEF ReceiveWelcome
<1>2. PICK m \in Seq(Ids) : /\ Range(m) = {c \in Pending(command) : ~Expired(c)}
                            /\ \A i, j \in DOMAIN m : i < j => m[i] < m[j]
                            /\ uplink' = Written(m)
    BY <1>1, RewriteViews
<1>3. Range(m) = Pending(command)' /\ Pending(command)' \subseteq Pending(command)
    BY <1>1, <1>2, RewriteViews
<1>4. \A c \in Ids : /\ command'[c].age = command[c].age
                     /\ command'[c].status = "acked" => command[c].status = "acked"
    BY <1>1, RewriteViews
<1>5. UNCHANGED <<reading, joined, member, applied, before>> /\ phone'.conn = phone.conn
    BY DEF ReceiveWelcome, TypesOk
<1>6. Writes(m)
    BY <1>2, <1>3, <1>4, <1>5 DEF Writes
<1>7. QED
    BY <1>6

LEMMA TickWrites ==
    ASSUME TypesOk, Tick
    PROVE  \E m : Writes(m)
<1> DEFINE again == IF phone.online
                    THEN {c \in Pending(command) : command[c].sinceSent > ResendAfter} ELSE {}
<1>1. Rewrite(again) /\ again \in SUBSET Pending(command)
    BY DEF Tick
<1>2. again # {} => phone.online
    OBVIOUS
<1> HIDE DEF again
<1>3. PICK m \in Seq(Ids) : /\ Range(m) = {c \in again : ~Expired(c)}
                            /\ \A i, j \in DOMAIN m : i < j => m[i] < m[j]
                            /\ uplink' = Written(m)
    BY <1>1, RewriteViews
<1>4. Range(m) \subseteq Pending(command)' /\ Pending(command)' \subseteq Pending(command)
    BY <1>1, <1>3, RewriteViews
<1>5. \A c \in Ids : /\ command'[c].age = command[c].age
                     /\ command'[c].status = "acked" => command[c].status = "acked"
    BY <1>1, RewriteViews
<1>6. UNCHANGED <<reading, joined, member, applied, before>> /\ phone' = phone /\ downlink' = downlink
    BY DEF Tick
<1>7. m # <<>> => phone.online
    <2>1. m # <<>> => m[1] \in Range(m)
        BY TailRange DEF Range
    <2>2. QED
        BY <1>2, <1>3, <2>1
<1>8. ~ReceiveWelcome
    <2> SUFFICES ASSUME ReceiveWelcome PROVE FALSE
        OBVIOUS
    <2>1. phone.conn \in Opened /\ downlink[phone.conn] # <<>>
          /\ downlink' = [downlink EXCEPT ![phone.conn] = Tail(downlink[phone.conn])]
        BY OpenedIs DEF ReceiveWelcome, TypesOk, NoConn
    <2>2. downlink'[phone.conn] = Tail(downlink[phone.conn])
        BY <2>1, OpenedIs
    <2>3. Len(Tail(downlink[phone.conn])) # Len(downlink[phone.conn])
        BY <2>1, ConnTypes, TailRange
    <2>4. QED
        BY <1>6, <2>2, <2>3
<1>9. Writes(m)
    BY <1>3, <1>4, <1>5, <1>6, <1>7, <1>8 DEF Writes
<1>10. QED
    BY <1>9

LEMMA PhoneWrites ==
    ASSUME TypesOk, GivenInOrder, (\E c \in Ids : Give(c)) \/ ReceiveWelcome \/ Tick
    PROVE  \E m : Writes(m)
BY GiveWrites, WelcomeWrites, TickWrites

\* What Writes means for the uplinks, and for the downlinks.
LEMMA WritesLinks ==
    ASSUME TypesOk, NEW m, Writes(m)
    PROVE  /\ Opened' = Opened
           /\ \A k \in Opened : uplink'[k] = IF k = phone.conn /\ k \in reading THEN uplink[k] \o m
                                             ELSE uplink[k]
           /\ \A k \in Opened : \/ downlink'[k] = downlink[k]
                                \/ /\ k = phone.conn /\ ReceiveWelcome
                                   /\ downlink[k] # <<>> /\ Head(downlink[k]) = Welcome
                                   /\ downlink'[k] = Tail(downlink[k])
           /\ \A k \in Opened : Range(downlink'[k]) \cap Ids = Range(downlink[k]) \cap Ids
<1>1. DOMAIN uplink' = Opened
      /\ \A k \in Opened : uplink'[k] = IF k = phone.conn /\ k \in reading THEN uplink[k] \o m
                                             ELSE uplink[k]
    BY WrittenType DEF Writes
<1>2. CASE phone' = phone /\ downlink' = downlink
    BY <1>1, <1>2 DEF Opened
<1>3. CASE ReceiveWelcome
    <2>1. phone.conn \in Opened /\ downlink[phone.conn] # <<>> /\ Head(downlink[phone.conn]) = Welcome
          /\ downlink' = [downlink EXCEPT ![phone.conn] = Tail(downlink[phone.conn])]
        BY <1>3, OpenedIs DEF ReceiveWelcome, TypesOk, NoConn
    <2>2. \A k \in Opened : downlink'[k] = IF k = phone.conn THEN Tail(downlink[k]) ELSE downlink[k]
        BY <2>1, OpenedIs
    <2>3. Range(downlink[phone.conn]) = {Welcome} \cup Range(Tail(downlink[phone.conn]))
        BY <2>1, ConnTypes, TailRange
    <2>4. \A k \in Opened : Range(downlink'[k]) \cap Ids = Range(downlink[k]) \cap Ids
        BY <2>2, <2>3, IdsAreNumbers
    <2>5. QED
        BY <1>1, <1>3, <2>1, <2>2, <2>4 DEF Opened
<1>4. QED
    BY <1>2, <1>3 DEF Writes

\* An acknowledgement that arrives settles its command.
LEMMA AckViews ==
    ASSUME TypesOk, ReceiveAck
    PROVE  \E c \in Ids :
             /\ phone.conn \in Opened /\ downlink[phone.conn] # <<>> /\ c = Head(downlink[phone.conn])
             /\ Opened' = Opened
             /\ \A k \in Opened : downlink'[k] = IF k = phone.conn THEN Tail(downlink[k])
                                                 ELSE downlink[k]
             /\ Range(downlink[phone.conn]) = {c} \cup Range(downlink'[phone.conn])
             /\ Pending(command)' = Pending(command) \ {c} /\ Given' = Given
             /\ \A b \in Ids : /\ command'[b].age = command[b].age
                               /\ command[b].status # "pending" => command'[b] = command[b]
                               /\ command'[b].status = "acked" => command[b].status = "acked" \/ b = c
<1>1. phone.conn \in Opened /\ downlink[phone.conn] # <<>> /\ Head(downlink[phone.conn]) \in Ids
      /\ downlink' = [downlink EXCEPT ![phone.conn] = Tail(downlink[phone.conn])]
    BY OpenedIs DEF ReceiveAck, TypesOk, NoConn
<1> DEFINE c == Head(downlink[phone.conn])
<1>2. \A k \in Opened : downlink'[k] = IF k = phone.conn THEN Tail(downlink[k]) ELSE downlink[k]
    BY <1>1, OpenedIs
<1>3. Range(downlink[phone.conn]) = {c} \cup Range(downlink'[phone.conn])
    BY <1>1, <1>2, ConnTypes, TailRange
<1>4. c \in Ids /\ command' = IF c \in Pending(command) THEN [command EXCEPT ![c].status = "acked"]
                              ELSE command
    BY <1>1 DEF ReceiveAck
<1> HIDE DEF c
<1>5. \A b \in Ids : command[b] \in Views
    BY DEF TypesOk
<1>6. CASE c \notin Pending(command)
    <2>1. command' = command
        BY <1>4, <1>6
    <2>2. Pending(command)' = Pending(command) \ {c} /\ Given' = Given
        BY <1>6, <2>1 DEF Pending, Given
    <2>3. QED
        BY <1>1, <1>2, <1>3, <1>4, <2>1, <2>2 DEF ReceiveAck, Opened, c
<1>7. CASE c \in Pending(command)
    <2>1. /\ \A b \in Ids : b # c => command'[b] = command[b]
          /\ command'[c] = [command[c] EXCEPT !.status = "acked"]
        BY <1>4, <1>7 DEF TypesOk
    <2>2. command[c] \in Views /\ command[c].status = "pending"
        BY <1>4, <1>5, <1>7 DEF Pending
    <2>3. command'[c].status = "acked" /\ command'[c].age = command[c].age
        BY <2>1, <2>2 DEF Views
    <2>4. Pending(command)' = Pending(command) \ {c} /\ Given' = Given
        BY <1>4, <2>1, <2>2, <2>3 DEF Pending, Given
    <2>5. \A b \in Ids : /\ command'[b].age = command[b].age
                         /\ command[b].status # "pending" => command'[b] = command[b]
                         /\ command'[b].status = "acked" => command[b].status = "acked" \/ b = c
        BY <2>1, <2>2, <2>3
    <2>6. QED
        BY <1>1, <1>2, <1>3, <1>4, <2>4, <2>5 DEF ReceiveAck, Opened, c
<1>8. QED
    BY <1>6, <1>7

-----------------------------------------------------------------------------
(* What the actor does *)

LEMMA HelloViews ==
    ASSUME TypesOk, NEW k \in Opened, HandleHello(k)
    PROVE  /\ member'.known /\ member'.conn = k /\ member'.away = 0 /\ member'.recent = member.recent
           /\ \A j \in Opened : downlink'[j] = IF j = k /\ k = phone.conn
                                               THEN Append(downlink[k], Welcome) ELSE downlink[j]
           /\ \A j \in Opened : Range(downlink'[j]) \cap Ids = Range(downlink[j]) \cap Ids
<1>1. Welcome \in Downward /\ downlink' = Answered(k, Welcome)
    BY IdsAreNumbers DEF HandleHello
<1>2. \A j \in Opened : downlink'[j] = IF j = k /\ k = phone.conn
                                       THEN Append(downlink[k], Welcome) ELSE downlink[j]
    BY <1>1, AnsweredType
<1>3. downlink[k] \in Seq(Downward)
    BY ConnTypes
<1> DEFINE w == Welcome
           d == downlink[k]
<1>4. Range(Append(d, w)) = Range(d) \cup {w} /\ w \notin Ids
    <2>1. w \in Downward /\ d \in Seq(Downward) /\ w \notin Ids
        BY <1>1, <1>3, IdsAreNumbers
    <2> HIDE DEF w, d
    <2>2. QED
        BY <2>1, AppendRange
<1>5. \A j \in Opened : Range(downlink'[j]) \cap Ids = Range(downlink[j]) \cap Ids
    BY <1>2, <1>4
<1>6. member'.known /\ member'.conn = k /\ member'.away = 0 /\ member'.recent = member.recent
    BY DEF HandleHello, TypesOk
<1>7. QED
    BY <1>2, <1>5, <1>6

LEMMA LeaveViews ==
    ASSUME TypesOk, NEW k \in Opened, HandleLeave(k)
    PROVE  /\ member'.known = member.known /\ member'.recent = member.recent
           /\ member'.away = member.away
           /\ member'.conn = IF Speaks(k) THEN NoConn ELSE member.conn
BY DEF HandleLeave, TypesOk, Speaks

\* A command over the listener's connection: when the room does not remember
\* it, it is later than all that were applied.
LEMMA CommandViews ==
    ASSUME TypesOk, RemembersApplied, AppliedInOrder, Lines,
           NEW k \in Opened, NEW c \in Ids, HandleCommand(k, c), Speaks(k)
    PROVE  /\ \A j \in Opened : downlink'[j] = IF j = k /\ k = phone.conn
                                               THEN Append(downlink[k], c) ELSE downlink[j]
           /\ Range(applied') = Range(applied) \cup {c}
           /\ member'.known = member.known /\ member'.conn = member.conn
           /\ member'.away = member.away
           /\ Range(member'.recent) \subseteq Range(member.recent) \cup {c}
           /\ c \in Range(member'.recent)
           /\ \A d \in Range(member.recent) :
                \/ d \in Range(member'.recent)
                \/ Cardinality({e \in Ids : d < e /\ e \in Range(member.recent) \cup {c}})
                     >= RecentCommands
           /\ RemembersApplied' /\ AppliedInOrder'
           /\ \A b \in Pending(command) : b < c => b \in Range(applied)
           /\ \A d \in Range(applied) : c < d => c \in Range(applied)
<1>1. /\ Takes(k, c) /\ member.known /\ member.conn = k
      /\ downlink' = Answered(k, c) /\ c \in Downward
    BY IdsAreNumbers DEF HandleCommand, Speaks
<1>2. \A j \in Opened : downlink'[j] = IF j = k /\ k = phone.conn
                                       THEN Append(downlink[k], c) ELSE downlink[j]
    BY <1>1, AnsweredType
<1>3. uplink[k] # <<>> /\ uplink[k] \in Seq(Upward) /\ 1 \in DOMAIN uplink[k] /\ uplink[k][1] = c
    BY <1>1, TakesType, ConnTypes, TailRange
<1>4. InLine(uplink[k], 1, Pending(command), Range(applied), Range(member.recent))
    BY <1>3 DEF Lines
<1>5. \A b : ~Ahead(uplink[k], 1, b)
    BY DEF Ahead
<1>6. /\ \A b \in Pending(command) : b < c => b \in Range(applied)
      /\ \A d \in Range(applied) : c < d => c \in Range(applied)
      /\ c \in Range(applied) => c \in Range(member.recent)
    BY <1>3, <1>4, <1>5 DEF InLine
<1>7. member.recent \in Seq(Ids) /\ Len(member.recent) <= RecentCommands /\ applied \in Seq(Ids)
    BY DEF TypesOk
<1>8. CASE c \in Range(member.recent)
    <2>1. member' = member /\ applied' = applied
        BY <1>8 DEF HandleCommand, Speaks
    <2>2. c \in Range(applied)
        BY <1>8 DEF RemembersApplied
    <2>3. RemembersApplied' /\ AppliedInOrder'
        BY <2>1 DEF RemembersApplied, AppliedInOrder
    <2>4. QED
        BY <1>2, <1>6, <1>8, <2>1, <2>2, <2>3
<1>9. CASE c \notin Range(member.recent)
    <2> DEFINE recent == member.recent
    <2>1. /\ member' = [member EXCEPT !.recent = Remember(member.recent, c)]
          /\ applied' = Append(applied, c)
        BY <1>9 DEF HandleCommand, Speaks
    <2>2. /\ member'.known = member.known /\ member'.conn = member.conn
          /\ member'.away = member.away /\ member'.recent = Remember(recent, c)
        BY <2>1 DEF TypesOk
    <2>3. c \notin Range(applied)
        BY <1>6, <1>9
    <2>4. Range(applied) \subseteq Ids
        BY <1>7 DEF Range
    <2>5. \A d \in Range(applied) : d < c
        BY <1>6, <2>3, <2>4, IdsAreNumbers
    <2>6. /\ recent \in Seq(Ids) /\ Len(recent) <= RecentCommands
          /\ \A i, j \in DOMAIN recent : i < j => recent[i] < recent[j]
          /\ \A d \in Range(recent) : d < c
        BY <1>7, <2>5 DEF RemembersApplied
    <2>7. Range(Append(applied, c)) = Range(applied) \cup {c}
        BY <1>7, AppendRange
    <2>8. /\ DOMAIN Append(applied, c) = 1..(Len(applied) + 1) /\ DOMAIN applied = 1..Len(applied)
          /\ Append(applied, c)[Len(applied) + 1] = c /\ Len(applied) \in Nat
          /\ \A i \in 1..Len(applied) : Append(applied, c)[i] = applied[i] /\ applied[i] \in Range(applied)
        BY <1>7 DEF Range
    <2>9. AppliedInOrder'
        <3> SUFFICES ASSUME NEW i \in 1..(Len(applied) + 1), NEW j \in 1..(Len(applied) + 1), i < j
                     PROVE  Append(applied, c)[i] < Append(applied, c)[j]
            BY <2>1, <2>8 DEF AppliedInOrder
        <3>1. i \in 1..Len(applied)
            BY <2>8
        <3>2. CASE j \in 1..Len(applied)
            BY <2>8, <3>1, <3>2 DEF AppliedInOrder
        <3>3. CASE j = Len(applied) + 1
            BY <2>5, <2>8, <3>1, <3>3
        <3>4. QED
            BY <2>8, <3>2, <3>3
    <2> HIDE DEF recent
    <2>10. /\ Range(Remember(recent, c)) \subseteq Range(recent) \cup {c}
           /\ c \in Range(Remember(recent, c))
        BY <2>6, RememberType
    <2>11. /\ \A d \in Range(recent) :
                \/ d \in Range(Remember(recent, c))
                \/ Cardinality({e \in Ids : d < e /\ e \in Range(recent) \cup {c}}) >= RecentCommands
           /\ \A i, j \in DOMAIN Remember(recent, c) :
                i < j => Remember(recent, c)[i] < Remember(recent, c)[j]
        BY <2>6, DroppedIsOld
    <2>12. RemembersApplied'
        BY <1>1, <2>1, <2>2, <2>7, <2>10, <2>11 DEF RemembersApplied, recent
    <2>13. QED
        BY <1>2, <1>6, <2>1, <2>2, <2>7, <2>9, <2>10, <2>11, <2>12 DEF recent
<1>10. QED
    BY <1>8, <1>9

\* What is true of everything the server does.
ServerStep ==
    \/ \E k \in Opened : \/ HandleHello(k) \/ FinishJoin(k) \/ HandleLeave(k) \/ EndConnection(k)
                         \/ \E c \in Ids : HandleCommand(k, c)
    \/ ForgetMember \/ Restart

LEMMA ServerLinks ==
    ASSUME TypesOk, ServerStep
    PROVE  /\ command' = command /\ phone' = phone /\ Opened' = Opened /\ reading' \subseteq reading
           /\ \A j \in Opened : Range(uplink'[j]) \cap Ids \subseteq Range(uplink[j])
<1>1. ASSUME NEW k \in Opened, NEW message \in Upward, Takes(k, message)
      PROVE  /\ command' = command /\ phone' = phone /\ Opened' = Opened /\ reading' \subseteq reading
             /\ \A j \in Opened : Range(uplink'[j]) \subseteq Range(uplink[j])
    <2>1. Range(uplink'[k]) \subseteq Range(uplink[k])
        BY <1>1, TakesType, ConnTypes, TailRange
    <2>2. QED
        BY <1>1, <2>1, TakesType
<1>2. ASSUME NEW k \in Opened,
             HandleHello(k) \/ HandleLeave(k) \/ \E c \in Ids : HandleCommand(k, c)
      PROVE  \E message \in Upward : Takes(k, message)
    BY <1>2, IdsAreNumbers DEF HandleHello, HandleLeave, HandleCommand
<1>3. ASSUME NEW k \in Opened, EndConnection(k)
      PROVE  \A j \in Opened : Range(uplink'[j]) \cap Ids \subseteq Range(uplink[j])
    <2>1. PICK n \in 0..Len(uplink[k]) :
            LET posted == SubSeq(uplink[k], 1, n)
            IN  uplink'[k] = posted \/ uplink'[k] = Append(posted, Leave)
        BY <1>3, EndedType
    <2> DEFINE posted == SubSeq(uplink[k], 1, n)
               leave == Leave
    <2>2. posted \in Seq(Upward) /\ Range(posted) \subseteq Range(uplink[k]) /\ leave \in Upward
          /\ leave \notin Ids /\ (uplink'[k] = posted \/ uplink'[k] = Append(posted, leave))
        BY <2>1, ConnTypes, PrefixRange, IdsAreNumbers
    <2> HIDE DEF posted, leave
    <2>3. Range(Append(posted, leave)) = Range(posted) \cup {leave}
        BY <2>2, AppendRange
    <2>4. Range(uplink'[k]) \cap Ids \subseteq Range(uplink[k])
        BY <2>2, <2>3
    <2>5. \A j \in Opened : j # k => uplink'[j] = uplink[j]
        BY <1>3, EndedType
    <2>6. QED
        BY <2>4, <2>5
<1>4. CASE ForgetMember
    BY <1>4 DEF ForgetMember, Opened
<1>5. CASE Restart
    <2>1. Range(<<>>) = {}
        BY DEF Range
    <2>2. QED
        BY <1>5, <2>1, EmptiedType DEF Restart
<1>6. ASSUME NEW k \in Opened, FinishJoin(k) PROVE UNCHANGED <<command, phone, uplink, reading>>
    BY <1>6 DEF FinishJoin
<1>7. ASSUME NEW k \in Opened, EndConnection(k)
      PROVE  command' = command /\ phone' = phone /\ reading' \subseteq reading /\ Opened' = Opened
    BY <1>7, EndedType DEF EndConnection
<1>8. ASSUME NEW k \in Opened, FinishJoin(k)
      PROVE  /\ command' = command /\ phone' = phone /\ Opened' = Opened /\ reading' \subseteq reading
             /\ \A j \in Opened : Range(uplink'[j]) \cap Ids \subseteq Range(uplink[j])
    BY <1>6, <1>8 DEF Opened
<1>9. QED
    BY <1>1, <1>2, <1>3, <1>4, <1>5, <1>7, <1>8 DEF ServerStep

LEMMA ConnectViews ==
    ASSUME TypesOk, Connect
    PROVE  \E new :
             /\ Opened' = Opened \cup {new} /\ new \notin Opened /\ ~Speaks(new)
             /\ \A k \in Opened : uplink'[k] = uplink[k] /\ downlink'[k] = downlink[k] /\ k # new
             /\ uplink'[new] = <<Hello>> /\ downlink'[new] = <<>>
             /\ phone'.conn = new /\ ~phone'.online
             /\ UNCHANGED <<command, joined, member, applied, before>>
             /\ \A k \in Opened : k # phone'.conn
<1> DEFINE new == Len(uplink) + 1
<1>1. /\ uplink' = Append(uplink, <<Hello>>) /\ downlink' = Append(downlink, <<>>)
      /\ phone' = [conn |-> new, online |-> FALSE]
      /\ UNCHANGED <<command, joined, member, applied, before>>
    BY DEF Connect
<1>2. /\ uplink \in Seq(Seq(Upward)) /\ downlink \in Seq(Seq(Downward))
      /\ Len(downlink) = Len(uplink) /\ Len(uplink) \in Nat
    BY DEF TypesOk
<1>3. DOMAIN uplink' = 1..new /\ \A k \in 1..Len(uplink) : uplink'[k] = uplink[k]
      /\ uplink'[new] = <<Hello>>
    BY <1>1, <1>2
<1>4. /\ \A k \in 1..Len(uplink) : downlink'[k] = downlink[k]
      /\ downlink'[new] = <<>>
    BY <1>1, <1>2
<1>5. 1..new = (1..Len(uplink)) \cup {new} /\ new \notin 1..Len(uplink)
    BY <1>2
<1>6. ~Speaks(new)
    BY <1>2 DEF TypesOk, Speaks
<1>7. QED
    BY <1>1, <1>3, <1>4, <1>5, <1>6, OpenedIs DEF Opened

LEMMA DisconnectViews ==
    ASSUME TypesOk, Disconnect
    PROVE  /\ Opened' = Opened /\ phone'.conn = NoConn /\ \A k \in Opened : k # phone'.conn
           /\ UNCHANGED <<command, uplink, reading, joined, member, applied, before>>
           /\ \A k \in Opened : downlink'[k] \in {downlink[k], <<>>}
<1>1. phone.conn \in Opened /\ downlink' = [downlink EXCEPT ![phone.conn] = <<>>]
    BY OpenedIs DEF Disconnect, TypesOk, NoConn
<1>2. \A k \in Opened : downlink'[k] \in {downlink[k], <<>>}
    BY <1>1, OpenedIs
<1>3. phone'.conn = NoConn /\ \A k \in Opened : k # NoConn
    BY OpenedIs DEF Disconnect, NoConn
<1>4. QED
    BY <1>2, <1>3 DEF Disconnect, Opened

-----------------------------------------------------------------------------
(* The parts of the invariant, one after the other *)

LEMMA NextCases ==
    ASSUME TypesOk, GivenInOrder, [Next]_vars
    PROVE  \/ \E m : Writes(m)
           \/ Connect \/ Disconnect \/ ReceiveAck \/ ServerStep \/ Elapse \/ UNCHANGED vars
BY PhoneWrites DEF Next, ServerStep

\* Either a command is given, or none is that was not before, and no more are
\* pending.
LEMMA GivenViews ==
    ASSUME TypesOk, GivenInOrder, [Next]_vars
    PROVE  \/ \E c \in Ids : Give(c)
           \/ /\ Given' = Given /\ Pending(command)' \subseteq Pending(command)
              /\ \A c \in Ids \ Given : command'[c] = command[c]
<1>1. \A c \in Ids \ Given : command[c].status # "pending"
    BY DEF Given
<1>2. CASE ReceiveWelcome \/ Tick
    <2>1. \E again \in SUBSET Pending(command) : Rewrite(again)
        <3>1. ReceiveWelcome => Rewrite(Pending(command)) /\ Pending(command) \in SUBSET Pending(command)
            BY DEF ReceiveWelcome
        <3>2. Tick => \E again \in SUBSET Pending(command) : Rewrite(again)
            BY DEF Tick
        <3>3. QED
            BY <1>2, <3>1, <3>2
    <2>2. QED
        BY <1>1, <2>1, RewriteViews
<1>3. CASE ReceiveAck
    BY <1>1, <1>3, AckViews
<1>4. CASE Elapse
    BY <1>1, <1>4, ElapseViews DEF Pending, Given
<1>5. CASE command' = command
    BY <1>5 DEF Pending, Given
<1>6. Connect \/ Disconnect \/ UNCHANGED vars => command' = command
    BY DEF Connect, Disconnect, vars
<1>7. ServerStep => command' = command
    BY ServerLinks
<1>8. QED
    BY <1>2, <1>3, <1>4, <1>5, <1>6, <1>7 DEF Next, ServerStep

\* Acknowledgements come from the uplinks.
LEMMA ServerAnswers ==
    ASSUME TypesOk, ServerStep
    PROVE  \/ \A j \in Opened : Range(downlink'[j]) \cap Ids = Range(downlink[j]) \cap Ids
           \/ \E k \in Opened, c \in Ids :
                /\ HandleCommand(k, c) /\ Speaks(k) /\ c \in Range(uplink[k])
                /\ \A j \in Opened : downlink'[j] = IF j = k /\ k = phone.conn
                                                    THEN Append(downlink[k], c) ELSE downlink[j]
                /\ \A j \in Opened : Range(downlink'[j]) \subseteq Range(downlink[j]) \cup {c}
<1>1. ASSUME NEW k \in Opened, HandleHello(k)
      PROVE  \A j \in Opened : Range(downlink'[j]) \cap Ids = Range(downlink[j]) \cap Ids
    BY <1>1, HelloViews
<1>2. ASSUME NEW k \in Opened, NEW c \in Ids, HandleCommand(k, c), Speaks(k)
      PROVE  /\ c \in Range(uplink[k])
             /\ \A j \in Opened : downlink'[j] = IF j = k /\ k = phone.conn
                                                 THEN Append(downlink[k], c) ELSE downlink[j]
             /\ \A j \in Opened : Range(downlink'[j]) \subseteq Range(downlink[j]) \cup {c}
    <2>1. Takes(k, c) /\ c \in Downward /\ downlink' = Answered(k, c)
        BY <1>2, IdsAreNumbers DEF HandleCommand, Speaks
    <2>2. \A j \in Opened : downlink'[j] = IF j = k /\ k = phone.conn
                                           THEN Append(downlink[k], c) ELSE downlink[j]
        BY <2>1, AnsweredType
    <2> DEFINE d == downlink[k]
    <2>3. d \in Seq(Downward)
        BY ConnTypes
    <2> HIDE DEF d
    <2>4. Range(Append(d, c)) = Range(d) \cup {c}
        BY <2>1, <2>3, AppendRange
    <2>5. QED
        BY <2>1, <2>2, <2>4, TakesType DEF d
<1>3. ASSUME NEW k \in Opened, NEW c \in Ids, HandleCommand(k, c), ~Speaks(k)
      PROVE  downlink' = downlink
    BY <1>3 DEF HandleCommand
<1>4. ASSUME NEW k \in Opened, FinishJoin(k) \/ HandleLeave(k) \/ EndConnection(k)
      PROVE  downlink' = downlink
    BY <1>4 DEF FinishJoin, HandleLeave, EndConnection
<1>5. ForgetMember \/ Restart => downlink' = downlink
    BY DEF ForgetMember, Restart
<1>6. QED
    BY <1>1, <1>2, <1>3, <1>4, <1>5 DEF ServerStep

LEMMA NextGivenInOrder ==
    ASSUME IInv, [Next]_vars
    PROVE  GivenInOrder'
<1> USE DEF IInv
<1>1. /\ \A c \in Ids : c \notin Given' => command'[c] = NotGiven
      /\ \A c \in Given' : \A b \in Ids : b < c => b \in Given'
      /\ Given \subseteq Given' /\ Pending(command)' \subseteq Given'
    <2>1. ASSUME NEW c \in Ids, Give(c)
          PROVE  /\ \A b \in Ids : b \notin Given' => command'[b] = NotGiven
                 /\ \A d \in Given' : \A b \in Ids : b < d => b \in Given'
                 /\ Given \subseteq Given'
        BY <2>1, GiveViews DEF GivenInOrder
    <2>2. Pending(command)' \subseteq Given'
        BY DEF Pending, Given
    <2>3. QED
        BY <2>1, <2>2, GivenViews DEF GivenInOrder
<1>2. Range(applied') \subseteq Given'
    <2>1. CASE applied' = applied
        BY <1>1, <2>1 DEF GivenInOrder
    <2>2. CASE ServerStep /\ applied' # applied
        <3>1. \/ Restart
              \/ \E k \in Opened, c \in Ids : HandleCommand(k, c) /\ Speaks(k)
            BY <2>2 DEF ServerStep, HandleHello, FinishJoin, HandleLeave, EndConnection, HandleCommand,
                        ForgetMember
        <3>2. CASE Restart
            <4>1. Range(<<>>) = {}
                BY DEF Range
            <4>2. QED
                BY <3>2, <4>1 DEF Restart
        <3>3. ASSUME NEW k \in Opened, NEW c \in Ids, HandleCommand(k, c), Speaks(k)
              PROVE  Range(applied') \subseteq Given'
            <4>1. c \in Range(uplink[k])
                BY <3>3, TakesType DEF HandleCommand
            <4>2. Range(applied') = Range(applied) \cup {c}
                BY <3>3, CommandViews
            <4>3. QED
                BY <1>1, <4>1, <4>2 DEF GivenInOrder
        <3>4. QED
            BY <3>1, <3>2, <3>3
    <2>3. applied' = applied \/ ServerStep
        BY NextCases DEF Writes, Connect, Disconnect, ReceiveAck, Elapse, vars
    <2>4. QED
        BY <2>1, <2>2, <2>3
<1>3. \A k \in Opened' : /\ Range(uplink'[k]) \cap Ids \subseteq Given'
                         /\ Range(downlink'[k]) \cap Ids \subseteq Given'
    <2>1. ASSUME NEW m, Writes(m), NEW k \in Opened'
          PROVE  /\ Range(uplink'[k]) \cap Ids \subseteq Given'
                 /\ Range(downlink'[k]) \cap Ids \subseteq Given'
        <3>1. k \in Opened /\ Range(downlink'[k]) \cap Ids = Range(downlink[k]) \cap Ids
              /\ uplink'[k] \in {uplink[k], uplink[k] \o m}
            BY <2>1, WritesLinks
        <3>2. m \in Seq(Upward) /\ Range(m) \subseteq Given'
            BY <1>1, <2>1 DEF Writes, Upward
        <3> DEFINE q == uplink[k]
        <3>3. Range(uplink'[k]) \subseteq Range(q) \cup Range(m)
            <4>1. q \in Seq(Upward) /\ uplink'[k] \in {q, q \o m}
                BY <3>1, ConnTypes
            <4> HIDE DEF q
            <4>2. Range(q \o m) = Range(q) \cup Range(m)
                BY <3>2, <4>1, ConcatRange
            <4>3. QED
                BY <4>1, <4>2
        <3>4. QED
            BY <1>1, <3>1, <3>2, <3>3 DEF GivenInOrder
    <2>2. ASSUME Connect, NEW k \in Opened'
          PROVE  /\ Range(uplink'[k]) \cap Ids \subseteq Given'
                 /\ Range(downlink'[k]) \cap Ids \subseteq Given'
        <3>1. Range(<<>>) = {} /\ Range(<<Hello>>) = {Hello} /\ Hello \notin Ids
            BY IdsAreNumbers DEF Range
        <3>2. QED
            BY <1>1, <2>2, <3>1, ConnectViews DEF GivenInOrder
    <2>3. ASSUME Disconnect, NEW k \in Opened'
          PROVE  /\ Range(uplink'[k]) \cap Ids \subseteq Given'
                 /\ Range(downlink'[k]) \cap Ids \subseteq Given'
        <3>1. Range(<<>>) = {}
            BY DEF Range
        <3>2. QED
            BY <1>1, <2>3, <3>1, DisconnectViews DEF GivenInOrder
    <2>4. ASSUME ReceiveAck, NEW k \in Opened'
          PROVE  /\ Range(uplink'[k]) \cap Ids \subseteq Given'
                 /\ Range(downlink'[k]) \cap Ids \subseteq Given'
        <3>1. k \in Opened /\ Range(downlink'[k]) \subseteq Range(downlink[k])
            BY <2>4, AckViews
        <3>2. uplink' = uplink
            BY <2>4 DEF ReceiveAck
        <3>3. QED
            BY <1>1, <3>1, <3>2 DEF GivenInOrder
    <2>5. ASSUME ServerStep, NEW k \in Opened'
          PROVE  /\ Range(uplink'[k]) \cap Ids \subseteq Given'
                 /\ Range(downlink'[k]) \cap Ids \subseteq Given'
        <3>1. k \in Opened /\ Range(uplink'[k]) \cap Ids \subseteq Range(uplink[k])
            BY <2>5, ServerLinks
        <3>2. Range(downlink'[k]) \cap Ids \subseteq Given
            BY <2>5, <3>1, ServerAnswers DEF GivenInOrder
        <3>3. QED
            BY <1>1, <3>1, <3>2 DEF GivenInOrder
    <2>6. Elapse \/ UNCHANGED vars => UNCHANGED <<uplink, downlink>>
        BY DEF Elapse, vars
    <2>7. CASE UNCHANGED <<uplink, downlink>>
        BY <1>1, <2>7 DEF GivenInOrder, Opened
    <2>8. QED
        BY <2>1, <2>2, <2>3, <2>4, <2>5, <2>6, <2>7, NextCases
<1>4. QED
    BY <1>1, <1>2, <1>3 DEF GivenInOrder

LEMMA NextPendingAreLast ==
    ASSUME IInv, [Next]_vars
    PROVE  PendingAreLast'
<1> USE DEF IInv
<1>1. Pending(command) \in SUBSET Ids /\ Given \subseteq Ids
    BY DEF Pending, Given
<1>2. IsFiniteSet(Pending(command)) /\ Cardinality(Pending(command)) \in Nat
    BY <1>1, IdSets
<1>3. Cardinality(Pending(command)') <= MaxPending
    <2>1. ASSUME NEW c \in Ids, Give(c) PROVE Cardinality(Pending(command)') <= MaxPending
        <3> DEFINE P == Pending(command)
        <3>1. Pending(command)' = P \cup {c} /\ c \notin P /\ Cardinality(P) < MaxPending
            BY <2>1, GiveViews DEF Give, Pending, Given
        <3>2. IsFiniteSet(P) /\ Cardinality(P) \in Nat
            BY <1>2
        <3> HIDE DEF P
        <3>3. Cardinality(P \cup {c}) = Cardinality(P) + 1
            BY <3>1, <3>2, FS_AddElement
        <3>4. QED
            BY <3>1, <3>2, <3>3, RecentAssumption
    <2>2. ASSUME Pending(command)' \subseteq Pending(command)
          PROVE  Cardinality(Pending(command)') <= MaxPending
        <3> DEFINE P == Pending(command)
                   Q == Pending(command)'
        <3>1. P \in SUBSET Ids /\ Q \in SUBSET P /\ Cardinality(P) <= MaxPending
            BY <1>1, <2>2 DEF PendingAreLast
        <3> HIDE DEF P, Q
        <3>2. Cardinality(Q) <= Cardinality(P) /\ Cardinality(Q) \in Nat /\ Cardinality(P) \in Nat
            BY <3>1, IdSets
        <3>3. QED
            BY <3>1, <3>2, RecentAssumption DEF Q
    <2>3. QED
        BY <2>1, <2>2, GivenViews
<1>4. \A c \in Ids : command[c].age \in Nat
    BY DEF TypesOk, Views
<1>5. ASSUME NEW b \in Pending(command)', NEW c \in Given', b < c
      PROVE  c \in Pending(command)' /\ command'[c].age <= command'[b].age
    <2>1. b \in Ids /\ c \in Ids
        BY DEF Pending, Given
    <2>2. ASSUME NEW x \in Ids, Give(x)
          PROVE  c \in Pending(command)' /\ command'[c].age <= command'[b].age
        <3>1. b # x
            BY <1>5, <2>1, <2>2, GiveViews, IdsAreNumbers
        <3>2. b \in Pending(command) /\ command'[b] = command[b]
            BY <2>1, <2>2, <3>1, GiveViews
        <3>3. CASE c = x
            BY <1>4, <2>1, <2>2, <3>2, <3>3, GiveViews
        <3>4. CASE c # x
            <4>1. c \in Given /\ command'[c] = command[c]
                BY <2>1, <2>2, <3>4, GiveViews
            <4>2. QED
                BY <1>5, <2>2, <3>2, <4>1, GiveViews DEF PendingAreLast
        <3>5. QED
            BY <3>3, <3>4
    <2>3. ASSUME NEW again \in SUBSET Pending(command), Rewrite(again)
          PROVE  c \in Pending(command)' /\ command'[c].age <= command'[b].age
        <3>1. /\ b \in Pending(command) /\ ~Expired(b) /\ c \in Given
              /\ command'[b].age = command[b].age /\ command'[c].age = command[c].age
            BY <2>1, <2>3, RewriteViews
        <3>2. c \in Pending(command) /\ command[c].age <= command[b].age
            BY <1>5, <3>1 DEF PendingAreLast
        <3>3. ~Expired(c)
            BY <1>4, <2>1, <3>1, <3>2, AgesAssumption DEF Expired
        <3>4. QED
            BY <2>3, <3>1, <3>2, <3>3, RewriteViews
    <2>4. ASSUME ReceiveAck
          PROVE  c \in Pending(command)' /\ command'[c].age <= command'[b].age
        <3>1. PICK x \in Ids :
                /\ phone.conn \in Opened /\ downlink[phone.conn] # <<>> /\ x = Head(downlink[phone.conn])
                /\ Pending(command)' = Pending(command) \ {x} /\ Given' = Given
                /\ \A d \in Ids : command'[d].age = command[d].age
            BY <2>4, AckViews
        <3>2. c \in Pending(command) /\ command[c].age <= command[b].age /\ b \in Pending(command)
            BY <1>5, <3>1 DEF PendingAreLast
        <3>3. c # x
            <4> SUFFICES ASSUME c = x PROVE FALSE
                OBVIOUS
            <4>1. 1 \in DOMAIN downlink[phone.conn] /\ downlink[phone.conn][1] = c
                BY <3>1, ConnTypes, TailRange
            <4>2. Ahead(downlink[phone.conn], 1, b)
                BY <1>5, <2>1, <3>1, <3>2, <4>1 DEF AcksInOrder
            <4>3. QED
                BY <4>2 DEF Ahead
        <3>4. QED
            BY <2>1, <3>1, <3>2, <3>3
    <2>5. ASSUME Elapse
          PROVE  c \in Pending(command)' /\ command'[c].age <= command'[b].age
        <3>1. Pending(command)' = Pending(command) /\ Given' = Given
            BY <2>5, ElapseViews DEF Pending, Given
        <3>2. c \in Pending(command) /\ command[c].age <= command[b].age /\ b \in Pending(command)
            BY <1>5, <3>1 DEF PendingAreLast
        <3>3. \A d \in Pending(command) :
                command'[d].age = IF command[d].age <= CommandTTL THEN command[d].age + 1
                                  ELSE CommandTTL + 1
            BY <2>5, ElapseViews
        <3>4. QED
            BY <1>4, <2>1, <3>1, <3>2, <3>3, AgesAssumption
    <2>6. CASE command' = command
        BY <1>5, <2>6 DEF PendingAreLast, Pending, Given
    <2>7. Connect \/ Disconnect \/ UNCHANGED vars => command' = command
        BY DEF Connect, Disconnect, vars
    <2>8. ServerStep => command' = command
        BY ServerLinks
    <2>9. ReceiveWelcome \/ Tick => \E again \in SUBSET Pending(command) : Rewrite(again)
        <3>1. ReceiveWelcome => Rewrite(Pending(command)) /\ Pending(command) \in SUBSET Pending(command)
            BY DEF ReceiveWelcome
        <3>2. Tick => \E again \in SUBSET Pending(command) : Rewrite(again)
            BY DEF Tick
        <3>3. QED
            BY <3>1, <3>2
    <2>10. QED
        BY <2>2, <2>3, <2>4, <2>5, <2>6, <2>7, <2>8, <2>9 DEF Next, ServerStep
<1>6. QED
    BY <1>3, <1>5 DEF PendingAreLast

LEMMA NextHelloComesFirst ==
    ASSUME IInv, [Next]_vars
    PROVE  HelloComesFirst'
<1> USE DEF IInv
<1>1. SUFFICES ASSUME NEW k \in Opened', Hello \in Range(uplink'[k])
               PROVE  /\ Range(uplink'[k]) \cap Ids = {} /\ ~Speaks(k)'
                      /\ \A i, j \in DOMAIN uplink'[k] : uplink'[k][i] = Hello /\ uplink'[k][j] = Hello => i = j
                      /\ phone'.conn = k => ~phone'.online /\ downlink'[k] = <<>>
    BY DEF HelloComesFirst
<1> DEFINE Goal == /\ Range(uplink'[k]) \cap Ids = {} /\ ~Speaks(k)'
                   /\ \A i, j \in DOMAIN uplink'[k] : uplink'[k][i] = Hello /\ uplink'[k][j] = Hello => i = j
                   /\ phone'.conn = k => ~phone'.online /\ downlink'[k] = <<>>
\* Nothing happens to this connection.
<1>2. ASSUME k \in Opened, uplink'[k] = uplink[k], member' = member,
             phone'.conn = k => phone'.conn = phone.conn /\ phone'.online = phone.online
                                /\ downlink'[k] = downlink[k]
      PROVE  Goal
    BY <1>1, <1>2 DEF HelloComesFirst, Speaks
<1>3. ASSUME NEW m, Writes(m) PROVE Goal
    <2>1. k \in Opened /\ member' = member /\ phone'.conn = phone.conn
        BY <1>3, WritesLinks DEF Writes
    <2>2. k = phone.conn /\ k \in reading /\ Hello \in Range(uplink[k]) => m = <<>>
        BY <1>3, <2>1 DEF Writes, HelloComesFirst, ReceiveWelcome
    <2> DEFINE q == uplink[k]
    <2>3. q \in Seq(Upward) /\ uplink'[k] = IF k = phone.conn /\ k \in reading THEN q \o m ELSE q
        BY <1>3, <2>1, WritesLinks, ConnTypes
    <2>4. m \in Seq(Upward) /\ Hello \notin Range(m)
        BY <1>3, IdsAreNumbers DEF Writes, Upward, Range
    <2>5. Hello \in Range(q)
        <3> HIDE DEF q
        <3>1. Range(q \o m) = Range(q) \cup Range(m)
            BY <2>3, <2>4, ConcatRange
        <3>2. QED
            BY <1>1, <2>3, <2>4, <3>1
    <2>6. uplink'[k] = uplink[k]
        <3>1. k = phone.conn /\ k \in reading => m = <<>>
            BY <2>2, <2>5
        <3>2. q \o <<>> = q
            BY <2>3
        <3> HIDE DEF q
        <3>3. uplink'[k] = q
            BY <2>3, <3>1, <3>2
        <3>4. QED
            BY <3>3 DEF q
    <2>7. phone'.conn = k => phone' = phone /\ downlink' = downlink
        BY <1>3, <2>1, <2>5 DEF Writes, HelloComesFirst, ReceiveWelcome
    <2>8. QED
        BY <1>2, <2>1, <2>6, <2>7
<1>4. CASE Connect
    <2>1. PICK new :
             /\ Opened' = Opened \cup {new} /\ new \notin Opened /\ ~Speaks(new)
             /\ \A j \in Opened : uplink'[j] = uplink[j] /\ downlink'[j] = downlink[j] /\ j # new
             /\ uplink'[new] = <<Hello>> /\ downlink'[new] = <<>>
             /\ phone'.conn = new /\ ~phone'.online /\ member' = member
        BY <1>4, ConnectViews
    <2>2. CASE k \in Opened
        BY <1>2, <2>1, <2>2
    <2>3. CASE k = new
        <3>1. Range(<<Hello>>) = {Hello} /\ \A i, j \in DOMAIN <<Hello>> : i = j
            BY DEF Range
        <3>2. QED
            BY <2>1, <2>3, <3>1, IdsAreNumbers DEF Speaks
    <2>4. QED
        BY <2>1, <2>2, <2>3
<1>5. CASE Disconnect
    <2>1. Opened' = Opened /\ uplink' = uplink /\ member' = member /\ k # phone'.conn
        BY <1>5, DisconnectViews
    <2>2. QED
        BY <1>2, <2>1
<1>6. CASE ReceiveAck
    <2>1. /\ k \in Opened /\ uplink' = uplink /\ member' = member /\ phone' = phone
          /\ downlink[phone.conn] # <<>> /\ phone.conn \in Opened
        BY <1>6, AckViews DEF ReceiveAck
    <2>2. phone.conn # k
        BY <1>1, <2>1 DEF HelloComesFirst
    <2>3. QED
        BY <1>2, <2>1, <2>2
<1>7. CASE Elapse
    <2>1. UNCHANGED <<phone, uplink, downlink>> /\ member'.known = member.known /\ member'.conn = member.conn
        BY <1>7, ElapseViews DEF Elapse
    <2>2. QED
        BY <1>1, <2>1 DEF HelloComesFirst, Speaks, Opened
<1>8. CASE UNCHANGED vars
    BY <1>2, <1>8 DEF vars, Opened
\* The line of this connection becomes shorter.
<1>9. ASSUME k \in Opened, NEW n \in Nat,
             \A i \in DOMAIN uplink'[k] : \/ uplink'[k][i] = Leave
                                          \/ i + n \in DOMAIN uplink[k] /\ uplink'[k][i] = uplink[k][i + n],
             \A i \in DOMAIN uplink'[k] : i \in Int,
             ~Speaks(k) => ~Speaks(k)', phone' = phone, downlink'[k] = downlink[k]
      PROVE  Goal
    <2>1. Hello \in Range(uplink[k])
        BY <1>1, <1>9, IdsAreNumbers DEF Range
    <2>2. /\ Range(uplink[k]) \cap Ids = {} /\ ~Speaks(k)
          /\ \A i, j \in DOMAIN uplink[k] : uplink[k][i] = Hello /\ uplink[k][j] = Hello => i = j
          /\ phone.conn = k => ~phone.online /\ downlink[k] = <<>>
        BY <1>9, <2>1 DEF HelloComesFirst
    <2>3. Range(uplink'[k]) \cap Ids = {}
        BY <1>9, <2>2, IdsAreNumbers DEF Range
    <2>4. ASSUME NEW i \in DOMAIN uplink'[k], NEW j \in DOMAIN uplink'[k],
                 uplink'[k][i] = Hello, uplink'[k][j] = Hello
          PROVE  i = j
        <3>1. i + n = j + n /\ i \in Int /\ j \in Int
            BY <1>9, <2>2, <2>4, IdsAreNumbers
        <3>2. QED
            BY <3>1
    <2>5. QED
        BY <1>9, <2>2, <2>3, <2>4
\* Something else than a hello is taken from it.
<1>10. ASSUME NEW message, Takes(k, message), k \in Opened,
              ~Speaks(k) => ~Speaks(k)', downlink'[k] = downlink[k]
       PROVE  Goal
    <2>1. uplink'[k] = Tail(uplink[k]) /\ phone' = phone /\ uplink[k] # <<>> /\ uplink[k] \in Seq(Upward)
        BY <1>10, TakesType, ConnTypes
    <2>2. \A i \in DOMAIN uplink'[k] : i + 1 \in DOMAIN uplink[k] /\ uplink'[k][i] = uplink[k][i + 1] /\ i \in Int
        BY <2>1, TailRange
    <2>3. 1 \in Nat
        OBVIOUS
    <2>4. QED
        BY <1>9, <1>10, <2>1, <2>2, <2>3
<1>11. CASE ServerStep
    <2>1. /\ command' = command /\ phone' = phone /\ Opened' = Opened /\ k \in Opened
        BY <1>11, ServerLinks
    <2>2. ASSUME NEW j \in Opened, HandleHello(j) PROVE Goal
        <3>1. Takes(j, Hello) /\ member'.conn = j
            BY <2>2, HelloViews DEF HandleHello
        <3>2. CASE j = k
            <4> DEFINE q == uplink[k]
            <4>1. q \in Seq(Upward) /\ q # <<>> /\ q[1] = Hello /\ 1 \in DOMAIN q /\ uplink'[k] = Tail(q)
                BY <3>1, <3>2, TakesType, ConnTypes, TailRange
            <4>2. \A i \in DOMAIN q : q[i] = Hello => i = 1
                <5>1. Hello \in Range(uplink[k])
                    BY <4>1 DEF Range
                <5>2. \A h, i \in DOMAIN q : q[h] = Hello /\ q[i] = Hello => h = i
                    BY <2>1, <5>1 DEF HelloComesFirst
                <5>3. QED
                    BY <4>1, <5>2
            <4>3. \A i \in DOMAIN Tail(q) : i + 1 \in DOMAIN q /\ Tail(q)[i] = q[i + 1] /\ i \in Nat \ {0}
                BY <4>1, TailRange
            <4>4. Hello \notin Range(Tail(q))
                BY <4>2, <4>3 DEF Range
            <4>5. QED
                BY <1>1, <4>1, <4>4
        <3>3. CASE j # k
            <4>1. uplink'[k] = uplink[k] /\ downlink'[k] = downlink[k] /\ ~Speaks(k)'
                BY <2>1, <2>2, <3>1, <3>3, TakesType, HelloViews DEF Speaks
            <4>2. QED
                BY <1>1, <2>1, <4>1 DEF HelloComesFirst
        <3>4. QED
            BY <3>2, <3>3
    <2>3. ASSUME NEW j \in Opened, NEW c \in Ids, HandleCommand(j, c) PROVE Goal
        <3>1. Takes(j, c) /\ (Speaks(k)' <=> Speaks(k))
            <4>1. CASE Speaks(j)
                BY <2>3, <4>1, CommandViews DEF HandleCommand, Speaks
            <4>2. CASE ~Speaks(j)
                BY <2>3, <4>2 DEF HandleCommand, Speaks
            <4>3. QED
                BY <4>1, <4>2
        <3>2. CASE j = k
            <4>1. c \in Range(uplink[k]) /\ c \in Ids
                BY <3>1, <3>2, TakesType
            <4>2. Hello \notin Range(uplink[k])
                BY <2>1, <4>1 DEF HelloComesFirst
            <4>3. Range(uplink'[k]) \subseteq Range(uplink[k])
                BY <3>1, <3>2, TakesType, ConnTypes, TailRange
            <4>4. QED
                BY <1>1, <4>2, <4>3
        <3>3. CASE j # k
            <4>1. uplink'[k] = uplink[k]
                BY <2>1, <3>1, <3>3, TakesType
            <4>2. downlink'[k] = downlink[k]
                <5>1. CASE Speaks(j)
                    BY <2>1, <2>3, <3>3, <5>1, CommandViews
                <5>2. CASE ~Speaks(j)
                    BY <2>3, <5>2 DEF HandleCommand
                <5>3. QED
                    BY <5>1, <5>2
            <4>3. QED
                BY <1>1, <2>1, <3>1, <4>1, <4>2 DEF HelloComesFirst
        <3>4. QED
            BY <3>2, <3>3
    <2>4. ASSUME NEW j \in Opened, HandleLeave(j) PROVE Goal
        <3>1. Takes(j, Leave) /\ downlink' = downlink /\ (~Speaks(k) => ~Speaks(k)')
            BY <2>1, <2>4, LeaveViews, OpenedIs DEF HandleLeave, Speaks, NoConn
        <3>2. CASE j = k
            BY <1>10, <2>1, <3>1, <3>2
        <3>3. CASE j # k
            <4>1. uplink'[k] = uplink[k]
                BY <2>1, <3>1, <3>3, TakesType
            <4>2. QED
                BY <1>1, <2>1, <3>1, <4>1 DEF HelloComesFirst
        <3>4. QED
            BY <3>2, <3>3
    <2>5. ASSUME NEW j \in Opened, EndConnection(j) PROVE Goal
        <3>1. member' = member /\ downlink' = downlink /\ \A i \in Opened : i # j => uplink'[i] = uplink[i]
            BY <2>5, EndedType DEF EndConnection
        <3>2. CASE j = k
            <4>1. PICK n \in 0..Len(uplink[k]) :
                    LET posted == SubSeq(uplink[k], 1, n)
                    IN  uplink'[k] = posted \/ uplink'[k] = Append(posted, Leave)
                BY <2>5, <3>2, EndedType
            <4> DEFINE posted == SubSeq(uplink[k], 1, n)
            <4>2. /\ posted \in Seq(Upward) /\ Len(posted) = n /\ n \in Nat /\ DOMAIN posted = 1..n
                  /\ \A i \in 1..n : i \in DOMAIN uplink[k] /\ posted[i] = uplink[k][i]
                  /\ uplink'[k] = posted \/ uplink'[k] = Append(posted, Leave)
                BY <2>1, <4>1, ConnTypes, PrefixRange
            <4> HIDE DEF posted
            <4>3. /\ DOMAIN Append(posted, Leave) = 1..(n + 1) /\ Append(posted, Leave)[n + 1] = Leave
                  /\ \A i \in 1..n : Append(posted, Leave)[i] = posted[i]
                BY <4>2
            <4>4. \A i \in 1..(n + 1) : i \in 1..n \/ i = n + 1
                BY <4>2
            <4>5. \A i \in DOMAIN uplink'[k] : /\ i \in Int
                                               /\ \/ uplink'[k][i] = Leave
                                                  \/ i \in DOMAIN uplink[k] /\ uplink'[k][i] = uplink[k][i]
                BY <4>2, <4>3, <4>4
            <4>6. \A i \in DOMAIN uplink'[k] : i + 0 = i
                BY <4>5
            <4>7. 0 \in Nat
                OBVIOUS
            <4>8. QED
                BY <1>9, <2>1, <3>1, <4>5, <4>6, <4>7 DEF Speaks
        <3>3. CASE j # k
            BY <1>2, <2>1, <3>1, <3>3
        <3>4. QED
            BY <3>2, <3>3
    <2>6. ASSUME NEW j \in Opened, FinishJoin(j) PROVE Goal
        BY <1>2, <2>1, <2>6 DEF FinishJoin
    <2>7. CASE ForgetMember
        <3>1. ~Speaks(k)' /\ uplink' = uplink /\ downlink' = downlink
            BY <2>7 DEF ForgetMember, Speaks, NoMember
        <3>2. QED
            BY <1>1, <2>1, <3>1 DEF HelloComesFirst
    <2>8. CASE Restart
        <3>1. Range(<<>>) = {}
            BY DEF Range
        <3>2. QED
            BY <1>1, <2>1, <2>8, <3>1, EmptiedType
    <2>9. QED
        BY <1>11, <2>2, <2>3, <2>4, <2>5, <2>6, <2>7, <2>8 DEF ServerStep
<1>12. CASE \E m : Writes(m)
    BY <1>3, <1>12
<1>13. Goal
    BY <1>4, <1>5, <1>6, <1>7, <1>8, <1>11, <1>12, NextCases
<1>14. QED
    BY <1>13

LEMMA RoomCases ==
    ASSUME TypesOk, GivenInOrder, [Next]_vars
    PROVE  \/ member' = member /\ applied' = applied
           \/ Elapse \/ ForgetMember \/ Restart
           \/ \E k \in Opened : HandleHello(k) \/ HandleLeave(k)
           \/ \E k \in Opened, c \in Ids : HandleCommand(k, c) /\ Speaks(k)
<1>1. Connect \/ Disconnect \/ ReceiveAck \/ UNCHANGED vars => member' = member /\ applied' = applied
    BY DEF Connect, Disconnect, ReceiveAck, vars
<1>2. \A m : Writes(m) => member' = member /\ applied' = applied
    BY DEF Writes
<1>3. \A k \in Opened : FinishJoin(k) \/ EndConnection(k) => member' = member /\ applied' = applied
    BY DEF FinishJoin, EndConnection
<1>4. \A k \in Opened, c \in Ids :
        HandleCommand(k, c) /\ ~Speaks(k) => member' = member /\ applied' = applied
    BY DEF HandleCommand
<1>5. ServerStep => \/ member' = member /\ applied' = applied
                    \/ ForgetMember \/ Restart
                    \/ \E k \in Opened : HandleHello(k) \/ HandleLeave(k)
                    \/ \E k \in Opened, c \in Ids : HandleCommand(k, c) /\ Speaks(k)
    BY <1>3, <1>4 DEF ServerStep
<1>6. CASE \E m : Writes(m)
    BY <1>2, <1>6
<1>7. QED
    BY <1>1, <1>5, <1>6, NextCases

LEMMA NextRemembersApplied ==
    ASSUME IInv, [Next]_vars
    PROVE  RemembersApplied' /\ AppliedInOrder'
<1> USE DEF IInv
<1>1. CASE member' = member /\ applied' = applied
    BY <1>1 DEF RemembersApplied, AppliedInOrder
<1>2. CASE Elapse
    <2>1. applied' = applied /\ member'.recent = member.recent /\ member'.known = member.known
          /\ member'.conn = member.conn /\ (member.conn # NoConn => member'.away = member.away)
        BY <1>2, ElapseViews DEF Elapse
    <2>2. QED
        BY <2>1 DEF RemembersApplied, AppliedInOrder
<1>3. /\ NoMember.recent = <<>> /\ ~NoMember.known /\ NoMember.conn = NoConn
      /\ Range(<<>>) = {} /\ DOMAIN <<>> = {}
    BY DEF NoMember, Range
<1>4. CASE ForgetMember \/ Restart
    <2>1. member' = NoMember /\ (applied' = applied \/ applied' = <<>>)
        BY <1>4 DEF ForgetMember, Restart
    <2>2. RemembersApplied'
        BY <1>3, <2>1 DEF RemembersApplied
    <2>3. AppliedInOrder'
        BY <1>3, <2>1 DEF AppliedInOrder
    <2>4. QED
        BY <2>2, <2>3
<1>5. ASSUME NEW k \in Opened, HandleHello(k) PROVE RemembersApplied' /\ AppliedInOrder'
    <2>1. applied' = applied
        BY <1>5 DEF HandleHello
    <2>2. QED
        BY <1>5, <2>1, HelloViews DEF RemembersApplied, AppliedInOrder
<1>6. ASSUME NEW k \in Opened, HandleLeave(k) PROVE RemembersApplied' /\ AppliedInOrder'
    <2>1. applied' = applied
        BY <1>6 DEF HandleLeave
    <2>2. QED
        BY <1>6, <2>1, LeaveViews DEF RemembersApplied, AppliedInOrder
<1>7. ASSUME NEW k \in Opened, NEW c \in Ids, HandleCommand(k, c), Speaks(k)
      PROVE  RemembersApplied' /\ AppliedInOrder'
    BY <1>7, CommandViews
<1>8. QED
    BY <1>1, <1>2, <1>4, <1>5, <1>6, <1>7, RoomCases

\* What becomes pending is later than all that were given.
LEMMA NoneBefore ==
    ASSUME TypesOk, GivenInOrder, [Next]_vars, NEW b \in Pending(command)', NEW c \in Given, b < c
    PROVE  b \in Pending(command)
<1>1. ASSUME NEW x \in Ids, Give(x) PROVE b \in Pending(command)
    <2>1. c < x /\ c \in Ids /\ b \in Ids
        BY <1>1, GiveViews DEF Given, Pending
    <2>2. b # x
        BY <2>1, IdsAreNumbers
    <2>3. QED
        BY <1>1, <2>2, GiveViews
<1>2. QED
    BY <1>1, GivenViews

LEMMA NextAppliedInTurn ==
    ASSUME IInv, [Next]_vars
    PROVE  AppliedInTurn'
<1> USE DEF IInv
<1>1. SUFFICES ASSUME NEW b \in Pending(command)', NEW c \in Range(applied'), b < c
               PROVE  b \in Range(applied')
    BY DEF AppliedInTurn
<1>2. b \in Ids
    BY DEF Pending
<1>3. c \in Range(applied) => b \in Pending(command)
    BY <1>1, NoneBefore DEF GivenInOrder
<1>4. CASE applied' = applied
    BY <1>1, <1>3, <1>4 DEF AppliedInTurn
<1>5. CASE Restart
    BY <1>5 DEF Restart, Range
<1>6. ASSUME NEW k \in Opened, NEW x \in Ids, HandleCommand(k, x), Speaks(k)
      PROVE  b \in Range(applied')
    <2>1. Pending(command)' = Pending(command)
        BY <1>6 DEF HandleCommand, Takes, Pending
    <2>2. QED
        BY <1>1, <1>6, <2>1, CommandViews DEF AppliedInTurn
<1>7. QED
    BY <1>4, <1>5, <1>6, RoomCases DEF Elapse, ForgetMember, HandleHello, HandleLeave

\* What is later than a command that is pending is not too much to remember.
LEMMA FewAreLater ==
    ASSUME NEW P \in SUBSET Ids, Cardinality(P) <= MaxPending, NEW x \in P,
           NEW E \in SUBSET P, \A d \in E : x < d
    PROVE  Cardinality(E) < RecentCommands
<1>1. x \notin E /\ E \in SUBSET Ids /\ E \cup {x} \in SUBSET P
    BY IdsAreNumbers
<1>2. IsFiniteSet(E) /\ Cardinality(E) \in Nat
    BY <1>1, IdSets
<1>3. Cardinality(E \cup {x}) = Cardinality(E) + 1
    BY <1>1, <1>2, FS_AddElement
<1> DEFINE U == E \cup {x}
<1>4. U \in SUBSET P
    BY <1>1
<1> HIDE DEF U
<1>5. Cardinality(U) <= Cardinality(P) /\ Cardinality(P) \in Nat
    BY <1>4, IdSets
<1>6. QED
    BY <1>2, <1>3, <1>5, RecentAssumption DEF U

LEMMA NextPendingAreRemembered ==
    ASSUME IInv, [Next]_vars
    PROVE  PendingAreRemembered'
<1> USE DEF IInv
<1>1. SUFFICES ASSUME NEW c \in Pending(command)', c \in Range(applied')
               PROVE  /\ ~Expired(c)' => c \in Range(member'.recent)
                      /\ member'.known => member'.away <= command'[c].age \/ Expired(c)'
    BY DEF PendingAreRemembered
<1>2. c \in Ids /\ \A d \in Ids : command[d].age \in Nat
    BY DEF Pending, TypesOk, Views
<1>3. member.away \in Nat
    BY DEF TypesOk
\* What was applied before was given before.
<1>4. ASSUME c \in Range(applied), ~Elapse
      PROVE  /\ c \in Pending(command) /\ command'[c].age = command[c].age /\ (Expired(c)' <=> Expired(c))
             /\ ~Expired(c) => c \in Range(member.recent)
             /\ member.known => member.away <= command[c].age \/ Expired(c)
    <2>1. c \in Given
        BY <1>4 DEF GivenInOrder
    <2>2. c \in Pending(command) /\ command'[c].age = command[c].age
        <3>1. ASSUME NEW m, Writes(m) PROVE c \in Pending(command) /\ command'[c].age = command[c].age
            BY <1>2, <2>1, <3>1 DEF Writes
        <3>2. CASE ReceiveAck
            BY <1>2, <3>2, AckViews
        <3>3. CASE command' = command
            BY <3>3 DEF Pending
        <3>4. Connect \/ Disconnect \/ UNCHANGED vars => command' = command
            BY DEF Connect, Disconnect, vars
        <3>5. ServerStep => command' = command
            BY ServerLinks
        <3>6. CASE \E m : Writes(m)
            BY <3>1, <3>6
        <3>7. QED
            BY <1>4, <3>2, <3>3, <3>4, <3>5, <3>6, NextCases
    <2>3. QED
        BY <1>4, <2>2 DEF PendingAreRemembered, Expired
<1>5. CASE member' = member /\ applied' = applied /\ ~Elapse
    BY <1>1, <1>4, <1>5
<1>6. CASE Elapse
    <2>1. /\ applied' = applied /\ member'.recent = member.recent /\ member'.known = member.known
          /\ member'.away <= member.away + 1 /\ Pending(command)' = Pending(command) /\ member'.away \in Nat
        BY <1>6, ElapseViews DEF Elapse, Pending
    <2>2. command'[c].age = IF command[c].age <= CommandTTL THEN command[c].age + 1
                            ELSE CommandTTL + 1
        BY <1>6, <2>1, ElapseViews
    <2>3. Expired(c) => Expired(c)'
        BY <1>2, <2>2, AgesAssumption DEF Expired
    <2>4. ~Expired(c) => command'[c].age = command[c].age + 1
        BY <1>2, <2>2, AgesAssumption DEF Expired
    <2>5. /\ ~Expired(c) => c \in Range(member.recent)
          /\ member.known => member.away <= command[c].age \/ Expired(c)
        BY <1>1, <2>1 DEF PendingAreRemembered
    <2>6. ~Expired(c) /\ member.known => member'.away <= command'[c].age
        BY <1>2, <1>3, <2>1, <2>4, <2>5
    <2>7. QED
        BY <2>1, <2>3, <2>5, <2>6
<1>7. CASE ForgetMember /\ ~Elapse
    <2>1. /\ applied' = applied /\ member.known /\ member.away > MemberGrace /\ ~member'.known
        BY <1>7 DEF ForgetMember, NoMember
    <2>2. member.away <= command[c].age => Expired(c)
        BY <1>2, <1>3, <2>1, AgesAssumption DEF Expired
    <2>3. QED
        BY <1>1, <1>4, <1>7, <2>1, <2>2
<1>8. CASE Restart
    BY <1>1, <1>8 DEF Restart, Range
<1>9. ASSUME NEW k \in Opened, HandleHello(k), ~Elapse
      PROVE  /\ ~Expired(c)' => c \in Range(member'.recent)
             /\ member'.known => member'.away <= command'[c].age \/ Expired(c)'
    <2>1. applied' = applied
        BY <1>9 DEF HandleHello
    <2>2. QED
        BY <1>1, <1>2, <1>4, <1>9, <2>1, HelloViews
<1>10. ASSUME NEW k \in Opened, HandleLeave(k), ~Elapse
       PROVE  /\ ~Expired(c)' => c \in Range(member'.recent)
              /\ member'.known => member'.away <= command'[c].age \/ Expired(c)'
    <2>1. applied' = applied
        BY <1>10 DEF HandleLeave
    <2>2. QED
        BY <1>1, <1>4, <1>10, <2>1, LeaveViews
<1>11. ASSUME NEW k \in Opened, NEW x \in Ids, HandleCommand(k, x), Speaks(k), ~Elapse
       PROVE  /\ ~Expired(c)' => c \in Range(member'.recent)
              /\ member'.known => member'.away <= command'[c].age \/ Expired(c)'
    <2>1. command' = command
        BY <1>11 DEF HandleCommand, Takes
    <2>2. k # NoConn /\ member'.away = 0
        BY <1>11, ConnTypes, CommandViews DEF RemembersApplied, Speaks
    <2>3. 0 <= command'[c].age
        BY <1>2, <2>1
    <2>4. ASSUME ~Expired(c)' PROVE c \in Range(member'.recent)
        <3>1. CASE c = x
            BY <1>11, <3>1, CommandViews
        <3>2. CASE c # x
            <4> DEFINE E == {e \in Ids : c < e /\ e \in Range(member.recent) \cup {x}}
                       P == Pending(command)
            <4>1. c \in Range(applied)
                BY <1>1, <1>11, <3>2, CommandViews
            <4>2. c \in Range(member.recent) /\ c \in P
                BY <1>4, <1>11, <2>4, <4>1
            <4>3. c \in Range(member'.recent) \/ Cardinality(E) >= RecentCommands
                BY <1>11, <4>2, CommandViews
            <4>4. x \in Given
                BY <1>11, TakesType DEF HandleCommand, GivenInOrder
            <4>5. Range(member.recent) \subseteq Given
                BY DEF RemembersApplied, GivenInOrder
            <4>6. E \subseteq P
                BY <4>2, <4>4, <4>5 DEF PendingAreLast
            <4>7. /\ P \in SUBSET Ids /\ Cardinality(P) <= MaxPending /\ E \in SUBSET P
                  /\ \A d \in E : c < d
                BY <4>6 DEF Pending, PendingAreLast
            <4>8. E \in SUBSET Ids
                OBVIOUS
            <4> HIDE DEF E, P
            <4>9. Cardinality(E) < RecentCommands /\ Cardinality(E) \in Nat
                BY <4>2, <4>7, <4>8, FewAreLater, IdSets
            <4>10. QED
                BY <4>3, <4>9, RecentAssumption
        <3>3. QED
            BY <3>1, <3>2
    <2>5. QED
        BY <2>2, <2>3, <2>4
<1>12. QED
    BY <1>5, <1>6, <1>7, <1>8, <1>9, <1>10, <1>11, RoomCases

LEMMA AheadOf ==
    ASSUME NEW m \in Seq(Ids), \A i, j \in DOMAIN m : i < j => m[i] < m[j],
           NEW i \in DOMAIN m, NEW b \in Range(m), b < m[i]
    PROVE  Ahead(m, i, b)
<1>1. PICK j \in DOMAIN m : m[j] = b
    BY DEF Range
<1>2. m[i] \in Int /\ m[j] \in Int /\ i \in Nat /\ j \in Nat \ {0}
    BY IdsAreNumbers
<1>3. j < i
    <2>1. ~(i < j) /\ i # j
        BY <1>1, <1>2
    <2>2. QED
        BY <1>2, <2>1
<1>4. j \in 1..(i - 1)
    BY <1>2, <1>3
<1>5. QED
    BY <1>1, <1>4 DEF Ahead

\* Over the listener's connection, what is written finds everything that is
\* pending sent before.
LEMMA WritesInTurn ==
    ASSUME IInv, NEW m, Writes(m), NEW k \in Opened, k = phone.conn, k \in reading, Speaks(k)
    PROVE  /\ \A i \in DOMAIN m : \A b \in Pending(command)' :
                b < m[i] => Ahead(m, i, b) \/ b \in Range(uplink[k]) \cup Range(downlink[k])
           /\ phone'.online => Pending(command)' \subseteq Range(uplink[k]) \cup Range(m) \cup Range(downlink[k])
<1>1. /\ m \in Seq(Ids) /\ \A i, j \in DOMAIN m : i < j => m[i] < m[j]
      /\ m # <<>> => phone.online \/ ReceiveWelcome
      /\ phone'.online /\ phone.online => \A c \in Pending(command)' : c \in Pending(command) \/ c \in Range(m)
      /\ ReceiveWelcome => Pending(command)' = Range(m)
      /\ phone' = phone \/ ReceiveWelcome
    BY DEF Writes
<1>2. phone.online => Pending(command) \subseteq Range(uplink[k]) \cup Range(downlink[k])
    BY DEF IInv, SentInOrder
<1>3. phone'.online => Pending(command)' \subseteq Range(uplink[k]) \cup Range(m) \cup Range(downlink[k])
    BY <1>1, <1>2
<1>4. ASSUME NEW i \in DOMAIN m, NEW b \in Pending(command)', b < m[i]
      PROVE  Ahead(m, i, b) \/ b \in Range(uplink[k]) \cup Range(downlink[k])
    <2>1. m # <<>>
        OBVIOUS
    <2>2. CASE b \in Range(m)
        BY <1>1, <1>4, <2>2, AheadOf
    <2>3. CASE b \notin Range(m)
        BY <1>1, <1>2, <2>1, <2>3
    <2>4. QED
        BY <2>2, <2>3
<1>5. QED
    BY <1>3, <1>4

\* What a step may do to the connection of the listener.
Calm(k) ==
    /\ Speaks(k) /\ Pending(command)' \subseteq Pending(command)
    /\ applied' = applied /\ member'.recent = member.recent
    /\ \A i \in DOMAIN uplink'[k] :
          uplink'[k][i] \in Ids => i \in DOMAIN uplink[k] /\ \A j \in 1..i : uplink'[k][j] = uplink[k][j]
    /\ k \in reading' => k \in reading /\ uplink'[k] = uplink[k]
    /\ k = phone'.conn => phone' = phone /\ (downlink'[k] = downlink[k] \/ ReceiveAck)

LEMMA SpeakerCases ==
    ASSUME IInv, [Next]_vars, NEW k \in Opened', Speaks(k)'
    PROVE  /\ k \in Opened
           /\ \/ Speaks(k) /\ \E m : Writes(m)
              \/ HandleHello(k) /\ Range(uplink'[k]) \cap Ids = {}
              \/ Speaks(k) /\ \E c \in Ids : HandleCommand(k, c)
              \/ Calm(k)
<1> USE DEF IInv
<1> DEFINE Cases == \/ Speaks(k) /\ \E m : Writes(m)
                    \/ HandleHello(k) /\ Range(uplink'[k]) \cap Ids = {}
                    \/ Speaks(k) /\ \E c \in Ids : HandleCommand(k, c)
                    \/ Calm(k)
\* Nothing happens to its uplink.
<1>1. ASSUME k \in Opened, Speaks(k), Pending(command)' \subseteq Pending(command),
             applied' = applied, member'.recent = member.recent, uplink'[k] = uplink[k],
             k \in reading' => k \in reading,
             k = phone'.conn => phone' = phone /\ (downlink'[k] = downlink[k] \/ ReceiveAck)
      PROVE  Calm(k)
    BY <1>1 DEF Calm
<1>2. ASSUME NEW m, Writes(m) PROVE k \in Opened /\ Cases
    <2>1. k \in Opened /\ member' = member
        BY <1>2, WritesLinks DEF Writes
    <2>2. QED
        BY <1>2, <2>1 DEF Speaks
<1>3. CASE Connect
    <2>1. PICK new :
             /\ Opened' = Opened \cup {new} /\ ~Speaks(new)
             /\ \A j \in Opened : uplink'[j] = uplink[j] /\ downlink'[j] = downlink[j]
             /\ UNCHANGED <<command, member, applied>>
             /\ \A j \in Opened : j # phone'.conn /\ j # new
        BY <1>3, ConnectViews
    <2>2. reading' = reading \cup {Len(uplink) + 1} /\ phone' = [conn |-> Len(uplink) + 1, online |-> FALSE]
        BY <1>3 DEF Connect
    <2>3. k \in Opened /\ Speaks(k)
        BY <2>1 DEF Speaks
    <2>4. k \in reading' => k \in reading
        BY <2>2, <2>3, OpenedIs
    <2>5. Calm(k)
        BY <1>1, <2>1, <2>3, <2>4 DEF Pending
    <2>6. QED
        BY <2>3, <2>5
<1>4. CASE Disconnect
    <2>1. Opened' = Opened /\ UNCHANGED <<command, uplink, reading, member, applied>>
          /\ \A j \in Opened : j # phone'.conn
        BY <1>4, DisconnectViews
    <2>2. Calm(k)
        BY <1>1, <2>1 DEF Pending, Speaks
    <2>3. QED
        BY <2>1, <2>2
<1>5. CASE ReceiveAck
    <2>1. Opened' = Opened /\ Pending(command)' \subseteq Pending(command)
          /\ UNCHANGED <<uplink, reading, member, applied, phone>>
        BY <1>5, AckViews DEF ReceiveAck
    <2>2. Calm(k)
        BY <1>1, <1>5, <2>1 DEF Speaks
    <2>3. QED
        BY <2>1, <2>2
<1>6. CASE Elapse
    <2>1. /\ UNCHANGED <<uplink, downlink, reading, applied, phone>>
          /\ member'.recent = member.recent /\ member'.conn = member.conn /\ member'.known = member.known
          /\ Pending(command)' = Pending(command)
        BY <1>6, ElapseViews DEF Elapse, Pending
    <2>2. Calm(k)
        BY <1>1, <2>1 DEF Speaks, Opened
    <2>3. QED
        BY <2>1, <2>2 DEF Opened
<1>7. CASE UNCHANGED vars
    BY <1>1, <1>7 DEF vars, Pending, Opened, Speaks
<1>8. CASE ServerStep
    <2>1. /\ phone' = phone /\ k \in Opened /\ reading' \subseteq reading
          /\ Pending(command)' = Pending(command)
        BY <1>8, ServerLinks DEF Pending
    <2>2. ASSUME NEW j \in Opened, HandleHello(j) PROVE Cases
        <3>1. j = k
            BY <2>2, HelloViews DEF Speaks
        <3>2. Takes(k, Hello)
            BY <2>2, <3>1 DEF HandleHello
        <3>3. Hello \in Range(uplink[k]) /\ Range(uplink'[k]) \subseteq Range(uplink[k])
            BY <2>1, <3>2, TakesType, ConnTypes, TailRange
        <3>4. Range(uplink'[k]) \cap Ids = {}
            BY <2>1, <3>3 DEF HelloComesFirst
        <3>5. QED
            BY <2>2, <3>1, <3>4
    <2>3. ASSUME NEW j \in Opened, NEW c \in Ids, HandleCommand(j, c) PROVE Cases
        <3>1. CASE Speaks(j)
            <4>1. member'.conn = member.conn /\ member'.known = member.known
                BY <2>3, <3>1, CommandViews
            <4>2. j = k
                BY <3>1, <4>1 DEF Speaks
            <4>3. QED
                BY <2>3, <3>1, <4>2
        <3>2. CASE ~Speaks(j)
            <4>1. UNCHANGED <<member, applied, downlink>> /\ Takes(j, c)
                BY <2>3, <3>2 DEF HandleCommand
            <4>2. Speaks(k) /\ k # j
                BY <3>2, <4>1 DEF Speaks
            <4>3. uplink'[k] = uplink[k]
                BY <2>1, <4>1, <4>2, TakesType
            <4>4. QED
                BY <1>1, <2>1, <4>1, <4>2, <4>3
        <3>3. QED
            BY <3>1, <3>2
    <2>4. ASSUME NEW j \in Opened, HandleLeave(j) PROVE Cases
        <3>1. Takes(j, Leave) /\ downlink' = downlink /\ applied' = applied
            BY <2>4 DEF HandleLeave
        <3>2. Speaks(k) /\ k # j
            <4>1. /\ member'.known = member.known /\ k # NoConn
                  /\ member'.conn = IF Speaks(j) THEN NoConn ELSE member.conn
                BY <2>1, <2>4, LeaveViews, ConnTypes
            <4>2. QED
                BY <4>1 DEF Speaks
        <3>3. uplink'[k] = uplink[k]
            BY <2>1, <3>1, <3>2, TakesType
        <3>4. QED
            BY <1>1, <2>1, <2>4, <3>1, <3>2, <3>3, LeaveViews
    <2>5. ASSUME NEW j \in Opened, FinishJoin(j) PROVE Cases
        BY <1>1, <2>1, <2>5 DEF FinishJoin, Speaks
    <2>6. ASSUME NEW j \in Opened, EndConnection(j) PROVE Cases
        <3>1. /\ member' = member /\ downlink' = downlink /\ applied' = applied /\ Speaks(k)
              /\ reading' = reading \ {j} /\ \A i \in Opened : i # j => uplink'[i] = uplink[i]
            BY <2>6, EndedType DEF EndConnection, Speaks
        <3>2. CASE j = k
            <4>1. PICK n \in 0..Len(uplink[k]) :
                    LET posted == SubSeq(uplink[k], 1, n)
                    IN  uplink'[k] = posted \/ uplink'[k] = Append(posted, Leave)
                BY <2>6, <3>2, EndedType
            <4> DEFINE posted == SubSeq(uplink[k], 1, n)
            <4>2. uplink[k] \in Seq(Upward)
                BY <2>1, ConnTypes
            <4>3. /\ posted \in Seq(Upward) /\ Len(posted) = n /\ DOMAIN posted = 1..n
                  /\ \A i \in 1..n : i \in DOMAIN uplink[k] /\ posted[i] = uplink[k][i]
                BY <4>2, PrefixRange
            <4>4. n \in Nat /\ (uplink'[k] = posted \/ uplink'[k] = Append(posted, Leave))
                BY <4>1, <4>2
            <4>5. /\ posted \in Seq(Upward) /\ Len(posted) = n /\ n \in Nat /\ DOMAIN posted = 1..n
                  /\ \A i \in 1..n : i \in DOMAIN uplink[k] /\ posted[i] = uplink[k][i]
                  /\ uplink'[k] = posted \/ uplink'[k] = Append(posted, Leave)
                BY <4>3, <4>4
            <4> HIDE DEF posted
            <4>6. /\ DOMAIN Append(posted, Leave) = 1..(n + 1) /\ Append(posted, Leave)[n + 1] = Leave
                  /\ \A i \in 1..n : Append(posted, Leave)[i] = posted[i]
                BY <4>5
            <4>7. \A i \in 1..(n + 1) : i \in 1..n \/ i = n + 1
                BY <4>5
            <4>8. ASSUME NEW i \in DOMAIN uplink'[k], uplink'[k][i] \in Ids
                  PROVE  i \in DOMAIN uplink[k] /\ \A l \in 1..i : uplink'[k][l] = uplink[k][l]
                <5>1. i \in 1..n
                    BY <4>5, <4>6, <4>7, <4>8, IdsAreNumbers
                <5>2. \A l \in 1..i : l \in 1..n
                    BY <4>5, <5>1
                <5>3. QED
                    BY <4>5, <4>6, <5>1, <5>2
            <4>9. Calm(k)
                BY <2>1, <3>1, <3>2, <4>8 DEF Calm
            <4>10. QED
                BY <4>9
        <3>3. CASE j # k
            BY <1>1, <2>1, <3>1, <3>3
        <3>4. QED
            BY <3>2, <3>3
    <2>7. CASE ForgetMember \/ Restart
        BY <2>7 DEF ForgetMember, Restart, Speaks, NoMember
    <2>8. QED
        BY <1>8, <2>1, <2>2, <2>3, <2>4, <2>5, <2>6, <2>7 DEF ServerStep
<1>9. CASE \E m : Writes(m)
    BY <1>2, <1>9
<1>10. k \in Opened /\ Cases
    BY <1>3, <1>4, <1>5, <1>6, <1>7, <1>8, <1>9, NextCases
<1>11. QED
    BY <1>10

LEMMA NextLines ==
    ASSUME IInv, [Next]_vars, GivenInOrder', PendingAreLast'
    PROVE  Lines'
<1> USE DEF IInv
<1>1. SUFFICES ASSUME NEW k \in Opened', Speaks(k)',
                      NEW i \in DOMAIN uplink'[k], uplink'[k][i] \in Ids
               PROVE  InLine(uplink'[k], i, Pending(command)', Range(applied'), Range(member'.recent))
    BY DEF Lines
<1>2. k \in Opened /\ uplink[k] \in Seq(Upward) /\ Pending(command) \in SUBSET Ids
      /\ Pending(command)' \in SUBSET Ids
    BY <1>1, SpeakerCases, ConnTypes DEF Pending
<1> DEFINE q == uplink[k]
           P == Pending(command)
           Q == Pending(command)'
           A == Range(applied)
           R == Range(member.recent)
<1>3. A \in SUBSET Ids /\ A \subseteq Given /\ R \in SUBSET A /\ Given \subseteq Ids
    BY DEF TypesOk, RemembersApplied, GivenInOrder, Given
<1>4. Speaks(k) => \A j \in DOMAIN q : q[j] \in Ids => InLine(q, j, P, A, R)
    BY <1>2 DEF Lines
<1>5. \A j \in DOMAIN q : q[j] \in Ids => q[j] \in Given /\ j \in Nat \ {0}
    BY <1>2 DEF GivenInOrder, Range
<1>6. \A b \in Q, x \in Given : b < x => b \in P
    BY NoneBefore
\* An old place in the line.
<1>7. ASSUME Speaks(k), Range(applied') = A, Range(member'.recent) = R, i \in DOMAIN q,
             \A j \in 1..i : uplink'[k][j] = q[j]
      PROVE  InLine(uplink'[k], i, Q, Range(applied'), Range(member'.recent))
    <2> DEFINE p == uplink'[k]
    <2>1. q[i] = p[i] /\ i \in Nat \ {0} /\ q[i] \in Given /\ q[i] \in Ids
        BY <1>1, <1>2, <1>5, <1>7
    <2>2. InLine(q, i, P, A, R) /\ \A b \in Q : b < q[i] => b \in P
        BY <1>4, <1>6, <1>7, <2>1
    <2>3. \A j \in 1..i : p[j] = q[j]
        BY <1>7
    <2> HIDE DEF p, q, P, Q, A, R
    <2>4. InLine(p, i, Q, A, R)
        BY <2>1, <2>2, <2>3, LineKept
    <2>5. QED
        BY <1>7, <2>4 DEF p
<1>8. ASSUME NEW m, Writes(m), Speaks(k)
      PROVE  InLine(uplink'[k], i, Q, Range(applied'), Range(member'.recent))
    <2>1. /\ uplink'[k] = IF k = phone.conn /\ k \in reading THEN q \o m ELSE q
          /\ applied' = applied /\ member' = member /\ m \in Seq(Ids)
        BY <1>2, <1>8, WritesLinks DEF Writes
    <2>2. CASE ~(k = phone.conn /\ k \in reading)
        BY <1>7, <1>8, <2>1, <2>2
    <2>3. CASE k = phone.conn /\ k \in reading
        <3>1. m \in Seq(Upward) /\ uplink'[k] = q \o m /\ Len(q) \in Nat
            BY <1>2, <2>1, <2>3 DEF Upward
        <3>2. /\ DOMAIN (q \o m) = 1..(Len(q) + Len(m)) /\ DOMAIN q = 1..Len(q) /\ DOMAIN m = 1..Len(m)
              /\ \A j \in DOMAIN q : (q \o m)[j] = q[j]
              /\ \A j \in DOMAIN m : (q \o m)[Len(q) + j] = m[j]
            <4>1. q \in Seq(Upward)
                BY <1>2
            <4> HIDE DEF q
            <4>2. QED
                BY <3>1, <4>1, ConcatRange
        <3>3. CASE i \in DOMAIN q
            <4>1. \A j \in 1..i : j \in DOMAIN q
                BY <3>2, <3>3
            <4>2. QED
                BY <1>7, <1>8, <2>1, <3>1, <3>2, <3>3, <4>1
        <3>4. CASE i \notin DOMAIN q
            <4> DEFINE n == i - Len(q)
            <4>1. n \in DOMAIN m /\ i = Len(q) + n
                <5>1. i \in 1..(Len(q) + Len(m)) /\ Len(m) \in Nat
                    BY <2>1, <3>1, <3>2
                <5>2. QED
                    BY <3>1, <3>2, <3>4, <5>1
            <4> HIDE DEF n
            <4>2. m[n] \in Q /\ ~Expired(m[n]) /\ (m[n] \in P \/ m[n] \notin Given) /\ m[n] \in Ids
                  /\ Range(m) \subseteq Q
                BY <1>8, <2>1, <4>1 DEF Writes, Range
            <4> DEFINE x == m[n]
            <4>3. x \in Int /\ \A d \in Given : d \in Int
                BY <1>3, <4>2, IdsAreNumbers
            <4>4. \A j, l \in DOMAIN m : j < l => m[j] < m[l]
                BY <1>8 DEF Writes
            <4>5. \A b \in Q : b < x => Ahead(m, n, b) \/ b \in Range(q) \/ b \in A
                <5>1. \A b \in Q : b < x => Ahead(m, n, b) \/ b \in Range(q) \cup Range(downlink[k])
                    BY <1>2, <1>8, <2>3, <4>1, WritesInTurn
                <5>2. Range(downlink[k]) \cap Ids \subseteq A
                    BY <1>2, <1>8, <2>3 DEF SentInOrder
                <5>3. QED
                    BY <1>2, <5>1, <5>2
            \* A new command is later than all that were given.
            <4>6. x \notin Given => \A d \in Given : ~(x < d)
                BY <4>2 DEF GivenInOrder
            <4>7. \A d \in A : x < d => x \in A
                <5>1. x \in P => \A d \in A : x < d => x \in A
                    BY DEF AppliedInTurn
                <5>2. QED
                    BY <1>3, <4>2, <4>6, <5>1
            <4>8. \A j \in DOMAIN q : x < q[j] => q[j] \in Ids
                BY <1>2, <4>2, <4>3, BoundsAssumption DEF Upward, Ids, Hello, Leave
            <4>9. \A j \in DOMAIN q : x < q[j] => Ahead(q, j, x) \/ x \in A
                <5>1. x \in P => \A j \in DOMAIN q : x < q[j] => Ahead(q, j, x) \/ x \in A
                    BY <1>4, <1>8, <4>8 DEF InLine
                <5>2. QED
                    BY <1>5, <4>2, <4>6, <4>8, <5>1
            <4>10. x \in A => x \in R
                BY <1>3, <4>2 DEF PendingAreRemembered
            <4>11. Cardinality({d \in Ids : x < d /\ d \in A \cup Range(q) \cup Range(m)}) < RecentCommands
                <5> DEFINE E == {d \in Ids : x < d /\ d \in A \cup Range(q) \cup Range(m)}
                <5>1. Range(applied') \subseteq Given' /\ Range(uplink'[k]) \cap Ids \subseteq Given'
                    BY <1>1 DEF GivenInOrder
                <5>2. Range(uplink'[k]) = Range(q) \cup Range(m)
                    <6>1. q \in Seq(Upward)
                        BY <1>2
                    <6> HIDE DEF q
                    <6>2. Range(q \o m) = Range(q) \cup Range(m)
                        BY <3>1, <6>1, ConcatRange
                    <6>3. QED
                        BY <3>1, <6>2
                <5>3. /\ E \in SUBSET Q /\ \A d \in E : x < d
                      /\ Q \in SUBSET Ids /\ Cardinality(Q) <= MaxPending /\ x \in Q
                    BY <1>2, <2>1, <4>2, <5>1, <5>2 DEF PendingAreLast
                <5> HIDE DEF E, x, Q
                <5>4. Cardinality(E) < RecentCommands
                    BY <5>3, FewAreLater
                <5>5. QED
                    BY <5>4 DEF E, x
            <4>12. q \in Seq(Upward)
                BY <1>2
            <4>13. m[n] \in A => m[n] \in R
                BY <4>10
            <4> HIDE DEF q, P, Q, A, R
            <4>14. InLine(q \o m, Len(q) + n, Q, A, R)
                BY <1>3, <2>1, <4>1, <4>4, <4>5, <4>7, <4>9, <4>11, <4>12, <4>13, LineGrows
            <4>15. QED
                BY <2>1, <3>1, <4>1, <4>14 DEF A, R
        <3>5. QED
            BY <3>3, <3>4
    <2>4. QED
        BY <2>2, <2>3
<1>9. ASSUME NEW c \in Ids, HandleCommand(k, c), Speaks(k)
      PROVE  InLine(uplink'[k], i, Q, Range(applied'), Range(member'.recent))
    <2>1. /\ q # <<>> /\ q[1] = c /\ uplink'[k] = Tail(q) /\ command' = command
        BY <1>2, <1>9, TakesType, TailRange DEF HandleCommand
    <2>2. i \in Nat \ {0} /\ i + 1 \in DOMAIN q /\ q[i + 1] = uplink'[k][i]
        BY <1>2, <2>1, TailRange
    <2> DEFINE S == Range(member'.recent)
    <2>3. /\ Range(applied') = A \cup {c} /\ S \subseteq R \cup {c} /\ c \in S
          /\ \A d \in R : d \in S \/ Cardinality({e \in Ids : d < e /\ e \in R \cup {c}}) >= RecentCommands
        BY <1>2, <1>9, CommandViews
    <2>4. S \in SUBSET Ids /\ q \in Seq(Upward) /\ P \in SUBSET Ids /\ Q = P
        BY <1>2, <1>3, <2>1, <2>3 DEF Pending
    <2>5. InLine(q, i + 1, P, A, R) /\ q[i + 1] \in Ids
        BY <1>1, <1>4, <1>9, <2>2
    <2> HIDE DEF q, P, A, R, S
    <2>6. /\ S \subseteq R \cup {q[1]} /\ q[1] \in S /\ q[1] \in Ids
          /\ \A d \in R : \/ d \in S
                         \/ Cardinality({e \in Ids : d < e /\ e \in R \cup {q[1]}}) >= RecentCommands
        BY <2>1, <2>3
    <2>7. InLine(Tail(q), i, P, A \cup {q[1]}, S)
        BY <1>3, <2>2, <2>4, <2>5, <2>6, LineMoves
    <2>8. QED
        BY <2>1, <2>3, <2>4, <2>7 DEF S
<1>10. ASSUME Calm(k)
       PROVE  InLine(uplink'[k], i, Q, Range(applied'), Range(member'.recent))
    BY <1>1, <1>7, <1>10 DEF Calm
<1>11. ASSUME Range(uplink'[k]) \cap Ids = {} PROVE FALSE
    BY <1>1, <1>11 DEF Range
<1>12. CASE Speaks(k) /\ \E m : Writes(m)
    BY <1>8, <1>12
<1>13. QED
    BY <1>1, <1>9, <1>10, <1>11, <1>12, SpeakerCases

\* What is read is no longer ahead.
LEMMA AheadInTail ==
    ASSUME NEW S, NEW d \in Seq(S), d # <<>>, NEW i \in DOMAIN Tail(d), NEW b,
           Ahead(d, i + 1, b), b # Head(d)
    PROVE  Ahead(Tail(d), i, b)
<1>1. /\ Len(d) \in Nat /\ DOMAIN d = 1..Len(d) /\ DOMAIN Tail(d) = 1..(Len(d) - 1) /\ Head(d) = d[1]
      /\ \A j \in DOMAIN Tail(d) : Tail(d)[j] = d[j + 1]
    BY TailRange
<1>2. PICK j \in 1..(i + 1 - 1) : d[j] = b
    BY DEF Ahead
<1>3. j # 1 /\ i \in Nat /\ i <= Len(d) - 1
    BY <1>1, <1>2
<1>4. j - 1 \in 1..(i - 1) /\ j - 1 \in DOMAIN Tail(d) /\ (j - 1) + 1 = j
    BY <1>1, <1>3
<1>5. Tail(d)[j - 1] = b
    BY <1>1, <1>2, <1>4
<1>6. QED
    BY <1>4, <1>5 DEF Ahead

LEMMA NextAcksInOrder ==
    ASSUME IInv, [Next]_vars
    PROVE  AcksInOrder'
<1> USE DEF IInv
<1>1. SUFFICES ASSUME NEW k \in Opened', k = phone'.conn, NEW i \in DOMAIN downlink'[k],
                      downlink'[k][i] \in Ids, NEW b \in Pending(command)', b < downlink'[k][i]
               PROVE  Ahead(downlink'[k], i, b)
    BY DEF AcksInOrder
<1>2. b \in Ids /\ \A x \in Given : b < x => b \in Pending(command)
    BY NoneBefore DEF Pending
<1>3. ASSUME k \in Opened, k = phone.conn, NEW n \in DOMAIN downlink[k], downlink[k][n] \in Ids,
             b < downlink[k][n]
      PROVE  b \in Pending(command) /\ Ahead(downlink[k], n, b)
    <2>1. downlink[k][n] \in Given
        BY <1>3 DEF GivenInOrder, Range
    <2>2. b \in Pending(command)
        BY <1>2, <1>3, <2>1
    <2>3. QED
        BY <1>3, <2>2 DEF AcksInOrder
\* Nothing happens to the downlink.
<1>4. ASSUME k \in Opened, k = phone.conn, downlink'[k] = downlink[k]
      PROVE  Ahead(downlink'[k], i, b)
    BY <1>1, <1>3, <1>4
\* The phone reads something that is not pending, or no longer.
<1>5. ASSUME k \in Opened, k = phone.conn, downlink[k] # <<>>, downlink'[k] = Tail(downlink[k]),
             Head(downlink[k]) # b
      PROVE  Ahead(downlink'[k], i, b)
    <2> DEFINE d == downlink[k]
    <2>1. d \in Seq(Downward) /\ d # <<>> /\ i \in DOMAIN Tail(d)
        BY <1>1, <1>5, ConnTypes
    <2>2. i + 1 \in DOMAIN d /\ d[i + 1] = downlink'[k][i]
        BY <1>5, <2>1, TailRange
    <2>3. Ahead(d, i + 1, b) /\ b # Head(d)
        BY <1>1, <1>3, <1>5, <2>2
    <2> HIDE DEF d
    <2>4. Ahead(Tail(d), i, b)
        BY <2>1, <2>3, AheadInTail
    <2>5. QED
        BY <1>5, <2>4 DEF d
<1>6. ASSUME NEW m, Writes(m) PROVE Ahead(downlink'[k], i, b)
    <2>1. k \in Opened /\ k = phone.conn
        BY <1>1, <1>6, WritesLinks DEF Writes
    <2>2. \/ downlink'[k] = downlink[k]
          \/ downlink[k] # <<>> /\ Head(downlink[k]) = Welcome /\ downlink'[k] = Tail(downlink[k])
        BY <1>6, <2>1, WritesLinks
    <2>3. b # Welcome
        BY <1>2, IdsAreNumbers
    <2>4. QED
        BY <1>4, <1>5, <2>1, <2>2, <2>3
<1>7. CASE Connect
    <2>1. \E new : /\ \A j \in Opened : j # phone'.conn
                   /\ Opened' = Opened \cup {new} /\ downlink'[new] = <<>>
        BY <1>7, ConnectViews
    <2>2. downlink'[k] = <<>>
        BY <1>1, <2>1
    <2>3. QED
        BY <1>1, <2>2
<1>8. CASE Disconnect
    BY <1>1, <1>8, DisconnectViews
<1>9. CASE ReceiveAck
    <2>1. k \in Opened /\ k = phone.conn
        BY <1>1, <1>9, AckViews DEF ReceiveAck
    <2>2. /\ downlink[k] # <<>> /\ downlink'[k] = Tail(downlink[k])
          /\ Pending(command)' = Pending(command) \ {Head(downlink[k])}
        BY <1>9, <2>1, AckViews
    <2>3. QED
        BY <1>1, <1>5, <2>1, <2>2
<1>10. CASE Elapse \/ UNCHANGED vars
    BY <1>1, <1>4, <1>10 DEF Elapse, vars, Opened
<1>11. CASE ServerStep
    <2>1. k \in Opened /\ k = phone.conn /\ Pending(command)' = Pending(command)
        BY <1>1, <1>11, ServerLinks DEF Pending
    \* Something is appended.
    <2>2. ASSUME NEW c \in Downward, downlink'[k] = Append(downlink[k], c),
                 c \in Ids /\ b < c => b \in Range(downlink[k])
          PROVE  Ahead(downlink'[k], i, b)
        <3> DEFINE d == downlink[k]
        <3>1. /\ d \in Seq(Downward) /\ DOMAIN d = 1..Len(d) /\ Len(d) \in Nat
              /\ DOMAIN Append(d, c) = 1..(Len(d) + 1) /\ Append(d, c)[Len(d) + 1] = c
              /\ \A j \in 1..Len(d) : Append(d, c)[j] = d[j]
            BY <2>1, ConnTypes
        <3>2. i \in 1..(Len(d) + 1)
            BY <1>1, <2>2, <3>1
        <3>3. CASE i \in 1..Len(d)
            <4>1. Ahead(d, i, b)
                BY <1>1, <1>3, <2>1, <2>2, <3>1, <3>3
            <4>2. \A j \in 1..(i - 1) : j \in 1..Len(d)
                BY <3>1, <3>3
            <4>3. QED
                BY <2>2, <3>1, <4>1, <4>2 DEF Ahead
        <3>4. CASE i = Len(d) + 1
            <4>1. b \in Range(d)
                BY <1>1, <2>2, <3>1, <3>4
            <4>2. PICK j \in 1..Len(d) : d[j] = b
                BY <3>1, <4>1 DEF Range
            <4>3. j \in 1..(i - 1)
                BY <3>1, <3>4
            <4>4. QED
                BY <2>2, <3>1, <4>2, <4>3 DEF Ahead
        <3>5. QED
            BY <3>1, <3>2, <3>3, <3>4
    <2>3. ASSUME NEW j \in Opened, HandleHello(j) PROVE Ahead(downlink'[k], i, b)
        <3>1. downlink'[k] = downlink[k] \/ downlink'[k] = Append(downlink[k], Welcome)
            BY <2>1, <2>3, HelloViews
        <3>2. Welcome \in Downward /\ Welcome \notin Ids
            BY IdsAreNumbers
        <3>3. CASE downlink'[k] = downlink[k]
            BY <1>4, <2>1, <3>3
        <3>4. CASE downlink'[k] = Append(downlink[k], Welcome)
            BY <2>2, <3>2, <3>4
        <3>5. QED
            BY <3>1, <3>3, <3>4
    <2>4. ASSUME NEW j \in Opened, NEW c \in Ids, HandleCommand(j, c)
          PROVE  Ahead(downlink'[k], i, b)
        <3>1. CASE Speaks(j)
            <4>1. downlink'[k] = IF k = j THEN Append(downlink[k], c) ELSE downlink[k]
                BY <2>1, <2>4, <3>1, CommandViews
            <4>2. ASSUME k = j, b < c PROVE b \in Range(downlink[k])
                <5>1. uplink[k] \in Seq(Upward) /\ 1 \in DOMAIN uplink[k] /\ uplink[k][1] = c
                    BY <2>1, <2>4, <4>2, TakesType, ConnTypes, TailRange DEF HandleCommand
                <5>2. ~Ahead(uplink[k], 1, b)
                    BY DEF Ahead
                <5>3. QED
                    BY <1>1, <2>1, <3>1, <4>2, <5>1, <5>2 DEF SentInOrder
            <4>3. c \in Downward
                BY IdsAreNumbers
            <4>4. CASE k = j
                BY <2>2, <4>1, <4>2, <4>3, <4>4
            <4>5. CASE k # j
                BY <1>4, <2>1, <4>1, <4>5
            <4>6. QED
                BY <4>4, <4>5
        <3>2. CASE ~Speaks(j)
            <4>1. downlink' = downlink
                BY <2>4, <3>2 DEF HandleCommand
            <4>2. QED
                BY <1>4, <2>1, <4>1
        <3>3. QED
            BY <3>1, <3>2
    <2>5. ASSUME NEW j \in Opened, FinishJoin(j) \/ HandleLeave(j) \/ EndConnection(j)
          PROVE  downlink' = downlink
        BY <2>5 DEF FinishJoin, HandleLeave, EndConnection
    <2>6. ForgetMember \/ Restart => downlink' = downlink
        BY DEF ForgetMember, Restart
    <2>7. CASE downlink' = downlink
        BY <1>4, <2>1, <2>7
    <2>8. QED
        BY <1>11, <2>3, <2>4, <2>5, <2>6, <2>7 DEF ServerStep
<1>12. CASE \E m : Writes(m)
    BY <1>6, <1>12
<1>13. QED
    BY <1>7, <1>8, <1>9, <1>10, <1>11, <1>12, NextCases

LEMMA NextSentInOrder ==
    ASSUME IInv, [Next]_vars
    PROVE  SentInOrder'
<1> USE DEF IInv
<1> SUFFICES ASSUME NEW k \in Opened', k = phone'.conn, Speaks(k)'
             PROVE  /\ Range(downlink'[k]) \cap Ids \subseteq Range(applied')
                    /\ \A i \in DOMAIN uplink'[k] : uplink'[k][i] \in Ids =>
                         \A b \in Pending(command)' :
                            b < uplink'[k][i] => Ahead(uplink'[k], i, b) \/ b \in Range(downlink'[k])
                    /\ phone'.online /\ k \in reading' =>
                         Pending(command)' \subseteq Range(uplink'[k]) \cup Range(downlink'[k])
    BY DEF SentInOrder
<1> DEFINE Goal == /\ Range(downlink'[k]) \cap Ids \subseteq Range(applied')
                   /\ \A i \in DOMAIN uplink'[k] : uplink'[k][i] \in Ids =>
                        \A b \in Pending(command)' :
                           b < uplink'[k][i] => Ahead(uplink'[k], i, b) \/ b \in Range(downlink'[k])
                   /\ phone'.online /\ k \in reading' =>
                        Pending(command)' \subseteq Range(uplink'[k]) \cup Range(downlink'[k])
<1>1. k \in Opened /\ uplink[k] \in Seq(Upward) /\ downlink[k] \in Seq(Downward)
    BY SpeakerCases, ConnTypes
<1>2. Pending(command)' \subseteq Ids
    BY DEF Pending
<1>3. \A i \in DOMAIN uplink[k] : uplink[k][i] \in Ids => uplink[k][i] \in Given
    BY <1>1 DEF GivenInOrder, Range
<1>4. \A b \in Pending(command)', x \in Given : b < x => b \in Pending(command)
    BY NoneBefore
<1>5. ASSUME NEW m, Writes(m), Speaks(k) PROVE Goal
    <2> DEFINE q == uplink[k]
    <2>1. /\ k = phone.conn /\ applied' = applied /\ reading' = reading /\ m \in Seq(Ids)
          /\ \A i, j \in DOMAIN m : i < j => m[i] < m[j]
        BY <1>5 DEF Writes
    <2>2. /\ Range(downlink'[k]) \cap Ids = Range(downlink[k]) \cap Ids
          /\ uplink'[k] = IF k \in reading THEN q \o m ELSE q
        BY <1>1, <1>5, <2>1, WritesLinks
    <2>3. /\ Range(downlink[k]) \cap Ids \subseteq Range(applied)
          /\ \A i \in DOMAIN q : q[i] \in Ids =>
               \A b \in Pending(command) : b < q[i] => Ahead(q, i, b) \/ b \in Range(downlink[k])
        BY <1>1, <1>5, <2>1 DEF SentInOrder
    <2>4. \A i \in DOMAIN q : q[i] \in Ids =>
            \A b \in Pending(command)' : b < q[i] => Ahead(q, i, b) \/ b \in Range(downlink'[k])
        BY <1>2, <1>3, <1>4, <2>2, <2>3
    <2>5. CASE k \notin reading
        BY <2>1, <2>2, <2>3, <2>4, <2>5
    <2>6. CASE k \in reading
        <3>1. /\ \A i \in DOMAIN m : \A b \in Pending(command)' :
                    b < m[i] => Ahead(m, i, b) \/ b \in Range(q) \cup Range(downlink[k])
              /\ phone'.online => Pending(command)' \subseteq Range(q) \cup Range(m) \cup Range(downlink[k])
            BY <1>1, <1>5, <2>1, <2>6, WritesInTurn
        <3>2. q \in Seq(Upward) /\ m \in Seq(Upward)
            BY <1>1, <2>1 DEF Upward
        <3> DEFINE p == q \o m
                   P == Pending(command)'
                   D == Range(downlink'[k])
        <3>3. p = uplink'[k]
            BY <2>2, <2>6
        <3>4. /\ \A i \in DOMAIN m : \A b \in P : b < m[i] => Ahead(m, i, b) \/ b \in Range(q) \cup D
              /\ phone'.online => P \subseteq Range(q) \cup Range(m) \cup D
            BY <1>2, <2>2, <3>1
        <3>5. \A i \in DOMAIN q : q[i] \in Ids => \A b \in P : b < q[i] => Ahead(q, i, b) \/ b \in D
            BY <2>4
        <3> HIDE DEF q, P, D
        <3>6. /\ Range(p) = Range(q) \cup Range(m) /\ Len(q) \in Nat /\ Len(m) \in Nat
              /\ DOMAIN p = 1..(Len(q) + Len(m)) /\ DOMAIN q = 1..Len(q) /\ DOMAIN m = 1..Len(m)
              /\ \A j \in DOMAIN q : p[j] = q[j]
              /\ \A j \in DOMAIN m : p[Len(q) + j] = m[j]
            BY <3>2, ConcatRange
        <3> HIDE DEF p
        <3>7. ASSUME NEW i \in DOMAIN p, p[i] \in Ids, NEW b \in P, b < p[i]
              PROVE  Ahead(p, i, b) \/ b \in D
            <4>1. CASE i \in DOMAIN q
                <5>1. \A j \in 1..(i - 1) : j \in DOMAIN q
                    BY <3>6, <4>1
                <5>2. Ahead(q, i, b) \/ b \in D
                    BY <3>5, <3>6, <3>7, <4>1
                <5>3. QED
                    BY <3>6, <5>1, <5>2 DEF Ahead
            <4>2. CASE i \notin DOMAIN q
                <5> DEFINE n == i - Len(q)
                <5>1. n \in DOMAIN m /\ i = Len(q) + n
                    BY <3>6, <4>2
                <5> HIDE DEF n
                <5>2. Ahead(m, n, b) \/ b \in Range(q) \cup D
                    BY <3>4, <3>6, <3>7, <5>1
                <5>3. ASSUME NEW j \in 1..(n - 1), m[j] = b PROVE Ahead(p, i, b)
                    <6>1. j \in DOMAIN m /\ Len(q) + j \in 1..(i - 1)
                        BY <3>6, <5>1
                    <6>2. QED
                        BY <3>6, <5>3, <6>1 DEF Ahead
                <5>4. ASSUME NEW j \in DOMAIN q, q[j] = b PROVE Ahead(p, i, b)
                    <6>1. j \in 1..(i - 1)
                        BY <3>6, <5>1
                    <6>2. QED
                        BY <3>6, <5>4, <6>1 DEF Ahead
                <5>5. QED
                    BY <5>2, <5>3, <5>4 DEF Ahead, Range
            <4>3. QED
                BY <4>1, <4>2
        <3>8. QED
            BY <2>1, <2>2, <2>3, <3>3, <3>4, <3>6, <3>7 DEF P, D
    <2>7. QED
        BY <2>5, <2>6
<1>6. ASSUME HandleHello(k), Range(uplink'[k]) \cap Ids = {} PROVE Goal
    <2>1. Takes(k, Hello) /\ applied' = applied
        BY <1>6 DEF HandleHello
    <2>2. phone' = phone /\ Hello \in Range(uplink[k])
        BY <1>1, <2>1, TakesType
    <2>3. ~phone.online /\ Range(downlink[k]) = {}
        BY <1>1, <2>2 DEF HelloComesFirst, Range
    <2>4. Range(downlink'[k]) \cap Ids = {}
        BY <1>1, <1>6, <2>3, HelloViews
    <2>5. \A i \in DOMAIN uplink'[k] : uplink'[k][i] \notin Ids
        BY <1>6 DEF Range
    <2>6. QED
        BY <2>2, <2>3, <2>4, <2>5
<1>7. ASSUME NEW c \in Ids, HandleCommand(k, c), Speaks(k) PROVE Goal
    <2> DEFINE q == uplink[k]
               d == downlink[k]
    <2>1. /\ q # <<>> /\ Head(q) = c /\ uplink'[k] = Tail(q) /\ command' = command
          /\ phone' = phone /\ reading' = reading
        BY <1>1, <1>7, TakesType DEF HandleCommand
    <2>2. downlink'[k] = Append(d, c) /\ Range(applied') = Range(applied) \cup {c}
        BY <1>1, <1>7, <2>1, CommandViews
    <2>3. Range(downlink'[k]) = Range(d) \cup {c}
        <3>1. d \in Seq(Downward) /\ c \in Downward
            BY <1>1, IdsAreNumbers
        <3> HIDE DEF d
        <3>2. Range(Append(d, c)) = Range(d) \cup {c}
            BY <3>1, AppendRange
        <3>3. QED
            BY <2>2, <3>2
    <2>4. /\ Range(d) \cap Ids \subseteq Range(applied)
          /\ \A i \in DOMAIN q : q[i] \in Ids =>
               \A b \in Pending(command) : b < q[i] => Ahead(q, i, b) \/ b \in Range(d)
          /\ phone.online /\ k \in reading => Pending(command) \subseteq Range(q) \cup Range(d)
        BY <1>1, <1>7, <2>1 DEF SentInOrder
    <2>5. Range(q) = {c} \cup Range(Tail(q))
        BY <1>1, <2>1, TailRange
    <2>6. ASSUME NEW i \in DOMAIN Tail(q), Tail(q)[i] \in Ids, NEW b \in Pending(command), b < Tail(q)[i]
          PROVE  Ahead(Tail(q), i, b) \/ b \in Range(downlink'[k])
        <3>1. i + 1 \in DOMAIN q /\ q[i + 1] = Tail(q)[i] /\ q \in Seq(Upward)
            BY <1>1, <2>1, <2>6, TailRange
        <3>2. Ahead(q, i + 1, b) \/ b \in Range(d)
            BY <2>4, <2>6, <3>1
        <3>3. CASE Ahead(q, i + 1, b) /\ b # c
            <4>1. q # <<>> /\ b # Head(q)
                BY <2>1, <3>3
            <4> HIDE DEF q
            <4>2. QED
                BY <2>6, <3>1, <3>3, <4>1, AheadInTail
        <3>4. QED
            BY <2>3, <3>2, <3>3
    <2>7. Pending(command)' = Pending(command)
        BY <2>1 DEF Pending
    <2>8. QED
        BY <2>1, <2>2, <2>3, <2>4, <2>5, <2>6, <2>7
<1>8. ASSUME Calm(k) PROVE Goal
    <2>1. /\ Speaks(k) /\ Pending(command)' \subseteq Pending(command) /\ applied' = applied
          /\ phone' = phone /\ k = phone.conn
          /\ k \in reading' => k \in reading /\ uplink'[k] = uplink[k]
          /\ downlink'[k] = downlink[k] \/ ReceiveAck
        BY <1>8 DEF Calm
    <2>2. /\ Range(downlink'[k]) \subseteq Range(downlink[k])
          /\ \A b \in Pending(command)' : b \in Range(downlink[k]) => b \in Range(downlink'[k])
        <3>1. CASE ReceiveAck
            BY <1>1, <2>1, <3>1, AckViews
        <3>2. QED
            BY <2>1, <3>1
    <2>3. /\ Range(downlink[k]) \cap Ids \subseteq Range(applied)
          /\ \A i \in DOMAIN uplink[k] : uplink[k][i] \in Ids =>
               \A b \in Pending(command) :
                  b < uplink[k][i] => Ahead(uplink[k], i, b) \/ b \in Range(downlink[k])
          /\ phone.online /\ k \in reading =>
               Pending(command) \subseteq Range(uplink[k]) \cup Range(downlink[k])
        BY <1>1, <2>1 DEF SentInOrder
    <2>4. ASSUME NEW i \in DOMAIN uplink'[k], uplink'[k][i] \in Ids,
                 NEW b \in Pending(command)', b < uplink'[k][i]
          PROVE  Ahead(uplink'[k], i, b) \/ b \in Range(downlink'[k])
        <3>1. i \in DOMAIN uplink[k] /\ \A j \in 1..i : uplink'[k][j] = uplink[k][j]
            BY <1>8, <2>4 DEF Calm
        <3>2. i \in 1..i /\ \A j \in 1..(i - 1) : j \in 1..i
            BY <1>1, <3>1
        <3>3. Ahead(uplink[k], i, b) \/ b \in Range(downlink[k])
            BY <2>1, <2>3, <2>4, <3>1, <3>2
        <3>4. QED
            BY <2>2, <3>1, <3>2, <3>3 DEF Ahead
    <2>5. QED
        BY <2>1, <2>2, <2>3, <2>4
<1>9. CASE Speaks(k) /\ \E m : Writes(m)
    BY <1>5, <1>9
<1>10. QED
    BY <1>6, <1>7, <1>8, <1>9, SpeakerCases

LEMMA NextAckedWasApplied ==
    ASSUME IInv, [Next]_vars
    PROVE  AckedWasApplied'
<1> USE DEF IInv
\* Nothing new is on its way, and nothing applied is forgotten.
<1>1. ASSUME \A c \in Ids : command'[c].status = "acked" /\ OnItsWay(c)' => OnItsWay(c),
             Range(applied) \subseteq Range(applied'), Opened' = Opened,
             \A c \in Ids : command'[c].status = "acked" => command[c].status = "acked"
      PROVE  \A c \in Ids : command'[c].status = "acked" /\ OnItsWay(c)' => c \in Range(applied')
    BY <1>1 DEF AckedWasApplied
<1>2. ASSUME NEW m, Writes(m) PROVE AckedWasApplied'
    <2>1. /\ Opened' = Opened /\ applied' = applied /\ reading' = reading /\ phone'.conn = phone.conn
          /\ \A k \in Opened : Range(downlink'[k]) \cap Ids = Range(downlink[k]) \cap Ids
          /\ \A k \in Opened : uplink'[k] = IF k = phone.conn /\ k \in reading THEN uplink[k] \o m
                                            ELSE uplink[k]
        BY <1>2, WritesLinks DEF Writes
    <2>2. \A k \in Opened : Range(uplink'[k]) \subseteq Range(uplink[k]) \cup Range(m)
        <3> SUFFICES ASSUME NEW k \in Opened
                     PROVE  Range(uplink'[k]) \subseteq Range(uplink[k]) \cup Range(m)
            OBVIOUS
        <3> DEFINE q == uplink[k]
        <3>1. q \in Seq(Upward) /\ m \in Seq(Upward) /\ uplink'[k] \in {q, q \o m}
            <4>1. q \in Seq(Upward) /\ uplink'[k] \in {q, q \o m}
                BY <2>1, ConnTypes
            <4>2. m \in Seq(Upward)
                BY <1>2 DEF Writes, Upward
            <4>3. QED
                BY <4>1, <4>2
        <3> HIDE DEF q
        <3>2. Range(q \o m) = Range(q) \cup Range(m)
            BY <3>1, ConcatRange
        <3>3. QED
            BY <3>1, <3>2 DEF q
    <2>3. \A c \in Range(m) : c \in Pending(command)' /\ command'[c].status # "acked"
        BY <1>2 DEF Writes, Pending
    <2>4. \A c \in Ids : command'[c].status = "acked" => command[c].status = "acked"
        BY <1>2 DEF Writes
    <2>5. \A c \in Ids : command'[c].status = "acked" /\ OnItsWay(c)' => OnItsWay(c)
        BY <2>1, <2>2, <2>3 DEF OnItsWay
    <2>6. ASSUME NEW k \in Opened, k = phone.conn, NEW c \in Range(downlink'[k]) \cap Ids
          PROVE  c \in Range(applied) \/ (k \notin reading /\ ~OnItsWay(c)')
        <3>1. c \in Range(applied) \/ (k \notin reading /\ ~OnItsWay(c))
            BY <2>1, <2>6 DEF AckedWasApplied
        <3>2. k \notin reading => \A j \in Opened : uplink'[j] = uplink[j]
            BY <2>1, <2>6
        <3>3. k \notin reading /\ ~OnItsWay(c) => ~OnItsWay(c)'
            BY <2>1, <3>2 DEF OnItsWay
        <3>4. QED
            BY <3>1, <3>3
    <2>7. QED
        BY <1>1, <2>1, <2>4, <2>5, <2>6 DEF AckedWasApplied
<1>3. CASE Connect
    <2>1. PICK new :
             /\ Opened' = Opened \cup {new}
             /\ \A k \in Opened : uplink'[k] = uplink[k] /\ downlink'[k] = downlink[k]
             /\ uplink'[new] = <<Hello>> /\ downlink'[new] = <<>>
             /\ command' = command /\ applied' = applied
             /\ \A k \in Opened : k # phone'.conn
        BY <1>3, ConnectViews
    <2>2. Range(<<Hello>>) = {Hello} /\ Range(<<>>) = {}
        BY DEF Range
    <2>3. \A c \in Ids : OnItsWay(c)' => OnItsWay(c)
        BY <2>1, <2>2, IdsAreNumbers DEF OnItsWay
    <2>4. \A k \in Opened' : k = phone'.conn => Range(downlink'[k]) = {}
        BY <2>1, <2>2
    <2>5. QED
        BY <2>1, <2>3, <2>4 DEF AckedWasApplied
<1>4. CASE Disconnect
    <2>1. Opened' = Opened /\ UNCHANGED <<command, uplink, applied>> /\ \A k \in Opened : k # phone'.conn
        BY <1>4, DisconnectViews
    <2>2. QED
        BY <2>1 DEF AckedWasApplied, OnItsWay
<1>5. CASE ReceiveAck
    <2>1. PICK x \in Ids :
             /\ phone.conn \in Opened /\ x \in Range(downlink[phone.conn]) /\ Opened' = Opened
             /\ \A k \in Opened : Range(downlink'[k]) \subseteq Range(downlink[k])
             /\ \A b \in Ids : command'[b].status = "acked" => command[b].status = "acked" \/ b = x
        BY <1>5, AckViews
    <2>2. UNCHANGED <<phone, uplink, reading, applied>>
        BY <1>5 DEF ReceiveAck
    <2>3. \A c \in Ids : OnItsWay(c)' <=> OnItsWay(c)
        BY <2>1, <2>2 DEF OnItsWay
    <2>4. x \in Range(applied) \/ ~OnItsWay(x)
        BY <2>1 DEF AckedWasApplied
    <2>5. \A c \in Ids : command'[c].status = "acked" /\ OnItsWay(c)' => c \in Range(applied')
        BY <2>1, <2>2, <2>3, <2>4 DEF AckedWasApplied
    <2>6. \A k \in Opened' : k = phone'.conn =>
            \A c \in Range(downlink'[k]) \cap Ids :
                c \in Range(applied') \/ (k \notin reading' /\ ~OnItsWay(c)')
        BY <2>1, <2>2, <2>3 DEF AckedWasApplied
    <2>7. QED
        BY <2>5, <2>6 DEF AckedWasApplied
<1>6. CASE Elapse
    <2>1. UNCHANGED <<phone, uplink, downlink, reading, applied>>
          /\ \A c \in Ids : command'[c].status = command[c].status
        BY <1>6, ElapseViews DEF Elapse
    <2>2. QED
        BY <2>1 DEF AckedWasApplied, OnItsWay, Opened
<1>7. CASE UNCHANGED vars
    BY <1>7 DEF vars, AckedWasApplied, OnItsWay, Opened
<1>8. CASE Restart
    <2>1. Opened' = Opened /\ reading' = {} /\ \A k \in Opened : uplink'[k] = <<>>
        BY <1>8, EmptiedType DEF Restart
    <2>2. \A c : ~OnItsWay(c)'
        BY <2>1 DEF OnItsWay, Range
    <2>3. QED
        BY <2>1, <2>2 DEF AckedWasApplied
<1>9. CASE ServerStep /\ ~Restart
    <2>1. /\ command' = command /\ phone' = phone /\ Opened' = Opened /\ reading' \subseteq reading
          /\ \A j \in Opened : Range(uplink'[j]) \cap Ids \subseteq Range(uplink[j])
        BY <1>9, ServerLinks
    <2>2. \A c \in Ids : OnItsWay(c)' => OnItsWay(c)
        BY <2>1 DEF OnItsWay
    <2>3. Range(applied) \subseteq Range(applied')
        <3>1. ASSUME NEW k \in Opened, NEW c \in Ids, HandleCommand(k, c), Speaks(k)
              PROVE  Range(applied) \subseteq Range(applied')
            BY <3>1, CommandViews
        <3>2. ASSUME NEW k \in Opened, HandleHello(k) \/ HandleLeave(k) PROVE applied' = applied
            BY <3>2 DEF HandleHello, HandleLeave
        <3>3. Elapse \/ ForgetMember => applied' = applied
            BY DEF Elapse, ForgetMember
        <3>4. QED
            BY <1>9, <3>1, <3>2, <3>3, RoomCases
    <2>4. ASSUME NEW k \in Opened, k = phone.conn, NEW c \in Range(downlink'[k]) \cap Ids
          PROVE  c \in Range(applied') \/ (k \notin reading' /\ ~OnItsWay(c)')
        <3>1. CASE c \in Range(downlink[k])
            BY <2>1, <2>2, <2>3, <2>4, <3>1 DEF AckedWasApplied
        <3>2. CASE c \notin Range(downlink[k])
            <4>1. PICK j \in Opened, x \in Ids :
                    /\ HandleCommand(j, x) /\ Speaks(j)
                    /\ \A l \in Opened : Range(downlink'[l]) \subseteq Range(downlink[l]) \cup {x}
                BY <1>9, <2>4, <3>2, ServerAnswers
            <4>2. c = x
                BY <2>4, <3>2, <4>1
            <4>3. QED
                BY <4>1, <4>2, CommandViews
        <3>3. QED
            BY <3>1, <3>2
    <2>5. QED
        BY <1>1, <2>1, <2>2, <2>3, <2>4 DEF AckedWasApplied
<1>10. CASE \E m : Writes(m)
    BY <1>2, <1>10
<1>11. QED
    BY <1>3, <1>4, <1>5, <1>6, <1>7, <1>8, <1>9, <1>10, NextCases

-----------------------------------------------------------------------------
(* The theorems *)

LEMMA InitIInv == Init => IInv
<1> SUFFICES ASSUME Init PROVE IInv
    OBVIOUS
<1>1. /\ command = [c \in Ids |-> NotGiven] /\ NotGiven \in Views /\ NotGiven.status = "notGiven"
      /\ uplink = <<>> /\ downlink = <<>> /\ applied = <<>>
      /\ member.recent = <<>> /\ member.conn = 0 /\ ~member.known
      /\ Range(<<>>) = {} /\ Opened = {} /\ phone.conn = 0
    BY DEF Init, NotGiven, Views, NoMember, NoConn, Opened, Range
<1>2. /\ Given = {} /\ Pending(command) = {}
    BY <1>1 DEF Given, Pending
<1>3. TypesOk
    <2>1. member \in [known : BOOLEAN, conn : Nat, away : Nat, recent : Seq(Ids)]
        BY DEF Init, NoMember, NoConn
    <2>2. phone \in [conn : Nat, online : BOOLEAN] /\ reading = {} /\ joined = {} /\ before = {}
        BY DEF Init, NoConn
    <2>3. QED
        BY <1>1, <2>1, <2>2, RecentAssumption DEF TypesOk
<1>4. Cardinality(Pending(command)) <= MaxPending
    <2>1. Cardinality({}) = 0
        BY FS_EmptySet
    <2>2. QED
        BY <1>2, <2>1, RecentAssumption
<1>5. GivenInOrder /\ PendingAreLast
    BY <1>1, <1>2, <1>4 DEF GivenInOrder, PendingAreLast
<1>6. HelloComesFirst /\ Lines /\ AcksInOrder /\ SentInOrder
    BY <1>1 DEF HelloComesFirst, Lines, AcksInOrder, SentInOrder
<1>7. RemembersApplied /\ PendingAreRemembered /\ AppliedInTurn /\ AppliedInOrder
    BY <1>1, <1>2 DEF RemembersApplied, PendingAreRemembered, AppliedInTurn, AppliedInOrder, NoConn
<1>8. AckedWasApplied
    BY <1>1 DEF AckedWasApplied
<1>9. QED
    BY <1>3, <1>5, <1>6, <1>7, <1>8 DEF IInv

LEMMA NextIInv == IInv /\ [Next]_vars => IInv'
<1> SUFFICES ASSUME IInv, [Next]_vars PROVE IInv'
    OBVIOUS
<1>1. TypesOk'
    BY NextTypes DEF IInv
<1>2. GivenInOrder' /\ PendingAreLast'
    BY NextGivenInOrder, NextPendingAreLast
<1>3. HelloComesFirst' /\ RemembersApplied' /\ AppliedInOrder'
    BY NextHelloComesFirst, NextRemembersApplied
<1>4. PendingAreRemembered' /\ AppliedInTurn'
    BY NextPendingAreRemembered, NextAppliedInTurn
<1>5. Lines' /\ AcksInOrder' /\ SentInOrder'
    BY <1>2, NextLines, NextAcksInOrder, NextSentInOrder
<1>6. AckedWasApplied'
    BY NextAckedWasApplied
<1>7. QED
    BY <1>1, <1>2, <1>3, <1>4, <1>5, <1>6 DEF IInv

\* The parts above hold in every state.
LEMMA Invariance == Spec => []IInv
BY InitIInv, NextIInv, PTL DEF Spec

\* As long as the server runs, handleCommand applies the commands of a listener
\* in the order they were given, and none twice, however often the phone resends
\* and replays them and however many connections still carry copies.
THEOREM CommandsInOrder == Spec => []AppliedInOrder
<1>1. IInv => AppliedInOrder
    BY DEF IInv
<1>2. QED
    BY <1>1, Invariance, PTL

\* Neither remember's limit nor the grace period makes the room forget a command
\* that the phone may still send again.
THEOREM PendingIsRecognised == Spec => []RetriesAreRecognised
<1>1. IInv => RetriesAreRecognised
    BY DEF IInv, PendingAreRemembered, RetriesAreRecognised
<1>2. QED
    BY <1>1, Invariance, PTL

\* A command that is applied comes over the listener's connection, for the first
\* time; had the phone seen it acknowledged, this server would have applied it.
LEMMA NextSettled ==
    ASSUME IInv, [Next]_vars, NEW c \in Ids, command[c].status = "acked"
    PROVE  applied' # Append(applied, c)
<1> SUFFICES ASSUME applied' = Append(applied, c) PROVE FALSE
    OBVIOUS
<1>1. /\ applied \in Seq(Ids) /\ DOMAIN applied = 1..Len(applied) /\ Len(applied) \in Nat
      /\ DOMAIN applied' = 1..(Len(applied) + 1) /\ applied'[Len(applied) + 1] = c
      /\ \A i \in 1..Len(applied) : applied'[i] = applied[i]
    BY DEF IInv, TypesOk
<1>2. applied' # applied /\ applied' # <<>> /\ Range(applied') = Range(applied) \cup {c}
    <2>1. Len(applied) + 1 \in DOMAIN applied' /\ Len(applied) + 1 \notin DOMAIN applied
          /\ DOMAIN <<>> = {}
        BY <1>1
    <2>2. applied' # applied /\ applied' # <<>>
        BY <2>1, Zenon
    <2>3. Range(applied') = Range(applied) \cup {c}
        BY <1>1, AppendRange
    <2>4. QED
        BY <2>2, <2>3
<1>3. c \notin Range(applied)
    <2> SUFFICES ASSUME NEW i \in 1..Len(applied), applied[i] = c PROVE FALSE
        BY <1>1 DEF Range
    <2>1. applied'[i] < applied'[Len(applied) + 1]
        BY <1>1, NextRemembersApplied DEF AppliedInOrder
    <2>2. QED
        BY <1>1, <2>1, IdsAreNumbers
<1>4. PICK k \in Opened, x \in Ids : HandleCommand(k, x) /\ Speaks(k)
    BY <1>2, RoomCases DEF IInv, Elapse, ForgetMember, Restart, HandleHello, HandleLeave
<1>5. x = c
    BY <1>2, <1>3, <1>4, CommandViews DEF IInv
<1>6. OnItsWay(c)
    BY <1>4, <1>5, TakesType DEF IInv, HandleCommand, OnItsWay
<1>7. QED
    BY <1>3, <1>6 DEF IInv, AckedWasApplied

\* Once the phone saw a command acknowledged, no copy of it is applied again, by
\* this server or one that has restarted since.
THEOREM SettledStaysSettled == Spec => SettledIsNeverRepeated
<1>1. IInv /\ [Next]_vars =>
        [\A c \in Ids : command[c].status = "acked" => applied' # Append(applied, c)]_vars
    BY NextSettled
<1>2. QED
    BY <1>1, Invariance, PTL DEF Spec, SettledIsNeverRepeated
=============================================================================
