---------------------------- MODULE PlayerProofs ----------------------------
(***************************************************************************)
(* Theorems about the player, for all tracks, stored copies and events,    *)
(* however late resolve() answers and whatever it answers.                 *)
(***************************************************************************)
EXTENDS Player, TLAPS

Players == [trackId : Tracks \cup {NoTrack}, source : Sources \cup {NoSource},
            loading : BOOLEAN, unavailable : BOOLEAN, bypassCache : BOOLEAN,
            retry : Tracks \cup {NoTrack}, start : BOOLEAN, selfPause : Nat,
            endPauseSeen : BOOLEAN, endPauseQueued : BOOLEAN, buffering : BOOLEAN,
            needsGesture : BOOLEAN, personalPause : BOOLEAN, priming : BOOLEAN,
            disposed : BOOLEAN]
Elements == [src : Sources \cup {NoSource}, paused : BOOLEAN, ended : BOOLEAN,
             ready : {"nothing", "metadata", "future", "error"}]
Events == {"pausedByPlayer", "pausedAtEnd", "pausedBySystem", "playing"}
Loads == [track : Tracks, bypass : BOOLEAN, latest : BOOLEAN]
Worlds == [p : Players, e : Elements, q : Seq(Events), l : Seq(Loads)]

\* The load that is awaited is for the track the player is for; while none is, the
\* element has that track's source.
Matches(w) ==
    /\ \A i \in DOMAIN w.l : w.l[i].latest => w.p.loading /\ w.l[i].track = w.p.trackId
    /\ \A i, j \in DOMAIN w.l : w.l[i].latest /\ w.l[j].latest => i = j
    /\ w.p.disposed \/ w.e.src = w.p.source
    /\ w.p.trackId # NoTrack /\ ~w.p.loading /\ ~w.p.unavailable =>
           w.p.source.track = w.p.trackId

Good(w) == w \in Worlds /\ Matches(w)

\* What is not in a World.
OthersOK ==
    /\ room \in [track : Tracks \cup {NoTrack}, playing : BOOLEAN, armed : BOOLEAN,
                 ending : BOOLEAN]
    /\ browser \in [allows : BOOLEAN, online : BOOLEAN]
    /\ budget \in [changes : 0..MaxChanges, faults : 0..MaxFaults]

InUse(p) == IF p.source.cached /\ ~p.disposed THEN {p.source} ELSE {}

IInv ==
    /\ player \in Players /\ element \in Elements /\ events \in Seq(Events) /\ loads \in Seq(Loads)
    /\ Matches(World)
    /\ OthersOK
    /\ open = InUse(player)

-----------------------------------------------------------------------------
(* The methods *)

\* Nothing that Matches speaks of is different.
Same(v, w) ==
    /\ v \in Worlds
    /\ v.l = w.l /\ v.e.src = w.e.src
    /\ v.p.trackId = w.p.trackId /\ v.p.source = w.p.source /\ v.p.loading = w.p.loading
    /\ v.p.unavailable = w.p.unavailable /\ v.p.disposed = w.p.disposed

LEMMA SameGood ==
    ASSUME NEW w, Good(w), NEW v, Same(v, w)
    PROVE  Good(v) /\ v.p.source = w.p.source /\ v.p.disposed = w.p.disposed
BY DEF Good, Same, Matches

LEMMA SameTransitive ==
    ASSUME NEW u, NEW v, NEW w, Same(u, v), Same(v, w)
    PROVE  Same(u, w)
BY DEF Same

LEMMA SameSelf ==
    ASSUME NEW w \in Worlds
    PROVE  Same(w, w)
BY DEF Same

\* A world is what its parts are.
LEMMA PartsSame ==
    ASSUME NEW w \in Worlds, NEW p \in Players, NEW e \in Elements, NEW q \in Seq(Events),
           p.trackId = w.p.trackId, p.source = w.p.source, p.loading = w.p.loading,
           p.unavailable = w.p.unavailable, p.disposed = w.p.disposed, e.src = w.e.src,
           NEW v, v = [w EXCEPT !.p = p, !.e = e, !.q = q]
    PROVE  Same(v, w)
BY DEF Same, Worlds

LEMMA PlayerSame ==
    ASSUME NEW w \in Worlds, NEW p \in Players,
           p.trackId = w.p.trackId, p.source = w.p.source, p.loading = w.p.loading,
           p.unavailable = w.p.unavailable, p.disposed = w.p.disposed
    PROVE  Same([w EXCEPT !.p = p], w)
BY DEF Same, Worlds

LEMMA ElPauseSame ==
    ASSUME NEW w \in Worlds, NEW event \in Events
    PROVE  Same(ElPause(w, event), w)
<1>1. CASE w.e.paused
    BY <1>1, SameSelf DEF ElPause
<1>2. CASE ~w.e.paused
    <2> DEFINE p == [w.p EXCEPT !.priming = FALSE]
               e == [w.e EXCEPT !.paused = TRUE]
               q == Append(w.q, event)
    <2>0. w.p \in Players /\ w.e \in Elements /\ w.q \in Seq(Events)
        BY DEF Worlds
    <2>1. p \in Players /\ p.trackId = w.p.trackId /\ p.source = w.p.source
          /\ p.loading = w.p.loading /\ p.unavailable = w.p.unavailable
          /\ p.disposed = w.p.disposed
        BY <2>0 DEF Players
    <2>2. e \in Elements /\ e.src = w.e.src
        BY <2>0 DEF Elements
    <2>5. q \in Seq(Events)
        BY <2>0
    <2>3. ElPause(w, event) = [w EXCEPT !.p = p, !.e = e, !.q = q]
        BY <1>2 DEF ElPause, Worlds
    <2> HIDE DEF p, e, q
    <2>4. QED
        BY <2>1, <2>2, <2>3, <2>5, PartsSame
<1>3. QED
    BY <1>1, <1>2

LEMMA ElPlaySame ==
    ASSUME NEW w \in Worlds
    PROVE  Same(ElPlay(w), w)
<1> DEFINE e == [w.e EXCEPT !.paused = FALSE, !.ended = FALSE]
           q == IF w.e.paused /\ w.e.ready = "future" THEN Append(w.q, "playing") ELSE w.q
<1>0. w.p \in Players /\ w.e \in Elements /\ w.q \in Seq(Events)
    BY DEF Worlds
<1>1. e \in Elements /\ e.src = w.e.src
    BY <1>0 DEF Elements
<1>4. q \in Seq(Events)
    BY <1>0 DEF Events
<1>2. ElPlay(w) = [w EXCEPT !.p = w.p, !.e = e, !.q = q]
    BY DEF ElPlay, Worlds
<1> HIDE DEF e, q
<1>3. QED
    BY <1>0, <1>1, <1>2, <1>4, PartsSame

LEMMA PauseSame ==
    ASSUME NEW w \in Worlds
    PROVE  Same(PauseEl(w), w)
<1> DEFINE v == [w EXCEPT !.p.selfPause = @ + 1]
           p == [w.p EXCEPT !.selfPause = @ + 1]
<1>0. w.p \in Players /\ v = [w EXCEPT !.p = p]
    BY DEF Worlds
<1>1. Same(v, w)
    <2>1. p \in Players /\ p.trackId = w.p.trackId /\ p.source = w.p.source
          /\ p.loading = w.p.loading /\ p.unavailable = w.p.unavailable
          /\ p.disposed = w.p.disposed
        BY <1>0 DEF Players
    <2> HIDE DEF p, v
    <2>2. QED
        BY <1>0, <2>1, PlayerSame
<1>2. v \in Worlds /\ "pausedByPlayer" \in Events
    BY <1>1 DEF Same, Events
<1> HIDE DEF v
<1>3. Same(ElPause(v, "pausedByPlayer"), v)
    BY <1>2, ElPauseSame
<1>4. Same(ElPause(v, "pausedByPlayer"), w)
    BY <1>1, <1>3, SameTransitive
<1>5. QED
    BY <1>4, SameSelf DEF PauseEl, v

LEMMA LeaveSame ==
    ASSUME NEW w \in Worlds
    PROVE  Same(LeaveEnded(w), w)
<1>1. CASE ~w.e.ended
    BY <1>1, SameSelf DEF LeaveEnded
<1>2. CASE w.e.ended
    <2> DEFINE b == w.p.endPauseQueued \/ ~w.p.endPauseSeen
               p == [w.p EXCEPT !.endPauseQueued = b, !.endPauseSeen = FALSE]
    <2>1. w.p \in Players
        BY DEF Worlds
    <2>2. LeaveEnded(w) = [w EXCEPT !.p = p]
        BY <1>2 DEF LeaveEnded, Worlds
    <2>3. b \in BOOLEAN
        OBVIOUS
    <2> HIDE DEF b
    <2>4. p \in Players /\ p.trackId = w.p.trackId /\ p.source = w.p.source
          /\ p.loading = w.p.loading /\ p.unavailable = w.p.unavailable
          /\ p.disposed = w.p.disposed
        BY <2>1, <2>3 DEF Players
    <2> HIDE DEF p
    <2>5. QED
        BY <2>2, <2>4, PlayerSame
<1>3. QED
    BY <1>1, <1>2

LEMMA PlaySame ==
    ASSUME NEW w \in Worlds
    PROVE  Same(PlayEl(w), w)
<1> DEFINE v == LeaveEnded(w)
<1>1. Same(v, w)
    BY LeaveSame
<1>2. Same(ElPlay(v), v)
    BY <1>1, ElPlaySame DEF Same
<1>3. Same([v EXCEPT !.p.needsGesture = TRUE], v)
    BY <1>1 DEF Same, Worlds, Players
<1>4. QED
    BY <1>1, <1>2, <1>3, SameTransitive DEF PlayEl

LEMMA SeekSame ==
    ASSUME NEW w \in Worlds
    PROVE  Same(SeekEl(w), w)
<1> DEFINE v == LeaveEnded(w)
<1>1. Same(v, w)
    BY LeaveSame
<1>2. Same([v EXCEPT !.e.ended = FALSE], v)
    BY <1>1 DEF Same, Worlds, Elements
<1>3. QED
    BY <1>1, <1>2, SameTransitive DEF SeekEl

LEMMA ClearSame ==
    ASSUME NEW w \in Worlds
    PROVE  Same(ClearStart(w), w)
BY DEF ClearStart, Same, Worlds, Players

LEMMA StartSame ==
    ASSUME NEW w \in Worlds
    PROVE  Same([w EXCEPT !.p.start = TRUE], w)
BY DEF Same, Worlds, Players

LEMMA BufferSame ==
    ASSUME NEW w \in Worlds, NEW b \in BOOLEAN
    PROVE  Same([w EXCEPT !.p.buffering = b], w)
BY DEF Same, Worlds, Players

\* A method keeps what the element and the sources have to do with each other.
Kept(v, w) == Good(v) /\ v.p.source = w.p.source /\ v.p.disposed = w.p.disposed

LEMMA SameKept ==
    ASSUME NEW w, Good(w), NEW v, Same(v, w)
    PROVE  Kept(v, w)
BY SameGood DEF Kept

LEMMA LoadKept ==
    ASSUME NEW w, Good(w), NEW track \in Tracks
    PROVE  Kept(Load(w, track), w)
<1> DEFINE v == LeaveEnded(w)
           new == [track |-> track, bypass |-> v.p.bypassCache, latest |-> TRUE]
           stale == [i \in DOMAIN v.l |-> [v.l[i] EXCEPT !.latest = FALSE]]
           l == Append(stale, new)
           p == [v.p EXCEPT !.retry = NoTrack, !.start = FALSE, !.trackId = track, !.loading = TRUE,
                            !.unavailable = FALSE, !.buffering = FALSE]
           u == [v EXCEPT !.l = l, !.p = p]
<1>1. Same(v, w) /\ v \in Worlds
    BY LeaveSame DEF Good, Same
<1> HIDE DEF v
<1>2. v.p \in Players /\ v.l \in Seq(Loads)
    BY <1>1 DEF Worlds
<1>3. new \in Loads
    BY <1>2 DEF Loads, Players
<1>4. stale \in Seq(Loads) /\ Len(stale) = Len(v.l) /\ \A i \in 1..Len(stale) : ~stale[i].latest
    <2>1. stale = [i \in 1..Len(v.l) |-> [v.l[i] EXCEPT !.latest = FALSE]]
        BY <1>2
    <2>2. \A i \in 1..Len(v.l) : v.l[i] \in Loads
        BY <1>2
    <2>3. \A i \in 1..Len(v.l) :
             [v.l[i] EXCEPT !.latest = FALSE] \in Loads /\ ~[v.l[i] EXCEPT !.latest = FALSE].latest
        BY <2>2 DEF Loads
    <2>4. stale \in [1..Len(v.l) -> Loads] /\ Len(v.l) \in Nat
        BY <1>2, <2>1, <2>3
    <2> HIDE DEF stale
    <2>5. stale \in Seq(Loads) /\ Len(stale) = Len(v.l)
        BY <2>4
    <2>6. \A i \in 1..Len(v.l) : ~stale[i].latest
        BY <2>1, <2>3
    <2>7. QED
        BY <2>5, <2>6
<1>5. l \in Seq(Loads) /\ Len(l) = Len(stale) + 1
      /\ \A i \in 1..Len(l) : l[i].latest => i = Len(l) /\ l[i].track = track
    BY <1>3, <1>4
<1>6. p \in Players /\ p.trackId = track /\ p.loading /\ p.source = v.p.source
      /\ p.disposed = v.p.disposed
    BY <1>2 DEF Players
<1> HIDE DEF new, stale, l, p
<1>7. u \in Worlds /\ u.l = l /\ u.p = p /\ u.e = v.e
    BY <1>1, <1>5, <1>6 DEF Worlds
<1> HIDE DEF u
<1>8. Matches(u)
    <2>1. \A i \in DOMAIN u.l : u.l[i].latest => i = Len(u.l) /\ u.l[i].track = u.p.trackId
        BY <1>5, <1>6, <1>7
    <2>2. u.p.disposed \/ u.e.src = u.p.source
        BY <1>1, <1>6, <1>7 DEF Same, Good, Matches
    <2>3. u.p.loading
        BY <1>6, <1>7
    <2>4. QED
        BY <2>1, <2>2, <2>3 DEF Matches
<1>9. Load(w, track) = PauseEl(u)
    <2>1. v.p = LeaveEnded(w).p /\ w.p.bypassCache = v.p.bypassCache
        BY DEF v, LeaveEnded, Good, Worlds, Players
    <2>2. QED
        BY <1>1, <2>1 DEF Load, u, p, l, stale, new, v, Worlds
<1>10. Same(PauseEl(u), u)
    BY <1>7, PauseSame
<1>11. QED
    BY <1>1, <1>6, <1>7, <1>8, <1>9, <1>10, SameGood DEF Kept, Good, Same

LEMMA TickKept ==
    ASSUME NEW w, Good(w), OthersOK, NEW seek
    PROVE  Kept(Tick(w, seek), w)
<1> DEFINE still == PauseEl(ClearStart(w))
           parked == PauseEl(w)
           moving == ClearStart(w)
<1>1. w \in Worlds
    BY DEF Good
<1>2. Same(moving, w) /\ moving \in Worlds
    BY <1>1, ClearSame DEF Same
<1>3. Same(parked, w) /\ parked \in Worlds
    BY <1>1, PauseSame DEF Same
<1>4. Same(still, w) /\ still \in Worlds
    BY <1>2, PauseSame, SameTransitive DEF Same
<1>5. Same(SeekEl(still), w) /\ Same(SeekEl(parked), w) /\ Same(SeekEl(moving), w)
    BY <1>2, <1>3, <1>4, SeekSame, SameTransitive
<1>6. Same(PlayEl(SeekEl(moving)), w)
    BY <1>5, PlaySame, SameTransitive DEF Same
<1>7. Same([moving EXCEPT !.p.buffering = TRUE], w)
    BY <1>2, BufferSame, SameTransitive
<1>8. Same([SeekEl(parked) EXCEPT !.p.start = TRUE], w) /\ Same([parked EXCEPT !.p.start = TRUE], w)
    BY <1>3, <1>5, StartSame, SameTransitive DEF Same
<1>9. room.track # NoTrack => room.track \in Tracks
    BY DEF OthersOK
<1>10. CASE room.track # NoTrack /\ room.track # w.p.trackId /\ ~w.p.disposed
    BY <1>9, <1>10, LoadKept DEF Tick
<1>11. CASE ~(room.track # NoTrack /\ room.track # w.p.trackId /\ ~w.p.disposed)
    <2>1. Same(Tick(w, seek), w)
        BY <1>1, <1>2, <1>4, <1>5, <1>6, <1>7, <1>8, <1>11, SameSelf DEF Tick
    <2>2. QED
        BY <2>1, SameKept
<1>12. QED
    BY <1>10, <1>11

-----------------------------------------------------------------------------
(* The steps *)

LEMMA WorldGood ==
    ASSUME IInv
    PROVE  Good(World)
BY DEF IInv, Good, World, Worlds

LEMMA BecomesGood ==
    ASSUME NEW w, Good(w), Becomes(w), OthersOK', open' = InUse(w.p)
    PROVE  IInv'
<1>1. World' = w
    BY DEF Becomes, World, Good, Worlds
<1>2. QED
    BY <1>1 DEF Becomes, IInv, Good, Worlds, InUse

LEMMA KeptStep ==
    ASSUME IInv, NEW w, Kept(w, World), Becomes(w), OthersOK', open' = open
    PROVE  IInv'
<1>1. w.p.source = player.source /\ w.p.disposed = player.disposed /\ Good(w)
    BY DEF Kept, World
<1>2. open' = InUse(w.p)
    BY <1>1 DEF IInv, InUse
<1>3. QED
    BY <1>1, <1>2, BecomesGood

\* A step that sets fields without calling a method.
LEMMA FieldsStep ==
    ASSUME IInv, player' \in Players, player'.trackId = player.trackId,
           player'.source = player.source, player'.loading = player.loading,
           player'.unavailable = player.unavailable, player'.disposed = player.disposed,
           element' \in Elements, element'.src = element.src,
           UNCHANGED <<events, loads, open>>, OthersOK'
    PROVE  IInv'
BY DEF IInv, World, Matches, InUse

LEMMA BudgetOK ==
    ASSUME IInv, Change \/ Fault \/ UNCHANGED budget
    PROVE  budget' \in [changes : 0..MaxChanges, faults : 0..MaxFaults]
BY PlayerAssumption DEF IInv, OthersOK, Change, Fault

LEMMA RemovedIsSeq ==
    ASSUME NEW l \in Seq(Loads), NEW i \in DOMAIN l
    PROVE  /\ RemoveAt(l, i) \in Seq(Loads)
           /\ \A j \in DOMAIN RemoveAt(l, i) :
                 \E k \in DOMAIN l \ {i} :
                    RemoveAt(l, i)[j] = l[k] /\ (k = j \/ k = j + 1) /\ (k = j <=> j < i)
<1> DEFINE a == SubSeq(l, 1, i - 1)
           b == SubSeq(l, i + 1, Len(l))
<1>1. i \in 1..Len(l) /\ Len(l) \in Nat
    OBVIOUS
<1>2. a \in Seq(Loads) /\ Len(a) = i - 1 /\ \A j \in 1..(i - 1) : a[j] = l[j]
    BY <1>1
<1>3. b \in Seq(Loads) /\ Len(b) = Len(l) - i /\ \A j \in 1..(Len(l) - i) : b[j] = l[j + i]
    BY <1>1
<1> HIDE DEF a, b
<1>4. a \o b \in Seq(Loads) /\ Len(a \o b) = Len(l) - 1
    BY <1>1, <1>2, <1>3
<1>5. \A j \in 1..(Len(l) - 1) :
         /\ j < i => (a \o b)[j] = l[j]
         /\ ~(j < i) => (a \o b)[j] = l[j + 1]
    BY <1>1, <1>2, <1>3
<1>6. RemoveAt(l, i) = a \o b
    BY DEF RemoveAt, a, b
<1>7. ASSUME NEW j \in 1..(Len(l) - 1)
      PROVE  \E k \in DOMAIN l \ {i} :
                (a \o b)[j] = l[k] /\ (k = j \/ k = j + 1) /\ (k = j <=> j < i)
    <2>1. CASE j < i
        <3>1. j \in DOMAIN l \ {i}
            BY <1>1, <2>1
        <3>2. QED
            BY <1>5, <2>1, <3>1
    <2>2. CASE ~(j < i)
        <3>1. j + 1 \in DOMAIN l \ {i} /\ j + 1 # j
            BY <1>1, <2>2
        <3>2. (a \o b)[j] = l[j + 1]
            BY <1>5, <2>2
        <3>3. QED
            BY <2>2, <3>1, <3>2
    <2>3. QED
        BY <2>1, <2>2
<1>8. DOMAIN (a \o b) = 1..(Len(l) - 1)
    BY <1>4
<1>9. QED
    BY <1>4, <1>6, <1>7, <1>8

\* Once the answer that was awaited is taken, none is.
LEMMA WithoutLoadGood ==
    ASSUME IInv, NEW i \in DOMAIN loads
    PROVE  /\ Good(WithoutLoad(i)) /\ WithoutLoad(i).p = player /\ WithoutLoad(i).e = element
           /\ WithoutLoad(i).l = RemoveAt(loads, i)
           /\ loads[i].latest =>
                 \A j \in DOMAIN WithoutLoad(i).l : ~WithoutLoad(i).l[j].latest
<1> DEFINE w == WithoutLoad(i)
<1>1. loads \in Seq(Loads)
    BY DEF IInv
<1>2. RemoveAt(loads, i) \in Seq(Loads)
      /\ \A j \in DOMAIN RemoveAt(loads, i) :
            \E k \in DOMAIN loads \ {i} :
               RemoveAt(loads, i)[j] = loads[k] /\ (k = j \/ k = j + 1) /\ (k = j <=> j < i)
    BY <1>1, RemovedIsSeq
<1>3. w \in Worlds /\ w.p = player /\ w.e = element /\ w.q = events /\ w.l = RemoveAt(loads, i)
    BY <1>2, WorldGood DEF WithoutLoad, World, Good, Worlds
<1>4. Matches(World) /\ World.l = loads /\ World.p = player /\ World.e = element
    BY DEF IInv, World
<1> HIDE DEF w
<1>5. \A j, k \in DOMAIN loads : loads[j].latest /\ loads[k].latest => j = k
    BY <1>4 DEF Matches
<1>6. \A j \in DOMAIN loads : loads[j].latest => player.loading /\ loads[j].track = player.trackId
    BY <1>4 DEF Matches
<1>7. \A j \in DOMAIN w.l : w.l[j].latest => w.p.loading /\ w.l[j].track = w.p.trackId
    BY <1>2, <1>3, <1>6
<1>8. \A j, k \in DOMAIN w.l : w.l[j].latest /\ w.l[k].latest => j = k
    <2> SUFFICES ASSUME NEW j \in DOMAIN w.l, NEW k \in DOMAIN w.l, w.l[j].latest, w.l[k].latest
                 PROVE  j = k
        OBVIOUS
    <2>1. PICK m \in DOMAIN loads \ {i} : w.l[j] = loads[m] /\ (m = j \/ m = j + 1) /\ (m = j <=> j < i)
        BY <1>2, <1>3
    <2>2. PICK n \in DOMAIN loads \ {i} : w.l[k] = loads[n] /\ (n = k \/ n = k + 1) /\ (n = k <=> k < i)
        BY <1>2, <1>3
    <2>3. m = n
        BY <1>5, <2>1, <2>2
    <2>4. i \in Int /\ m \in Int /\ j \in Int /\ k \in Int
        BY <1>1, <1>2, <1>3
    <2>5. QED
        BY <2>1, <2>2, <2>3, <2>4
<1>9. Matches(w)
    BY <1>3, <1>4, <1>7, <1>8 DEF Matches
<1>10. loads[i].latest => \A j \in DOMAIN w.l : ~w.l[j].latest
    BY <1>2, <1>3, <1>5
<1>11. QED
    BY <1>3, <1>9, <1>10 DEF Good, w

\* resolve() returned, for a player that still waits.
LEMMA ArrivalSteps ==
    ASSUME IInv, SourceArrives \/ NothingArrives
    PROVE  IInv'
<1>1. CASE SourceArrives
    <2>1. PICK i \in DOMAIN loads, drops \in BOOLEAN, seek \in BOOLEAN :
             \E cached \in Resolvable(loads[i]), copy \in Copies :
                LET source == [copy |-> copy, track |-> loads[i].track, cached |-> cached]
                IN  /\ loads[i].latest /\ ~player.disposed
                    /\ copy \notin {s.copy : s \in open}
                    /\ Becomes(Tick(Resolved(WithoutLoad(i), source, drops), seek))
                    /\ open' = Released(player.source) \cup (IF cached THEN {source} ELSE {})
                    /\ UNCHANGED <<room, browser, budget>>
        BY <1>1 DEF SourceArrives
    <2>2. PICK cached \in Resolvable(loads[i]), copy \in Copies :
                LET source == [copy |-> copy, track |-> loads[i].track, cached |-> cached]
                IN  /\ loads[i].latest /\ ~player.disposed
                    /\ copy \notin {s.copy : s \in open}
                    /\ Becomes(Tick(Resolved(WithoutLoad(i), source, drops), seek))
                    /\ open' = Released(player.source) \cup (IF cached THEN {source} ELSE {})
                    /\ UNCHANGED <<room, browser, budget>>
        BY <2>1
    <2> DEFINE source == [copy |-> copy, track |-> loads[i].track, cached |-> cached]
               w == WithoutLoad(i)
               e == [src |-> source, paused |-> TRUE, ended |-> FALSE, ready |-> "nothing"]
               q == IF drops THEN <<>> ELSE w.q
               p == [w.p EXCEPT !.priming = FALSE, !.bypassCache = FALSE, !.source = source,
                                !.loading = FALSE]
               u == Resolved(w, source, drops)
    <2>3. loads[i] \in Loads /\ loads[i].latest /\ ~player.disposed
        BY <2>2 DEF IInv
    <2>4. source \in Sources /\ source.track = loads[i].track /\ source.cached = cached
        BY <2>3 DEF Resolvable, Sources, Loads
    <2>5. /\ Good(w) /\ w.p = player /\ w.e = element
          /\ \A j \in DOMAIN w.l : ~w.l[j].latest
        BY <2>3, WithoutLoadGood
    <2>6. loads[i].track = player.trackId
        BY <2>3 DEF IInv, Matches, World
    <2> HIDE DEF w, source
    <2>7. w \in Worlds /\ w.p \in Players /\ w.q \in Seq(Events)
        BY <2>5 DEF Good, Worlds
    <2>8. p \in Players /\ p.source = source /\ ~p.loading /\ p.trackId = w.p.trackId
          /\ p.disposed = w.p.disposed
        BY <2>4, <2>7 DEF Players
    <2>9. e \in Elements /\ e.src = source
        BY <2>4 DEF Elements
    <2>10. q \in Seq(Events)
        BY <2>7
    <2>11. u = [w EXCEPT !.e = e, !.q = q, !.p = p]
        BY <2>7 DEF Resolved, ElLoad, Worlds
    <2> HIDE DEF e, q, p, u
    <2>12. u \in Worlds /\ u.e = e /\ u.p = p /\ u.l = w.l
        BY <2>7, <2>8, <2>9, <2>10, <2>11 DEF Worlds
    <2>13. Good(u)
        BY <2>4, <2>5, <2>6, <2>8, <2>9, <2>12 DEF Good, Matches
    <2>14. OthersOK /\ OthersOK'
        BY <2>2 DEF IInv, OthersOK
    <2>15. Kept(Tick(u, seek), u)
        BY <2>13, <2>14, TickKept
    <2>16. Becomes(Tick(u, seek)) /\ open' = Released(player.source) \cup (IF cached THEN {source} ELSE {})
        BY <2>2 DEF u, w, source
    <2>17. Released(player.source) = {}
        BY DEF IInv, InUse, Released
    <2>18. open' = InUse(Tick(u, seek).p)
        BY <2>3, <2>4, <2>5, <2>8, <2>12, <2>15, <2>16, <2>17 DEF InUse, Kept
    <2>19. QED
        BY <2>14, <2>15, <2>16, <2>18, BecomesGood DEF Kept
<1>2. CASE NothingArrives
    <2>1. PICK i \in DOMAIN loads, drops \in BOOLEAN :
             /\ loads[i].latest /\ ~player.disposed
             /\ IF Resolvable(loads[i]) = {} THEN UNCHANGED budget ELSE Fault
             /\ Becomes(Unresolved(WithoutLoad(i), drops))
             /\ open' = Released(player.source)
             /\ UNCHANGED <<room, browser>>
        BY <1>2 DEF NothingArrives
    <2> DEFINE w == WithoutLoad(i)
               e == [src |-> NoSource, paused |-> TRUE, ended |-> FALSE, ready |-> "nothing"]
               q == IF drops THEN <<>> ELSE w.q
               p == [w.p EXCEPT !.priming = FALSE, !.bypassCache = FALSE, !.source = NoSource,
                                !.loading = FALSE, !.unavailable = TRUE, !.retry = w.p.trackId]
               u == Unresolved(w, drops)
    <2>2. /\ Good(w) /\ w.p = player /\ w.e = element
          /\ \A j \in DOMAIN w.l : ~w.l[j].latest
        BY <2>1, WithoutLoadGood
    <2> HIDE DEF w
    <2>3. w \in Worlds /\ w.p \in Players /\ w.q \in Seq(Events)
        BY <2>2 DEF Good, Worlds
    <2>4. p \in Players /\ p.source = NoSource /\ ~p.loading /\ p.unavailable
          /\ p.disposed = w.p.disposed
        BY <2>3 DEF Players
    <2>5. e \in Elements /\ e.src = NoSource
        BY DEF Elements
    <2>6. q \in Seq(Events)
        BY <2>3
    <2>7. u = [w EXCEPT !.e = e, !.q = q, !.p = p]
        <3> DEFINE begun == [w.p EXCEPT !.priming = FALSE]
                   v == [w EXCEPT !.e = e, !.q = q, !.p = begun]
        <3>1. ElLoad(w, NoSource, drops) = v
            BY <2>3 DEF ElLoad, Worlds
        <3>2. v.p = begun /\ p = [begun EXCEPT !.bypassCache = FALSE, !.source = NoSource,
                                               !.loading = FALSE, !.unavailable = TRUE,
                                               !.retry = w.p.trackId]
            BY <2>3 DEF Worlds
        <3>3. u = [v EXCEPT !.p = p]
            BY <2>3, <3>1, <3>2 DEF Unresolved, Worlds
        <3> HIDE DEF e, q, p, begun, u
        <3>4. QED
            BY <2>3, <3>3 DEF Worlds
    <2> HIDE DEF e, q, p, u
    <2>8. u \in Worlds /\ u.e = e /\ u.p = p /\ u.l = w.l
        BY <2>3, <2>4, <2>5, <2>6, <2>7 DEF Worlds
    <2>9. Good(u)
        BY <2>2, <2>4, <2>5, <2>8 DEF Good, Matches
    <2>10. OthersOK'
        BY <2>1, BudgetOK DEF IInv, OthersOK
    <2>11. open' = InUse(u.p)
        BY <2>1, <2>4, <2>8 DEF IInv, InUse, Released, NoSource
    <2>12. Becomes(u)
        BY <2>1 DEF u, w
    <2>13. QED
        BY <2>9, <2>10, <2>11, <2>12, BecomesGood
<1>3. QED
    BY <1>1, <1>2

LEMMA TakenSame ==
    ASSUME IInv, events # <<>>
    PROVE  Same(Taken, World) /\ Taken \in Worlds
<1>1. World \in Worlds /\ World.q = events /\ events \in Seq(Events)
    BY WorldGood DEF Good, World, IInv
<1>2. Tail(events) \in Seq(Events)
    BY <1>1
<1>3. Taken = [World EXCEPT !.q = Tail(events)]
    BY <1>1 DEF Taken
<1>4. QED
    BY <1>1, <1>2, <1>3 DEF Same, Worlds

LEMMA OnPauseSame ==
    ASSUME NEW w \in Worlds
    PROVE  Same(OnPause(w), w)
<1>1. w.p \in Players
    BY DEF Worlds
<1>2. CASE w.p.selfPause > 0
    <2> DEFINE p == [w.p EXCEPT !.selfPause = @ - 1]
    <2>1. w.p.selfPause - 1 \in Nat
        BY <1>1, <1>2 DEF Players
    <2>2. p \in Players /\ p.trackId = w.p.trackId /\ p.source = w.p.source
          /\ p.loading = w.p.loading /\ p.unavailable = w.p.unavailable
          /\ p.disposed = w.p.disposed
        BY <1>1, <2>1 DEF Players
    <2>3. OnPause(w) = [w EXCEPT !.p = p]
        BY <1>2 DEF OnPause, Worlds
    <2> HIDE DEF p
    <2>4. QED
        BY <2>2, <2>3, PlayerSame
<1>3. CASE ~(w.p.selfPause > 0)
    <2>1. Same([w EXCEPT !.p.endPauseSeen = TRUE], w)
        BY DEF Same, Worlds, Players
    <2>2. Same([w EXCEPT !.p.endPauseQueued = FALSE], w)
        BY DEF Same, Worlds, Players
    <2>3. Same([w EXCEPT !.p.personalPause = TRUE], w)
        BY DEF Same, Worlds, Players
    <2>4. QED
        BY <1>3, <2>1, <2>2, <2>3 DEF OnPause
<1>4. QED
    BY <1>2, <1>3

LEMMA KeptTransitive ==
    ASSUME NEW u, NEW v, NEW w, Kept(u, v), Kept(v, w)
    PROVE  Kept(u, w)
BY DEF Kept

LEMMA ReadyKept ==
    ASSUME NEW w, Good(w), OthersOK, NEW seek
    PROVE  Kept(Ready(w, seek), w)
<1>1. Same([w EXCEPT !.p.buffering = FALSE], w)
    BY BufferSame DEF Good
<1>2. Kept([w EXCEPT !.p.buffering = FALSE], w)
    BY <1>1, SameKept
<1>3. QED
    BY <1>2, TickKept, KeptTransitive DEF Ready, Kept

\* Timers.
LEMMA TimerSteps ==
    ASSUME IInv, TickTimer \/ StartTimer \/ RetryTimer
    PROVE  IInv'
<1>1. Good(World) /\ OthersOK /\ World \in Worlds
    BY WorldGood DEF IInv, Good
<1>2. OthersOK'
    BY DEF TickTimer, StartTimer, RetryTimer, IInv, OthersOK
<1>3. CASE TickTimer
    BY <1>1, <1>2, <1>3, TickKept, KeptStep DEF TickTimer
<1>4. CASE StartTimer
    <2>1. PICK seek \in BOOLEAN : Becomes(Tick(ClearStart(World), seek))
        BY <1>4 DEF StartTimer
    <2>2. Kept(ClearStart(World), World)
        BY <1>1, ClearSame, SameKept
    <2>3. Kept(Tick(ClearStart(World), seek), World)
        BY <1>1, <2>2, TickKept, KeptTransitive DEF Kept
    <2>4. QED
        BY <1>2, <1>4, <2>1, <2>3, KeptStep DEF StartTimer
<1>5. CASE RetryTimer
    <2> DEFINE w == [World EXCEPT !.p.retry = NoTrack]
    <2>1. Same(w, World)
        BY <1>1 DEF Same, Worlds, Players
    <2>2. Kept(w, World)
        BY <1>1, <2>1, SameKept
    <2>3. player.retry \in Tracks
        BY <1>5 DEF RetryTimer, IInv, Players
    <2>4. Kept(Load(w, player.retry), World)
        BY <2>2, <2>3, LoadKept, KeptTransitive DEF Kept
    <2>5. QED
        BY <1>2, <1>5, <2>2, <2>4, KeptStep DEF RetryTimer
<1>6. QED
    BY <1>3, <1>4, <1>5

\* Events of the element that are dispatched.
LEMMA EventSteps ==
    ASSUME IInv, PauseEvent \/ PlayingEvent \/ ElementLoads
    PROVE  IInv'
<1>1. Good(World) /\ OthersOK /\ World \in Worlds
    BY WorldGood DEF IInv, Good
<1>2. OthersOK'
    BY DEF PauseEvent, PlayingEvent, ElementLoads, IInv, OthersOK
<1>3. CASE PauseEvent
    <2>1. Kept(Taken, World) /\ Taken \in Worlds
        BY <1>1, <1>3, TakenSame, SameKept DEF PauseEvent
    <2>2. Kept(OnPause(Taken), World)
        BY <2>1, OnPauseSame, SameKept, KeptTransitive DEF Kept
    <2>3. QED
        BY <1>2, <1>3, <2>1, <2>2, KeptStep DEF PauseEvent
<1>4. CASE PlayingEvent
    <2>1. PICK seek \in BOOLEAN :
             LET w == [Ready(Taken, seek) EXCEPT !.p.needsGesture = FALSE]
             IN  Becomes(IF w.p.priming THEN PauseEl([w EXCEPT !.p.priming = FALSE]) ELSE w)
        BY <1>4 DEF PlayingEvent
    <2> DEFINE r == Ready(Taken, seek)
               w == [r EXCEPT !.p.needsGesture = FALSE]
               v == [w EXCEPT !.p.priming = FALSE]
    <2>2. Kept(r, World) /\ r \in Worlds
        <3>1. Kept(Taken, World) /\ Good(Taken)
            BY <1>1, <1>4, TakenSame, SameKept DEF PlayingEvent, Kept
        <3>2. Kept(r, Taken)
            BY <1>1, <3>1, ReadyKept
        <3>3. QED
            BY <3>1, <3>2, KeptTransitive DEF Kept, Good
    <2> HIDE DEF r
    <2>3. Same(w, r) /\ w \in Worlds
        BY <2>2 DEF Same, Worlds, Players
    <2> HIDE DEF w
    <2>4. Same(v, w) /\ v \in Worlds
        BY <2>3 DEF Same, Worlds, Players
    <2> HIDE DEF v
    <2>5. Same(PauseEl(v), r)
        BY <2>3, <2>4, PauseSame, SameTransitive
    <2>6. Kept(w, World) /\ Kept(PauseEl(v), World)
        BY <2>2, <2>3, <2>5, SameKept, KeptTransitive DEF Kept
    <2>7. Becomes(IF w.p.priming THEN PauseEl(v) ELSE w)
        BY <2>1 DEF r, w, v
    <2>8. QED
        BY <1>2, <1>4, <2>6, <2>7, KeptStep DEF PlayingEvent
<1>5. CASE ElementLoads
    <2>1. PICK ready \in {"metadata", "future"}, seek \in BOOLEAN :
             LET w == [World EXCEPT !.e.ready = ready,
                          !.q = IF ready = "future" /\ ~element.paused
                                THEN Append(@, "playing") ELSE @]
             IN  Becomes(Ready(w, seek))
        BY <1>5 DEF ElementLoads
    <2> DEFINE e == [element EXCEPT !.ready = ready]
               q == IF ready = "future" /\ ~element.paused THEN Append(events, "playing") ELSE events
               w == [World EXCEPT !.e.ready = ready,
                          !.q = IF ready = "future" /\ ~element.paused
                                THEN Append(@, "playing") ELSE @]
    <2>2. e \in Elements /\ e.src = element.src
        BY DEF IInv, Elements
    <2>3. q \in Seq(Events)
        BY DEF IInv, Events
    <2>4. w = [World EXCEPT !.p = player, !.e = e, !.q = q]
        <3>1. World.p = player /\ World.e = element /\ World.q = events
            BY DEF World
        <3>2. CASE ready = "future" /\ ~element.paused
            BY <1>1, <3>1, <3>2 DEF Worlds
        <3>3. CASE ~(ready = "future" /\ ~element.paused)
            BY <1>1, <3>1, <3>3 DEF Worlds
        <3>4. QED
            BY <3>2, <3>3
    <2>5. player \in Players /\ World.p = player /\ World.e = element
        BY DEF IInv, World
    <2> HIDE DEF e, q, w
    <2>6. Same(w, World)
        BY <1>1, <2>2, <2>3, <2>4, <2>5, PartsSame
    <2>7. Kept(Ready(w, seek), World)
        BY <1>1, <2>6, SameKept, ReadyKept, KeptTransitive DEF Kept
    <2>8. Becomes(Ready(w, seek))
        BY <2>1 DEF w
    <2>9. QED
        BY <1>2, <1>5, <2>7, <2>8, KeptStep DEF ElementLoads
<1>6. QED
    BY <1>3, <1>4, <1>5

\* What the element does by itself.
LEMMA ElementSteps ==
    ASSUME IInv, ElementStalls \/ ElementFails \/ ReachesEnd \/ SystemPauses \/ GraceOver
    PROVE  IInv'
<1>1. Good(World) /\ OthersOK /\ World \in Worlds /\ player \in Players /\ element \in Elements
    BY WorldGood DEF IInv, Good
<1>2. OthersOK'
    <2>1. Change \/ Fault \/ UNCHANGED budget
        BY DEF ElementStalls, ElementFails, ReachesEnd, SystemPauses, GraceOver
    <2>2. QED
        BY <2>1, BudgetOK
           DEF ElementStalls, ElementFails, ReachesEnd, SystemPauses, GraceOver, IInv, OthersOK
<1>3. CASE ElementStalls
    BY <1>1, <1>2, <1>3, FieldsStep DEF ElementStalls, Elements, Players
<1>4. CASE ElementFails
    <2> DEFINE p == [player EXCEPT !.bypassCache = @ \/ player.source.cached, !.retry = player.trackId,
                                   !.buffering = TRUE]
               b == player.bypassCache \/ player.source.cached
    <2>1. element' \in Elements /\ element'.src = element.src
        BY <1>1, <1>4 DEF ElementFails, Elements
    <2>2. p = [player EXCEPT !.bypassCache = b, !.retry = player.trackId, !.buffering = TRUE]
        BY <1>1 DEF Players
    <2>3. b \in BOOLEAN
        OBVIOUS
    <2> HIDE DEF b, p
    <2>4. p \in Players /\ p.trackId = player.trackId /\ p.source = player.source
          /\ p.loading = player.loading /\ p.unavailable = player.unavailable
          /\ p.disposed = player.disposed
        BY <1>1, <2>2, <2>3 DEF Players
    <2>5. player' = player \/ player' = p
        BY <1>4 DEF ElementFails, OnError, p
    <2>6. QED
        BY <1>1, <1>2, <1>4, <2>1, <2>4, <2>5, FieldsStep DEF ElementFails
<1>5. CASE ReachesEnd
    <2> DEFINE w == ElPause(World, "pausedAtEnd")
    <2>1. Same(w, World) /\ w \in Worlds
        BY <1>1, ElPauseSame DEF Events, Same
    <2> HIDE DEF w
    <2>2. Same([w EXCEPT !.e.ended = TRUE], w)
        BY <2>1 DEF Same, Worlds, Elements
    <2>3. Kept([w EXCEPT !.e.ended = TRUE], World)
        BY <1>1, <2>1, <2>2, SameTransitive, SameKept
    <2>4. QED
        BY <1>2, <1>5, <2>3, KeptStep DEF ReachesEnd, w
<1>6. CASE SystemPauses
    <2>1. Kept(ElPause(World, "pausedBySystem"), World)
        BY <1>1, ElPauseSame, SameKept DEF Events
    <2>2. QED
        BY <1>2, <1>6, <2>1, KeptStep DEF SystemPauses
<1>7. CASE GraceOver
    BY <1>1, <1>2, <1>7, FieldsStep DEF GraceOver, Players
<1>8. QED
    BY <1>3, <1>4, <1>5, <1>6, <1>7

\* What people and the app do.
LEMMA CallSteps ==
    ASSUME IInv, SetPersonalPause \/ Unlock \/ Dispose
    PROVE  IInv'
<1>1. Good(World) /\ OthersOK /\ World \in Worlds
    BY WorldGood DEF IInv, Good
<1>2. OthersOK'
    <2>1. Change
        BY DEF SetPersonalPause, Unlock, Dispose
    <2>2. budget' \in [changes : 0..MaxChanges, faults : 0..MaxFaults]
        BY <2>1, BudgetOK
    <2>3. browser' \in [allows : BOOLEAN, online : BOOLEAN]
        BY DEF SetPersonalPause, Unlock, Dispose, IInv, OthersOK
    <2>4. QED
        BY <2>2, <2>3 DEF SetPersonalPause, Unlock, Dispose, IInv, OthersOK
<1>3. CASE SetPersonalPause
    <2>1. PICK paused \in BOOLEAN, seek \in BOOLEAN :
             Becomes(Tick([World EXCEPT !.p.personalPause = paused], seek))
        BY <1>3 DEF SetPersonalPause
    <2> DEFINE w == [World EXCEPT !.p.personalPause = paused]
    <2>2. Same(w, World)
        BY <1>1 DEF Same, Worlds, Players
    <2> HIDE DEF w
    <2>3. Kept(Tick(w, seek), World)
        BY <1>1, <2>2, SameKept, TickKept, KeptTransitive DEF Kept
    <2>4. QED
        BY <1>2, <1>3, <2>1, <2>3, KeptStep DEF SetPersonalPause, w
<1>4. CASE Unlock
    <2> DEFINE asked == [World EXCEPT !.p.needsGesture = FALSE]
               primed == [ElPlay(asked) EXCEPT !.p.priming = TRUE]
               w == IF element.src = NoSource THEN asked
                    ELSE IF room.playing /\ ~player.personalPause THEN ElPlay(LeaveEnded(asked))
                    ELSE IF Sounding THEN PauseEl(asked)
                    ELSE primed
    <2>1. PICK seek \in BOOLEAN : Becomes(Tick(w, seek))
        BY <1>4 DEF Unlock
    <2>2. Same(asked, World) /\ asked \in Worlds
        BY <1>1 DEF Same, Worlds, Players
    <2> HIDE DEF asked
    <2>3. Same(ElPlay(LeaveEnded(asked)), World)
        BY <2>2, LeaveSame, ElPlaySame, SameTransitive DEF Same
    <2>4. Same(PauseEl(asked), World)
        BY <2>2, PauseSame, SameTransitive
    <2>5. Same(ElPlay(asked), World) /\ ElPlay(asked) \in Worlds
        BY <2>2, ElPlaySame, SameTransitive DEF Same
    <2>6. Same(primed, World)
        <3>1. Same(primed, ElPlay(asked))
            BY <2>5 DEF Same, Worlds, Players
        <3>2. QED
            BY <2>5, <3>1, SameTransitive
    <2> HIDE DEF primed
    <2>7. Same(w, World)
        BY <2>2, <2>3, <2>4, <2>6
    <2> HIDE DEF w
    <2>8. Kept(Tick(w, seek), World)
        BY <1>1, <2>7, SameKept, TickKept, KeptTransitive DEF Kept
    <2>9. QED
        BY <1>2, <1>4, <2>1, <2>8, KeptStep DEF Unlock
<1>5. CASE Dispose
    <2> DEFINE p == [player EXCEPT !.disposed = TRUE, !.start = FALSE, !.retry = NoTrack]
               w == [World EXCEPT !.p.disposed = TRUE, !.p.start = FALSE, !.p.retry = NoTrack]
    <2>1. p \in Players /\ p.disposed /\ p.source = player.source /\ p.trackId = player.trackId
          /\ p.loading = player.loading /\ p.unavailable = player.unavailable
        BY DEF IInv, Players
    <2>2. w = [World EXCEPT !.p = p]
        BY DEF World
    <2> HIDE DEF w, p
    <2>3. w \in Worlds /\ w.p = p /\ w.e = element /\ w.l = loads
        BY <1>1, <2>1, <2>2 DEF World, Worlds
    <2>4. Good(w)
        BY <2>1, <2>3 DEF Good, IInv, Matches, World
    <2>5. Good(PauseEl(w)) /\ PauseEl(w).p.disposed
        BY <2>1, <2>3, <2>4, PauseSame, SameGood DEF Good, Same
    <2>6. open' = InUse(PauseEl(w).p)
        BY <1>5, <2>5 DEF Dispose, IInv, InUse, Released
    <2>7. QED
        BY <1>2, <1>5, <2>5, <2>6, BecomesGood DEF Dispose, w
<1>6. QED
    BY <1>3, <1>4, <1>5

-----------------------------------------------------------------------------
(* The theorems *)

LEMMA InitGood == Init => IInv
<1> SUFFICES ASSUME Init PROVE IInv
    OBVIOUS
<1>1. player \in Players /\ player.trackId = NoTrack /\ player.source = NoSource
      /\ ~player.disposed
    BY DEF Init, Players
<1>2. element \in Elements /\ element.src = NoSource
    BY DEF Init, Elements
<1>3. events \in Seq(Events) /\ loads \in Seq(Loads) /\ DOMAIN loads = {}
    BY DEF Init
<1>4. OthersOK
    <2>1. room \in [track : Tracks \cup {NoTrack}, playing : BOOLEAN, armed : BOOLEAN, ending : BOOLEAN]
        BY DEF Init
    <2>2. browser \in [allows : BOOLEAN, online : BOOLEAN]
        BY DEF Init
    <2>3. budget \in [changes : 0..MaxChanges, faults : 0..MaxFaults]
        BY PlayerAssumption DEF Init
    <2>4. QED
        BY <2>1, <2>2, <2>3 DEF OthersOK
<1>5. Matches(World)
    BY <1>1, <1>2, <1>3 DEF Matches, World
<1>6. open = InUse(player)
    BY <1>1 DEF Init, InUse, NoSource
<1>7. QED
    BY <1>1, <1>2, <1>3, <1>4, <1>5, <1>6 DEF IInv

LEMMA NextKeeps == IInv /\ [Next]_vars => IInv'
<1> SUFFICES ASSUME IInv, [Next]_vars PROVE IInv'
    OBVIOUS
<1>1. CASE RoomChanges
    <2>1. OthersOK'
        BY <1>1, BudgetOK DEF RoomChanges, IInv, OthersOK
    <2>2. QED
        BY <1>1, <2>1 DEF RoomChanges, IInv, World
<1>2. CASE StaleAnswer
    <2>1. PICK i \in DOMAIN loads : loads' = RemoveAt(loads, i)
        BY <1>2 DEF StaleAnswer
    <2>2. Good(WithoutLoad(i))
        BY WithoutLoadGood
    <2>3. Becomes(WithoutLoad(i)) /\ WithoutLoad(i).p = player
        BY <1>2, <2>1 DEF StaleAnswer, Becomes, WithoutLoad, World
    <2>4. OthersOK'
        BY <1>2 DEF StaleAnswer, IInv, OthersOK
    <2>5. open' = InUse(player)
        BY <1>2 DEF StaleAnswer, IInv
    <2>6. QED
        BY <2>2, <2>3, <2>4, <2>5, BecomesGood
<1>3. CASE Offline \/ Online
    <2>1. browser' \in [allows : BOOLEAN, online : BOOLEAN]
        BY <1>3 DEF Offline, Online, IInv, OthersOK
    <2>2. OthersOK'
        BY <1>3, <2>1, BudgetOK DEF Offline, Online, IInv, OthersOK
    <2>3. QED
        BY <1>3, <2>2 DEF Offline, Online, IInv, World
<1>4. CASE UNCHANGED vars
    BY <1>4 DEF vars, IInv, World, OthersOK
<1>5. QED
    BY <1>1, <1>2, <1>3, <1>4, TimerSteps, ArrivalSteps, EventSteps, ElementSteps, CallSteps
       DEF Next

\* Every variable of the player keeps its type: what it counts stays a count, however
\* many pauses it causes and hears of.
THEOREM TypeCorrect == Spec => []TypeOK
<1>1. IInv => TypeOK
    <2>1. IInv => open \subseteq Sources
        BY DEF IInv, InUse, Players, NoSource
    <2>2. QED
        BY <2>1 DEF IInv, TypeOK, OthersOK, Players, Elements, Events, Loads
<1>2. QED
    BY InitGood, NextKeeps, <1>1, PTL DEF Spec

\* However loads overtake each other, a player that does not load and has not given up
\* has in its element the source of the track it is for.
THEOREM RightTrack == Spec => []PlaysItsTrack
<1>1. IInv => PlaysItsTrack
    BY DEF IInv, PlaysItsTrack, Matches, World, Report, State
<1>2. QED
    BY InitGood, NextKeeps, <1>1, PTL DEF Spec

\* A stored copy that was handed out is released exactly once it is not used any more.
THEOREM NoSourceLeaks == Spec => []SourcesReleased
<1>1. IInv => SourcesReleased
    BY DEF IInv, SourcesReleased, InUse, Matches, World
<1>2. QED
    BY InitGood, NextKeeps, <1>1, PTL DEF Spec
=============================================================================
