------------------------------- MODULE MCRoom -------------------------------
(***************************************************************************)
(* Small instances of Room.  Times are in units of a few hundred           *)
(* milliseconds, so that leads, margins and durations are small numbers    *)
(* with the order they have in the code.                                   *)
(***************************************************************************)
EXTENDS Phones

CONSTANTS t1, t2, t3, alice, bob

\* Durations of the tracks: t3 has an unknown length.
Durations == (t1 :> 2) @@ (t2 :> 3) @@ (t3 :> 0)
FullCatalog == {[t \in TrackIds |-> Durations[t]]}

\* A scan that loses t1 and finds that t2 is shorter than believed.
ChangingCatalogs ==
    FullCatalog \cup {[[t \in TrackIds \ {t1} |-> Durations[t]] EXCEPT ![t2] = 1]}

ClientSymmetry == Permutations(Clients)

NoRequests == {<<1>>} \ {<<1>>}

QueueOps ==
    {"queueAdd", "queueRemove", "queueMove", "queueClear", "playEntry", "next", "playContext", "shuffle"}
QueueContexts == {<<t1, t2>>}
QueueRequests == {<<t2, t1>>}

ContextOps == {"playContext", "queueAdd", "next", "prev", "jump", "shuffle", "repeat", "ended"}
LibraryRequests == {<<t1>>}

Contexts == {<<t1, t2, t1>>, <<t2, t3>>}

HoldOps == {"playContext", "next", "pause", "play", "seek", "waitForAll"}
HoldPositions == {-1}
HoldContexts == {<<t1, t2>>}
HoldStatuses ==
    {[ready |-> TRUE, trackID |-> t1, buffering |-> FALSE],
     [ready |-> FALSE, trackID |-> t1, buffering |-> TRUE],
     [ready |-> TRUE, trackID |-> t2, buffering |-> FALSE]}
=============================================================================
