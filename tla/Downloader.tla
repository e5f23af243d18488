----------------------------- MODULE Downloader -----------------------------
(***************************************************************************)
(* web/src/offline/downloader.ts: fetches the tracks a phone will need     *)
(* (prefetch) and those its listener saved (pins), through one priority    *)
(* queue with retries, and keeps the unpinned ones within a size limit.    *)
(*                                                                         *)
(* Everything runs on one thread; a step is what happens between two       *)
(* awaits.  Downloads, the commands of the user interface and reads of     *)
(* stored audio interleave at their awaits.  The store (offline/db.ts)     *)
(* works requests off in the order they are made, so a request takes       *)
(* effect when it is made and its answer comes later; one that it will     *)
(* refuse (no space, or an error of the database) has no effect.           *)
(*                                                                         *)
(* Records are kept in the order of their last use.  All tracks have the   *)
(* same size.  Progress and notifications of the views are left out.       *)
(***************************************************************************)
EXTENDS Integers, SequencesExt

CONSTANTS
    Tracks,
    Keys,            \* collections that can be saved
    PinLists,        \* what a collection may consist of
    PrefetchLists,   \* what the room may be about to play
    Played,          \* tracks whose stored audio is read
    Rescanned,       \* tracks whose files change
    Callers,         \* who may have a command in progress: as many at a time
    Concurrency,
    MaxAttempts,     \* MAX_ATTEMPTS
    PinPriority,     \* PIN_PRIORITY
    AutoLimit,       \* how many unpinned tracks may be kept
    MaxRev,          \* bound on the revisions of a track
    MaxRefusals      \* bound on the requests that the store refuses

ASSUME LimitsAssumption ==
    /\ Concurrency \in Nat \ {0} /\ MaxAttempts \in Nat \ {0}
    /\ PinPriority \in Nat \ {0} /\ AutoLimit \in Nat
    /\ MaxRev \in Nat /\ MaxRefusals \in Nat

\* Prefetching has the lower numbers, which come first.
ASSUME PrioritiesAssumption ==
    /\ PinLists \subseteq Seq(Tracks) /\ PrefetchLists \subseteq Seq(Tracks)
    /\ Played \subseteq Tracks /\ Rescanned \subseteq Tracks
    /\ \A l \in PrefetchLists : Len(l) < PinPriority

VARIABLES
    queue,     \* jobs, active downloads, failures, the pump's timer
    pins,      \* the saved collections
    prefetch,  \* the ids of the prefetch list
    records,   \* finished downloads, least recently used first
    command,   \* the pins, unpins and clears in progress
    reader,    \* the read of stored audio in progress
    store,     \* what the browser's database holds
    online,    \* navigator.onLine
    library,   \* the revision of every track
    refusals   \* how often the store may still refuse

vars == <<queue, pins, prefetch, records, command, reader, store, online, library, refusals>>

Revs == 0..MaxRev
NoRev == -1
NoJob == [rev |-> NoRev, priority |-> 0, attempts |-> 0, waits |-> FALSE]
NotActive == [stage |-> "none", job |-> NoJob, aborted |-> FALSE, victims |-> <<>>]
NoCommand == [op |-> "none", at |-> "saving", todo |-> <<>>]
NoReader == [at |-> "none", record |-> [id |-> "none", rev |-> NoRev], found |-> FALSE]

Jobs == [rev : Revs, priority : Nat, attempts : 0..MaxAttempts, waits : BOOLEAN]
Records == [id : Tracks, rev : Revs]
Downloads == [stage : {"none", "fetch", "audio", "record", "evict", "next", "refused"},
              job : Jobs \cup {NoJob}, aborted : BOOLEAN, victims : Seq(Tracks)]
Commands == [op : {"none", "pin", "unpin", "clear"}, at : {"saving", "next", "removing"},
             todo : Seq(Tracks)]
Queues == [jobs : [Tracks -> Jobs \cup {NoJob}], active : [Tracks -> Downloads],
           refs : [Tracks -> Revs \cup {NoRev}], failed : SUBSET Tracks,
           quota : BOOLEAN, timer : BOOLEAN]
Collections == UNION {[keys -> PinLists] : keys \in SUBSET Keys}

\* A track has one record.
DistinctIds(recs) == IsInjective([i \in DOMAIN recs |-> recs[i].id])

\* Besides the types: a track has one record, and is either queued or being
\* downloaded, so that no download is done twice and none takes two places.
TypeOK ==
    /\ queue \in Queues
    /\ \A id \in Tracks : queue.jobs[id] # NoJob => queue.active[id].stage = "none"
    /\ pins \in Collections
    /\ prefetch \in PrefetchLists \cup {<<>>}
    /\ records \in Seq(Records) /\ DistinctIds(records)
    /\ command \in [Callers -> Commands]
    /\ reader \in [at : {"read", "drop"}, record : Records, found : BOOLEAN] \cup {NoReader}
    /\ store \in [records : Seq(Records), audio : SUBSET Tracks, pins : Collections]
    /\ DistinctIds(store.records)
    /\ online \in BOOLEAN /\ library \in [Tracks -> Revs] /\ refusals \in 0..MaxRefusals

-----------------------------------------------------------------------------
(* Collections and records *)

\* isPinnedTrack, with the collections given.
PinnedIn(p, id) == \E k \in DOMAIN p : id \in Range(p[k])
Pinned(id) == PinnedIn(pins, id)
Prefetched(id) == id \in Range(prefetch)
Wanted(id) == Prefetched(id) \/ Pinned(id)

RecordIds(recs) == {recs[i].id : i \in DOMAIN recs}
Downloaded(id) == id \in RecordIds(records)
Without(recs, id) ==
    IF id \notin RecordIds(recs) THEN recs
    ELSE RemoveAt(recs, CHOOSE i \in DOMAIN recs : recs[i].id = id)
\* A record that is new, or used, becomes the last.
UsedNow(recs, record) == Append(Without(recs, record.id), record)

EmptyStore == [records |-> <<>>, audio |-> {}, pins |-> <<>>]

\* The store: a record or audio that is there is replaced.
PutDownload(st, record) == [st EXCEPT !.records = UsedNow(@, record)]
DeleteRecord(st, id) == [st EXCEPT !.records = Without(@, id)]
PutAudio(st, id) == [st EXCEPT !.audio = @ \cup {id}]
DeleteAudio(st, id) == [st EXCEPT !.audio = @ \ {id}]

\* A request to the store: it works, or is refused.
Works(st) == store' = st /\ UNCHANGED refusals
Refuses == refusals > 0 /\ refusals' = refusals - 1 /\ UNCHANGED store

Queued(q, id) == q.jobs[id] # NoJob
Active(q, id) == q.active[id] # NotActive
QueuedIds(q) == {id \in Tracks : Queued(q, id)}
ActiveIds(q) == {id \in Tracks : Active(q, id)}

-----------------------------------------------------------------------------
(* The queue *)

\* Faulty: does not see that the track is being downloaded.
EnqueueAgain(q, id, rev, priority) ==
    IF [id |-> id, rev |-> rev] \in Range(records) \/ Queued(q, id) \/ id \in q.failed
    THEN [q EXCEPT !.refs[id] = rev]
    ELSE [q EXCEPT !.refs[id] = rev, !.jobs[id] =
              [rev |-> rev, priority |-> priority, attempts |-> 0, waits |-> FALSE]]

\* enqueue: a track that is current, queued or downloading is not queued again,
\* nor one that failed.
Enqueue(q, id, rev, priority) ==
    LET known == [q EXCEPT !.refs[id] = rev]
        sooner(p) == Min({p, priority})
    IN  IF [id |-> id, rev |-> rev] \in Range(records) THEN known
        ELSE IF Active(q, id) THEN [known EXCEPT !.active[id].job.priority = sooner(@)]
        ELSE IF Queued(q, id) THEN [known EXCEPT !.jobs[id].priority = sooner(@)]
        ELSE IF id \in q.failed THEN known
        ELSE [known EXCEPT !.jobs[id] =
                  [rev |-> rev, priority |-> priority, attempts |-> 0, waits |-> FALSE]]

\* The tracks of some lists, and the first place in a list that each has.
Listed(lists) == UNION {Range(l) : l \in lists}
Places(lists, id) == UNION {{i \in DOMAIN l : l[i] = id} : l \in lists}

\* Queues some lists of tracks, the first of each with the given priority.  No
\* track's job depends on another track, and a second place in a list only
\* counts when it is nearer to the front.
EnqueueAll(q, lists, revs, priority) ==
    LET new(id) == IF id \notin Listed(lists) \/ revs[id] = NoRev THEN q
                   ELSE Enqueue(q, id, revs[id], priority + Min(Places(lists, id)) - 1)
    IN  [q EXCEPT !.jobs = [id \in Tracks |-> new(id).jobs[id]],
                  !.active = [id \in Tracks |-> new(id).active[id]],
                  !.refs = [id \in Tracks |-> new(id).refs[id]]]

\* resumePins: queues what is pinned, in revisions that are looked up.
ResumedPins(q, revs) == EnqueueAll(q, Range(pins), revs, PinPriority)

Starting(job) == [NotActive EXCEPT !.stage = "fetch", !.job = job]

\* Jobs that pump looks at, and those of them whose back-off is over.
Considered(q) ==
    {id \in QueuedIds(q) : ~(q.quota /\ q.jobs[id].priority >= PinPriority)}
Due(q) == {id \in Considered(q) : ~q.jobs[id].waits}
Free(q) == Concurrency - Cardinality(ActiveIds(q))

\* The most urgent due jobs, as many as may be active.
MostUrgent(q) ==
    {ids \in SUBSET Due(q) :
        /\ Cardinality(ids) = Min({Free(q), Cardinality(Due(q))})
        /\ \A id \in ids, other \in Due(q) \ ids : q.jobs[id].priority <= q.jobs[other].priority}

Started(q, ids) ==
    LET running == [q EXCEPT
            !.jobs = [id \in Tracks |-> IF id \in ids THEN NoJob ELSE @[id]],
            !.active = [id \in Tracks |-> IF id \in ids THEN Starting(q.jobs[id]) ELSE @[id]]]
    IN  [running EXCEPT !.timer = Free(running) > 0 /\ Considered(running) # {}]

\* Faulty: while everything waits, no timer is set.
PumpWithoutTimer(q, up) ==
    IF ~up THEN {[q EXCEPT !.timer = FALSE]}
    ELSE {[Started(q, ids) EXCEPT !.timer = FALSE] : ids \in MostUrgent(q)}

\* pump: starts what may start, or sets a timer for the first back-off that ends.
Pump(q, up) ==
    IF ~up THEN {[q EXCEPT !.timer = FALSE]}
    ELSE {Started(q, ids) : ids \in MostUrgent(q)}

Init ==
    /\ queue = [jobs |-> [id \in Tracks |-> NoJob], active |-> [id \in Tracks |-> NotActive],
                refs |-> [id \in Tracks |-> NoRev], failed |-> {}, quota |-> FALSE,
                timer |-> FALSE]
    /\ pins = <<>> /\ prefetch = <<>> /\ records = <<>>
    /\ command = [c \in Callers |-> NoCommand] /\ reader = NoReader
    /\ store = EmptyStore
    /\ online = TRUE /\ library = [id \in Tracks |-> 0] /\ refusals = MaxRefusals

-----------------------------------------------------------------------------
(* Calls from the client engine *)

\* Jobs of the prefetch list that dropped out of it are deleted.
SetPrefetch(ids) ==
    /\ prefetch' = ids
    /\ LET kept == [queue EXCEPT !.jobs = [id \in Tracks |->
                        IF @[id].priority < PinPriority /\ id \notin Range(ids) THEN NoJob ELSE @[id]]]
       IN  queue' \in Pump(EnqueueAll(kept, {ids}, library, 1), online)
    /\ UNCHANGED <<pins, records, command, reader, store, online, library, refusals>>

\* The library was loaded or has changed.
ResumePins ==
    /\ queue' \in Pump(ResumedPins(queue, library), online)
    /\ UNCHANGED <<pins, prefetch, records, command, reader, store, online, library, refusals>>

\* retry: failures are forgotten, nothing waits, and pins are queued again.
Retried(up) ==
    LET fresh == [queue EXCEPT !.failed = {}, !.quota = FALSE,
            !.jobs = [id \in Tracks |-> IF @[id] = NoJob THEN NoJob
                                        ELSE [@[id] EXCEPT !.waits = FALSE, !.attempts = 0]]]
    IN  Pump(ResumedPins(fresh, queue.refs), up)

\* The listener asks for it.
Retry ==
    /\ queue' \in Retried(online)
    /\ UNCHANGED <<pins, prefetch, records, command, reader, store, online, library, refusals>>

GoOffline ==
    /\ online /\ online' = FALSE
    /\ UNCHANGED <<queue, pins, prefetch, records, command, reader, store, library, refusals>>

\* The browser is back online: the engine retries.
GoOnline ==
    /\ ~online /\ online' = TRUE
    /\ queue' \in Retried(TRUE)
    /\ UNCHANGED <<pins, prefetch, records, command, reader, store, library, refusals>>

-----------------------------------------------------------------------------
(* Commands of the listener *)
(* No command waits for another.  One that goes through a list takes a     *)
(* step per element; one that is refused a request ends with that.         *)

Becomes(c, next) == command' = [command EXCEPT ![c] = next]
GivesUp(c) == Refuses /\ Becomes(c, NoCommand)

SavePins(c, p, next) ==
    /\ pins' = p
    /\ \/ Works([store EXCEPT !.pins = p]) /\ Becomes(c, next)
       \/ GivesUp(c)

StartPin(c, key, ids) ==
    /\ command[c] = NoCommand
    /\ SavePins(c, [k \in DOMAIN pins \cup {key} |-> IF k = key THEN ids ELSE pins[k]],
                [op |-> "pin", at |-> "saving", todo |-> ids])
    /\ UNCHANGED <<queue, prefetch, records, reader, online, library>>

\* Its tracks are queued once the collection is stored.
FinishPin(c) ==
    /\ command[c].op = "pin"
    /\ queue' \in Pump(EnqueueAll(queue, {command[c].todo}, library, PinPriority), online)
    /\ Becomes(c, NoCommand)
    /\ UNCHANGED <<pins, prefetch, records, reader, store, online, library, refusals>>

StartUnpin(c, key) ==
    /\ command[c] = NoCommand /\ key \in DOMAIN pins
    /\ SavePins(c, [k \in DOMAIN pins \ {key} |-> pins[k]],
                [op |-> "unpin", at |-> "next", todo |-> pins[key]])
    /\ UNCHANGED <<queue, prefetch, records, reader, online, library>>

\* remove: first the record goes, from memory and from the store, ...
RemoveHead(c) ==
    LET id == Head(command[c].todo)
    IN  /\ records' = Without(records, id)
        /\ \/ Works(DeleteRecord(store, id)) /\ Becomes(c, [command[c] EXCEPT !.at = "removing"])
           \/ GivesUp(c)

\* Faulty: only the record is deleted.
KeepAudio(id) == UNCHANGED <<store, refusals>>

\* ... then, as everywhere in deleteDownload, the audio.
DropAudio(id) == Works(DeleteAudio(store, id))

\* Cancels the job, or the download, of a track that was only saved.
Cancelled(q, id) ==
    [q EXCEPT !.jobs[id] = IF @.priority >= PinPriority THEN NoJob ELSE @,
              !.active[id].aborted = \/ @
                                     \/ q.active[id].job.priority >= PinPriority /\ ~Prefetched(id)]

\* Unpinning goes through the tracks, sparing those that are still pinned.
UnpinNext(c) ==
    /\ command[c].op = "unpin" /\ command[c].at = "next" /\ command[c].todo # <<>>
    /\ LET id == Head(command[c].todo)
       IN  /\ queue' = IF Pinned(id) THEN queue ELSE Cancelled(queue, id)
           /\ IF ~Wanted(id) /\ Downloaded(id) THEN RemoveHead(c)
              ELSE /\ Becomes(c, [command[c] EXCEPT !.todo = Tail(@)])
                   /\ UNCHANGED <<records, store, refusals>>
    /\ UNCHANGED <<pins, prefetch, reader, online, library>>

\* clear: cancels everything ...
StartClear(c) ==
    /\ command[c] = NoCommand
    /\ queue' = [queue EXCEPT
           !.jobs = [id \in Tracks |-> NoJob],
           !.active = [id \in Tracks |-> IF Active(queue, id) THEN [@[id] EXCEPT !.aborted = TRUE]
                                         ELSE NotActive]]
    /\ SavePins(c, <<>>, [op |-> "clear", at |-> "saving", todo |-> <<>>])
    /\ UNCHANGED <<prefetch, records, reader, online, library>>

\* ... and then removes the records that exist by then.
ListRecords(c) ==
    /\ command[c].op = "clear" /\ command[c].at = "saving"
    /\ Becomes(c, [command[c] EXCEPT !.at = "next", !.todo = [i \in DOMAIN records |-> records[i].id]])
    /\ UNCHANGED <<queue, pins, prefetch, records, reader, store, online, library, refusals>>

ClearNext(c) ==
    /\ command[c].op = "clear" /\ command[c].at = "next" /\ command[c].todo # <<>>
    /\ RemoveHead(c)
    /\ UNCHANGED <<queue, pins, prefetch, reader, online, library>>

Removed(c) ==
    /\ command[c].at = "removing"
    /\ \/ /\ DropAudio(Head(command[c].todo))
          /\ Becomes(c, [command[c] EXCEPT !.at = "next", !.todo = Tail(@)])
       \/ GivesUp(c)
    /\ UNCHANGED <<queue, pins, prefetch, records, reader, online, library>>

FinishCommand(c) ==
    /\ command[c].at = "next" /\ command[c].todo = <<>>
    /\ queue' = IF command[c].op = "clear" THEN [queue EXCEPT !.failed = {}, !.quota = FALSE]
                ELSE queue
    /\ Becomes(c, NoCommand)
    /\ UNCHANGED <<pins, prefetch, records, reader, store, online, library, refusals>>

-----------------------------------------------------------------------------
(* A download *)

\* What happens when a download ends: its place is free, and pump runs.
Ends(id, q) == queue' \in Pump([q EXCEPT !.active[id] = NotActive], online)

\* onError, for errors that may pass: tried again later, while it is wanted,
\* until that was done often enough.
RetriedLater(q, id) ==
    LET act == q.active[id]
        job == [act.job EXCEPT !.attempts = @ + 1, !.waits = TRUE]
    IN  IF act.aborted /\ ~Wanted(id) THEN q
        ELSE IF job.attempts >= MaxAttempts THEN [q EXCEPT !.failed = @ \cup {id}]
        ELSE IF Wanted(id) /\ ~Queued(q, id) THEN [q EXCEPT !.jobs[id] = job]
        ELSE q

\* The transfer breaks, is aborted, or stalls and is aborted for that.
FetchBreaks(id) ==
    /\ queue.active[id].stage = "fetch"
    /\ \E stalled \in BOOLEAN :
           Ends(id, RetriedLater([queue EXCEPT !.active[id].aborted = @ \/ stalled], id))
    /\ UNCHANGED <<pins, prefetch, records, command, reader, store, online, library, refusals>>

\* The server refuses.
FetchRefused(id) ==
    /\ queue.active[id].stage = "fetch" /\ ~queue.active[id].aborted /\ online
    /\ Ends(id, [queue EXCEPT !.failed = @ \cup {id}])
    /\ UNCHANGED <<pins, prefetch, records, command, reader, store, online, library, refusals>>

Reaches(id, stage) == queue' = [queue EXCEPT !.active[id].stage = stage]
IsRefused(id) == Refuses /\ Reaches(id, "refused")

\* The data is complete, and is being stored.
Fetched(id) ==
    /\ queue.active[id].stage = "fetch" /\ ~queue.active[id].aborted
    /\ \/ Works(PutAudio(store, id)) /\ Reaches(id, "audio")
       \/ IsRefused(id)
    /\ UNCHANGED <<pins, prefetch, records, command, reader, online, library>>

RecordOf(id) == [id |-> id, rev |-> queue.active[id].job.rev]

AudioStored(id) ==
    /\ queue.active[id].stage = "audio"
    /\ \/ Works(PutDownload(store, RecordOf(id))) /\ Reaches(id, "record")
       \/ IsRefused(id)
    /\ UNCHANGED <<pins, prefetch, records, command, reader, online, library>>

\* The store refused a request: no space is left, or its database fails.
RequestRefused(id) ==
    /\ queue.active[id].stage = "refused"
    /\ \/ Ends(id, RetriedLater(queue, id))
       \/ Ends(id, IF queue.active[id].aborted /\ ~Wanted(id) THEN queue
                   ELSE [queue EXCEPT !.failed = @ \cup {id}, !.quota = TRUE])
    /\ UNCHANGED <<pins, prefetch, records, command, reader, store, online, library, refusals>>

\* The records at some places, by their ids and in their order.
IdsAt(recs, places, n) ==
    [k \in 1..n |-> recs[CHOOSE i \in places : Cardinality({j \in places : j <= i}) = k].id]

Unpinned(recs) == {i \in DOMAIN recs : ~Pinned(recs[i].id)}
Loose(recs) == {i \in DOMAIN recs : ~Wanted(recs[i].id)}
Excess(recs, limit) ==
    Min({Cardinality(Loose(recs)), Max({0, Cardinality(Unpinned(recs)) - limit})})

\* Faulty: one too many may stay.
VictimsButOne(recs) == IdsAt(recs, Loose(recs), Excess(recs, AutoLimit + 1))

\* evict: the least recently used records that are neither pinned nor about to
\* play, as many as there are too many unpinned ones.
Victims(recs) == IdsAt(recs, Loose(recs), Excess(recs, AutoLimit))

\* A download without anything to evict is complete: an earlier failure counts
\* no more.
Completes(id) == Ends(id, [queue EXCEPT !.failed = @ \ {id}])

\* The first of the victims goes, if there is one, from the records given.
EvictFirst(id, recs, victims) ==
    IF victims = <<>> THEN records' = recs /\ UNCHANGED <<store, refusals>> /\ Completes(id)
    ELSE /\ records' = Without(recs, victims[1])
         /\ \/ /\ Works(DeleteRecord(store, victims[1]))
               /\ queue' = [queue EXCEPT !.active[id].stage = "evict",
                                         !.active[id].victims = victims]
            \/ IsRefused(id)

RecordStored(id) ==
    /\ queue.active[id].stage = "record"
    /\ LET recs == UsedNow(records, RecordOf(id)) IN EvictFirst(id, recs, Victims(recs))
    /\ UNCHANGED <<pins, prefetch, command, reader, online, library>>

\* The record of a victim is gone; now its audio.
VictimForgotten(id) ==
    /\ queue.active[id].stage = "evict"
    /\ \/ DropAudio(queue.active[id].victims[1]) /\ Reaches(id, "next")
       \/ IsRefused(id)
    /\ UNCHANGED <<pins, prefetch, records, command, reader, online, library>>

VictimGone(id) ==
    /\ queue.active[id].stage = "next"
    /\ EvictFirst(id, records, Tail(queue.active[id].victims))
    /\ UNCHANGED <<pins, prefetch, command, reader, online, library>>

\* A back-off is over, though nobody looks yet.
BackoffEnds(id) ==
    /\ queue.jobs[id].waits
    /\ queue' = [queue EXCEPT !.jobs[id].waits = FALSE]
    /\ UNCHANGED <<pins, prefetch, records, command, reader, store, online, library, refusals>>

\* The timer was set for the back-off that ends first.
TimerFires ==
    /\ queue.timer /\ (QueuedIds(queue) # {} => \E id \in QueuedIds(queue) : ~queue.jobs[id].waits)
    /\ queue' \in Pump(queue, online)
    /\ UNCHANGED <<pins, prefetch, records, command, reader, store, online, library, refusals>>

-----------------------------------------------------------------------------
(* Stored audio is read when a track is loaded *)

\* blob: the audio is missing when the browser has given it up, too.
StartRead(id) ==
    /\ reader = NoReader /\ id \in Played
    /\ \E i \in DOMAIN records, found \in BOOLEAN :
           /\ records[i].id = id /\ (found => id \in store.audio)
           /\ reader' = [at |-> "read", record |-> records[i], found |-> found]
    /\ UNCHANGED <<queue, pins, prefetch, records, command, store, online, library, refusals>>

\* The record it started from counts as used now, in memory if it still exists.
ReadFound ==
    /\ reader.at = "read" /\ reader.found
    /\ records' = IF reader.record \in Range(records) THEN UsedNow(records, reader.record)
                  ELSE records
    /\ Works(PutDownload(store, reader.record)) \/ Refuses
    /\ reader' = NoReader
    /\ UNCHANGED <<queue, pins, prefetch, command, online, library>>

\* A record without audio is dropped.
ReadMissing ==
    /\ reader.at = "read" /\ ~reader.found
    /\ records' = Without(records, reader.record.id)
    /\ \/ Works(DeleteRecord(store, reader.record.id)) /\ reader' = [reader EXCEPT !.at = "drop"]
       \/ Refuses /\ reader' = NoReader
    /\ UNCHANGED <<queue, pins, prefetch, command, online, library>>

MissingDropped ==
    /\ reader.at = "drop"
    /\ DropAudio(reader.record.id) \/ Refuses
    /\ reader' = NoReader
    /\ UNCHANGED <<queue, pins, prefetch, records, command, online, library>>

-----------------------------------------------------------------------------
(* The world *)

LibraryChanges(id) ==
    /\ id \in Rescanned /\ library[id] < MaxRev
    /\ library' = [library EXCEPT ![id] = @ + 1]
    /\ UNCHANGED <<queue, pins, prefetch, records, command, reader, store, online, refusals>>

\* The app is closed at any moment and started again: load reads what is
\* stored before anybody uses the downloader.
Restart ==
    /\ records' = store.records /\ pins' = store.pins /\ prefetch' = <<>>
    /\ queue' = [queue EXCEPT !.jobs = [id \in Tracks |-> NoJob],
                              !.active = [id \in Tracks |-> NotActive],
                              !.refs = [id \in Tracks |-> NoRev],
                              !.failed = {}, !.quota = FALSE, !.timer = FALSE]
    /\ command' = [c \in Callers |-> NoCommand] /\ reader' = NoReader
    /\ UNCHANGED <<store, online, library, refusals>>

CommandStep(c) ==
    \/ FinishPin(c) \/ UnpinNext(c) \/ ListRecords(c) \/ ClearNext(c) \/ Removed(c)
    \/ FinishCommand(c)

DownloadStep(id) ==
    \/ FetchBreaks(id) \/ FetchRefused(id) \/ Fetched(id) \/ AudioStored(id)
    \/ RecordStored(id) \/ VictimForgotten(id) \/ VictimGone(id) \/ RequestRefused(id)

Next ==
    \/ \E ids \in PrefetchLists : SetPrefetch(ids)
    \/ ResumePins \/ Retry \/ GoOffline \/ GoOnline
    \/ \E c \in Callers :
        \/ \E key \in Keys : StartUnpin(c, key) \/ \E ids \in PinLists : StartPin(c, key, ids)
        \/ StartClear(c) \/ CommandStep(c)
    \/ \E id \in Tracks :
        DownloadStep(id) \/ BackoffEnds(id) \/ StartRead(id) \/ LibraryChanges(id)
    \/ TimerFires \/ ReadFound \/ ReadMissing \/ MissingDropped \/ Restart

\* The timers: of back-offs and of the pump.
TimerStep == TimerFires \/ \E id \in Tracks : BackoffEnds(id)

\* Transfers end, with data or with the stall timeout; timers fire; the store
\* answers.
Fairness ==
    /\ \A id \in Tracks : WF_vars(DownloadStep(id))
    /\ WF_vars(TimerStep) /\ \A c \in Callers : WF_vars(CommandStep(c))

Spec == Init /\ [][Next]_vars /\ Fairness

-----------------------------------------------------------------------------
(* Properties *)

\* Whenever a job could be started, now or after its back-off, pump has a timer
\* running.  (Downloads that end, being online again and changes of the queue
\* call pump themselves.)  Not so: clear lifts the quota without calling pump.
PumpIsAwake == online /\ Free(queue) > 0 /\ Considered(queue) # {} => queue.timer

\* No lost wake-up: it is always so for what the room is about to play, and no
\* step ends it but a clear that lifts the quota.
LiftsQuota == (\E c \in Callers : command[c].op = "clear") /\ queue.quota /\ ~queue'.quota
PumpWillRun ==
    /\ [](online /\ Free(queue) > 0 /\ (\E id \in QueuedIds(queue) : queue.jobs[id].priority < PinPriority)
             => queue.timer)
    /\ [][PumpIsAwake => PumpIsAwake' \/ LiftsQuota]_vars

\* Somebody is about to see to the audio of a track.
Attended(id) ==
    \/ queue.active[id].stage = "audio"
    \/ \E c \in Callers : command[c].at = "removing" /\ Head(command[c].todo) = id
    \/ reader.at = "drop" /\ reader.record.id = id
    \/ \E other \in Tracks :
           queue.active[other].stage = "evict" /\ queue.active[other].victims[1] = id

\* Audio is in nobody's way for ever: what has neither a record nor a download
\* nor a removal that is about to see to it is only left behind by an app that
\* is closed in between, or when the store refuses the very request that would
\* have seen to it.
Leaked(id) == id \in store.audio \ RecordIds(store.records) /\ ~Attended(id)
StoreRefuses == refusals' < refusals
NothingLeaks ==
    [][\A id \in Tracks : Leaked(id)' => Leaked(id) \/ (Attended(id) /\ StoreRefuses) \/ Restart]_vars

\* Not so: only a closed app leaves audio behind.  A store with room for the audio
\* may have none for its record, and nothing looks for the audio again.
LeaksOnlyWhenClosed == [][\A id \in Tracks : Leaked(id)' => Leaked(id) \/ Restart]_vars

\* However downloads, commands and reads overlap: while tracks are downloaded
\* and the lists no longer change, the unpinned tracks that are not about to
\* play end up within the limit.  (Only a download looks, and a restart in
\* the middle takes that away.)
Storing == \E id \in Tracks : queue.active[id].stage \in {"record", "evict", "next"}
AutoFits ==
    \/ Cardinality({id \in RecordIds(records) : ~Pinned(id)}) <= AutoLimit
    \/ \A id \in RecordIds(records) : Wanted(id)
EvictionSettles ==
    (<>[][UNCHANGED <<pins, prefetch>> /\ ~Restart]_vars /\ []<>Storing)
        => <>[](Storing \/ AutoFits)
=============================================================================
