# SyncMusic in TLA+

SyncMusic plays the same music at the same moment on several phones. A Go server
keeps, per room, *what* plays and *from which server time on*; phones measure the
server's clock and follow that timeline, also while they are offline. This
directory models the parts of it that decide whether phones agree, model-checks
them with TLC on small instances and proves some of the results with TLAPS for
all instances.

## 1. The system

| Component | State it keeps | Operations | Interacts through |
|---|---|---|---|
| Room engine (`internal/room`) | `State`: playback anchor, context with its play order, queue, repeat, hold, three version counters | commands, `Normalize`, hold evaluation | pure functions, called by the room actor with the current time and catalog |
| Room actor (`internal/hub/room.go`) | engine, members with their statuses and acknowledged commands, `dirty`, timer | join, leave, command, status, tick, library change, save, unload | one goroutine; inbox of events; snapshots handed to connections; the store |
| Hub (`internal/hub/hub.go`) | loaded rooms, connections | load, join, unload, close | a mutex; `post` to rooms |
| Connection (`internal/hub/conn.go`) | control queue, pending snapshots, versions sent | read loop, write loop | two goroutines; mutex, atomics and a wake-up channel shared with the actor |
| Client connection (`web/src/sync/connection.ts`) | shown state, pending commands, socket | connect, receive, send, resend, replay, expire | WebSocket; callbacks to the client engine |
| Client engine (`web/src/engine.ts`) | optimistic state, stored snapshot, save timer | start, stop, user actions, room switch, status reports, prefetch list | the client connection, player, downloader, settings, the phone's store |
| App (`web/src/App.tsx`, `ui/views`) | phase: checking, login, app; the question after the session | log in and out, ask whether the session is lost, change of room | starts and stops the engine, writes the settings |
| Client timeline (`web/src/sync/timeline.ts`) | none | the same rules as `internal/room/timeline.go`, in TypeScript | called by the client engine |
| Clock (`sync/clock.ts`, pings of `connection.ts`) | window of samples, offset in use | add a sample, notice that the wall clock was set, store and restore the offset | pings over the socket; everything that asks for the server's time |
| Drift control (`sync/drift.ts`) | window of drifts, rate, learned lag of seeks | observe, note a seek, reset | the player's ticks |
| Player (`audio/player.ts`) | track, source, load generation, retry timer, flags that tell its own pauses from others' | tick, load, the element's events, personal pause, unlock, dispose | the audio element; `resolve` of the engine |
| Downloader (`offline/downloader.ts`, `db.ts`) | jobs, active downloads, failures, pins, records | prefetch list, pin, unpin, clear, retry, pump, read stored audio, evict | IndexedDB, HTTP |
| Library, store (`internal/library`, `internal/store`) | catalog snapshot, SQLite | scans, publication | `LibraryChanged` to the hub |
| Transcoder (`internal/media/transcode.go`) | shared jobs, cache | start, join, evict | HTTP handlers, prewarming |
| Auth, server, app, UI | login limiter; otherwise none | request handling, start-up, views | HTTP |

**What is hard.** Time is an input: playback advances by itself, the server only
looks when something happens, and the result must not depend on when. A held start
("wait for everyone") is evaluated by whichever handler runs first while the start
comes closer. Snapshots are coalesced, and their bulky parts left out, by two
goroutines that share a few words. Connections break at any moment, in the middle of
a join too, and the phone goes on over the next one while the old one still delivers.
The server saves every two seconds and may crash. On the phone everything runs on one
thread, but hardly a handler runs in one go: loads, downloads, evictions, room switches
and reads of the store interleave at every `await`, and the store may refuse; the audio element tells what
happened after it has changed; the wall clock is set and the page is hidden or reloaded.
`PROJECT.json` lists these under "hazards" with the line where each bites and the
property that would catch it.

**What makes each part correct.** Engine: the play order is a permutation, queue ids
are unique, catching up is independent of when it happens, versions count every
visible change. Actor: everybody is told of every change; holds neither begin early
nor last for ever; the timer never spins; what counts as saved is saved. Connection:
a phone shows whole states, in order, and finally the newest. Commands: each takes
effect at most once and in order. Client: the connection never gives up, and the phone
ends up showing the room it is set to. Client timeline: a phone without a connection
is where the server is. Clock: the offset is as good as the fastest samples, and found
again after the clock was set. Drift: seeks land near unless a jump was learned from, and the element comes into step.
Player: what it reports is about the source it has; sources are released; the element
ends up doing what the room does. Downloader: no job waits for nobody, no audio is
left behind while the app is open and the store does not refuse, the cache ends up within its limit.

## 2. Modules

| Module | Models | Correspondence |
|---|---|---|
| `Timeline` | `internal/room/timeline.go`, `state.go` | one operator per function; pure |
| `Engine` | `internal/room/ops.go` | one operator per command; `Commit` is `Apply`, `CheckHold` and `NextHoldCheck` as in the code |
| `Room` | `internal/hub/room.go`: the actor | one action per event and command; `Elapse` is time, `timer` the actor's timer |
| `Phones` | | `Room` beside a phone (`Phone`) that knows its state and runs `ClientTimeline` |
| `RoomProofs` | | proofs about `Timeline` and `Engine` first, then about `Room` and `Phones` |
| `Snapshots` | | what a phone is promised: whole states, in order |
| `StateDelivery` | `room.go` (`stateFor`, `broadcastState`), `conn.go`, `connection.ts`, `mergeState` | one action per critical section, atomic access or message |
| `Commands` | `connection.ts` (pending commands), `conn.go` (read loop), `room.go` (`command`, `memberFor`, `remember`), `hub.go` (`join`, `ServeHTTP`) | one action per handler |
| `ClientTimeline` | `timeline.ts`, `engine.ts` (`catalog`, `updatePrefetch`) | one operator per function, loop by loop; pure |
| `Client` | `connection.ts` (the socket's life), `engine.ts` (`start`, `stop`, `switchRoom`, snapshots, local changes), `App.tsx`, `LoginView.tsx`, `saveProfile` of `SettingsView.tsx`, `settings.ts` | an operator per method on the fields it changes (`World`), one action per handler or answer of the store |
| `Player` | `player.ts`, `engine.ts` (`resolveSource`, `reportStatus`) | an operator per method, one action per timer, event of the element, call or answer of `resolve` |
| `Downloader` | `downloader.ts`, `db.ts` | one action per stretch between two awaits |
| `Drift` | `drift.ts`, the alignment in `player.ts` (`tick`) | one action per tick of the player, and per kind of jump |
| `Clock` | `clock.ts`, the pings of `connection.ts`, the stored offset of `engine.ts` | one action per ping, pong, loss, look at the clocks and reload |
| `DeliveryProofs`, `CommandsProofs` | | proofs about `StateDelivery` and `Commands` |
| `ClientProofs`, `PlayerProofs`, `ClockProofs`, `DriftProofs`, `DownloaderProofs` | | proofs about `Client`, `Player`, `Clock`, `Drift` and `Downloader` |
| `MCRoom`, `MCStateDelivery`, `MCCommands`, `MCDownloader`, `MCPlayer`, `MCDrift` | | values for TLC |

`Timeline` ⊂ `Engine` ⊂ `Room` ⊂ `Phones` by EXTENDS. `Room` treats a broadcast as one step that
reaches every connected listener; `StateDelivery` opens that step up for one listener,
and `Commands` opens up the way of a command before `Room`'s handlers see it. Both
abstract from what a state is: `StateDelivery` keeps the version and the identity of
the queue and the context, `Commands` only the list of commands applied. `Client` takes
delivery for granted and follows one phone through logins, rooms and reconnections.
`Phones` composes `Room` with `ClientTimeline`: in every state the server reaches, a phone
that knows it computes, for every later moment, the state and the position the server will
have. `Player`, `Drift` and `Downloader` each see the rest of the phone as their
environment: what the room plays, whether there is a network, what lists are asked for.

Abstractions that matter when reading:

* **Engine and Room.** Positions in a play order count from 1. Track lengths come from
  a catalog function; 0 stands for unknown. `MaxAdvanceSteps`, how many tracks one call passes over, is 10000 in the
  code and 4 or 5 in the runs, enough for their clocks and tracks (`TracksLast` in section 5). Shuffling is any permutation that keeps the
  current track first. Requests are drawn from small sets in the configuration; a
  request that the engine refuses is among them where the refusal changes state
  (entry ids are drawn before a request fails). `Elapse` lets the clock pass a
  due timer by at most `TimerSlack`: every event re-arms a timer that is due to at least a millisecond from then (`room.go:429-462`), while the model
  keeps the moment it was due, so events that come without end, less than a millisecond apart, are left out. `Restart` covers crash and orderly stop: the
  latter is a `Save` just before. Presence broadcasts, `prewarm` and unloading are not in `Room`.
* **StateDelivery.** One phone, one connection at a time: after a connection is lost,
  what the server does for the dead one is invisible to the phone, and is not modelled.
  A part is identified by its version and the server run that wrote it, which is what lets
  the model see that equal numbers may stand for different queues after a crash. Dequeueing
  and writing a message is one step. `presence` counts changes of the member list.
* **Commands.** Ages instead of a clock. A connection's uplink and its share of the inbox
  are one queue; when the connection ends, any suffix of it is lost. Full control queues
  and slow writers close connections, which `EndConnection` covers. What commands did survives
  a restart (the room saves on an orderly stop) and goes from `applied` to `before`; which
  commands did it does not.
* **Client.** A room's state is its room and version. What a closed socket had under way is
  lost, as its handlers are removed. Reads of the store answer in order. Local changes are one at a
  time. `wasOnline` is the grace of `RECONNECT_GRACE_MS`, which may last as long as it likes.
  `Hasty` lets people act while the phone still reads its store; the run has it `FALSE` (see section 4).
  `shell` is the effect of `App.tsx:115-126`: armed or missed when the status it sees changes, asking once. Questions on their way count as one, and
  the second request (`resolvePhase`) is one step with the first. Pings, statuses and the length of back-offs are left out.
* **Player.** The element follows the HTML standard: it changes at once and dispatches events
  later, in order; one that starts to load may drop events still queued. Positions, rates and
  volume are left out; a seek matters only for leaving the end of a track.
* **Drift.** One unit is the movement of the slowest correction in a tick; the code's fractions
  become a choice between both neighbours. `seekBiasMs` starts as any of `StoredBiases`,
  what an earlier visit left in `localStorage` (`engine.ts:88`, `103`, `203`): of either sign, but within `MAX_BIAS_MS`, as it was clamped when it was learned.
  `Slip` is a stall, another latency (`player.ts:226`) or a seek of the room that arrives late; `ClockCorrected` is a correction of the clock at once
  (`clock.ts:66`), which moves the room's position and the time since the last seek (`drift.ts:82-83`). `moved` and `misjudged` are history variables for the properties.
* **Clock.** Server time is the time; `skew` is how far the phone's clock is ahead. Offsets
  are in half milliseconds. Fractions of slewing are rounded either way.
* **Downloader.** All tracks have one size; back-offs end in any order a timer could produce. The store
  works requests off in the order they are made, and may refuse any of them: what waited for it ends with an error. Commands overlap, one at a time
  per element of `Callers`; stored audio is read for one track at a time. `Restart` is an app closed at any moment.

## 3. Runs

Times are in units of a few hundred milliseconds (`Room`) or four seconds
(`Commands`), chosen so that leads, margins, tracks and limits are small numbers in
the order they have in the code.

| Run | Checks | Bounds |
|---|---|---|
| `room_queue` | QueueOk, CleanMeansSaved, CatchUpIsConfluent, PartVersionsCoverChanges, VersionCoversChanges | 1 listener, 2 tracks, queue of 3, 4 versions, 4 time units, restarts |
| `room_context` | ContextOk, DurationFollowsCatalog, PhonesAgree, PrefetchComesTrue, ShuffleKeepsTrack | contexts with a repeated and with an endless track, two catalogs, 4 versions |
| `room_hold` | TypeOK, StartWaitsForHold, HoldIsBounded, EveryoneToldLatest, TickLeavesNothingDue | 2 interchangeable listeners, 3 statuses, holds of 4 units, 6 time units |
| `delivery` | TypeOK, CaughtUp, KeepsPromise, EventuallyCaughtUp | one part, 2 changes, 1 lost connection, 2 messages on the link, control queue of 1 |
| `delivery_restart` | VersionsGrow | the same with a crash |
| `commands` | AppliedInOrder, RetriesAreRecognised, SettledIsNeverRepeated | 3 commands, 2 pending at a time, 2 connections, 2 remembered commands, restarts |
| `client` | TypeOK, NeverGivesUp, ShowsItsRoom | 2 rooms, 2 versions of each, 1 action of the listener, 2 faults |
| `downloader` | PumpWillRun, EvictionSettles | 2 tracks, one of them saved, the other about to play, 1 command and 2 downloads at a time, 2 attempts, room for 1 unpinned track, a store that works |
| `downloader_overlap` | TypeOK, NothingLeaks | 1 track in 2 revisions, 2 interchangeable commands at a time, no room for unpinned tracks, 1 refusal of the store |
| `player` | TypeOK, PlaysItsTrack, SourcesReleased, ElementFollows | 2 tracks, one of them stored and corrupt, 2 sources at a time, 3 changes, 1 fault |
| `drift` | TypeOK, SeeksLandNear, ComesIntoStepIfItCan | 3 lags of seeks, stored biases of either sign, 4 jumps in both directions up to three times the seek threshold, corrections of the clock in both directions, 2 disturbances |
| `clock` | TypeOK, OffsetWithinRoundTrip, OffsetRecovers | window of 4, 3 fastest, delays 0 and 2, clock set once by more than the threshold |

*Why the bounds suffice.* A queue of three and contexts of three reach every branch
of taking, moving and wrapping around; a repeated track separates "the track" from "the
place". Two listeners are the least for one to wait for the other; the third
would only add another conjunct to `allReady`. Two changes are the least for a
snapshot to be replaced while an older one is being written. The queue and the context
are sent by the same rules, and one of them with changes that leave it alone shows
every combination of a part that is sent, pending or left out. Two connections are the
least for an old one to interfere with a new one; three commands with two remembered
are the least for forgetting to matter. Two rooms are the least to switch between; the session, the link, an answer,
the network and the other tab share the two faults, so every pair of them occurs, besides an action, entering and logging in.
With two actions, the least for a second one to come while the first is not finished, `client` passes as well, in more time than a run should take (`MaxActs = 2`). Two tracks with room for
one are the least for eviction, and for a load to overtake another; a track in both the
collection and the store is pinned, unpinned, replaced and evicted. In `downloader_overlap`
the download that evicts a track is its own; that of another track, and more than two commands at a time, are left to the theorem `NothingIsLeftBehind`, which has any number of both. A stored bias and one jump are
enough to make the next seek land out of reach, a second jump to be taken for its lag; with three disturbances `drift` passes as well. The window of four with three
that count is the least in which an old sample is outvoted and pushed out; one setting
of the clock is enough for a ping in flight, samples on both sides and a page that does not notice, and `OffsetRecovers`
is about the time after the last.

*Symmetry* is used in `room_hold` (listeners) and `downloader_overlap` (callers), where all properties are safety
properties that treat them alike. *Deadlock* is not checked in the `Room` runs, where `MaxTime`
and `MaxVersion` end every behaviour and the real room goes on, and in `player`, where a disposed
player with no events left has nothing to do. In the other runs it is checked.

*Fairness.*

* `StateDelivery`, for EventuallyCaughtUp: the actor and the
  writer are goroutines that get scheduled, a link that is not lost delivers, the phone
  reconnects by a timer for as long as it has no socket. The writer prefers control
  messages, so weak fairness would let pings keep it from ever sending a state; pings are
  150 ms and later 3 s apart, hence strong fairness of finding no control message. Nothing
  is assumed about changes, pings or losses.
* `Client`, for ShowsItsRoom: the app goes on (timers run, the store and the server answer, a listener who is asked to log in does), the connection
  goes on, a network comes back and the browser says so. Each of the three is weakly fair as a group, which assumes less than fairness of its steps.
  Actions and faults are bounded, and none is fair: a link need not be lost, a session need not end. The question after the session is not among what can always
  happen: it is armed when the status changes, as in the code.
* `Player`, for ElementFollows: the tick interval (250 ms) and the retry timer run, queued events
  are dispatched, `resolve` returns (it reads IndexedDB or builds a URL), an element that loads gets data or fails, the network returns.
* `Downloader`, for EvictionSettles: a transfer ends, with data or by its stall timeout, the store answers, timers run; it need not refuse.
* `Drift`: the player's interval runs while the element plays. `Clock`: pings are sent by a timer; a link that is lost again
  and again is up long enough for a pong again and again (strong fairness of `Pong`).

*Refinement.* `KeepsPromise` is `Snapshots!Spec` with the phone's shown state for
`shown`: however the parts of a snapshot were combined on the phone, the result is a state the room was
in, later than the one before. `PhonesAgree` is the step-free counterpart for the timeline: the
phone's `Normalize` and the server's are the same function of state, time and catalog on
everything the room reaches; section 5 proves it for all instances.

## 4. What the code does not keep

Modelling showed disagreements between the code and what its comments and docs say, or what
one would want of it. Each is stated as a definition marked "Not so" in its module, or is a
changed constant of a checked property. None is checked by a run; to see one, put
it in the named configuration (alone) with the given constants. Those without a temporal operator are invariants (`INVARIANT`), the others go under `PROPERTY`.

Server:

* **A drop without a version** (`VersionCoversChanges`, `RoomContext.cfg`). `play` and `next` take unknown entries from the queue and count
  `queueVersion` (`timeline.go:78-85`), then return "nothing to play" or no change (`ops.go:245`, `ops.go:296-300`): no
  new version, no broadcast, no save. `docs/architecture.md:60`: "Every change increments `version`."
* **A report about the last time** (`ReportsEndOnlyTheirTrack`, `RoomContext.cfg` with `Clients = {alice, bob}`). A report names track and entry but not
  the occasion. With repeat one, the second of two reports about one ending ends the next playing too, if it comes after its
  anchor; `ops.go:492`: "Guard against stale or duplicate reports."
* **The state ahead of the welcome** (`CaughtUp`, `Delivery.cfg` with `Crashes = TRUE`). The writer finds no control message (`conn.go:173`), the
  join queues its welcome and snapshot, the writer sends the snapshot first. After a crash the phone drops it as older
  (`connection.ts:319`), while `conn.go:185` notes the queue as delivered: the lost queue stays on the phone.
  `docs/protocol.md:105`: "The first state after a reconnect is always accepted."
* **A member list is dropped** (`PresenceArrives`, `Delivery.cfg` with `Parts = {queue, context}`). `writeLoop` takes state and presence together and, having
  written the state, continues without the presence (`conn.go:176-190`); `docs/protocol.md:8` promises both after a join.
* **A replay after a restart** (`AppliedAtMostOnce`, `Commands.cfg`). Acknowledgements are kept in the member only (`room.go:43`), the state is
  saved (`room.go:167`); after an orderly restart a replayed `next` skips twice. `docs/protocol.md:90`: "is not applied twice".
* **A ghost** (`DepartedListenersLeave`, `Commands.cfg` with `Restarts = FALSE`). A connection that ends while its join is in the inbox posts no leave (`hub.go:185`, `hub.go:156`) and stays a
  connected listener for good, for whom every held start waits its full time. `docs/protocol.md:115`.
* Seen as well: `prev` starts a track without looking it up (`ops.go:325`, `ops.go:341`), which then plays with length 0 and never ends by itself; a command may be applied after the phone reported it expired.

Phone:

* **A rate that is never restored** (`ComesIntoStep`, `Drift.cfg`). A pause sets the element's rate to 1 (`player.ts:199`) but not the controller's, which
  then "holds" the rate it believes to be set (`drift.ts:113`): the drift that was being corrected stays. A seek resets the controller's rate but not the element's.
* **A seek that does not help** (`SeeksHelp`, `Drift.cfg`). A seek decided on the median of samples older than the latest jump, or with a stored
  `seekBiasMs` that is too large for the output in use, can land further off than the element was.
* **A jump that is learned** (`SeeksAlwaysLandNear`, `Drift.cfg`). Between a seek and its one measurement (`drift.ts:89-95`) the clock may be corrected at once (`clock.ts:66`),
  the latency changed or the element stall: what the jump moved is taken for the lag of the seek. If it was nearly `seekAboveMs` and of the wrong sign, later seeks land
  further off than that, are not learned from (`drift.ts:92`), and are repeated for ever; the bias is stored and restored (`engine.ts:203`, `103`), so a reload does not
  help. `SeeksLandNear` says that nothing else does it; `OutOfReach` is that exception in `ComesIntoStepIfItCan`. A phone whose seeks land `seekAboveMs` late by themselves is in the same place.
* **A clock set back after a seek.** The time since a seek is measured by the estimated clock (`drift.ts:82-83`). If that is set back after a seek, the controller
  "holds", whatever the drift, until the clock is past the seek again (`since` in `Drift` may be negative).
* **Pauses mistaken** (`EndIsNoPause`, `SystemPauseHeeded`, `Player.cfg`). `endPauseSeen` set by an event that arrives while a load waits stays set,
  and the next track's end becomes a personal pause (`player.ts:365-375`); `selfPause` counts an event that the following
  `el.load()` discards (`player.ts:327-331`), and swallows the next pause by the system.
* **Heard but not told** (`HeardIsTold`, `Player.cfg`). `unlock` during a load plays the source before it (`player.ts:158-172`). `bypassCache` set for a
  broken copy may be used for another track.
* **Accuracy** (`AccuracyIsUpperBound`, `Clock.cfg`). Half the best round trip is no upper bound of the error (`clock.ts:96`): the offset is a median of
  several samples, and small changes are slewed.
* **A question that is missed** (`FindsOut`, `Client.cfg`). `App.tsx:113-114`: "after a while of failing, ask the server whether we are logged in." The question
  is armed when the status changes to "offline", not if the browser has no network at that moment (`App.tsx:116`), is asked once, and an error is dropped (`App.tsx:123`).
  Each new attempt leaves the status "offline" (`connection.ts:210`, `265`), so nothing asks again: if the session expires, the browser loses its network and gets it
  back, every connection is refused until something else changes the status: a reload, logging out, another room. `Refused` is that exception in `ShowsItsRoom`.
* **A snapshot of another room** (`SnapshotsOfTheirRoom`, `Client.cfg`). `switchRoom` leaves the old room's socket open while it reads the
  store (`engine.ts:180-185`), and the save timer stores whatever is shown under the new room's key (`engine.ts:197-204`).
* **Acting while the store is read** (`ShowsItsRoom`, `Client.cfg` with `Hasty = TRUE`). A room switch that still waits for the store restarts the
  connection after the listener logged out, and the next `start` finds it running.
* **A clear that nobody follows up** (`PumpIsAwake`, `Downloader.cfg`). `clear` ends with `quotaExceeded = false` (`downloader.ts:238`) but calls no `pump`. A saved
  track that is about to play as well, whose download `clear` aborted, waits at the priority of saved tracks, which `pump` passed over while the quota
  was exceeded (`downloader.ts:303`): no timer is set, and it waits for the next call. The proof of `NoLostWakeUp` found this.
* **Audio without a record** (`LeaksOnlyWhenClosed`, `DownloaderOverlap.cfg`). A store with room for the audio may refuse its record (`downloader.ts:397-410`), or refuse to delete
  the audio after the record (`db.ts:99-100`). `onError` (`downloader.ts:336-361`) and the commands leave the audio where it is; `load`, `evict`, `clear` and `stats` go by the records, so
  it takes space until the same track is downloaded again. `NothingLeaks` excepts the step that refuses and the closing of the app, and no other.
* Seen in the downloader: prefetching lowers the priority of a saved track's job, which the next list then deletes (`downloader.ts:192`, `288`; the comment
  at 185 says "unless pinned"); a track saved while eviction waits for the store is removed with the others (`downloader.ts:421-429`); a saved track whose
  audio is missing is fetched again only after a restart or a library event; a job that waits keeps the revision it was made for; a download past its fetch outlives `clear`;
  `blob` writes back, or deletes, a record that changed while it waited (`downloader.ts:172-178`); a command that is refused a request leaves the rest of its list undone; a closed app leaves audio without a record, or a cache above its limit until the next download.
* Seen elsewhere: two refreshes of the library may end in either order (`store/library.ts:73-82`); a welcome refreshes only a library that was loaded before (`engine.ts:121-126`).

## 5. Proofs

| Module | Theorem | States |
|---|---|---|
| `RoomProofs` | `TypeCorrect` | `Spec => []TypeOK` |
| | `PlayOrder` | `Spec => []ContextOk` |
| | `HeldStart` | `Spec => []StartWaitsForHold` |
| | `HoldEnds` | `Spec => []HoldIsBounded` |
| | `QueueOrder` | `Spec => []QueueOk` |
| | `PartsAreVersioned` | `Spec => PartVersionsCoverChanges` |
| | `ShuffleIsSmooth` | `Spec => ShuffleKeepsTrack` |
| | `ChangesAreVersioned` | `Spec => VersionCoversChanges`, if `NoneLost` |
| | `EveryoneIsTold` | `Spec => []EveryoneToldLatest`, if `NoneLost` |
| | `CleanIsSaved` | `Spec => []CleanMeansSaved`, if `NoneLost` |
| | `LengthFollowsScans` | `Spec => []DurationFollowsCatalog`, if `~Restarts` |
| | `CatchingUpIsConfluent` | `Spec => []CatchUpIsConfluent`, if `TracksLast(d)` |
| | `TicksSettleEverything` | `Spec => TickLeavesNothingDue`, if `TracksLast(d)` |
| | `PhonesFollow` | `Spec => []PhonesAgree` |
| | `PrefetchIsRight` | `Spec => []PrefetchComesTrue` |
| `ClientProofs` | `TypeCorrect` | `Spec => []TypeOK` |
| | `KeepsTrying` | `Spec => []NeverGivesUp` |
| `PlayerProofs` | `TypeCorrect` | `Spec => []TypeOK` |
| | `RightTrack` | `Spec => []PlaysItsTrack` |
| | `NoSourceLeaks` | `Spec => []SourcesReleased` |
| `ClockProofs` | `TypeCorrect` | `Spec => []TypeOK` |
| | `OffsetIsGood` | `Spec => []OffsetWithinRoundTrip` |
| `DriftProofs` | `TypeCorrect` | `Spec => []TypeOK` |
| | `LearningIsSafe` | `Spec => SeeksLandNear` |
| `DeliveryProofs` | `TypeCorrect` | `Spec => []TypeOK` |
| | `VersionsOnlyGrow` | `Spec => []VersionsGrow` |
| | `PhoneCatchesUp` | `Spec => []CaughtUp`, if `~Crashes` |
| | `DeliveryKeepsPromise` | `Spec => KeepsPromise`, if `~Crashes`: the refinement of `Snapshots` |
| `CommandsProofs` | `CommandsInOrder` | `Spec => []AppliedInOrder` |
| | `PendingIsRecognised` | `Spec => []RetriesAreRecognised` |
| | `SettledStaysSettled` | `Spec => SettledIsNeverRepeated` |
| `DownloaderProofs` | `TypeCorrect` | `Spec => []TypeOK` |
| | `NoLostWakeUp` | `Spec => PumpWillRun` |
| | `NothingIsLeftBehind` | `Spec => NothingLeaks` |

They hold for every value of the constants that the assumptions named in the modules allow; the only ones that
say more than a type are `TimerSlack < HoldMarginMs < HoldExtendMs` in `Room`, `Gain < SeekAbove` (5 % of about a second, 700 ms) and `Settle <= Cooldown` (700 ms, 2 s) in `Drift`, and in `Commands`
`ResendAfter <= CommandTTL <= MemberGrace` (4 s, 8 s, 120 s) and `MaxPending <= RecentCommands`: nobody has
more than 64 commands pending within 8 s, which the code relies on and does not enforce. `RoomProofs` is
for every number of listeners, every catalog, every set of requests and every timing.

**Room.** `TypeOK` is not inductive: taking the next track indexes `tracks` by `order`, which needs the
order to be a permutation, in the stored state too since a restart resumes it. `GoodStates` adds
that. The hold theorems need that time cannot run away from the timer, `ClockFollowsTimer`
(`now <= timer + TimerSlack`), and that the timer is armed early enough for the hold,
`TimerGuardsHold`: while a hold is on, the timer is set at or before the moment the hold is next
examined, or a tick is already due. Together they give `now <= NextHoldCheck + TimerSlack`, which is below the
start as `TimerSlack < HoldMarginMs`, and at most `untilMs + TimerSlack`. A postponement moves the
start by `HoldExtendMs`, more than the margin, so the next examination lies ahead again.
`IInv == GoodStates /\ ClockFollowsTimer /\ TimerGuardsHold`; `RoomProofs` shows `Init => IInv`
(`InitGood`), `IInv /\ [Next]_vars => IInv'` (`NextPreserves`, a lemma per action) and the theorems from it.
Its first half holds the lemmas about operators: every command maps good states to good states, catching up as well, and neither touches a running hold's bounds.

`QueueOk` holds of a restarted room only if the stored queue is in order too, hence `EntriesInOrder`. The other
theorems rest on one summary of what a step does, `Orderly`: the queue and the context change with their versions, shuffling keeps the track, and
the step is either `Announced` (a new version, told to every listener, to be saved) or `Silent` (nothing visible changed, and only a listener who
joins is told anything). Lemmas show of every command what it owes to that (`Proper`): an outcome of "no change" or an error means that nothing
visible changed, but for entries the library has lost. This exception is real ("a drop without a version", section 4), so three theorems assume `NoneLost`, that
scans find the same tracks, perhaps with other lengths; then the library always knows what is queued (`QueuesKnown`), which is part of their invariant `Current`.
`PartVersionsCoverChanges` needs no such assumption: the drop counts `queueVersion`. `DurationFollowsCatalog` is about the room that runs: a
restart may resume the length of an earlier scan, saved before the last one, and the code asks for no new one until the library changes again, so the theorem
is for `~Restarts`. `RoomContext.cfg` shows it with two catalogs, one of which has lost a track.

*Catching up.* `Normalize` gives up after `MaxAdvanceSteps` tracks, and then its result does depend on when it is called. `TracksLast(d)` says when that
cannot happen: no scan finds a track shorter than `d`, but for unknown lengths, and `MaxAdvanceSteps * d` is more than the time modelled; with the code's
10000 steps and tracks of a second that is a sleep of almost three hours, with tracks of three minutes twenty days. Each iteration starts where the last track
ended and moves the end by `d` at least, so the loop comes to rest before it runs out (`LengthsKnown`: what plays has the length of some scan). At rest, iterating
up to one moment and then to a later one is iterating to the later one, by induction over the iterations. `TicksSettleEverything` also needs that a held
start is the start of a whole track (`HeldFromTop`), so that postponing it leaves its end ahead, and `ClockIsBounded`, that the clock stays within what the hypothesis speaks of.

*The phone.* The server's rules are stated by what they do (the first playable entry, the least step to a playable track), the phone's loop by loop. So the proof says what
each loop has done after `k` iterations: `SearchQueue` has dropped `k` entries, none playable, or stands at the first that is; `SearchContext` has gone `k` places, wrapped
around once at most. At the end both have found what the server picks, or nothing where it finds nothing; `takeNext`, `advanceAuto` and `normalize` then agree step by
step, whatever the bound on the iterations, which both sides share. `PrefetchIsRight` rests on the same closed forms: `upcoming` first calls the `takeNext` that
the server calls when the track ends, and what plays already is put last. Both hold in every state with an order that is a permutation (`GoodStates`).

**Client.** `NeverGivesUp` says nothing of a stopped connection, and is not inductive without it: `start`
relies on `stop` having left neither socket nor timer. `Alive` adds that, that only a stopped connection is
`idle`, and that a socket that said hello is for a room. Each method maps good worlds to good worlds
(`ConnectGood`, `ScheduleGood` ...), and each action is a composition of methods. It holds for `Hasty = TRUE` too.

**Player.** That the element has the right source needs to know which answer will be accepted: `Matches` says that at most one
call of `resolve` is the latest, that it is for the current track and exists only while loading, and that the element's source is the player's.
Most methods change nothing `Matches` looks at (`Same`), which one lemma per method shows once.

**Clock.** The offset in use is never recomputed from nothing, so `OffsetWithinRoundTrip` needs `NearFastSample`, that it
is within `Slack` of one of the fastest samples, and `SamplesMeasure`, that an undisturbed sample is off by at
most its round trip. A quarter step towards a median below the threshold leaves three quarters of it, and rounding.

**Drift.** That a median exists is the pigeonhole principle: two samples of a window are never below each other, so each has a rank of its own and every rank is taken. How
late seeks land is learned from one sample after each. Until then the element is where the seek landed, but for what its rate gained and what jumps `moved` it
(`UnmeasuredIsNear`), so the sample is off from where the seek landed by `moved + Gain` at most (`MeasuredNear`). Learning takes three fifths of it off: where seeks land
afterwards lies between where they landed and where a correction by the whole sample would take them (`LearnedIsBetween`), which is within `SeekAbove` as long as
both are, that is unless the sample was `Spoilt` by jumps of more than `SeekAbove - Gain`; that, or a stored bias that is off by more from the start, is what `misjudged` notes.
Hence `LandsNear`, the invariant from which the action property follows for both kinds of seeks. Nothing is assumed of how late seeks land, nor of the jumps.

**Delivery.** `VersionsGrow` speaks of what is on its way to the phone: on the link, in the writer's hands and
pending. Inductively it needs that these come in the order of their versions and none before the join is answered, that the room is no older than
any of them, and older while it still has to broadcast one, and where the phone stands before all of them
(`VInv`); a connection joins once (`JoinsOnce`). That much holds across crashes. `CaughtUp` and the refinement also need `CInv`: versions number the room's states and
a part's version its contents; whatever is on its way is a state the room was in, and a part left out of it is shown by the phone, or
in a state that comes before (`LeftOutIsKnown`), because what the connection notes as sent was written (`SentIsWritten`) and the actor
never leaves out what only the snapshot it replaces has (`LeavesOutWritten`);
if the phone does not show the room's state, that state is on its way. `~Crashes` is a hypothesis of both because they
are false without it: a crash takes states back and uses their versions again, and the phone may keep a part that was lost, see "the state ahead of the welcome" in section 4. Writing, taking and
confirming interleave with the actor's loads and stores in any way; connections may be lost at any point.

**Commands.** The heart is the line of messages from the connection the room holds for the listener's (`Lines`). Of each command in
it: an earlier one that is still pending is ahead of it or was applied; if a later one was applied, so was it; and if it was applied, the room remembers it, and fewer
than `RecentCommands` later ones can be remembered before its turn comes. The last needs that the pending commands are the last ones given
(`PendingAreLast`: a user has at most `MaxPending`) and that what `remember` drops has `RecentCommands` later ones (`DroppedIsOld`). Two more invariants follow
a command to the phone and back: answers come in the order the commands were given (`AcksInOrder`), and what is pending over an open connection
is on its way up or its answer on its way down (`SentInOrder`). A pending command outlives the listener's absence only if
it has expired (`PendingAreRemembered`), as `CommandTTL <= MemberGrace`. `AckedWasApplied` adds what the action property needs: a copy of an acknowledged
command is on its way only in the run of the server that applied it. TLC checked each conjunct of `IInv` on the configuration of
the run before it was proved; then a lemma per handler shows what it does to the line (`NextLines`), and one per conjunct.

**Downloader.** `GoodQueue` adds to the types that what is not being downloaded has left no trace, that every download has a job, and, while
it evicts, a victim; `CommandOk`, of every command in progress, that a removal has a track. Two notions carry the rest. `Awake(q)` says of a queue that its timer runs if a job could be
started: `pump` establishes it (`PumpGood`), a step that only takes jobs away or ends a back-off keeps it (`QuietQueue`), and the one step left is `clear`
lifting the quota. Hence `PumpWillRun` names that exception for saved tracks, and has none for the prefetch list, which the quota never holds back: there
`PumpInv` keeps the timer as an invariant. `Attended(id)` says that somebody is about to see to the audio of a track: its own download, a removal, a read, or an
eviction with the track at its head. Audio is orphaned only by steps after which it is attended to, and who attends to a track stops only by dropping its
audio, or by being refused (`LeakFree`, `RefusedLeaks`); other commands leave it alone (`RemovalsGoOn`), however many there are. That a queue's new entries, and victims picked by their rank, are what they should be rests on the least element of a set of numbers (`MinNat`), from `WFMin`
of the library. TLC checked the strengthened invariant on the configuration of the run first.

Model-checked only: liveness, that is `EventuallyCaughtUp`, `ShowsItsRoom`, `EvictionSettles`, `ElementFollows`, `OffsetRecovers` and
`ComesIntoStepIfItCan`, which is out of the prover's reach. Every other property that a run checks is a theorem. Nor is it proved what the
phone's loops compute beyond what their comparison with the server's rules says.

## 6. Not modelled, and the plan

`PROJECT.json` lists every part with its status. Not modelled: the hub's table of rooms (one mutex; unloading waits for the actor), the library scanner, the
transcoder and the login limiter (caches and counters around files, SQL and ffmpeg, with little that several actors share), the store (SQL, modelled where it is used), HTTP routing,
tokens, ffmpeg wrappers, image sizes, configuration, start-up and views. On the phone: the library store (one cached answer), the lock screen's
controls, and the contents of optimistic changes.

What is left to do: a composition in which `StateDelivery`'s promise is shown of `Room`'s broadcasts; the contents of optimistic changes.

The project keeps twelve runs. Those that showed a single disagreement have made room for new
parts and live on as section 4.
