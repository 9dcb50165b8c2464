# A TLA+ verification of Locast

Locast lets a group watch a film together: a Rust server keeps *rooms*, a Tauri
client (Rust and TypeScript) joins them over one WebSocket, receives the host's
playback commands, chats, draws on the film, and fetches the media file from
the other participants over WebRTC. The server decides who is in a room, who is
its host, and in which order everything in it happens; the clients keep caches
of that, and move the bytes among themselves. These modules model both sides.

## 1. Inventory

`src/apps/server/src/` is written `server/`, `src/apps/client/src-tauri/src/`
`tauri/` and `src/apps/client/src/` `ui/`.

| Component | State it keeps | Operations | What makes it correct | Module |
|---|---|---|---|---|
| Room registry: `server/rooms/registry.rs`, `state.rs`, `host.rs` | rooms, participants, host, grace deadline | create, join, leave, touch, connection lost, rejoin, election, removal | one host, always seated; a lost host gets a grace period that ends | `RoomRegistry` |
| Room tables: `server/db.rs`, `rooms/store.rs` | `rooms` and `room_participants` rows | insert, upsert, status, end, deadline, purge | after a crash at any point the rows bring back the room with its host, and never a closed room | `RoomRegistry` |
| Ticker and boot: `server/rooms/mod.rs`, `lib.rs` | the `now_ms` of a tick | grace, presence timeout, stale sweep, rehydration | as above | `RoomRegistry` |
| Connection tasks: `server/ws/mod.rs` | pending or authenticated, subscription, bearers, resume tokens | AUTH, AUTH_RESUME, dispatch, teardown | a teardown never disturbs the user's newer connection | `Link`, `RoomRegistry`, `RoomFeed` |
| Rate limiter: `server/ratelimit/`, `ws/mod.rs` | buckets, cooldown, bad-message window | consume, refill, throttle | not a token lost or gained, whatever the clock does | `Admission` |
| Broadcast feed: `server/rooms/feed.rs`, the forwarder of `ws/mod.rs` | receiver, lag flags, parked item, snapshot floor | next, subscribe, forward, DRAW_SYNC | no drawing event is lost, repeated or applied over a hole | `RoomFeed` |
| Drawing: `server/rooms/drawing.rs`, `StrokeBookkeeping` | open and committed strokes, retained content, eviction queue | BEGIN, POINT, END, UNDO, CLEAR, snapshot | screens agree with the room; a stroke keeps its owner; memory is bounded | `Drawing` |
| The artist's side: `ui/components/DrawingLayer.tsx`, `ui/drawing/`, `tauri/commands/drawing.rs` | own canvas, send queue, undo tracker | draw, coalesce, send, time out, undo, clear | the author's canvas is the room's | `Sketch` |
| Laser: `ui/laser/`, `server/rooms/laser.rs` | sender's timers, the remote trail | move, keepalive, idle, fade | shown while held, gone when not | `Laser` |
| Playback: `server/rooms/playback.rs`; `PlaybackSeq` of `tauri/net/room.rs` | lifecycle, last number per sender; the sender's next number and remembered commands | PLAY, PAUSE, SEEK, renumber and send again | the user's order is kept; a lost command does not silence its sender | `PlaybackSend` |
| The viewer: `ui/stores/usePlaybackStore.ts`, `ui/drift/dedup.ts`, `Player.tsx` | last applied, parked event, dedup windows, the element | accept, park, apply, catch up | the store knows the room's play state; the element ends up in it | `Viewer` |
| Drift: `ui/drift/`, SKEW_PROBE in `tauri/net/room.rs` | samples, skew, waiters | probe, median, project, correct | the video is where the room is, to half a round trip | `Drift` |
| Client signaling: `tauri/net/signaling.rs` | connection, credentials, outbound queue | dial, handshake, send, pace, reconnect, shut down | nothing of one session enters the next; the client comes back | `Link` |
| A client's view of its room: `tauri/net/room.rs`, `storage/room_snapshot.rs`, `server/rooms/permissions.rs`, `presets.rs` | cached summary, own rights, users in the database; events under way | seat, leave, pass on, empower; publish, filter, subscribe; apply | the client ends up with the server's room | `Roster` |
| Client membership: `tauri/net/room.rs` | cached room, rejoin credentials, waiters, kept envelopes | create, join, leave, reconnect hook, presence | what the client shows heals; a leave is heard | `ClientRoom` |
| Manifests: `server/rooms/manifest.rs`, `tauri/room/host.rs`, `tauri/net/room.rs` | versions, pieces, caches | publish, assemble, number, prune, broadcast, fetch, accept | a confirmed publish is stored; nobody goes back a version | `Manifests` |
| Client WebRTC: `tauri/net/webrtc.rs`, `tauri/transfer/host_dispatcher.rs`, `server/rooms/signal.rs` | peer entries, early signals, sender slots | offer, answer, restart, leave, serve | a viewer is served once the traces of an earlier link are gone | `PeerLink` |
| Files channel: `tauri/transfer/webrtc_transport.rs` | reassembly, role queues, window, bucket | send, reassemble, route | a segment is refused only for cause; a download gets through | `FilesChannel` |
| Transfers: `tauri/transfer/session.rs`, `multi_source.rs`, `scheduler.rs`, `plan.rs`, `assemble.rs` | chunk rows, part files, in-flight records, retry budgets | request, ack, NAK, time out, rotate, verify, assemble, resume | every download is an atomic fetch: nothing half-published | `FileFetch`, `MultiSource`, `Session` |
| Downloads: `tauri/commands/downloads.rs`, `transfer/state.rs`, `registry.rs` | rows, claims, tokens, tasks | open, pause, resume, cancel, finish | a complete row has its file; every claim is given back | `Downloads` |
| Library: `tauri/library/`, `core/quota.rs`, `commands/import.rs`, `commands/library.rs` | items, files, trash, scratch | import, scan, delete, keep, purge | imports and downloads do not overdraw the quota; what was reported stays | `Library` |

| Media protocol: `tauri/library/protocol.rs` | none: a file, a request, a window | resolve, parse range, seek, read, answer | whatever ranges the player asks for add up to the file | `MediaServe` |
| Identity: `tauri/identity/keystore.rs` | keyring entry, rows, cached key | load, get or create, sign | one device is one user | `Keystore` |

Not modelled: room codes, validation, errors, audit, metrics, configuration and
time (string checks and plumbing); subtitles
and media (parsers); pages and view state of the UI. Of components that are
modelled, these parts are not: wire formats, canonical encoding, hashes and
signatures (byte-level); ICE candidates; chat (validates and relays); what
each capability bit other than DRAW and PLAYBACK_CONTROL allows; changing the quota,
thumbnails, listings; `BackpressureTransport` and the frame codec of `wire.rs`;
zero-byte media; the chunk rows of `reconcile_manifest_version`; parts of
`ReceiverSession` only tests call; the client's caches of chat and of the room's
settings; the drift smoother's moving average.

**How they interact.** A server connection task reads one message at a time,
runs the capability gate (a read of the room), then the handler, which takes
the room's `tokio::sync::RwLock`. What the handler changes is published to the
room's broadcast channel, drawing and playback while the lock is still held.
Each connection has a forwarder task that drains its own receiver of that
channel. One ticker task sweeps all rooms. Memory is authoritative; SQLite rows
follow it and are read only at boot. On the client one task owns the WebSocket
and redials it; commands of the UI are tasks that queue a frame and wait for a
reply matched by kind, not by request; a reconnect hook rejoins the room and
publishes again what the server may have lost. Room events reach the TypeScript
stores as Tauri events. Signals that travel over the WebSocket set up one peer
connection per pair of members, whose `files` channel carries both directions
of every transfer between the two. Transfers end in the library's tree, which
imports, scans and deletes use at the same time.

**What is hard here.** Handlers that release the lock between a test and its
use; database writes after memory has changed, with a crash in between; a
channel that drops the oldest items of a slow receiver; snapshots that overtake
queued events; several connections of one user at once, each with a task that
has not noticed; replies that come after their waiter gave up, or after the
link they belong to; messages cut in pieces and sent while a reconnect swaps
the wire below; two locks taken one after the other for one decision; signals
that arrive before the peer they are about is known; two writers of one data
channel; overlapping commands of one film; a file tree that three kinds of task
change under different locks. `PROJECT.json` lists each hazard with its line
and the properties that would catch it.

## 2. Modules

| Module | Contents | TLC instance | Proofs |
|---|---|---|---|
| `RoomRegistry` | one room: memory, rows, connection tasks, ticker, crash and restart | `MCRoomRegistry` | `RoomRegistryProofs` |
| `Link` | one client's signaling link over successive connections, client and server | `MCFollower` | `FollowerProofs` |
| `RoomFeed` | one subscription, from the room's publish to the client's store | `MCFollower` | `FollowerProofs` |
| `Viewer` | a viewer that follows the room's playback | `MCFollower` | `FollowerProofs` |
| `Drawing` | the stroke bookkeeping, the DRAW handlers, a watcher's screen | `MCDrawing` | `DrawingProofs` |
| `PlaybackSend` | one sender's playback commands over a connection that drops | `MCDrawing`, `PlaybackSend` | `DrawingProofs` |
| `Orders` | what a `sort_by` and a `retain` leave of a list | | |
| `Admission` | what the server reads from one connection | `MCDrawing` | `DrawingProofs` |
| `ClientRoom` | one client's membership, against the seats the server holds | `MCClient` | `ClientRoomProofs` |
| `Manifests` | a room's manifest from the host's publish to every member's cache | `MCClient` | `ClientProofs` |
| `Drift` | where a viewer's video stands beside the room's | `MCClient`, `Drift` | `ClientProofs` |
| `FileFetch` | abstract: what a download promises | | |
| `MultiSource` | a download from several peers; implements `FileFetch` | `MCMultiSource` | `MultiSourceProofs` |
| `Session` | a download from one peer; implements `FileFetch` | `MCMultiSource` | `TransferProofs` |
| `FilesChannel` | the data channel of two peers, both roles on each end | `MCTransfer`, `MCFiles` | `TransferProofs` |
| `Downloads` | overlapping download commands of one film | `MCTransfer` | `TransferProofs` |
| `PeerLink` | the WebRTC connection of host and viewer, and the sender slot | `MCMultiSource` | |
| `Roster` | one client's view of roster, host and own rights, beside the server's room | `MCRoster` | |
| `Library` | the media library and its quota | `MCLibrary` | `LibraryProofs` |
| `MediaServe` | the `locast://` answers to a media element | `MCLibrary` | `LibraryProofs` |
| `Keystore` | the device's keypair: keyring, row, cache | `MCLibrary` | `LibraryProofs` |
| `Sketch` | a participant who draws | `MCOverlay` | |
| `Laser` | a laser pointer and the trail another one sees | `MCOverlay` | `DrawingProofs` |

`MCFollower`, `MCDrawing`, `MCClient`, `MCMultiSource`, `MCTransfer`, `MCLibrary` and
`MCOverlay` check several modules in one run, side by side: the modules share no variable, a
behaviour belongs to the part its first state names and leaves the variables of
the others as they began, so the states add up instead of multiplying. A
liveness property of a part is stated for the behaviours of that part.

The modules cut the system where one component's promise is what the next one
relies on. `Drawing`'s `screen` takes events one by one or a snapshot after a
hole, and that delivery amounts to this is `RoomFeed`'s subject; `Viewer`
receives an in-order link that drops what is under way, which is `Link`'s;
`Downloads` and `Library` see a transfer as one stage, and `MultiSource` and
`Session` are its two implementations, both refining `FileFetch`.

### RoomRegistry

`life`, `hostUserId`, `deadline` and `parts` are the `RoomState`; a `Left`
record is kept, as in the code, and `"Absent"` is no record. `room` and `rows`
are the tables. `conn[c].pc` is where a connection's task stands: `"up"` is its
read loop; every other value is a point where the code awaits the database or
the lock. A handler that holds the lock throughout is one action; where the
code releases it, or writes rows after memory, the handler is several:

* `Create`, `CreateHostRow`, `CreateMem` are `create`'s row, host row and memory.
* `LeaveRoom` has the four outcomes of `leave_room` (a viewer, a room that
  ends, a handover, a grace period); `SaveEnd` ... `SaveOldLeft` are its
  database writes, made under the lock (`Locked`).
* `Connect`, `Rejoin...`, `Upgrade` are AUTH with `rejoin_in_room` and the relay
  registration that follows; the host's and the viewer's branch each write a
  row before they touch memory.
* `Close`, `ConnectionLost`, `LostRow`, `LostSeat`, `LostHost` are the teardown,
  with the gap between the `is_host` read and what is done about it.
* `TickGrace` ... `TickPurge` are the sweeps of one tick, in `run_tick`'s order.
* `Restart` kills every task and rebuilds memory from the rows.

`join` writes the row and the record under one hold of the lock and nobody else
can see the moment between, except a crash, which forgets the record and keeps
the row: that is the state the crash leaves after the action too, so `Join` is
one action. A store call that fails is not modelled.

### RoomFeed

A drawing event is its number; the client's canvas is the set of numbers it
reflects, and a snapshot taken at number n stands for 1..n. `log` is all that
was sent to the channel and the ring is its last `Capacity` items, so a
receiver whose `pos` fell out of the ring has lagged. `FeedSync` ... `FeedClosed`
are `RoomFeed::next` from one await to the next: the pending snapshot, the lag,
the item, the parked item and the question to the room that decides about it.
`hand` is what `next` returned and the forwarder still has to filter.

### Drawing

`book` is `StrokeBookkeeping`, and its methods are operators from a book to a
book, so a handler is the composition the code makes: `handle_stroke_begin` is
`RecordBegin` after `FinishOldestOpen`, which is `EndStroke` of the `Victim`,
which is `RecordEnd` after `Commit`. Three loops of the code run at most once
from any state the invariants allow (`commit`, `finish_oldest_open_strokes`, the
outer loop of `record_point`) and are written without one. `screen` is the
store of a participant who watches: the events come one by one while it is
`"live"` or `"synced"`, none while it is `"behind"`, and then a snapshot.
`late` holds the users whose DRAW was revoked while one of their messages may
be between the gate and the lock. A point is a place in its stroke, so points
are counted; signatures, coordinates and colours are left out, but for a colour
too long to be retained.

### PlaybackSend

`cl` is the client's `PlaybackSeq` and `Number`, `GiveBack` and `PlanResync` its
methods; `room` is what `handle_playback_cmd` looks at. A press is numbered
(`Press`) and then waits in `pend` for the signaling lock, which tokio hands out
in order, so a command numbered just before a drop may still have to give its
number back (`Transmit`). `give_back` compares that number with the numbering as
it is then, and a repair may have renumbered the commands since: `astray`
records that it took back another command's number. `todo` is what `resync_playback_seq` has yet to send:
the UI can number and send a new command between any two of them. `waiters`
are the rejoins in the `pending` map: an answer goes to them first, whatever it
answers, and is then lost for the numbering. A dropped connection loses answers
from some point on; its frames stay in `old`, where a task of the server may
still read them until a resume has retired their bearer. The thread that
numbers a command is not stopped between that and queueing for the lock: held
there for a whole round trip, it could send an old number after a repair.

### Admission

Buckets count thousandths of a token, as the code does, so that rounding is
visible; the wall clock may step back between any two frames. `ReadFrame` is
the order of the read loop's checks: cooldown, size, rate, bad message.

### Link

Connections are numbered; a connection the client has given up stays open on
the server until its task notices, so several tasks of one user run at once and
share the bearer and resume-token tables, the relay slot and the seat.
`LoopStep` is the client's connection loop between two awaits, `WriteQueued`
its writer; a paced sender puts the pieces of one message in the queue one at a
time and may be overtaken by a whole reconnect. `TaskStep(c)` is the server's
task of connection c. Connection c stamps its bearer and resume token with its
own epoch, so all three are written c. The lengths of the backoff are left out.

### Viewer

Every accepted command has a `server_seq`; the media position it set is named by
that number. `wire` is the in-order link, `store` is `usePlaybackStore` with
the parked event, `dedup` the per-sender windows, `el` the `<video>`. An effect
of React runs some time after the state that caused it: `ApplyEffect` and
`DrainEffect` are actions of their own. A drop loses the wire; a lagged feed
loses one command, since only drawings are sent again.

### ClientRoom

Commands and the reconnect hook are tasks that wait for a reply while the
inbound loop goes on; a reply resolves the *first* waiter of its kind and a
`ROOM_ERROR` any waiter, which is the code's matching. The server is reduced to
the seats it holds for this user and the room its connection follows.

### Roster

The server's room changes under its lock; the handler then publishes its events
one by one from the list `saying`, so two handlers may publish out of the order
of their changes, except those of `permissions.rs`, which publishes before it
lets go. `air` is the connection's receiver with its capacity, `reply` what a
dispatch returned, `line` the WebSocket. `Sync`, after every frame, subscribes
or drops the subscription as the membership is then. The client is its summary,
whether it knows its own id, and the users in its database. `RoomRegistry` has
the elections, deadlines and rows; here any seated participant may be elected
and a timeout may come at any time.

The client does not promise to be right always: `doubt` remembers what it may
have wrong. It is set when an event that is not about itself is lost to a full
ring, an unsubscribed moment, the member filter or a broken link, when an event
overtakes one it clashes with, when a snapshot is taken of an ended room, or
while an event older than the snapshot is still to come; a snapshot clears it.
`ROOM_STATE` carries no rights, so a resumed client's own rights stay in doubt.
In each of these cases the code leaves the client with a stale picture until
the next snapshot (section 5).

### Manifests

A manifest is a number, its signer and the frames it takes. Publish tasks send
one frame or pieces, wait for the broadcast with their manifest, and retry; the
server assembles pieces by request id, numbers the manifest after its newest
row, inserts, prunes to `Keep` rows, caches and broadcasts, and may restart
between any two of these. `accept` is the member's pipeline with its two locks:
the version is decided under the first, the cache written under the second.

### Drift

Time is counted in ticks and the viewer's clock differs from the server's by
`ahead`. A probe's request and reply each take some ticks; `waiters` is the
FIFO that pairs a reply with a request by kind only. A command's position is
projected to "now" at three places of the code, each an action.

### PeerLink

Each side has a 200 ms poll of the room, a map of entries with a peer
connection each, and a stash for signals of unknown peers; the pump of each
peer connection reports its events. A signal names the peer connection it was
made on, which is what an SDP carries. A call of the host's dispatcher waits for
its channel to open and then for a manifest; the first wait ends after 30 s
(`OpenTimesOut`), the stash of an unknown peer's signals too (`EarlyExpires`).
Both may strike at any time, as the model has no clock, and count as a loss like
a leave, a lost signal or a broken link. `ViewerIsServed` promises: a viewer who is
in the room of a host that shares a film is served in the end, unless a loss has
left a trace. A trace is what an earlier link left on either side: an entry, a
signal under way or in a stash, an event of a pump that still runs, a call of the
dispatcher, a sender. The auxiliary variable `settled` is set to the number of
losses so far whenever none is left (`Apart`), and what was lost before excuses
nobody from then on. So a leave and a rejoin, which take the manifest with them,
must lead to a served viewer again. Each conjunct of `Apart` is needed (section 5).
A `ready_state` that returns an error, which ends a wait like a closed channel, is
not modelled.

### FileFetch, MultiSource, Session, FilesChannel, Downloads

`FileFetch` gathers chunks one at a time, publishes once with all of them, and
says complete after that; an abandoned fetch publishes nothing. `MultiSource`
is `run_multi_source` with its scheduler slots, NAK and stuck counters, retry
budget and rotation, and the sender behind each channel; `Session` is the
single-source pair over a transport that loses and damages frames. A chunk frame
is good or bad; a part file is missing, torn or good. `FilesChannel` leaves out
what a frame says and keeps its kind and its chunk: it is about two roles of
one end writing segments to the same data channel. `Downloads` has the calls
and tasks above: a row is named by the call that created it, a transfer is one
stage that ends well, ends in an error or is cancelled.

### Library

A content is its digest and a file is found at content and name; what is *in* it
is the content the bytes really have, so that a torn or foreign file shows. Only
imports, the quota gate of a download and the purge take the per-root lock; the
scanner, the deletes and the end of a download do not, and the actions let them
in anywhere.

### MediaServe, Keystore

Bytes are numbered; a request is a target and a parsed `Range` header. The
handler holds the per-media lock from the row to the answer's head, and the body
is read after it, when a delete may have taken the file. A file that shrinks
while it is read is left out: its name is its digest. In `Keystore` a command
stands where it awaits the lock, the keyring or the database; the keyring may
fail, the database may fail and the app may die at each of these.

### Sketch, Laser

`Sketch` has one artist: pointer events, the bounded queue that coalesces
points, a Tauri call per frame with its timeout, undo with its tracker, and the
server's strokes of this artist. The k-th position of a stroke is the number k.
`Laser` counts ticks of about a third of a second, so that the intervals of the
code are 1, the keepalive 3, the timeout 6 and the fade 9 ticks.

## 3. Runs

| Run | Checks | Shows |
|---|---|---|
| `registry` | `RoomHasItsHost`, `RestartKeepsHost`, `RowFollowsRoom`; `GraceResolves` | a host and a viewer create, join, leave, drop and return while the ticker runs and the server may crash between any two steps of any handler |
| `follower` | `NothingLost`, `QueueIsThisSession`, `LiveUserSeated`, `StoreFollows`; `FeedCatchesUp`, `LinkComesBack`, `ViewerCatchesUp` | a client that follows a room: its link, its feed and its player |
| `drawing` | `ContentMatches`, `CanvasAgrees`, `OneAnswerRepairs`, `BucketExact`; `OrderKept` | the server's bookkeeping of strokes against a watcher's screen; a sender's numbering after losses; the limiter in front of both |
| `client` | `Heals`, `LeaveHeard`, `ConfirmedIsStored`, `Delivered`, `PlayerOnTime`; `NoDowngrade` | membership, manifests and drift of one client |
| `multi_source` | `VerifiedOnDisk`, `OneFaultSurvived`; `RunEnds`, `ImplementsFetch`, `SessionFetches`, `ViewerServed` | two chunks from two peers, one of them faulty; one session over a bad transport; host and viewer come and go while signals are lost, links fail and waits time out |
| `transfer` | `RefusedOnlyMixed`, `CompleteHasFile`; `ChannelDelivers`, `ClaimReleased` | one channel in both directions; overlapping calls for one film, with pauses, cancels, panics and a crash |
| `roster` | `RosterFollows` | what one client shows of its room, through lost, late and overtaken events |
| `library` | `CommittedWithinCap`, `ReportedIsKept`, `WindowsAreExact`, `OneIdentity` | imports, downloads, scans, deletes and the purge over one tree, with a crash; what the player reads of a file; the device's keypair through failures and crashes |
| `overlay` | `SketchAgrees`, `LaserStays`; `OverlaySettles` | what an artist or a pointer shows, and what the others see |
| `files_both` | violation of `HonestNeverRefused` | two honest ends that download from each other refuse each other's segments |
| `skew_pairing` | violation of `RepliesPaired` | a reply that comes after its probe timed out answers the next probe |
| `give_back` | violation of `TakesBackOwn` | a failed send takes back the number of a newer command |

Deadlock is checked in `registry`. In the other runs everyone may simply go
quiet: users owe nothing, and bounds on sends and troubles run out.

**Bounds.** They are chosen so that each hazard can happen and the next one can
happen during it.

* *registry*: two users on a slot each, which can be closed and reopened without
  limit, two seats, deadlines of one unit and a clock of one, so each timer fires
  before, at and after the others; one crash; both values of `migrate`.
* *follower*: five connections let three tasks of one user be at different
  stages of dying; a ring of two with four items lags twice, parks an item and
  lags again while a snapshot is pending; two people in control and three
  commands give an overtaken, a parked and a lost one; one or two faults.
* *drawing*: three strokes against caps of two reach every cap; one point per
  stroke and two in all reach both budgets. All strokes begin in the same
  millisecond (`Ticks = {0}`), so age is decided by id, and ids come in any
  order. Stroke ids are fresh UUIDs (`MaxUses = 1`). Three presses, a window of
  two and one drop: one is lost, one refused for the gap, one pressed during the
  repair, and the oldest is forgotten. Four frames with clock steps of 1, 3 and
  -1 under bursts of one or two empty, overfill and cheat each bucket.
* *client*: two rooms to join (symmetric) and one to create, three operations and
  two faults: a command that is overtaken by the hook of a reconnect and by the
  next command. Manifests: two publishes of one or two frames, two attempts,
  one kept row, so pruning and retries meet; two connections and one crash or
  drop. Drift: a burst of two samples, `MAX_RTT` 2, a reply timeout of 3, a clock
  that is 3 ahead, two commands.
* *multi_source*, *transfer*: two chunks and two sources with a window
  of two and a stuck limit of one exercise rotation, demotion and the last
  retry; a file of 3 with chunks of 2 has a short last chunk; each kind of fault
  happens once or twice. Frames of two segments and queues of two fill.
  Four peer connections and one loss: a first pair and the pair of a rejoin, or
  one that replaces an end of the first.
* *roster*: the client and two others (symmetric), a ring of two and three
  changes: a change that overtakes another while a third overflows the ring;
  two commands and one broken link: the user leaves, or is forgotten, and joins
  again, or resumes.
* *library*: two contents of size 1 under a cap of 1, two names, two imports, a
  download, a scan and a delete. Files of 0 to 4 bytes under windows of two: a
  file is empty, shorter than a window, just one, or needs a second or third,
  and every range of numbers up to 4 is asked. Two commands at three keypairs
  with two failures or crashes.
* *overlay*: a queue of one point, two strokes of two positions, two extras.

**Fairness.** Users, peers, faults and crashes owe nothing. The assumptions are
those of the runtimes. Server tasks are scheduled, and tokio's `RwLock` serves
waiters in order, so a connection task or the ticker that waits for the room's
lock gets it although others take it in between: strong fairness of each
`ConnStep(c)` and of `TickerStep` in `RoomRegistry`; its clock advances. Every
other task waits for nothing another task can keep from it for ever, and gets
weak fairness of its next step: the forwarder (`TakeSubscription`, `FeedStep`,
`CoolDown`, `Forward`); the client's loop and the server's tasks of `Link`
(`LoopStep`, `WriteQueued`, `IdleEnds`, `Put`, `TaskStep(c)`), where dialling is
retried without end; the viewer's event loop, its interval timer and React's
effects (`Connect`, `Deliver`, `TickDedup` per sender, `Mount`, `MediaReady`,
`ApplyEffect`, `DrainEffect`); the two ends of a session and its hash step; the
pumps, servers, clients and the bucket of a channel; in `PeerLink` each inbound
loop, and for each connection its pump and the dispatcher calls about it
(`LoopStep`, `ConnectionStep`); each call and task of
`Downloads` once begun, and the cancellation of a token; the artist's send
chain, timers and calls of `Sketch` and `Laser`.
`MultiSource`'s `Recover` has strong fairness: a cooldown that passes is noticed
by the refill loop although its other steps come in between.

## 4. Proofs

Every theorem is for all values of the constants under the named assumptions
(`ConstantsAssumption`, `FeedAssumption`, `DrawingAssumption`,
`AdmissionAssumption`, `LinkAssumption`, `ViewerAssumption`, `ClientRoomAssumption`,
`ManifestsAssumption`, `DriftAssumption`, `BoundsAssumption`,
`SessionAssumption`, `ChannelAssumption`, `DownloadsAssumption`,
`LibraryAssumption`, `MediaAssumption`,
`KeystoreAssumption`, `SendAssumption`, `LaserAssumption`, `LaserTimingAssumption`). They ask for types, capacities that are not zero where the
code's constants are not, sentinels that are not members, and for `Laser` the
order of the timings; TLC evaluates them
in the runs. Each proof has the same shape: types, one group of variables at a
time; an inductive invariant whose parts have a lemma each, with a step for
every action that can disturb the part; the property from the invariant; PTL
for the temporal step. Each invariant was an invariant of a TLC run before it
was proved.

* **RoomRegistryProofs.** `TypeCorrect`, then `HostKept` (`RoomHasItsHost`:
  `HostUnique` and `HostAlwaysSeated` together), `HostPresentAtRejoin` and
  `RowAgreesWithRoom` (`RowFollowsRoom`). `OneHost` alone is not inductive: a
  leave elects from the records and a rejoin, begun before, writes to the host
  it finds *then*. The strengthening `HostInv` says that the flag sits on one
  seated record until a restart, that an ended room keeps it, and which tasks
  may be half-way through a leave; `RowInv` says what the rows hold at each
  place of a `create`, an end and a removal. Elections rest on `FirstIsMember`:
  the CHOOSE of the join order picks a member, by the least element of a set of
  naturals. `HostSurvivesRestart` (`RestartKeepsHost`) is about every state, those
  between the writes of a handover under the room lock too: the rows seat the
  present host, or, until the first of these writes, the host who is leaving.
  `RestartInv` adds which writes of a handler are still owed at each place of a
  task. The theorem has the hypothesis `Grace # 0`, which the configuration does
  not guarantee; section 5 says why the claim is false without it.
* **DrawingProofs.** `OwnersKept` (`OwnerStable`) and `OnlyPermittedBegin`
  (`RevokedCannotBegin`) rest on `OwnInv`, that an open stroke is not also
  committed, and on what each bookkeeping operator does to owners; they need
  no bound on how often an id is reused. `OpenWithinCaps` (`OpenBounded`) adds
  that `finish_oldest_open_strokes` leaves room for one stroke, in one pass;
  the victim exists because the candidates' start times and ids are naturals.
  These three are stated by no run. `BooksBalance` (`ContentMatches`) and
  `ScreenFollows` (`CanvasAgrees`) rest on `CanvasInv`. The books are sound
  (`Sound`): `retained` is the number of points held (`Counted`, the size of a
  set of pairs rather than a sum, so that no induction over data is needed);
  commit order has each committed stroke once and within the cap (`Listed`);
  content describes what is on the canvas (`Described`). While the watcher is
  not behind, its screen agrees with the book stroke by stroke and pair by pair
  (`Agrees`). `CanvasAgrees` alone is not inductive: it says nothing of an id
  nobody has used, nor of what is finished on a screen and open in the room, so
  that a BEGIN could meet either (`Traced`).
  Order is the relation `Before` on places, with a lemma for
  each way a list changes (append, head off, concatenation, filter), and
  `InOrderLists`: sorting a finite set by a strict total order lists each member
  once and in order, by counting predecessors. `RateExact` (`BucketExact`) is about
  `Admission`: an exact account of what the clock has earned and the frames
  have spent is carried beside the bucket, and the remainder of each division
  stays in the time that is kept.
  `OrderHolds` (`OrderKept`) and `RepairsHold` (`OneAnswerRepairs`) are about
  `PlaybackSend`, from `OrderInv`. A command is in several places on its way: read
  from a lost connection (`old`), under way on the live one (`up`), waiting for
  the signaling lock (`pend`), to be sent again (`todo`), remembered
  (`cl.sent`). `ChainInv` compares any two of these, and each with what the
  server accepted last: of two commands of which one is read after the other and
  has the higher number, it is no older (`Apart`). A frame is accepted only at the
  number after the last, hence `OrderKept`. Renumbering only lowers numbers
  (`Renumbers`), as the number the server says it expects is never above what it
  takes next (`TellsTruth`), so it breaks no `Apart`; `todo` is sent only when
  nothing waits in `pend`, and planned anew only when it is empty. A failed send
  that takes back its own command leaves one command of `todo` numbered like the
  next one (`AgainBelow`); one that takes back another's breaks the chain, and the
  theorem is about behaviours without it (section 5).
  `LaserTypeCorrect` and `LaserStaysOn` (`LaserStays`) are about `Laser`.
  `LaserStays` says nothing until the calm has lasted; the invariant `Seen` says
  where the newest position is on its way and within how many ticks it must be
  on the screen (`Due`): on the wire with nothing older behind it, in the call
  in flight, behind the timer, or behind a call that carries an older one; or
  that it is on the screen and the next copy is due before the trail idles out
  (`Kept`). A step that ends the calm starts the count again (`DueFirst`), a
  tick brings it down (`TickDue`), and every other step hands the position from
  one place to the next. `LaserTiming` is what the count needs of the constants:
  the code's 17, 1000, 2000 and 3000 ms satisfy it for any call and wire time
  together below a second.
* **FollowerProofs.** `QueueKeepsToSession` (`QueueIsThisSession`) and
  `LiveUserKeepsSeat` (`LiveUserSeated`: of every session but a raced one, section
  5) from `LinkInv`: what each end of a
  connection may be doing (`ConnInv`), whose seat and slot a teardown may still
  touch (`SeatInv`), and that connections are numbered as they are made, with
  only the last one possibly live (`OrderInv`). `StoreKeepsUp` (`StoreFollows`)
  from `FollowInv`: until a fault is repaired nothing is claimed (`Clear`); from
  then on each event on the wire has its place and number (`Placed`,
  `Numbered`), each sender's are contiguous and above what its dedup window has
  taken (`Contiguous`), and the store after all of them is the room
  (`Agreeing`).
  Of `RoomFeed`: `FeedTypeCorrect`, `NeverOnAHole` and
  `LagsLoseNothing` (`NothingLost`, of which it is a part), `NeverReplayed`. The inductive `FeedInv` has five
  parts: the numbers in the log are contiguous (`LogInv`); the feed's fields
  bound each other (`FieldInv`); what the forwarder holds came out last
  (`HandInv`); a receiver in the mailbox starts after all the client has
  (`MailInv`); and everything the feed believes delivered has been, is in hand,
  or was refused (`CoverInv`).
* **MultiSourceProofs.** `SourcesTypeCorrect`, `MarkedIsStored`
  (`VerifiedOnDisk`), and `FetchImplemented`: every step of `MultiSource` is a
  step of `FileFetch` or a stutter. The strengthening says that the row follows
  the run, that a chunk is asked of one source at a time and the in-flight
  records are exactly what is asked, and that assembly starts with every chunk.
  `OneBadPeerSurvived` (`OneFaultSurvived`) asks that the NAK threshold (3 in
  the code) is below the retry budget (5). Its `FaultInv` says, while nothing
  has been late: an honest peer sends only good chunks and is sent no NAK
  (`HonestFrames`), and what it is asked for it answers in the end (`Serves`);
  a peer whose NAKs reach the threshold is rotated out of the chunk at once
  (`CountersBelow`), only bad peers are, and with a single bad one a chunk has
  spent no more of its budget than that peer's NAKs (`Charged`).
* **TransferProofs.** `SessionTypeCorrect` and `SessionImplementsFetch`
  (`SessionFetches`) from `SessionInv`: the row follows the run, no chunk is
  forgotten by plan, request or disk, what is stored was planned, a published
  file is whole. `ChannelTypeCorrect` and `RefusalMeansMixing`
  (`RefusedOnlyMixed`): `StreamInv` follows the segments of a frame from the
  role that cut it to the reassembly at the other end, so that a refusal implies
  that the two roles of one end wrote at the same time. `CompleteMeansFile`
  (`CompleteHasFile`) from `FileInv`, which follows the claim of each call.
* **LibraryProofs.** `LibraryTypeCorrect`, `QuotaHolds`
  (`CommittedWithinCap`: the rows that imports and opens inserted, with what an
  import under the lock was promised; rows the scanner inserted, orphans and
  scratch files are no part of it), `ReportsKept` (`ReportedIsKept`). `LibraryInv` says who holds the per-root lock and what it
  has reserved, what each placed call has on disk, and that scratch and library
  files hold the content their name says. `RangesExact` (`WindowsAreExact`):
  `MediaInv` says of each answer, from the moment its head is fixed, that it is
  what the header asks of a file of this size; `ParsedIsNamed` and `WindowExact`
  are the arithmetic, apart from any state. `DeviceIsOneUser` (`OneIdentity`):
  a command at the keyring holds the lock, one about to store a keypair on a
  first launch found the keyring empty, and one that writes the row under the
  lock has the keyring's keypair (`KeyHeld`).
* **ClientProofs.** `ConfirmedMeansStored` (`ConfirmedIsStored`),
  `VersionNamesOne` and `NeverDowngraded` (`NoDowngrade`) from `ManifestsInv`:
  the next version is above every one ever given out, because pruning keeps the
  newest row (`RoomInv`); every frame to a member is vouched for by the table
  (`WireInv`); what a fetch and a publish task hold (`FetchInv`, `TaskInv`,
  `AcceptInv`); and the frames on the way to a member that publishes nothing are
  in order above what it has accepted (`OrderInv`). `NewestDelivered`
  (`Delivered`): `Delivered` speaks only of the time when everything has arrived;
  `DeliveryInv` says where the newest manifest is until then. A member that
  trusts its signer has it, or is between the two locks of `accept_manifest`
  (`Reached`); or its broadcast is on the way from exactly the frame its assembly
  goes on with (`Coming`); or it was broadcast before the member came, whose one
  fetch is to be sent, sent, being answered from frame i on, or answered
  (`Fetching`). Broadcasts are on the wire in the order of their versions and
  frames, none newer than the server's manifest, which a restart never takes
  back (`Sorted`, `Given`, `LatestGrows`): so a broadcast is never begun behind
  a newer one, and the frame at the head is the one that is due (`HeadIsDue`).
  `FollowerOnTime`
  (`PlayerOnTime`) from `DriftInv`: a reply is stamped between its probe and now
  (`Stamped`), so an offset, and the median of offsets, is within half a round
  trip (`Measured`, on `AtRank`: the k-th of a set of offsets exists by a
  counting argument on finite sets); the events on the wire that the store will
  take rise to the room's last command, and the last PLAY or PAUSE among them,
  or the store if there is none, has the room's play state (`Chain`, over
  `InStep` of a wire, a store and a room, with a lemma per way a wire changes);
  and whatever placed the element placed it within that distance (`Placed`).
* **ClientRoomProofs.** `FaultsHeal` (`Heals`) and `DepartureHeard` (`LeaveHeard`) from `MemberInv`.
  Both properties speak of a client at rest; the invariant says what is between
  it and rest. As long as no fault met a command, the client is in one of two
  phases (`GoodInv`). It recovers (`Recovering`): it holds no seat but the one in
  the room it shows, or that seat is gone and what tells the client so is on the
  way (`Repaired`): the loss itself, the hook to be run, the rejoin, its refusal,
  or the closing; and at most one answer is under way, the last thing behind the
  room's state (`RDown`). Or a command is under way (`Busy`): its request, its
  answer or the reply in hand, each with the seats that go with it, and in front
  of the request up to two ROOM_LEAVEs whose seats are still to be taken away
  (`Farewell`); a nameless one is never in front of another, because the second
  seat would make its meaning ambiguous. No fault strikes in that phase, by
  `Good` (`BusyOnly`), and a command that is not hasty finds the client calm
  (`CalmBefore`). A command that comes before the fault is over is followed by its
  own part (`HastyInv`): the ROOM_LEAVE for the room given up is kept for the next
  connection (`Pending`), is under way behind requests that seat the user nowhere
  else (`Reaches`), or was served (`Parted`), and nothing can ask for that room
  again.

**Only model-checked.** Liveness: `GraceResolves`, `FeedCatchesUp`,
`LinkComesBack`, `ViewerCatchesUp`, `RunEnds`, `ViewerServed`, `ChannelDelivers`,
`ClaimReleased`, `OverlaySettles` (fairness and ENABLED are out of
the prover's reach). Over sequences that `SelectSeq` and the folds of the community
modules compute, which the prover cannot look into: `SketchAgrees` (two canvases
through the queue between them) and `RosterFollows`.

## 5. What the violations say

Three runs end in a violation, and `PROJECT.json` quotes the comments they are
about. `webrtc_transport.rs` lets the sender and the receiver role of one end
write on the same data channel, each segmenting its frames alone: two honest
peers that download from each other interleave segments, and the reassembly
refuses them as it refuses a misbehaving peer (`files_both`; the theorem
`RefusalMeansMixing` says that this is the only cause). `ws/mod.rs` says the
echoed send time lets the client pair round trips deterministically, but
nobody compares it, and a late answer is measured against the next probe
(`skew_pairing`). `room.rs:1111` says that `give_back` takes back the number of
a command that never reached the wire; it may be another one (`give_back`).
PAUSE, PLAY and PAUSE are pressed in a room that has not started; the first is
sent and refused, and the other two wait for the connection when it drops. The
answer that was already received is handled: `plan_resync` forgets the first
PAUSE, numbers PLAY 1 and PAUSE 2, and the next command would be 3. Then the send
of PLAY fails, which still calls itself 2: `next` is 3, so the PAUSE that has this
number now is forgotten, and its number is given to the next command.

The models leave room for further behaviours that differ from what a comment
says or a reader expects, found while writing them and not given runs:

* *Registry.* The stale sweep purges rows of viewers who are present
  (`db.rs:930`, against `registry.rs:14-19`), as presence never writes the
  timestamp. The teardown acts on an `is_host` read before the lock was
  released: a viewer elected meanwhile gets no grace period
  (`registry.rs:1332`). A rejoin revives a record that a leave has made Left in
  between (`registry.rs:1464`). With a grace period of 0, which `config.rs:302`
  accepts, `leave_room` elects at once and persists only the deadline
  (`registry.rs:1131`), so a crash restores the old host: hence the hypothesis of
  `HostSurvivesRestart`, and the runs have a grace of 1.
  `touch` refreshes an arbitrary record of the user (`registry.rs:1527`).
* *Feed and drawing.* Items dropped by the member filter count as delivered
  (`ws/mod.rs:2147`, against `feed.rs:18-20`). The trim of the eviction queue
  keeps every copy of an id committed again (`state.rs:251-255`). A stroke that
  was forgotten stays on every screen, says `state.rs`, but a snapshot replaces
  the screen. A full client queue drops an earlier stroke's last position; a
  stroke begun between the server's CLEAR and its receipt is wiped from its
  author's canvas only.
* *Playback.* A PLAY may be blocked for ever by a SEEK that cannot be sent again
  (`room.rs:1135`, against `:1064`). `PlaybackSeq` says the expected number only
  grows, but a server restart starts it over and a client that has seen a larger
  one ignores every answer. A number that a repair took back can be accepted
  from a late frame of the lost connection. This is why `OneAnswerRepairs` and
  `OrderKept` speak of sessions the server has not forgotten, and `OrderKept` of
  steps that read nothing from a lost connection.
* *Viewer and drift.* `dedup.ts` resets a sender's window only when the last
  number was above 1; its interval may apply an older `server_seq`; a changed
  file restarts paused. Sync with an unmeasured skew uses 0. Rust truncates the
  median that TypeScript floors. With an odd limit the floored midpoint costs
  half a millisecond, which is why `PlayerOnTime` bounds by
  `(MAX_RTT + 1) \div 2`.
* *Link and membership.* A failed dial clears the bearer, so the resume the
  comment at `signaling.rs:1487` describes cannot happen. AUTH_RESUME checks and
  retires in separate queries (`ws/mod.rs:1669`). A teardown asks the relay whether
  its connection still owns the user's slot and then reports the user lost; a new
  connection that registers in between is reported lost with it (`ws/mod.rs:796`),
  and its session is `raced` in `LiveUserSeated` until the next one begins. A `ROOM_ERROR` resolves an
  arbitrary waiter, so a present viewer whose record is swept, because `touch`
  refreshes the first record of the user it comes across (`registry.rs:1527`), can
  end in two rooms: the replaced room refuses the ROOM_LEAVE that follows a join
  with NotJoined, which resolves the next join's waiter, and the nameless
  ROOM_LEAVE that follows gives up either room (`starved` in `LeaveHeard` and
  `Heals`, at five commands and three joinable rooms); a `room_leave` names no room; a leave that is lost with the
  link is undone by the hook (`room.rs:1849`); a late ROOM_JOINED after its
  timeout is taken for a new one.
* *Roster.* An event that overtakes a clashing one, is lost to a full ring or is
  filtered while its reader has timed out leaves the client's roster wrong until
  a snapshot; nothing asks for one. `HOST_MIGRATED` replaces the whole summary,
  so a late one overwrites a newer `ROOM_JOINED`. A resumed client keeps the
  rights it had, whatever changed meanwhile. An envelope that arrives after
  `room_leave` makes a summary again, and then the local user's own id is
  written to `user_identities` (`room_snapshot.rs:22`).
* *Manifests.* Version and cache are under two locks (`room.rs:2114`, against
  `:1226` "cannot be downgraded"): a publisher's own cache can end with an older
  manifest than its version says. The versions are never cleared on leave. A
  publish missed while disconnected is not fetched again. Retries of one
  publish may be stored as several versions.
* *Transfers.* A session's error leaves its row `transferring`, against
  `session.rs:528`; `transition()` checks and writes in two steps
  (`state.rs:607`, against `:1039` "Cancelled is terminal."); `cancel_all` may
  cancel a token the call has not adopted (`transfer/registry.rs:212`);
  `transferred_bytes` starts wrong for a short last chunk (`session.rs:670`); a
  completed download closes the channel it shares (`multi_source.rs:1307`); a
  pump stalls on a full queue whose reader gave up.
* *Library.* `delete_item_guarded` tests and deletes without the lock
  (`commands/library.rs:237`); dedup answers with a row whose file is gone
  (`import.rs:242`); a scan may bring back a row that a delete removed; orphans
  of a crash wait for a scan the user starts. `protocol.rs` looks for subtitles
  in a table nothing fills. `keystore.rs` says the row is written outside the
  lock, but the guard lives to the function's end: that is why the two writes
  cannot be overtaken.
* *Signals.* Offers, answers and pump events name no connection, so stale ones
  act on the present entry; a removed entry is made again only when the
  membership changes. A viewer who rejoins before the traces of its last session
  are gone may therefore stay unserved for good: a `Closed` event of the old pump
  removes the new entry, an old answer is applied to the new connection, an old
  stash is replayed into it, a dispatcher call or a sender of the old channel
  still holds the peer's slot and the new channel is dropped as a duplicate
  (`host_dispatch.rs:283`). A channel that opens later than 30 s after the call
  that waits for it is served by nobody (`host_dispatch.rs:246`). The dispatcher's
  master token fires only when the app shuts down.

## 6. Plan

Left to model: a store call that fails in `RoomRegistry`;
closing and capability changes of `dispatch.rs`; the chunk rows of
`reconcile_manifest_version`.

Left to prove: `SketchAgrees` and `RosterFollows`, once their filters are written, as those
of `Drawing` and `PlaybackSend` are in `Orders`, so that the prover can use them.
