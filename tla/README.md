# A TLA+ model of Inker

Inker is a server for information displays (NestJS backend, React frontend,
browser and ESP32 displays). This directory holds TLA+ modules of the parts of it
that are hard to get right by testing: the durable outbox through which every
background job and every display update goes, the delivery of updates to
connected displays, the connection between a browser display and the gateway, the
timers and playlists that move on by themselves, publishing and the retention of
what was published, and the ESP32 box. The modules
are checked by TLC on small instances; theorems about them are proved with TLAPS
for every instance.

Paths below are relative to `src/backend/src/` unless they start with `src/`;
`main.cpp` is `src/firmware/esp32-4848s040/src/main.cpp`, and `WORK_PACKAGES.md`
is in `src/docs/architecture/`.

## 1. The system

| Component | State | Operations | Talks to |
|---|---|---|---|
| Outbox table (`events/outbox.store.ts`) | `outbox_events`, `outbox_effects`, `outbox_deliveries`, `outbox_targets`, `outbox_consumers` | claim, ack, fail, prepare, beginTarget, finishTarget, register | everything: each domain transaction writes an event row |
| Dispatcher (`events/outbox-dispatcher.service.ts`) | claim in hand, running flag | tick: schedule, claim, enqueue; dispatch: load, handle, acknowledge | outbox table, Redis, domain handlers |
| Redis and BullMQ (`events/outbox-redis.service.ts`) | jobs (volatile) | add, run, forget, run again | dispatcher, workers in any process |
| Device update coordinator (`device-platform/device-update-coordinator.service.ts`) | consumer lease, poll in progress | start, wake, poll, renew, stop | outbox table, gateway |
| Web display gateway (`device-platform/web-display.gateway.ts`) | connections, queues, pushes, timers | accept, authenticate, push, deliver, check, tick, disconnect | displays, presentation |
| Browser display (`src/frontend/src/pages/display/WebDisplay.tsx`) | page, socket, watchdog, reconnect timer, stored credential | connect, receive, report, reconnect, repair | gateway |
| Presentation (`device-platform/presentation.service.ts`) | receipt of a delivery | build, store | publications |
| Publications (`publications/`) | publications, revisions, commands, desired revision of each device | publish, assign, clear, acknowledge, retain | outbox table, playback |
| Playback (`playback/`) | anchor of each device's playlist, due events | start, pause, resume, stop, advance, change, restart, advanceDue | publications, outbox table |
| Timers (`timers/`) | anchor of each timer, due events | create, pause, resume, cancel, acknowledge, complete, reconcile | outbox table, interactions |
| Enrollment (`device-enrollment/`) | codes, credentials | issue, exchange | devices |
| Pull content API (`device-platform/pull-content.controller.ts`) | none of its own | manifest, artifact | ESP32 box |
| ESP32 box (`main.cpp`) | configuration in RAM and NVS, cache file, poll deadline, touch | setup, pair, poll, LAN page, corner | pull content API, enrollment |
| Source worker (`sources/`) | definitions, snapshots, refresh jobs, circuit | schedule, claim, execute, persist | outbox table, connectors, publications |
| Federation worker (`federation/`) | subscriptions, cached feeds and artifacts | schedule, claim, download, import | remote servers, publications |
| Render cache (`render-cache/`) | requests, bindings, artifact files | request, render, promote, reconcile | outbox table, file store |
| Interactions (`interactions/`) | receipts, sequences, rates | execute | timers, playback |
| Admin sessions (`auth/`) | sessions | create, validate, rotate, touch, revoke | frontend |
| Maintenance (`jobs/maintenance.service.ts`, `publications/publication-cleanup.service.ts`) | cursor, receipts | schedule, execute in batches | every table with retention |
| SQLite writer queue (`common/utils/sqlite-write.util.ts`) | tail, pending | enqueue, replay | every transaction |
| Content editing (screens, designer, playlists, widgets, recipes, plugins) | drafts | create, read, update, delete | publications |
| Admin frontend, wire contracts | browser state, schemas | forms, validation | HTTP API |

What is hard: SQLite holds the truth, but several worker and API processes act on
it at once; jobs may be lost, repeated, or run twice at the same time; every
process may die between any two steps; a lease is the only thing that says a
worker is gone, and it may come back; presentations are built before and sent
after the transactions that order them; pushes of one device are merged; the wall
clock is corrected; a display's link dies in silence; the box loses power between
two writes to flash, and its clock starts again from 0.

What makes each part correct: the outbox never loses an event, never repeats its
effect and never exceeds a queue's budget; the fan-out leaves no connected display
behind; the gateway ends dead and revoked connections in time, keeps good ones and
shows every connection what is assigned, never going back; a display comes back; a
timer runs for exactly its duration and always ends; playback keeps its place and
goes on, and its device shows the item it is at; the box keeps a credential with
its server, polls on time, and ends with the current manifest; a publish command has
one effect and publishes what its author saw, and retention takes nothing that is
in use. For the parts that are not modelled: a repeated interaction has one effect, the last good
source snapshot is kept, an imported revision never goes back, a rendered artifact
that is referenced exists, a rotated token does not lock its owner out.

## 2. The modules

    OutboxStore --+- OutboxStore_proofs
                  +- OutboxDispatch --- OutboxDomain --- OutboxDomain_proofs
                  |                         +--(implements)--> OutboxContract
                  +- OutboxFanout -- OutboxFanout_proofs --(implements, safety)--> OutboxContract
                  +- TimerQueue ---- TimerQueue_proofs
                  |      +- Timer
                  +- Playback ------ Playback_proofs
                         +- PlaybackMachine

    WebDisplayLink, GatewayPush --- WebDisplayLink_proofs
    Publishing --- Publishing_proofs
    Esp32Display, Esp32Clock --- Esp32_proofs

The MC modules extend what they check and give the constants values, so the
properties of a run are the definitions that the theorems name. Where one run checks
several components, or one of them in several ways, a variable `instance` says in the
initial state which one the behaviour is of: it moves, within what the instance
allows (`Moving`, `Retention`, `Overlapping`, ...), and the others stay as they
are. MCLiveness instantiates OutboxDomain and Playback with smaller constants
than TimerQueue, and lets Playback share the variables of the outbox table with it; there
a property of one of them has a definition with its name. A run that checks symmetric
instances declares the symmetry (slots, executions, processes, keys, commands), and
has no liveness property.

### OutboxStore

The table `outbox_events`. A row has the code's status, its attempts, its claim
token (the n-th claim of an event draws token n, which is what `randomUUID` being
fresh amounts to) and two facts about time: `due` (availableAt has passed) and
`lapsed` (claimUntil has passed). `ClaimRow` and `ClaimNothing` are `claim` with
`claimFrom`: budget, burial of at most a batch of exhausted rows, oldest row
first. `AckRow` and `FailRow` are `ack` and `fail` behind `Fence`. The writer lock
taken by `UPDATE ... WHERE 1 = 0` makes count and claim one transaction, hence one
step. Time is abstract: `BecomeDue` and `Lapse` may come at any moment, so every
order of clock readings and steps is a behaviour. A lease that has lapsed stays
so here: the wall clock goes forward in these modules. TimerQueue and Playback
drop that.

### OutboxDispatch, OutboxDomain, OutboxContract

OutboxDispatch is `tick` and `dispatch`. `Claim` / `Enqueue` / `EnqueueFails` /
`ReleaseHeld` / `CrashDispatcher` follow a tick from its claim to Redis
(`EnqueueFails` may have added the job all the same). `LoseJob`, `StartJob`,
`AckRun`, `FailRun` and `CrashRun` follow a job. A job stays in Redis until its run
ends, and a second slot may start it: that is BullMQ running a stalled job again.
`CrashRun` leaves the job there. A tick visits the queues in a fixed order; the
model lets them come in any order, which includes it.

OutboxDomain is a domain handler as `completeDue`, `advanceDue` and
`maintenance.execute` have it: one transaction that begins with a fenced write,
returns when the key has a receipt, applies the change and stores the receipt
(`Apply`), and an acknowledgement in a later transaction (`AckRun`). `applied`
counts committed changes per key.

OutboxContract is what a domain module relies on: an event is submitted, its effect
happens at most once, it is reported delivered only after it, or given up; reports
are final and come in the end. OutboxDomain implements it under the mapping that
reads pending and processing as "open". OutboxFanout implements its safety part, with the
preparation of an assignment as the effect of its event; that is a theorem of
`OutboxFanout_proofs` and not one of the runs.

### OutboxFanout

Delivery events for one device. The worker's side is `PrepareStep` (one batch of
`prepare`, one transaction; all its branches), `ReadLive` and `CountTargets` (the
two statements of `targetsComplete`), and the report. The API process's side is
its lease (`Start`, `LeaseLapses`, `Renew`, `Wake`, `PollFails`, `Stop`,
`Unregister`, `Exit`) and its poll loop (`Pick`, `BeginTarget`, `Build`,
`StoreReceipt`, `Send`, `DeliveryFails`, `FinishTarget`). A socket connects, asks
for its first push, reads and is sent it, is sent deliveries, and disconnects. A
consumerId is one life of a process, as in the code (`randomUUID` per start). The
way from a claim through Redis to a run is one step (`StartRun`); to the table,
what can go wrong on that way is a claim whose run crashes, which is there.

Changes of what the device is to show are numbered: an assignment counts up
`desiredSequence`, a finished render `renderRevision`, and either is announced by an
event of its own. Which renders are finished is left open. A delivery that reads a
presentation that is not rendered fails (`OUTBOX_ARTIFACT_PENDING`); the push of a
connection then ends with the connection open and idle and nothing sent (`PushRead`,
`device-platform/web-display.gateway.ts:161-167`). `NoLostUpdate` counts such a
display as told: what it was not shown has an event to come, the one of its render. The
push of a connection is its own here; how `pushPresentation` merges the pushes of a
device is GatewayPush.

`Renew` is `registerLease` wherever the code calls it, with whatever connections are
open when it commits. After a lapse `wake()`, every 500 ms, and the start of a poll
close the connections, but a renewal inside a poll closes none, and a display may
authenticate while the registration is awaited (`device-update-coordinator.service.ts:82-104`).
The history flag `exposed` marks connections that were open when a lapsed lease
was registered again. The worker may have stopped waiting for them, so `NoLostUpdate` is
not claimed of them: that is finding 1, and its consequence.

### WebDisplayLink

A browser display, the gateway, and the sockets between them. A connection has the
state of the gateway's `Connection` (authentication, ping, pong and check
deadlines, running operation, queue) and the link under it: messages on their way up
and down, and since when it is cut. `Receive`, `Handle`, `Authenticated`, `Pushed`,
`Checked`, `OperationFails` and `Tick` are the gateway's handlers; `Connect`,
`OnMessage`, `WatchdogFires`, `SocketEnds`, `ConnectAgain`, `ConnectFails` and
`Resize` are those of the page. Revocation, a new pairing, cuts and restarts come at
any moment. Time is counted in the gateway's ticks, deadlines as the time left:
within one unit the tick, messages and answers of the database come in any order.
`Prompt` says that a message on a link that is not cut arrives before the next unit;
the finding `web_late` drops it. The first push is a handler that takes up to
`SlowestPush`, which nothing relates to the heartbeat; what it shows is GatewayPush.
The page reports its viewport whenever resizing has paused (`Resize`,
`WebDisplay.tsx:174-181`), whatever reports are on their way, queued or
being checked: several may be before a pong, and the queue may run over (4429). The
history flag `crowded` says that a pong of the page's socket had more to wait for than
the check of one report: a second report, or a first push that was not over when the
connection was pinged. `ProtocolIsCompatible`, `StaysConnected` and
`DisplayReconnects` are claimed where it is not set, and the code does not keep them where
it is: a pong that is late for such a reason is answered with 4400. The token
bucket, the schema of messages and their sizes are left out: a page sends what the
contract allows, and its reports, at least 750 ms apart, and its pongs do not use up
20 messages and 2 more per second.

### GatewayPush

One API process and one device: what every connection is shown. A task is a run of
`deliver`; task `None` is the merged push of new connections, with
`requestedPushes`, task n the delivery of event n with its stored receipt. What a
promise continues with is a step of its own (`Loaded`, `Recheck`, `Send`, `Confirm`,
`Delivered`, `Failed`, `Finally`), and the credential check that several tasks wait for is
one (`checking`). The loading of the presentation is an operation of the first
authorized connection and ends with it, as in `operation`. A round ends with the loop's
condition (`After`, line 106 of the gateway): another round, or `pc = "ended"`, and the
entries in `pushes` and `requestedPushes` go in `Finally` (line 107), a later
microtask. A connection that authenticates between the two joins a push that does nothing
more, and its request is deleted: `overlooked` remembers the newest presentation at
that moment, which `EachIsShown` does not promise it. `nextTransitionAt` is null in every presentation
(`device-platform/presentation.service.ts:90`), so the gateway's transition timers
never arm and are left out.

### Timer, TimerQueue

Timer is `timer-domain.ts`: the anchor, `validateAnchor` and `transitionTimer` as
operators. TimerQueue adds the row, the outbox rows of its deadlines (event number
v is the deadline of version v, as the event id hashes the version), commands,
the worker, `deferEarly`, `reconcile` (which reads before its transaction: a
reconciliation may schedule at any moment), retention, and a wall clock that can
be set back. A step back of the clock un-dues deadlines that are ahead again and
may revive leases. `ran` is a history variable: how long the timer has been
running. `BecomeDue` of a deadline needs the clock to have passed it, or a back-off
(`backoff`), whose end is any later moment.

### PlaybackMachine, Playback

PlaybackMachine is `playback.machine.ts`: the anchor, `position` with its skipping of
missed cycles and its entries without a duration, `nextTransitionAt`, and every
transition. Playback is one device: the state row (version 0 before it exists), its
desired revision, the commands (`Execute`), assignments of a revision, of nothing or
of a playlist (`SetDesiredRevision`, `AssignOnly`, `AssignPlaylist`), the outbox rows
of its transitions (number v for version v) and the worker that runs them
(`SkipDue`, `AdvanceDue`). The only writers of the desired revision are
`setDesiredRevision` and `clearDesiredRevision`. `heard` is a history variable with
a reference definition of position: playback goes on unit by unit, and an entry
that was shown for its duration is followed by the next. The device may be switched
off and on, and the clock be set back. Publishing of playlists, command receipts,
retention of settled rows (nothing here reads them) and the `PLAYBACK_CHANGED`
event, which is an ordinary fan-out event, are left out.

### Publishing

One publication. A publish command is handled in steps with other commands between
them: the receipt (`Look`), the draft (`ReadDraft`), its image (`Render`) and the
transaction (`Commit`), which looks at the key, at the latest revision and at the
draft again (`MayPublish`), appends a revision and points its devices at it. Any
step may end in an error (`GiveUp`), after which the client may repeat the command
(`Retry`), also while it is still running. The draft is a screen design with
its `updatedAt` (`Save`, `EditWidget`, `Delete`). Devices are pointed at stored
revisions (`Assign`), and the render cache makes its requests (`RequestRender`). A
pass of retention is `StartPass`, a page after its cursor (`RetainPage`) and
the probe for what the cursor has passed (`RetainStragglers`), each one transaction
of `maintenance.service.ts`, of which any number may pass before the next. A worker
that takes over a pass goes on from its durable cursor, so crashes are not steps of their own.

Left out: drafts that are fixtures, uploads or recipe bindings, playlist
entries and remote subscriptions as references (they count like the two that are
there), `acknowledgeRevision` (nothing calls it), and a pass that is given up.

### Esp32Display, Esp32Clock

Esp32Display is the box as a pull client: `setup()` and `loop()` are one thread
whose handlers change RAM at once and leave their writes to flash in `flash`, one
NVS key or file at a time (`FlashWrite`); `Crash` drops what is left of them.
Configuration through the portal or the LAN page, pairing, a poll with its answers
(304, 401, a new manifest, a failed download, a failed write of the cache) and the
held corner are actions. The server's side is enrollment (one open code at a time,
used once, the new credential replaces the old ones) and the manifest with its ETag.

Esp32Clock is `millis()`: one step is one iteration of `loop()`, which starts
later than the one before by what that took. `scheduleNextPoll`, the comparison
of deadlines by the sign of a 32-bit difference, and the hold of the corner are
taken at any width of the counter. The history variables `since`, `asked`, `held`
and `opened` are in true time.

## 3. What the runs check

| Run | Instance | Shows |
|---|---|---|
| `database` | 2 events with one key, one of them malformed, 1 queue of limit 1, 2 attempts, 2 dispatchers, 2 slots; or 2 keys, 2 publish commands at a time, 2 saves of the design, 2 revisions; or 2 revisions, 1 device and passes of retention with pages of 1 | `TypeOK` with attempts within the maximum, `BudgetRespected`, `AppliedAtMostOnce`, `DeliveredMeansApplied`, `DeadLetterJustified`, `SettledIsFinal`; `PublishedOnce`, `PublishedAsSeen`; `ReferencedKept`, `CleanWhenDone` |
| `liveness` | a timer of 3 versions with duration 2, the clock to 3, one step back; 2 events of one key, 1 dispatcher, 1 slot; a playlist of 2 entries, 2 versions, times to 2; fairness | `DeadlineKept`, `TimeConserved`, `NoRevival`, `RunningEnds`; `EventuallySettled`, `ImplementsContract`; `PlaybackGoesOn` |
| `fanout_processes` | 2 processes between which 1 socket moves, or 2 changes at 1 process | `FanoutTypeOK`, `NoLostUpdate` |
| `fanout_reregister` | 1 process, 1 change, 1 socket | finding 1: `ClosesBeforeReregistering` is violated |
| `displays` | 1 process with 1 socket, 2 executions, an event with 2 attempts and a duplicate during the last; or a box with 2 servers, a code each, 1 content of one of them and 1 power failure; or with 1 server, 3 contents of 2 images and 2 power failures | `NoLostUpdate`, `RecipientsFrozen`; `IdentityStaysHome`, `OfflineStartWorks` |
| `playback` | an empty playlist, one of two entries in turn, one that ends in an entry for ever; 3 versions, clock to 2, times to 4, one step back or switch, 2 attempts | `TypeOK`, `ShowsItsItem`, `ItemOnTime`, `DueWhenItemEnds`, `TransitionKept` |
| `publish_edited` | 1 command, 1 edit of a widget | finding 5: `PublishedAsSeen` is violated |
| `timer_early` | a timer of 4 versions | finding 2: `EarlyRunsKeepTheirAttempt` is violated |
| `web` | 2 sockets of a display with 1 place, 2 pending messages, 1 on its way, 2 pairings, 1 fault; 2 connections with a merged push; 1 connection with 2 presentations; fairness | `TypeOK`, `PushTypeOK`, `DeadLinkEnds`, `RevokedIsClosed`, `ProtocolIsCompatible`, `StaysConnected`, `ShownForward`, `DisplayReconnects`, `EachIsShown` |
| `web_late` | as the link of `web`, without `Prompt`, 2 messages on their way, no fault | finding 3: `ProtocolIsCompatible` is violated |
| `esp32` | a counter of 18 values, blocks of 2, intervals to 3, hold 3; or 1 server, 3 contents of 2 images and a file system that may be full; or that with 1 power failure and no recovery page; fairness | `PollsOnTime`, `HoldOpensOnce`; `Converges` |
| `esp32_late_pairing` | a counter of 32 values, paired in its second half | finding 4: `PairingIsPolled` is violated |

Deadlock is not checked: every instance ends when its events, versions, faults or
clock are used up.

**Bounds.** Two attempts show the first, a repeated and the last one; two
dispatchers and two slots show every race between a holder and its successor, and
between two runs of one claim. Two events of one key show a duplicate
event. `BatchSize = 1` makes burial take several claims. In the fan-out the
hazards need two of one thing at a time, so the instances vary one dimension each:
processes or assignments in `fanout_processes`, attempts, executions and a duplicate
in `displays`. With two processes or two changes, none is stopped in order, and an exposed
connection is followed only to its end (`Followed`); one process with one change has both.
In `displays` no connection is exposed beside the duplicate. In TimerQueue and
Playback `MaxClock`, `MaxVersion` and `MaxTime` bound the run, `MaxSetBack` and
`MaxUpsets` the corrections and `MaxIssued` how often a row may be armed again;
duration 2 allows a pause in the middle, and three versions allow a pause and a
resume, or a completion with its acknowledgement. Three versions of playback are a start, a
command or transition, and what follows it; with two entries in turn a position
passes the end of the list, and an entry without duration ends it. Two commands,
two keys and a design that is saved again show a repetition that overtakes, two
commands from one revision, and a draft that changes between any two steps; two
revisions and a page of one show a revision before and one after the cursor, with
the older one coming into and out of use. For the web
display the limits keep the order that the contract's constants have (an operation
ends before a pong is overdue, a pong is not overdue after the next heartbeat, which
comes before the watchdog fires); a first push may last as long as a heartbeat, so a
connection is pinged before it is over. Two pending messages and one on its way show a
second report before a pong and a queue that runs over; a report is on its way for less
than the 750 ms to the next one, where `Prompt` is assumed. One place per
device shows a display refused by its own dead connection. Two pairings show a
revoked and a rotated credential. The box needs two images and a content that
repeats one (the download is skipped), and a counter small enough to wrap several times.
`DeadLinkEnds` says that a dead link is gone after `OpTimeout + Heartbeat +
PongTimeout`, `RevokedIsClosed` that a revoked one is after `CheckInterval + 2 *
OpTimeout`: one operation that was on its way, then the check.

**Fairness.** OutboxDomain: clocks pass deadlines (`BecomeDue`, `Lapse`), some
dispatcher keeps polling (an interval of 500 ms), and a tick that holds a claim
gets an answer or an error from Redis (commands have time limits) and from the database.
Nothing is assumed of runs: a handler may hang or crash each time, and
`EventuallySettled` holds because attempts are used up by claims, not by failures.
TimerQueue and Playback add that a run ends: its handler awaits only the database and
watches an abort signal with a time limit; TimerQueue also that `reconcile` runs
(every five seconds). `Retain`, commands, clock corrections and crashes have no
fairness. WebDisplayLink: timers fire, messages on a link that is not cut arrive,
the database answers or its time limit passes, the browser opens and closes sockets.
GatewayPush: tasks and checks go on, an announced delivery is made (the outbox
keeps trying it), and the render of an assigned presentation ends. Esp32Display:
the thread runs and power comes back; strong fairness of the two
good answers of a poll, as a poll that is tried for ever is not for ever unlucky.
In the runs with several instances each fairness condition is of the steps of its own
instance: the formulas in MCLiveness and MCWeb are those of the modules with the guard
`instance = ...`. MCEsp32 has the box's as they are, which leaves only the
behaviours of the box for `Converges`.

## 4. Findings

1. A process whose consumer lease lapsed inside a poll renews it without closing
   its connections (`device-platform/device-update-coordinator.service.ts:82-97`,
   called at lines 104, 125 and 135), and one that closed them at line 100 may have a new
   one by the time the awaited registration commits, while `WORK_PACKAGES.md:1853`
   says connections are closed before. A worker that stopped waiting for the process
   meanwhile may have reported an update delivered that they were not sent.
2. `deferEarly` (`timers/timer-worker.service.ts:39`) writes nothing when the
   clock reaches the deadline between the handler's reading and its own; the
   attempt is consumed and the row waits for the end of its lease, while the
   comment at line 36 says a clock correction consumes no retries.
3. A pong between its deadline and the next tick of the gateway is closed with 4400
   (`device-platform/web-display.gateway.ts:253`), which the page takes for an
   incompatible protocol and stops for good; `WORK_PACKAGES.md:1591` gives such a
   case the code 4408, after which the page reconnects. The run has a slow message;
   two reports that are checked before the pong, or a first push that takes
   longer than the pong may, do the same on a fast link (`crowded`).
4. `nextPollAt = 0` (`main.cpp:586`, `:628`) means "poll now", but the comparison at
   line 640 is false while `millis()` is in the upper half of its range: a box
   paired then waits up to 24.8 days.
5. Adding, changing or removing one widget of a screen design
   (`screen-designer/screen-designer.service.ts:444-469`, `:513-536`, `:559-570`)
   leaves the design's `updatedAt` as it is. The draft checks of a publish command
   (`publications/publish.service.ts:66`, `:289`) compare only that, although
   `WORK_PACKAGES.md:2027` says a changed draft is refused: the command publishes
   a design its author has not seen, or a design and an image that differ, as they are
   read one after the other (lines 269 and 298). The passing run has saves of the whole
   design only (`MaxEdits = 0`).

Smaller observations, met while modelling and true of the model. A publish command
that is repeated while its first request is still running may be refused
because the draft was saved meanwhile, although the first request succeeded: the draft
is checked before the receipt is looked at again (`publications/publish.service.ts:48`).
On the box:
An artifact that downloads but cannot be drawn is accepted all the same
(`main.cpp:494`), although line 486 says a manifest is useful only after its
artifact was rendered. A submission on the LAN page that is overtaken by the end of
its session is stored but not tried until the next start (`main.cpp:620`, against
the page's text at line 271). When the cache file cannot be written
(`main.cpp:450`) the image is shown and recorded as not cached. A power failure
between the ETag (line 174) and the hash (line 175) leaves the current ETag beside
the old image; the server then answers 304 and the box keeps the old image until
the content changes. That is the one exception in `Converges` (`Torn`); an ETag without
any image, which a failure of power between the same two writes leaves on a new box,
is recovered from (lines 486-493).
At the gateway: a display whose message is handled between the last condition of a
merged push and its `finally` joins a push that is over, and line 107 deletes its
request: it reads nothing and is shown something with the next announcement only,
although `WORK_PACKAGES.md:1855-1856` says that new connections read the current state. A
full queue (4429) or a late pong (4400) can come from a page that only reports its size
often while the database is slow.

## 5. What is proved

All proofs use only the assumptions of the modules on their constants, except where a
theorem states one of its own: `MaxEdits = 0`, `Prompt`, `~CacheFails`
and `~LatePairing` where the text says so, and `Powers`, a fact of arithmetic. A theorem
names the definition that a run checks: the run shows it on its instance, the theorem
for all constants.

`OutboxDomain_proofs` (any finite set of events, any queues, limits, attempts, batch
size, dispatchers and slots): type correctness with the attempt limit, at most one
effect per key, delivered only after the effect, dead-letter only for cause,
finality, the budget, and that every step refines the contract's safety part.
None of the properties is inductive. `fail` compares an attempt number its caller
read long before, so whether a row may be buried depends on what claims, tokens and
attempts have to do with each other. `Inv` has three parts: `TableInv` (a row has had
as many attempts as tokens were drawn for it, and a row in processing carries the last
token), `HolderInv` (the number a dispatcher or a run remembers is the number of its
token) and `ReceiptInv` (`applied` is 1 exactly on receipts, a run that is done and a
row that is delivered have one). So a fenced `FailRow` compares the row's own
number, and a fenced `AckRow` of a done run finds the receipt. The proofs first say
what each operation of the table does to rows, then go over the actions. The budget
is a separate induction: only `ClaimRow` makes a claim active, one, and only
below the limit.

`TimerQueue_proofs` first proves that creation and every transition of a valid anchor
give a valid anchor, for every clock reading, also an earlier one, and lifts
it to the specification: the stored anchor is always valid, the time it ran and
the time it has left add up to its duration (`DurationKept`), and an ended timer
stays ended (`EndKept`). The invariant joins validity with conservation, because
that a resumed timer has something left is known from conservation's terms. On top of it
`QueueTyped` is the type invariant, and `DeadlineSafe` says that the deadline of the
current version of a running timer is neither settled before its end nor handled
while it is pending. Its invariant: rows of versions to come do not exist;
the row of a running version exists, carries the timer's end, is not delivered and has
no receipt; receipts and runs that are done are of versions that have passed.

`OutboxStore_proofs` has what the operations of the table do to a row and to what is
reported of it: a claim, a failure or a deadline leaves it open or settled as it is,
or buries some rows that were open (`Buries`). TimerQueue, Playback and the fan-out
use it.

`OutboxFanout_proofs` (any events, assignments, processes, displays, executions, attempts
and batches) proves that no update is lost (`NoUpdateLost`), that the recipients of a
prepared effect never change (`RecipientsStayFrozen`), and type correctness. A
display counts as caught for a change when it was sent that one or a later one, has
still to read what it is to show, or was found not rendered by its push at that change or
a later one; one that is exposed counts as caught. `CaughtStays` says that nothing
uncatches it, as a connection remembers the newest it was sent, reads the current state
only after it was opened, and is new when it is opened again. The invariant is the
chain by which the worker comes to know that all are caught: a delivery holds every
connection of its process that is not caught (`Collected`), a marked target is one
whose displays are caught, and so is a live process that was not listed (`Marked`), a
run that counts has read every live process that has a display to be caught
(`Waiting`), and so a row that is delivered has none (`Reported`). Below it lies that
nothing is announced that is not assigned (`Announced`). At one point the exposed
connections are needed: those of a process that comes to life again, for which the
worker did not wait, are all exposed (finding 1). `FanoutKeepsContract` says that with the preparation of its recipients as the effect of a key,
every step of the fan-out is a step of OutboxContract or leaves it alone. That an event
is reported delivered only after its effect takes one more invariant, `Ready`: a run
beyond preparation is one whose key is prepared, by its own event or by the one it
duplicates.

`Publishing_proofs` (any keys, calls, devices, pages and revisions) proves that a key
publishes once (`OncePublished`), that retention takes nothing that is in use and not
the latest revision (`RetentionSafe`), that a pass ends only when it is done
(`PassEndsClean`), what a revision carries of the design (`StampsPublished`,
`PublishedIsSeen`), and type correctness. `OncePublished` rests on every revision's
key having its receipt and on the n-th revision having started from the one before,
which is still there: the latest is never taken. `PassEndsClean` holds because a page
never ends a pass, whatever became removable behind its cursor; only a probe from
the start that finds nothing does. A design's stamp never goes back, so what a command
reads of it later is of the same or of a later stamp, and the checks before its
transaction leave only the same, which gives `StampsPublished` for any number of
widget edits; that what is read under one stamp is the same content holds only without
such edits, so `PublishedIsSeen` has `MaxEdits = 0` (finding 5).

`Playback_proofs` proves for every set of playlists that a playing device is to show its current item (`PlayedIsShown`: every
transaction that moves the anchor of a playing device sets the desired revision
with it, and every other writer stops playback or is refused), and that the
transition of the current version is never settled or handled before it was
due (`TransitionSafe`). The latter needs `TransitionInv`: rows of later versions do
not exist (`Numbered`), the state waits for a transition exactly when the row of
its version exists, with its time, and is not delivered (`Waiting`), and receipts,
as well as runs that are done, are of earlier versions (`Receipted`). So an
acknowledgement by a late run cannot settle the current row. Neither depends on
how positions are computed.

The other half of the module is about that. `PositionByUnits` says that the code's
position, found by sums of durations after whole cycles are taken out at once, is the
one of the reference `UnitByUnit`, for every playlist, anchor and time. The library's
theorem that a non-empty set of numbers has a least one gives induction in the form of
a lemma about sets (`Induct`), and with it the recursive functions are unrolled: how
many entries fit into a time (`Fits`), that a cycle takes as long from any entry as
from the first (`CycleFromAny`), and that one unit more is one step of the
reference, also over the end of the cycle (`GoesOn`). Playback from a position that
was reached is playback from the start (`UnitByUnitFlows`), so an anchor can be moved:
`Anchored` says that what was heard at the last evaluation is the position of the stored
anchor, and that the next transition is computed from it. Every command, assignment
and transition that is due keeps it, at whatever clock reading; `PositionsOnTime` and
`TransitionsOnTime` follow, and with `TransitionInv` the types (`PlaybackTyped`).

`WebDisplayLink_proofs` (any sockets, limits and deadlines in the order the contract
gives them, any number of cuts, restarts, pairings and revocations) proves that a dead
link and a revoked credential lose their place in time (`DeadLinkKept`,
`RevokedKept`), and that where pongs are not crowded page and gateway do not take each
other for incompatible (`ProtocolKept`) and a display that is connected stays so while
nothing fails (`StaysConnectedKept`). The invariant of a connection has six parts. `Ends` says
who is on a socket and `Fresh` what one that is not authenticated has. `Turn` is the
alternation of the protocol: one ping or pong is on its way, and only while the gateway
waits for it. `Silent` and `Withdrawn` are the budgets of time: what has passed since
the cut, or since the revocation, plus what the running timer has left, never exceeds
the bound. Each handler passes the budget to the next timer; a check that had read the credential before it
was revoked passes it to the next check. None of these limits the reports. `Room` is what
holds of the page's own connection while it is not crowded: `Alone`, one report at a
time and no message before another in the queue, and `Answering`, where a pong on its
way has all its time and one in the queue has only the rest of one check before it,
which is why an operation must be shorter than a pong timeout.
`StaysConnected` needs `Steady` beside it: a gateway that waits for a pong has it coming, the queued pong is at most one check old, and the
page's watchdog has more left than the gateway's next ping. `ProtocolKept` and
`StaysConnectedKept` have the hypothesis `Prompt`; without it the first is finding 3. They
hold for every bound on the page's messages and every length of a first push; where a
pong is crowded they claim nothing, as the code may end such a connection. `LinkTyped` has
a hypothesis `Powers`, arithmetic that the provers have no rule for: a power of two is at
most a later one.

The same module proves of GatewayPush, for any number of connections, presentations
and overlapping deliveries, that what a connection has been sent never goes back
(`PushesForward`), and the types, with which no task works for a connection that has
gone or awaits a check that nobody will end (`PushesTyped`). Beside the types the
invariant (`PushInv`) says that a task shows nothing newer than what is desired, and
that one whose send is under way awaits no check. `deliver` continues after
`check`, an image or a send with what it had read before, so the invariant holds
only because `cleanup` reaches into the tasks (`WithoutWorks`, `AllWithout`), in
the catch block of another task as well.

`Esp32_proofs` proves that a credential and an ETag stay with the server that
issued them (`CredentialStaysHome`), for any number of power failures. What NVS
becomes one write at a time is not safe by itself; the invariant says that the
writes left are in order: what belonged to the old URL is cleared before
the URL is written, and what belongs to the new one comes after it. In the same
way `OfflineStartShows` rests on an order (`CacheInv`): a hash that is in RAM, in NVS
or still to be written has the write of its file done or before it. It needs
`~CacheFails`: the result of the file's write is not looked at, so on a full
flash the hash is recorded without the image. `BoxTyped` is the type invariant.

Of the clock it proves for every width of the counter that polls are on time,
that a held corner opens setup once, and the types. `PollsOnTime` needs `~LatePairing`:
finding 4 is what it would say otherwise. The invariant ties the words to true
time: the distance of `nextPollAt` from `now` is what is left of the interval.

Only model-checked: liveness (`EventuallySettled`, `RunningEnds`, `PlaybackGoesOn`,
`DisplayReconnects`, `EachIsShown`, `Converges`, the fairness part of
`ImplementsContract`). Liveness and ENABLED are out of the prover's reach. Every
other property of a passing run is a theorem. The types of TimerQueue, Publishing and the
box (`QueueTyped`, `PublishingTyped`, `BoxTyped`, `ClockTyped`) are theorems that no run
repeats.

## 6. What is left

1. Playlists that are published in one transaction, with all their screens.
   The writer queue's replay of transactions.
2. Source worker and federation worker: attempts, last good snapshot, circuit,
   cached feeds, claims with additional budgets. Each refresh or import ends in one
   fenced transaction like those of OutboxDomain; their own states beside it are missing.
3. Render cache: files and rows, promotion batches.
4. Interactions and admin sessions: receipts, rotation; rates after a clock correction.
5. Clock corrections in OutboxDomain, and the scheduling calls of a tick.

Proofs to add: with the modules of this list.

## 7. Not modelled

Content editing and rendering (data transformations with plain record storage),
wire schemas (models start from messages that parse), isolation of plugins,
metrics and logging, settings, HTTP transport limits and the admin interface. The
parts of section 6 are left out for now, with the reasons in `PROJECT.json`.

Nearly all lines of C and C++ in the repository are the vendored graphics library of
the firmware with its fonts (`src/firmware/esp32-4848s040/lib/`, 190000 lines of
character bitmaps and display drivers) and the vendored touch driver. The firmware
calls them to draw and to read a touch point; they hold no state that a
property here is about. The program of the box is `main.cpp`, which Esp32Display and
Esp32Clock model.

In the modelled parts: the exact lengths of leases and back-offs, metrics and
structured events, delivery policies other than push to a web display, more than one
device per effect, visibility and capacity limits of timers, the gateway's token
bucket, and brightness and drawing on the box.
