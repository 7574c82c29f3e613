# VMSmith: TLA+ models, model checking and proofs

VMSmith is a Go daemon that manages virtual machines over libvirt, keeps its
state in a bbolt file, and serves a REST API, a CLI and a web GUI. This
directory models the parts of it where goroutines, crashes and stale copies
make the code hard to test: the event bus with its log and its stream, the
scheduler with its catch-up, the VM manager, webhook delivery, and the web GUI:
its list pages, its dialogs, its live pages behind the sign-in form, and its
service worker. `PROJECT.json` holds the machine-readable side: every run, every
property, the source lines of every definition, the hazards.

## The system and its parts

| Part | State it keeps | Operations | Talks to | Hard part | What makes it correct |
|---|---|---|---|---|---|
| Event bus `internal/events/bus.go` | publish channel, subscriber map, a channel per subscriber | Publish, Subscribe/cancel, Start, Stop, the bus goroutine | every producer; store; SSE handlers, webhooks, state persister | non-blocking sends, fan-out over a copied map, stop while draining | order, no gap for a subscriber that keeps up, Stop returns |
| Event log `internal/store/bolt.go` | `events` bucket and its sequence counter | AppendEvent, ListEventsAfterSeq, PruneEvents, PruneEventsByAge | bus, retention, SSE | failed transactions, crash | contiguous, ordered, only the oldest end is removed |
| Retention `internal/events/retention.go` | none of its own | sweep on a ticker | store, bus | two transactions per sweep, feeds its own event back | as above |
| SSE stream `internal/api/handlers_events.go` and follower `internal/cli/events.go` | per connection: backlog, subscription; per client: last id | connect, replay, live tail, 410, reconnect | store, bus | replay and subscribe are separate steps; ids that cannot resume | nothing skipped without a known cause |
| Scheduler `internal/scheduler/engine.go` | cron entries, semaphores, job queue, worker pool | Register/Unregister, enqueue, fire, RunNow, Start, Stop | store, VM manager, bus, REST handlers | semaphores replaced under running fires, read-modify-write of records, Stop | exact slot accounting, drain, progress |
| Catch-up `engine.go`, `catchup.go` | `last_tick` cursor | tickLoop, runCatchUp, missedFires | cron library, store | cursor older than the last fire, crash during replay, a spec without instants | no instant lost silently |
| Webhooks `internal/webhooks/manager.go` | worker, subscription and queue per webhook | Start, Stop, Register, Unregister, deliver with retries, report, status write-back | bus, store, REST handlers, remote servers | a replaced worker is not waited for; stale write-back; reports are events | one worker in charge, nothing dropped without a report, nothing runs after Stop |
| VM manager `internal/vm/*.go` | VM records, libvirt domains, disks | create, start, stop, update, delete, snapshot, clone | libvirt, store, network | rollback on failure, IP monitor goroutine, libvirt events | record and domain agree, addresses unique |
| Quotas `internal/vm/quota_manager.go` | none | check before create | VM manager | check-then-act | overshoot under concurrency is bounded |
| Port forwards `internal/network/portforward.go` | `port_forwards` bucket, iptables rules | Add, Update, Remove, RestoreAll | iptables, store | failure between rule and record | rules and records agree |
| Console tickets `internal/console/store.go` | ticket map | issue, consume, janitor | WebSocket handler | expiry races | single use |
| Daemon `internal/daemon/daemon.go` | the subsystems | ordered start and stop | all | shutdown order | drain before close |
| GUI list pages `web/src/pages/*.jsx`, `hooks/useFetch.js`, `components/Shared.jsx` | filters, page, rows on display, ticked rows | type, pick, page, tick, row and bulk operations, poll | REST API | answers overtake each other; a finished operation repeats an old query | what is ticked is on display; the page comes to show the present answer |
| GUI dialogs (same files) | form, base of comparison, saving flag, progress streams | open, type, submit, close | REST API, polls of the page | the cross works during a submission; polls change what is compared | only what the user changed is sent; no second submission, no dead button |
| GUI event hook `hooks/useEventStream.js` | EventSource, cursor, timers | connect, reconnect, fallback poll | SSE endpoint, event list | a late poll answer moves the cursor back; the cursor ages | its cursor is an event that was shown, always on its way back |
| GUI metrics hook `hooks/useVMStats.js` | EventSource, history, timers | first fetch, stream, fallback, change of machine | SSE endpoint, metrics API | answers for the machine shown before | the stream is the shown machine's |
| GUI console page `pages/VMConsole.jsx` | tab, ticket request, client | change tab, reconnect, leave | ticket API, WebSocket | tickets and close events that arrive late | one client, and the status is its |
| GUI auth gate `components/AuthGate.jsx`, `auth.js`, `api/client.ts` | key, gate, form | sign in, 401 | every API call | a 401 to an older key, or to an upload | nothing but an upload's newer key is left behind the form, which can always be used |
| GUI service worker `pwa/*.js` | worker in charge and waiting, caches, offers | install, offer, accept, activate, reload | all windows | one registration for many windows | the shell is there, no reload unasked, no dead offer |
| Metrics, operation progress, rate limits, multi-host router, disk move, GPU, OVA | see `PROJECT.json` | | | | |

Communication is by method call, by the bus's channels, and through the store:
every bbolt transaction is atomic and durable, and nothing spans two of them.

## Modules

| Module | Models | Extends |
|---|---|---|
| `EventBus` | bus, events bucket, retention, crash and restart; instantiates `EventJournal` | |
| `EventJournal` | abstract: what the bus promises its readers | |
| `EventStream` | SSE handler and reconnecting follower on top of the bus | `EventBus` |
| `Scheduler` | engine, worker pool, run-now, REST handlers, schedule records | |
| `CatchUp` | instants of one schedule across restarts, cursor, replay | |
| `VMLifecycle` | VM manager, quota check, create slots, DHCP reservations, IP monitors | |
| `Webhooks` | delivery of one webhook, its requests, Start and Stop | |
| `GuiPages` | the ten tables of the list pages: filters, pagers, operations | |
| `ListPage` | a list page of one of those tables against the daemon | `GuiPages` |
| `Dialogs` | the seventeen dialogs that write | |
| `Browser` | what the live parts share | |
| `EventHook`, `StatsHook`, `Console`, `Auth` | the four live parts | `Browser` |
| `LiveFeed` | abstract: what a live component promises | |
| `App` | the four parts composed behind gate and router; instantiates `LiveFeed` twice | the four |
| `Pwa` | service worker, caches, update offers in all windows | |
| `EventBusProofs` | theorems about the bus and the stream | `EventStream` |
| `AppProofs` | theorems about the live parts and about the service worker | `App`, `Pwa` |
| `SchedulerProofs`, `CatchUpProofs`, `VMLifecycleProofs`, `WebhooksProofs`, `ListPageProofs`, `DialogsProofs` | theorems | the module of that name |
| `...MC` | a model-checking instance of each | |

Conventions. A transaction, a non-blocking channel operation and a critical
section of a mutex are one step each; whatever another goroutine can see happen
in between is a step of its own. A store call that may fail and whose error the
code ignores has both outcomes. Definitions whose comment begins "A defect to
detect" are deliberately wrong variants of the definition that follows; they
are not part of any specification and serve to show that a property can fail.

### EventBus

An event is `[n, at, seq]`: the order in which `publishCh` accepted it (a
history value), `OccurredAt`, and the number `AppendEvent` gave it. `NewEvent`
and `Publish` are separate, because `OccurredAt` is stamped before the send.
`Take`, `AppendEvent`/`AppendEventFails`, `FanOut` and `Send` are the bus
goroutine: receive, transaction, copy of the map, one send per subscriber.
`BeginDrain` and `Exit` are the `stopCh` branch. `PruneEvents`,
`PruneEventsByAge` and `ReportSweep` are one sweep. `Crash` forgets everything
except the bucket, its counter, and the clock.

`EventJournal` is the abstract specification: a journal that is written one event
at a time, cut only at its old end, and read in order by those that joined.
The refinement mapping takes the event that fan-out has reached (`Fanned`), whether
the next one is in the bucket already (`Stage`), the numbers of the bucket's events
(`Numbers`), and the subscribers whose channel filled (`Slow`);
`BusIsJournal` is the implementation.

### EventStream

`Connect` is the request up to the point where the response is committed (or
answered 410), `WriteReplayed` a replayed frame, `GoLive` the `Subscribe` after
it, `WriteLive` a live frame. `excused` records, as history, each event that
passed a client by and why; `SkipsAreExplained` compares it with what the client
really skipped.

### Scheduler

A semaphore is an object with a capacity and a number of tokens; `sems[s]` is
the current one and a fire keeps its own in `loc[t].sem`. `FireLoad` to
`FireRelease` are `fire` in order, shared by workers, run-now requests and the
catch-up goroutine. `UpdateGet`/`UpdatePut`/`RegisterStep` and
`DeleteGet`/`DeleteTx`/`UnregisterStep` are the PATCH and DELETE handlers,
`HandlerFails` their 400 and 500 exits. `WorkerStart` is the moment the worker's
`range` evaluates `e.jobs`.

`intended` and `overlapped` are history. `intended[s]` is what the requests and
fires have made of schedule s, each write taken for the change it was meant to be
(a PATCH changes the configuration, `finalize` the result, DELETE removes). A
write that goes over a record which another had open, `finalize` between its read
and its write or PATCH likewise, puts the schedule among the `overlapped`.

### CatchUp

One schedule; `sched` is its parsed cron spec: one that names the instants in
`Due`, or one that names none, such as `0 0 0 30 2 *`, for which cron's `Next`
returns time's zero value (`ZeroTime`). `Walk` is the loop of `missedFires`: it
starts at the first instant after the cursor, stops after now or at the cap, and
breaks where the schedule does not advance, as it does at the zero value. A spec whose
instants lie more than five years apart (February 29 around 2100) has both kinds of answer
and is left out. `StartRegister`,
`StartReadCursor`, `StartAdvanceCursor` and `CatchUpBegins` are apart because
the clock may move between any two of them. `settled` records why an instant
was passed over. `MissedFires` is the loop of `missedFires`; the property
`MissedFiresExact` states what its comment promises.

### VMLifecycle

Create, Clone, the power operations, Update and Delete are goroutines whose
steps are the calls that others can see: a transaction on the `vms` bucket, a
libvirt call on a domain or on the network's host reservations, making or
removing the VM directory. `Then` gives the order of the steps of create,
clone and update. A step that may fail has a branch for it: it returns, or goes
to the cleanup (`UndoDomain`, `UndoHost`), as the code does at that point. A
goroutine's `loc` is what it has in hand: the record it read or is building and
the domain handle, which names a VM's domain by UUID, while `DeleteDomain`,
`ReapOrphan`, `UpdateBoot` and `MonitorBounces` go by the name. The monitor that
Create leaves behind is a goroutine of its own, under the VM's ID.

A VM ID and its NAT MAC are one value. The domain is off, running or paused;
the stored state and IP, which each read refreshes from libvirt, are left out,
as are the fields of the spec other than name, address and lock. A patch changes
the lock alone, disk and CPUs, or these and the address: between them they pass
every step and every failure of Update. An operation that is chosen at the start
and matters only later (which power operation, which new address) is chosen when
it matters. `updated` stands for `UpdatedAt`. Libvirt is external; taken from how
the code uses it are that a domain name is unique, that a second reservation
with the address, MAC or name of another is refused, and that any call may fail.
A DHCP lease may exist for any address, so `findAvailableIP` may return any
unreserved one.

`causes` is history: what happened to a VM's resources that the code does not
undo. The two ownership invariants say that these causes are all there are:
"crash" (the daemon died inside an operation), "stale" (a whole record was
written back over a newer one, or over none), "halfDeleted" (the last step of
Delete failed), "byname" and "reaped" (another VM's operation took what has
the name), "static" (an address from the user is not reserved), "update" (Update
failed after it had dropped or moved the reservation), "mkdir" (Create failed
before its cleanup was installed), "cleanup" (a libvirt error that is only
logged), "redefined" (Update defined a domain again after its deletion),
"monitor" (the fallback gave up after it had reserved an address).

### Webhooks

One webhook. `Fan` and `Publish` stand for the bus (external here: a full
channel loses the event). `Enqueue`, `Discard` and `publishOverflow` are the
goroutine that filters and enqueues; `Take`, the receiver's answer
(`recordSuccess`, `Failed`), `Retry`, `GiveUp`, `recordFailure` and `Exit` are
the one that delivers. `recordSuccess` and `recordFailure` write the worker's own
copy of the record back (`WriteBack`). `Start`, `Signal` (the context is
cancelled), `Stop`, `StopReturns` and `Crash` are the manager's life;
`CreateWebhook`, `GetWebhook`, `UpdateWebhook`, `DeleteWebhook`, `Unregister`,
`Register`, `TestDeliver` and `Answer` are the steps of requests, between which
others run. A told worker may still take events, since `select` prefers
nothing. The number of a worker that has returned is given to the next;
`inCharge` may name one that has returned (`Gone`), as the manager's map does.
The return of the enqueuing goroutine is not a step: nothing waits for it.
`excused` is history: a result was written over a change, requests overlapped,
or the records could not be read at Start.

### GuiPages and ListPage

Ten tables: machines, images, templates, schedules, their runs, webhooks,
activity, logs, and the snapshots and port forwards of a machine. `GuiPages`
says of each which filters exist, which are debounced, seeded from the URL,
written back to it and reset by "Clear all", which operations a row has, how a
bulk operation is sent, and when the pager shows. A behaviour of `ListPage`
follows one page and one filter of one class (`Classes`), chosen at the start.
`Send` is a fetch in one of `Slots`; `Answer` is the moment the daemon reads,
`Deliver` the moment React shows, so that answers overtake each other.
`OpDone` repeats the query of the click, as the closure in the code does.

### Dialogs

A table gives each of the seventeen dialogs what it compares with, what it
always sends, where its saving flag lives, whether a poll reaches its form and
whether it opens a progress stream. `Submit` is the click, `Apply` the daemon,
`Done` and `Reject` the continuation, which may find the dialog closed, open for
another row, or remounted after `PollFails`.

### Browser, EventHook, StatsHook, Console, Auth, App and LiveFeed

`App` composes the four parts: `Navigate`, `GateFollows` and `ReloadDocument`
mount and unmount, every step of one part leaves the others alone, and each
API call that comes back with 401 closes the gate over all of them. In `EventHook`
the daemon is ids `1..newest`, an answer to a poll, and 410 to a cursor with more
than `ReplayLimit` events after it; its stream is the subject of `EventStream`. The
frames of the stream are no steps: the daemon names every frame after the event's
type (`sse.go:48`), and a browser gives named frames only to listeners of that
name, of which the hook has none but `shutdown`. So its cursor moves by the
answers to fallback polls alone, and nothing is claimed of data that the stream
would bring. The catch of `connect` is left out: `new EventSource` throws only for
a URL that cannot be parsed, which `buildStreamUrl` does not make.

In `Auth`, `Unauthorized` has the two ways the client has to take a 401: `unwrap`
clears the key of the moment, an upload (`Upload`) only when it was sent with one;
`spared` is history, the key that stays behind the gate because of that. In `StatsHook` a request remembers whether
its run of the effect is the current one (`cancelled` of the code), while
`closedRef` is one for all. A run of the console's effect is a slot of `Runs`
that is asking for a ticket, dialing, open, closing or ended.

`LiveFeed` is the abstract specification of a component with live data: one of
six phases, a label that belongs to it, and the steps between phases. A
component that can be given another object to show (`Strays`, the metrics hook) may
in addition be marked by an error that was meant for the object before (`StrayError`).
`EvPhase` and `StPhase`, with the status shown, are the refinement mapping;
`HooksAreFeeds` is the implementation, `NeverStuck` its liveness: neither hook
dials for ever. `EvReconnects` adds for the event hook that it ends on the stream
unless its cursor is refused.

### Pwa

`Install`, `Activate` and `Activated` are apart: between the last two the old
caches are deleted (`staleCacheNames`), while another build may be installing
(`raced`). `applyUpdate`, `dismissUpdate` and `controllerchange` are per window.
`Fetch` classifies a request and says what enters the runtime cache. The activation of
a waiting worker because all windows were closed is left out; accepting an offer and
the first installation are the two ways in.

## Runs

Passing runs and what they show:

| Run | Properties | Instance |
|---|---|---|
| `EventBusMC` | `SubscriberGapFree`, `LogSound`, `BusIsJournal`, `BusProgresses` | 3 events, 1 subscription, subscriber buffer 1, publish buffer 2, both prunes, crashes, fair |
| `EventStreamMC` | `StreamInOrder`, `SkipsAreExplained` | 1 client, 3 events, 2 connections, replay limit 1, pruning |
| `SchedulerMC` | `SemaphoreExact`, `SchedulesIsolated`, `LastWriteCounts` | 2 schedules, 1 worker, 1 run-now, 1 handler, a PATCH, 3 semaphores, fires that resolve to no VM |
| `SchedulerLiveMC` | `StopDrains`, `FiresProgress` | 1 schedule, 2 workers, catch-up, 1 handler, one target, one retry, max_concurrent left at its default, fair |
| `CatchUpMC` | `NoSilentLoss`, `MissedFiresExact`, `CursorStopsRepeats`, `DueIsDispatched` | a spec with instants 2, 3 and 5 and one with none, every policy, cap 2, queue of 1, two exits, fair |
| `VMLifecycleMC` | `RecordBacked`, `ResourcesOwned`, `QuotaOvershootBounded` | 3 VMs, 2 names, 2 addresses, 2 requests, 3 operations, max_vms 2, one create slot, one crash |
| `WebhooksMC` | `NoSilentLoss`, `TakenOnceInOrder`, `OneWorkerInCharge`, `RecordAndWorkerAgree`, `NothingRunsAfterStop` | 2 requests at a time, 2 workers at a time, 2 events, channel and queue of 1, 2 attempts, 2 operations |
| `ListPageMC` | `SelectionVisible`, `Converges` | all ten tables and every class of filter, 2 items, page sizes 1 and 2, 2 requests in flight, 2 events, fair |
| `DialogsMC` | `UntouchedNotSent`, `TypedIsSent`, `OneSubmission`, `NothingLeftBehind` | all seventeen dialogs, 2 objects, 2 submissions in flight, 6 disturbances |
| `AppMC` | `BehindGate`, `CursorWasShown`, `StatsOfShownVM`, `ConsoleIsOfItsTab`, `HooksAreFeeds`, `LivePagesRecover`, `AuthRecovers` | 3 faults, 3 events, replay limit 1, fallback after 2 failures, one fallback poll in flight, 2 machines, 2 tabs, 2 keys, fair |
| `PwaMC` | `ShellAvailable`, `ReloadsAccepted`, `OfferIsReal` | 2 windows, 3 builds, 8 clicks |

Every module has a type invariant, `TypeOK`. Where no theorem proves it, it is the first
conjunct of an invariant of its run. Some properties are conjunctions of named
parts that share one idea: `LogSound`, `BusProgresses`, `FiresProgress`,
`NothingLeftBehind`, `ConsoleIsOfItsTab`, `HooksAreFeeds`, `LivePagesRecover`,
`AuthRecovers`.

Bounds. Buffers of 1 or 2 make every full-channel and empty-channel case
happen with 3 events; a limit of 1 or 2 does the same for retention, replay and
the queue. One subscription shows what a subscriber sees; `EventStreamMC`
has two connections, and the theorems hold for any number of subscribers. Its backlogs
are never more than one event over the replay limit, so it would not see a 410 test that
is off by one; the theorems about the stream, for every limit and number of events, do. Two fires show the interference between
fires, three semaphore objects one replacement by PATCH and one by
DELETE. Schedule IDs are interchangeable in the code, so `SchedulerMC` (safety
only) takes them as a symmetric set; in `VMLifecycleMC` the same holds for
VM IDs, names, addresses and requests. Three operations, two at a time, let an
update, delete or second create meet each step of an earlier create or of its
monitor; three IDs with max_vms 2 and one slot make the quota bound (two VMs)
one that a missing check breaks. IDs are generated, so a create that finds none
left waits: a bound, like the number of operations. In `WebhooksMC` requests are
symmetric; two at a time and two workers let a replaced worker meet its successor
and a PATCH meet a DELETE; a channel and a queue of one overflow with the
second event. In the GUI, two requests in flight are enough for one to overtake the
other (fallback polls of the event hook that overtake each other are left to the
theorem `CursorsWereShown`, since `AppMC` has one at a time), and a disturbance is anything a user, another client or the network
does: two or three of them between two polls. `PwaMC` needs three builds for an
installation during an activation. What the bus properties lose through
bounds the proofs give back: they hold for all sizes.

`CHECK_DEADLOCK FALSE` in every configuration but those of the bus and the
stream: after Stop, or when the fires, PATCHes, operations, clicks and the clock
are used up, the system is done.

Violation. `VMReapMC` checks `OnlyOrphansReaped`, which states what a comment
says (quoted in `findings`): of two creates of one name, the second destroys
the domain of the VM the first has stored.

More disagreements between code and documents came up while modelling and have
no run of their own. Scheduler and events: an event between the backlog query
and Subscribe reaches the client by neither path (`handlers_events.go:154`,
`cli/events.go:469`); a PATCH replaces the semaphore, so that two runs overlap at
max_concurrent 1 (`SCHEDULES.md:147`); a worker that first runs after Stop
ranges over a nil channel, and Stop waits for it (`engine.go:331`, `:289`);
finalize writes a whole record back and so undoes a PATCH (`engine.go:553`,
`:539`; `LastWriteCounts` says that nothing else loses a write); a sweep that deletes publishes an event, so that on a full, idle log
every sweep deletes one more (`retention.go:98`). A fire in flight while its
schedule is deleted writes run records, or the record itself, back
(`bolt.go:366` says all are removed); instants fired since the last cursor
write are fired again after a restart (`CursorStopsRepeats` says that no others
are); clones take no create slot, so they may overshoot the quota without
bound; a static address from the user is not reserved, so `findAvailableIP` may
hand it to another VM. Further,
`PruneEventsByAge` stops at the first young event, so an old event that was
stored behind a newer one survives (`bolt.go:787`); a stored id the follower
resumes from is not replayed past when it belongs to an event whose append
failed (the cause "transient" of `SkipsAreExplained`); a crash while catch-up
replays loses what it had not reached (the cause "replay" of `NoSilentLoss`);
cron jobs run before catch-up although the comment at `daemon.go:353` has
it the other way round; and for a spec without instants cron's `Next` returns the
zero time, which the loop takes for a missed fire at every start with another
policy than skip, although its comment promises "every cron instant after lastTick
up to and including now" (`catchup.go:9`, `:19`; the second half of `MissedFiresExact` says
that this is all it replays, and once).

Webhooks: a delivery result written back undoes a PATCH, or brings a deleted
webhook back into the store (the cause `excused` of `RecordAndWorkerAgree`); two
PATCHes, or a PATCH and a DELETE, may leave the worker of one and the record of
the other; after Unregister pending events may still be taken, although its
comment says they are dropped; the enqueuing goroutine may publish an overflow
after Stop although `daemon.go:599` stops the manager before the bus; and an
overflow report goes back to a webhook that takes all events.

GUI: the edit dialog of a machine compares with the latest poll and so turns
back what another client changed, against the comment at `VMDetail.jsx:1215`;
where the pager shows only over rows, deleting the last row of a later page
leaves no way back; the run history of a schedule has no poll, so a late answer
stays; every poll writes the clone dialog's name over; no event of the stream reaches the event hook's `onmessage`, because
the daemon names every frame (`sse.go:48`; `useVMStats.js:128` says so and
listens by name), though `onEvent` is "Called for each parsed event"
(`useEventStream.js:52`); the fallback poll sends `until` with its own cursor, so
with a cursor it brings nothing new, although consumers should "keep
updating" by it (`useEventStream.js:49`), and when the cursor has aged beyond the
replay limit the stream answers 410 and the hook goes round for ever
(`EvReconnects` excepts that); a 401 to an older key clears the new one; the 401
of an upload that was sent without a key closes the gate and keeps the key that
was entered meanwhile (`client.ts:175`; `BehindGate` says that nothing else is
kept); a late first fetch of the machine shown before replaces the history of the
present one, and a failed one marks it as broken while it is live
(`useVMStats.js:89`; `StrayError`); an activation deletes the cache of a build being installed; and
an update accepted in one window reloads every window that shows the offer
(`sw.js:24`).

Fairness. Weak fairness for each goroutine of the engine or the bus: Go's
scheduler runs a runnable goroutine eventually, sends are non-blocking, and an
action ends because every attempt has a timeout. Nothing is assumed of
producers, subscribers, clients, requests, crashes, Stop, or the clock. In the
GUI: timers fire, the daemon answers, and the browser runs the continuation of an
answer; nothing is assumed of users, networks or other clients, whose steps are
bounded. Strong fairness is used in `ListPage` for the debounce timer and the
refresh after an operation only because the bound on requests may disable them
again and again; the browser has no such bound. Pages call the daemon while they
show, the console page excepted. Webhooks have safety properties only.

## Proofs

Every safety property that a passing run checks, invariant, action property or
refinement, is a theorem, for all values of the constants. TLC agreed with each inductive invariant on a small
instance before its proof was begun. Each proof module opens with the invariant;
then come facts about operators, one lemma per action, or per kind of effect an
action may have, and at the end the theorems.

| Module | Theorem | Statement |
|---|---|---|
| `EventBusProofs` | `TypeCorrect` | `Spec => []TypeOK` |
| | `BucketSound` | `Spec => []LogSound` |
| | `SubscribersInOrder` | `Spec => []SubscriberInOrder` |
| | `SubscribersGapFree` | `Spec => []SubscriberGapFree` |
| | `BusImplementsJournal` | `Spec => BusIsJournal` |
| | `StreamRunsTheBus` | `StreamSpec => Spec` |
| | `FollowersReadInOrder` | `StreamSpec => []StreamInOrder` |
| | `EverySkipHasACause` | `StreamSpec => []SkipsAreExplained` |
| `SchedulerProofs` | `SlotsAreExact` | `Spec => []SemaphoreExact` |
| | `SchedulesAreIsolated` | `Spec => []SchedulesIsolated` |
| | `StopIsADrain` | `Spec => []StopDrains` |
| | `WritesAreKept` | `Spec => []LastWriteCounts` |
| `CatchUpProofs` | `NothingIsLost` | `Spec => []NoSilentLoss` |
| | `ReplayIsExact` | `Spec => MissedFiresExact` |
| | `CursorHolds` | `Spec => CursorStopsRepeats` |
| `VMLifecycleProofs` | `QuotaOvershoot` | `Spec => []QuotaOvershootBounded` |
| | `RecordsBacked` | `Spec => []RecordBacked` |
| | `NothingLeftOver` | `Spec => []ResourcesOwned` |
| `WebhooksProofs` | `OneWorker` | `Spec => []OneWorkerInCharge` |
| | `StopIsFinal` | `Spec => []NothingRunsAfterStop` |
| | `WorkerFollowsRecord` | `Spec => []RecordAndWorkerAgree` |
| | `NothingDroppedSilently` | `Spec => []NoSilentLoss` |
| | `AcceptedOnceInOrder` | `Spec => []TakenOnceInOrder` |
| `AppProofs` | `GateLeavesNothing` | `Spec => []BehindGate` |
| | `CursorsWereShown` | `Spec => []CursorWasShown` |
| | `StatsAreTheShownVMs` | `Spec => []StatsOfShownVM` |
| | `ConsoleIsItsTabs` | `Spec => []ConsoleIsOfItsTab` |
| | `HooksImplementFeeds` | `Spec => HooksAreFeeds` |
| | `WorkersInOrder` | `PwaSpec => [](PwaTypeOK /\ BuildsInOrder)` |
| | `ShellIsAvailable` | `PwaSpec => []ShellAvailable` |
| | `ReloadsAreAccepted` | `PwaSpec => []ReloadsAccepted` |
| | `OffersAreReal` | `PwaSpec => []OfferIsReal` |
| `ListPageProofs` | `TickedIsVisible` | `Spec => []SelectionVisible` |
| | `BulkDeletesAreVisible` | `Spec => DeletesWhatIsShown` |
| `DialogsProofs` | `OnlyTypedIsSent` | `Spec => []UntouchedNotSent` |
| | `LastTypedIsSent` | `Spec => []TypedIsSent` |
| | `OneAtATime` | `Spec => []OneSubmission` |
| | `NothingIsLeftBehind` | `Spec => []NothingLeftBehind` |

The assumptions are those the modules state beside their constants: sizes are
natural numbers, capacities positive, a value that stands for "none" is not one of
the others, slots are numbers where the code picks the least free one, the
daemon's items are finitely many. Two are
about how the model is instantiated: `ThreadAssumption` of `Scheduler` keeps the
sets of goroutines apart, `KindsAssumption` of `Dialogs` takes dialogs from the
table. TLC evaluates all of them.

**Bus** (`IndInv`). None of the properties is inductive: order in the bucket
needs that whatever waits in `publishCh`, or is in the bus goroutine's hands, is
newer than everything stored, and that the numbers in `publishCh` are
consecutive (`Numbering`); the order a subscriber sees needs in addition that
what fan-out is about to send is newer than what its channel holds, and gap
freedom counts exactly how far fan-out has come for each subscriber. That both
prunes delete a prefix is proved from the definitions of the key sets
(`ExcessDownClosed`, `StaleDownClosed`): the smallest k of a set of keys is
closed downward, and the age walk stops at the first young event.

**Journal**. The bus records an event in one transaction, fans it out in another
step, also when the append failed; these are steps of `EventJournal`, or stutter
(a failed append leaves it unrecorded). The mapping was the first thing to get right: an event
counts as offered once fan-out has copied the subscriber map, not when it is sent,
so that a subscriber joining during the sends begins after it. Each bus action
then maps to one journal action; the prunes map to `Trim` because what they
leave is closed upward, `Crash` to `Restart`, and `Receive` to `Get` by the order
and the gap freedom of what waits in the channel. The last is where `IndInv` is
needed.

**Stream** (`StreamInv`, which contains `IndInv`). A step of the stream is a step
of the bus or one it does not notice, so all that is proved of the bus holds under
the handlers. The rest is about where an event stands: `Placed(n, s)` says that
sequence number s divides the bucket as event n does, and it survives appends,
prunes and crashes (`PlacedStep`); it holds of every follower's cursor, of all
that waits for it and of the event being fanned out. The backlog query returns a
run of the bucket (`BacklogIs`, from contiguity, by counting keys), so with a cursor
so placed it returns exactly what the follower lacks. `Coming` is the link that a
test would not find: whatever is later than what a follower has read, or will read
next, is excused, waits for it, or is the event in the bus's hands that is still
to be offered to it. A step has one of five effects on a client (`Effects`), and
each effect keeps the invariant. `ListEventsAfterSeq` is written with `NthKey` and
not with a library sort, so that it can be reasoned about.

**Scheduler** (`Inv`). That a semaphore's tokens are its holders
survives a Register because nobody refers to the object about to be made
(`References`); that fires of different schedules never share one needs
`Ownership` to speak of replaced objects too; and that Stop finds everything
dispatched follows from what an exited worker saw (`Shutdown`). `LastWrites`, on
top of `Inv`, is about the two whole-record writers: as long as no write to a
schedule went over another, every fire between its read and its write still holds
what is stored, and every PATCH still holds the stored result. A write keeps that of
others because it would be an overlap if there were any (`KeptFrame`,
`WriteEffect`), and an ID to be created has been read by nobody.

**Catch-up** (`Inv`). First what `missedFires` computes. Its loop is a recursive
function on the instants (`Walk`); that the function exists and does its turn is
shown by induction on the time that is left, written as an induction over sets
(`Backwards`: the least element of the set of counterexamples), since the library's
induction theorems cannot be instantiated here. `WalkLists` then says that it lists
the instants of the window in order, the earliest ones under a cap. The
invariant proper says which control states go together (`Control`), what Start
has read (`CursorRead`), that the cron entry is not set past the next instant to come
(`ArmedInTime`), that whatever is dispatched or will be lies after the cursor
(`AfterCursor`), and that every instant that has come is fired, settled, or under
way: queued, in the replay, waiting for a late timer, or left to a later start by
the cursor (`AllAccounted`). `NoSilentLoss` is the last one when nothing is
under way. A spec without instants is never armed and never queued; what it
replays is the zero time alone (`MissedFiresOfNone`, `ReplayIs`). TLC checks the cap of 2; the theorem has every cap, also none.

**VM manager**. Four layers: types and create slots counted as the requests that
hold one; `Tracked`, which says whose record, and which copy of it, each goroutine
works on, and that a copy that is no longer the stored one is marked as such;
`Bounded`, the VMs admitted together with the creates behind the quota check; and
`Naming`, `Dirs`, `Doms`, `Reserved`, which say what directory, domain and
reservation exist at each step of each operation. The last is the hardest: Update
drops a reservation and takes another while the monitor of the same VM, or a
second update, may be between the same two calls, and Delete may have taken the
record away. Its parts were first checked by TLC on instances of 838,788 and
672,896 states. They brought a flaw of the model's own to light: a Delete whose last
step fails leaves a reservation that a later start may use again, so "halfDeleted"
had to be among the causes of a reservation without an owner. The first part of
`VMLifecycleProofs` says once what each action does; the invariants look only at
those effects.

**Webhooks**. `Inv`: the manager starts a worker only when none is in charge,
and removes one from the map only when it tells it to stop; Stop is final because
a process that has not been started has not been told to stop either
(`FreshIsNotStopped`). `RegInv`: while no result was written over a change and no
requests overlapped, the worker in charge has the stored settings, or exactly one
request is on its way to see to it. `FlowInv`: for each worker, what it
acknowledged, has in hand, has queued and has on offer is one ascending line of
events (`Line`), and what it lost it has reported; that no event disappears and
that each is taken once are both read off that line.

**Live pages** (`Inv`, one part per hook, and `Mounted`). Each part has an
invariant of its own that its steps keep whatever the others do; mounting
establishes it and leaving ends it. `EvShape` and `StShape` list the combinations of
source, timer and status, which are the phases of `LiveFeed`: the refinement follows by
looking up each step in a table of phases. `CursorWasShown` needs that an answer
lies at or after the cursor its poll was sent with, so that the last id of what it dispatches
is the cursor it leaves; it holds however polls overtake each other, in any number. The metrics hook needs that the request of the current run
of the effect is the only one (`StRequests`).

**List pages** (`Inv`). What is ticked is on display because the two places that
change the rows or the ticks look at each other; the page number is harder.
The pager computes its last page from a total that may belong to an older answer,
another filter or another page size, so its bound rests on the totals that requests
in flight carry (`RequestsTyped`), and these on the number of items. From the
invariant follows what the user relies on: a bulk action sends only rows shown at
that moment (`DeletesWhatIsShown`).

**Dialogs** (`DialogInv`). The open form differs from the captured object only
where the user typed (`Untouched`) and shows what was typed last (`Shown`); a
submission of the mounted component disables the button (`Busy`), and it is
disabled only while there is one (`Waiting`), whether the dialog is open or not.
The table enters through what its rows have in common (`TableFacts`).

**Service worker** (`PwaInv`). `ShellAvailable` is about the worker in
charge, which was waiting and installing before, so `ShellsKept` says it of all
three; it needs `BuildsInOrder`, by which no two of the three share a cache. A
reload is paid for by an acceptance that may have been made in another window
and be still on its way, so `ReloadsPaid` counts per window the reloads done, owed
and pending. `OfferIsReal` needs `OffersControlled`: only a page with a worker in
charge hears of an update or of the change-over that follows.

Only model-checked: liveness, since fairness and ENABLED are outside the prover's
reach (`BusProgresses`, `FiresProgress`, `DueIsDispatched`, `Converges`,
`LivePagesRecover`, `AuthRecovers`). `OnlyOrphansReaped` has no theorem because
it does not hold (`VMReapMC`).

## Not modelled

Event filters, heartbeats, frame syntax, log output, backoff times; validation
of requests; what a scheduled action does to a VM; snapshots, disk moves and the
contents of disks and ISOs; limits other than max_vms; the trimming of run records; a wall
clock that is set back. Of webhooks: signing, target validation, the
HTTP client, liveness. Of the GUI: rendering, formatting, menus, the dashboard,
field validation, upload progress, the samples a chart keeps, and the one-time
password panel. `PROJECT.json` lists the components with no module and
why.

## Plan

In this order; each brings its runs and the properties named in the hazards.

1. Beside `VMLifecycle`: libvirt events and the state persister, snapshots with
   their retention, GPU attachment, and the autostart sweep.
2. `PortForward` (a rule in iptables and in the bucket, with a failure between
   the two), `ConsoleTickets`, operation progress, run-history trimming, rate
   limiter, metrics ring, disk move, shutdown order of the daemon.
3. Liveness of webhook delivery on a smaller instance.
4. Another abstract specification: a counting limiter, implemented by the
   semaphores of `Scheduler` and the create slots of `VMLifecycle`.
