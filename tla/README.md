# A verification project for argocd-notifier

TLA+ models of the parts of argocd-notifier that hold state, the TLC runs that
check them on small instances, and TLAPS proofs of every invariant that the
passing runs check, for instances of every size. Paths below are relative to the root of the
repository.

Run a check with `tlc -config <run>.cfg <module>`; `PROJECT.json` lists runs,
properties and mutants, and says for every definition which lines of the code
it models. `tlapm <module>.tla` checks the proofs of one of the modules
`AggregatorProofs`, `SessionProofs`, `CoreProofs`, `BackendRegistryProofs`,
`LeaderProxyProofs`, `SlackBackendProofs`, `SlackProofs` and `SequenceLemmas`.

## 1. The system

ArgoCD sends one webhook call for each trigger of an `Application`. The **core**
(`cmd/argocd-notifier`) collects them per group, merges them into a *session* for
each rollout and keeps one message for each session and destination up to date.
It reaches channels through **backend processes** that register themselves; the
one in the repository is the **Slack backend** (`cmd/slack-backend`).

```
 ArgoCD --POST /v1/events--> leaderproxy --(leader)--> receiver.Handler --chan--> workers
                                 |  (not leader)                                    |
                                 +--ReverseProxy--> leader's pod                    v
                                                                             Engine.Ingest
                                     time.AfterFunc --> onTimerFire --> flush ------+
                                                                          |
                          registry <--Lookup-- remotebackend <--- SessionPublisher.Upsert
                             ^                     |
   Registrar --POST /v1/backends/register          +--POST /notify, /thread-reply--> slackbackend.Handler
                                                                                   --> slack.Client --> Slack
```

### Inventory

| Component | State | Operations | Hard behaviour | What makes it correct |
|---|---|---|---|---|
| Debounce engine `internal/aggregator/engine.go`, `clock.go` | per group: buckets, two timers, generation | `Ingest`, `onTimerFire`, `flush` | `Stop` against a callback that has started; map order; flushes in goroutines | every event handed over once; a cap on every batch; no batch cut short by an old callback |
| Session publisher `session.go` | sessions: `perApp`, `refs`, `lastFlush` | `Upsert` | two critical sections with backend calls between them; several Upserts of one session; expiry; failing and lost calls | one live message that shows the current state, at the right destinations, as long as Upserts do not overlap; references never cross sessions |
| Receiver `internal/receiver` | bounded channel, worker goroutines | `ServeHTTP`, `RunWorkers` | full or unbuffered queue; several workers; shutdown | an accepted event is ingested once and in order; requests never block |
| Registry `internal/registry`, registrar `internal/slackbackend/registrar.go`, adapter `internal/remotebackend` | entries with `LastSeen`; ticker and `registered` flag | `Register`, `Lookup`, `Registrar.Run`, `Resolve`, `Notify`, `PostThreadReply` | TTL against heartbeats; late registrations; look-up twice; core restart | a live backend is known; a call reaches a process that declared what it is asked for; the latest process wins |
| Elector `internal/leader/elector.go` | `leading`, `currentLeader` | callbacks of client-go, `Run` | order of release, callbacks and loss; restarts | the flag is backed by the lease; one leader; a leader in the end |
| Leader proxy `internal/leaderproxy`, `internal/leader/pod_resolver.go` | cached address | `ServeHTTP`, `Rewrite`, `Resolve` | leadership changes between steps; timeouts and retries | a request is processed by one replica; every request is answered |
| Slack backend `internal/slackbackend/handler.go`, `internal/slack/client.go` | the call in progress | `Notify`, `ThreadReply`, `call`, `attempt` | retries of a request that was carried out; cancellation | success means delivered; no duplicates after truthful answers; calls end |
| Template watcher `internal/slack/watcher.go` | `modTime`, `current` | `Reload` | file changes between stat and read; mtimes that repeat or come back | a good template is never lost; the last good one is used unless its mtime was known |
| Core process `cmd/argocd-notifier`, `internal/config` | configuration, goroutines, the listener | `Load`, `Validate`, `main`, shutdown | what is in the queue, at workers and in batches when the process is told to stop; a listener that fails; values nobody validates | an event answered 202 is in one place, and reaches the publisher; every request is answered; what the components assume is validated |
| Slack backend process `cmd/slack-backend`, `internal/slackbackend/config.go` | configuration, goroutines, the listener | `Load`, `main`, `TemplateWatcher.Render` | the template is swapped and fails while requests are rendered | what is to be sent is sent; no goroutine panics |
| Notification build `internal/notification`, wire conversion `remotebackend/backend.go`, `slackbackend/convert.go`, rendering `internal/slack/render.go` | none | `Build`, `toWireItem`, `fromWireItem`, `renderNotification` | four tables of fields kept by hand in two processes; a limit of 100 attachments | no field is lost, no app forgotten, no blank where there is a value |
| Middleware, logging, generated API | none, or set once | - | - | not modelled, see section 7 |

## 2. Modules

| Module | Models | How state and actions correspond |
|---|---|---|
| `Engine` | `engine.go`, `clock.go` | `buckets`, `generation` are `groupState`; `timers` are armed timers and `callbacks` the goroutines that wait for `e.mu`. `Ingest` and `SealBatch`/`DropStale` are the critical sections; `CallUpsert`/`ReturnUpsert` the loop of `flush`. `Expire`, `Tick` are the runtime |
| `Batching` | the promise of the engine | one open batch per group, sealed whole, delivered in parts, each once; no timers, generations or orders |
| `SessionPublisher` | `session.go` | `session` is `sp.sessions` (an incarnation number is the identity of the `*sessionState`); `calls` holds the locals of each `Upsert`. `BeginUpsert` is the first critical section, `Skip`/`Send`/`Answer`/`Fail` the loop over destinations, `MergeRefs` the second critical section, `Reply` the thread action. `Apply`/`ApplyLate` are the backend |
| `Aggregator` | engine and publisher wired as in `main.go` | extends `Engine`, instantiates `SessionPublisher`; `CallUpsert` and `BeginUpsert` are one step, and so are `Return` and `ReturnUpsert`. `overtaken` and `overlapped` are history: apps of an Upsert that began after a later batch of their session, sessions of which two Upserts were in progress |
| `Receiver` | `receiver/handler.go` | `queue` is `h.ch` and `capacity` its size, set when the process starts; `holds` is what a worker has taken. A `select` is a choice between its ready cases. The send (`Enqueue`) and the answer 202 (`Acknowledge`) are two steps |
| `CoreProcess` | `cmd/argocd-notifier/main.go`, `config.go` | extends `Receiver` and instantiates `Batching`, the promise that `Engine` implements, as the engine. `phase` is where `main` is: `Start` is `Load`, `NewHandler` and `RunWorkers`; `Listen`, `Signal` (`ctx` is cancelled, the listener still accepts), `Shutdown` and `Exit` the rest. `Feed` is a worker's call of `Ingest`, one step of receiver and engine |
| `BackendRegistry` | registry, registrar, adapter | `backends` is the map of the registry, ages instead of `LastSeen`; `registrar` is `Run` with its ticker; `wire` the requests under way; `call` a goroutine between `Resolve` and the answer: the second look-up (`Find`) and the request (`Send`) are two steps, the registry's lock is not held between them |
| `Elector` | `elector.go` on client-go | `leading`, `currentLeader` are the two atomics; `stage` is where `LeaderElector.Run` is; `launched` its callback goroutines |
| `LeaderProxy` | proxy and address resolver | extends `Elector`; a try is a record with the path of replicas it has visited; `memory` stands for queue, batches and sessions of a replica; its local handler accepts (`Serve`) or answers 400 or 503 (`Decline`) |
| `SlackBackend` | handlers and Slack client | one goroutine per call; `sent`/`replies` are the attempts on the way to Slack and back, `canceled` the calls whose context is done. `CarryOut` may answer with an error all the same |
| `TemplateWatcher` | `watcher.go` | `Stat`, `Read`, `Load` are the three steps of `Reload`; `Write`/`RemoveFile` the file's owner: new content or an earlier version, under any mtime |
| `Notification` | `notification/build.go`, the conversions, `render.go` | operators only: `Build`, `ToWire`, `FromWire`, `renderNotification` over the tables of builders (`Fills`, `Values`), of wire fields (`SentFields`, `ReadFields`) and of layouts (`Shows`) |
| `SlackProcess` | `cmd/slack-backend/main.go`, `TemplateWatcher.Render` | extends `TemplateWatcher` and `Notification`; `request` is the `/notify` request from `Build` in the core (`Notify`) over the wire (`Receive`) to the renderer (`Render`), while the watcher reloads |
| `AggregatorProofs`, `SessionProofs`, `CoreProofs`, `BackendRegistryProofs`, `LeaderProxyProofs`, `SlackBackendProofs`, `SlackProofs` | - | theorems about `Engine` and `Aggregator`, `SessionPublisher`, `CoreProcess`, `BackendRegistry`, `Elector` and `LeaderProxy`, `SlackBackend`, `TemplateWatcher` and `SlackProcess` |
| `SequenceLemmas` | - | induction over the naturals from their well-ordering, the largest index of a set of indices, what `FlattenSeq` returns |
| `MC*` | - | the small instances: deliveries, batches, processes, environments, sessions |

Data is abstracted to what the properties tell apart. An event is a record with
its group, trigger, revision, app, backend, set of recipients and one `status`
for the three fields that enter the content hash; `contentHash` is the tuple of
the hashed fields, so hash collisions are left out. A message is the sender and
the events it shows; a reference is the index of a message at its destination.
In `Notification` a text is a sequence of bytes, of which only those of a rune of two
bytes matter, and wording, markup and colours are left out: what counts is which
field is empty, cut short or replaced by a default. `truncate` (`build.go:188`) counts
bytes and may cut a rune in two; `Marshalled` is what `json.Marshal` makes of the rest.
Definitions named in a "Mutant" comment are not part of a model: they are the
plausible bugs against which each property has been tried (`PROJECT.json`,
"mutants").

## 3. Runs

Deadlock checking is off (`CHECK_DEADLOCK FALSE`) in the runs whose deliveries,
batches, calls, exits or writes are used up in the end; the system really stops
there. The registry runs keep it.

### Engine

* `engine_combined` - four deliveries, one group, two triggers combined into one
  session, two revisions; windows 1 and 2. Safety at every interleaving of
  `Stop`, expiry and sealing, and `TimerInvariant`, the invariant of the proofs.
* `engine_refines` - two groups, windows 2 and 3, under fairness: `Batching` is
  implemented and every ingested event is handed over.

Four deliveries give two batches with a callback of the first pending in the
second, the shortest case of the race; windows 1 and 2 are the smallest that
differ. The proofs cover every other size; liveness is checked at this one only.

### Session publisher and aggregator

* `session_sequential` - four batches (start, change, repetition, another
  session) over backends of four shapes that share a recipient name, TTL 1,
  unresolved and refusing backends; one Upsert at a time.
* `session_overlap` - two Upserts at a time, a notifier and a reposter, lost and
  late calls, expiry between their critical sections.
* `aggregator` - engine and publisher together with triggers combined (the
  default of `COMBINE_TRIGGERS`): two deliveries of an app by two triggers, the
  second to one more destination, whose flushes may overlap in every way (55,025
  distinct states). `StaleOnlyWhenReordered` says which way an entry of `perApp` can
  fall behind and that there is no other; `LatestShown` goes from `Ingest` to the channel.
* `aggregator_out_of_order` - the violation when flushes overlap: three
  deliveries by one trigger.

Two deliveries are enough for both reorderings: sealed together their buckets are
visited in either order, sealed apart their Upserts begin in either order and
send in either order. With a third the states of the safety part have been searched
to 4 million without a counterexample; liveness is out of reach there, and
`StaleOnlyWhenReorderedHolds` covers every number.

`MaxCalls = 1` in `session_sequential` is an assumption about the environment: an
Upsert (its backend calls) ends before the next one begins. It usually does with the
defaults (`IDLE_WINDOW` 30 s, `REMOTE_BACKEND_REQUEST_TIMEOUT` 5 s), but nothing
enforces it; with many destinations or short windows it fails, and section 6 shows
what is then lost. What the run checks is proved for Upserts of one session that
are apart, which is all that the assumption is needed for.

### Core process

* `receiver` - the whole core process with receiver, workers and the engine's
  promise composed, under fairness (`CoreFairSpec`): 18 environments (one for each
  reason to be refused, those at a boundary, no workers, a queue without a buffer,
  an unusable queue size), two workers or one, two slots or none, three deliveries
  of which any may be invalid, a signal at any time, with requests that still come in
  until the listener is closed (190,696 distinct states). Three deliveries fill the
  channel and are refused, overtake each other at the two workers, share a batch or
  not, and are caught at every place by the shutdown; a fourth one adds only permutations. `Violations`
  meets each of its errors.

`AccountedFor` speaks about a process that has ended, too: its last state is kept,
and what is then in the channel, at a worker or in a batch is what was lost.

### Backend registry

* `registry` - an old and a new process of one name and a process of another, a
  registration lost now and then (one in a row for each process), a caller
  anywhere between `Resolve`, the second look-up, its request and the answer, one
  restart of the core (397,164 distinct states). Registrations are
  answered within the interval of the heartbeat, in any order
  (`MaxDelay = 0`, `Interval = 1`). `TTL = 2` is the smallest that survives one
  lost heartbeat. `LiveBackendKnownHolds` proves the general rule: a TTL of
  `2 * MaxDelay + Interval + MaxLost * max(MaxDelay, Interval)` is enough, and with a
  TTL one smaller TLC finds a counterexample (tried with one lost heartbeat for
  `MaxDelay` 0 and 1). With the defaults (90 s and 30 s) two heartbeats in a row may
  be lost if answers are immediate; the configuration only recommends a ratio.
  `Caller = {}`, `TTL = 4`, `MaxDelay = 1` has also been run, for the pruning, the
  live backends and `Converges`.

### Election and routing

* `proxy` - two replicas, deadline 1 and lease 2, one exit, one request tried
  twice, three hops (759,673 distinct states); the whole election runs underneath, so
  the run checks `LeadingBacked` and `LeaderKnown` of `Elector` as well. Three hops are enough
  for a request that a replica sends to itself and on, or around in a circle.
* `elector_no_campaign` - a violation, see section 6.

`Elector!Tick` states the timing that the lease rests on: one clock, callbacks
and the steps of `Run` after the deadline are fast compared with a tick, and a
replica that cannot renew gives up at `RenewDeadline`, before the lease lapses
(`Validate` requires `LeaseDuration > RenewDeadline`). Clock skew and paused
processes are left out, so what section 6 says needs neither.

### Slack backend and template

* `slack` - two calls at a time, each of any kind (post, update, thread reply),
  one retry, refusals, errors reported for what was carried out, lost answers, late
  effects, a core whose disconnect is noticed at any time or never (1,278,942
  distinct states).
* `template_reload` - the Slack backend's process under fairness (`SlackFairSpec`):
  eight environments, two versions of the template, good or bad, each written and
  written back any number of times under two mtimes, removals at every step of a
  reload (156,804 distinct states); requests made of seven
  sessions in which every trigger occurs with all its fields, most with none of
  the optional ones, and a trigger that no builder knows. `MaxAttachments = 3` and
  `MaxItems = 4` stand for 100 and for 1 MiB: the sessions have as many apps as fit,
  one more, and more than the body has room for. Two versions and two mtimes
  are the fewest for a file that is replaced and moved back during a reload.

### Bounds

Every bound is a constant: the deliveries, batches and processes of the `MC`
modules, `MaxCalls`, `MaxDelay`, `MaxLost`, `MaxRestarts`, `MaxExits`,
`MaxAttempts`, `MaxHops`, `MaxRetries`, `MaxVersions`, `MaxItems`; `MaxAttachments`,
`MaxSHA` and `MaxDetail` are constants of the code made small. Clocks are countdowns or
ages that saturate one tick past the threshold the code compares them with.

## 4. Fairness

* Timers expire, goroutines are scheduled and `sync.Mutex` is starvation free:
  weak fairness of expiry, callbacks and flush steps. Deliveries are never fair:
  nobody has to send.
* Every call to a backend ends (`http.Client.Timeout`), so the steps of an Upsert
  are fair; in `Aggregator` every call succeeds (failing calls are in `SessionPublisher`).
* Core process: `main`, handlers and workers are fair; `Ingest` holds its lock for
  map operations only. That an open batch is sealed and a sealed one delivered is
  what `engine_refines` shows of the engine. A signal is not fair, nor is the end of
  the process, and a worker need not see that `ctx` is done. A handler chooses between
  its ways to answer, and no way in particular is fair: `ReachesPublisher` is about
  accepted events only. `NeverBlocks` does not rest on the workers: after a shutdown
  they are gone and the channel may be full.
* Registry: a registration is answered within `MaxDelay`. The registrar uses
  `http.DefaultClient`, which has no timeout, so this is an assumption about the
  network (see the hazards in `PROJECT.json`).
* Election: the loop and its callbacks run, a cancelled process ends. Renewals
  are not fair and processes need not exit.
* Leader proxy: the steps of a try and the header timeout. The local handler answers
  (`Serve` or `Decline`, neither by itself), which is `NeverBlocks` of the core process.
* Slack client: its goroutine runs and its timeout fires; Slack need not answer and
  the core need not disconnect. The timeout is that of `SLACK_REQUEST_TIMEOUT` (5 s).
  With `SLACK_REQUEST_TIMEOUT=0`, which nothing refuses, the client has none, and a
  call that is never answered ends when the core disconnects.
* Slack backend's process: `main`, the handler of a request and the ticker of the
  watcher. Nobody has to touch the file or send a request.

## 5. Proofs

What a run checks on a small instance the theorems state for every value of the
constants, under the assumptions on constants that the modules name. Every safety
invariant and every action property of the passing runs has its theorem; the one for
`LiveBackendKnown` and those for the three invariants of concurrent Upserts state their
hypotheses.

### Engine and aggregator: `AggregatorProofs`

For all sets of groups and deliveries, every finite set of triggers and every pair of
windows that `config.Validate` accepts (`EventAssumption`, `WindowAssumption`,
`CombineAssumption`):

| Theorem | States |
|---|---|
| `TimersCorrect` | `Spec => []TimerInvariant` |
| `TypeCorrect` | `Spec => []TypeOK` |
| `HardCapHolds` | `Spec => []HardCap` |
| `NoOrphanTimersHolds` | `Spec => []NoOrphanTimers` |
| `NoEarlySealHolds` | `Spec => NoEarlySeal`, an action property |
| `ExactlyOnceHolds` | `Spec => []ExactlyOnce` |
| `ArrivalOrderHolds` | `Spec => []ArrivalOrder` |
| `EngineImplementsBatching` | initial states and steps of `Engine` are initial states and steps, or stutters, of `Batching` |
| `AggregatorImplementsEngine` | `AggSpec => Spec`: all of the above holds in the aggregator |
| `StaleOnlyWhenReorderedHolds` | `AggSpec => []StaleOnlyWhenReordered`, with triggers combined or not and for flushes that overlap in any way |

`HardCap` is not inductive: the step that expires the hard timer keeps it only
if a timer's generation is that of the open batch, and `NoEarlySeal` needs to
know how old a batch is when its callback starts. `TimerInvariant` adds

* `NoOrphanTimers`: an armed timer belongs to the open batch of its group, one of
  each kind;
* `TimersPaced`: the hard timer is due at `MaxWait` after the first event, the
  idle timer not before `IdleWindow` after it;
* `CallbacksPaced`: a pending callback is of an earlier generation, or of the open
  batch, and then an idle window has passed.

`age` and `quiet` are observers: no guard reads them, they only let the properties
speak about time.

`ExactlyOnce` and `ArrivalOrder` speak about the slices of Upsert calls, which `flush`
puts together from buckets visited in map order. `SliceOrder` says what such a slice
holds (`OfSessionProperties` for one bucket, `FlattenProperties` for their
concatenation). The inductive invariant `HandoverInv` is about the batches instead:
`FlushInv` (the keys still to do are those of events of the batch), `ArrivalInv`
(each bucket is a run of the arrivals, batches of a group are in the order of their
generations, and the open one is last) and `PlacesInv` (one place for each event).
The same invariant carries the refinement: sealing is `Seal` of `Batching`, a call of
Upsert is `Deliver`, and what timers, callbacks and returns do is a stutter. The
fairness part of `ImplementsBatching` stays with TLC.

The map `perApp` is to hold the latest event of each app (`docs/design.md:51`), and the
code does not keep that: the engine gives the publisher events in another order
when Upserts of two batches begin in the wrong order (`overtaken`), or when the
buckets of two triggers are visited in the wrong order within one (`Shuffled`).
`StaleOnlyWhenReordered` says that nothing else makes an entry fall behind: not
duplicates, which leave an older event of the same content in place, not expiry, not
an Upsert that starts while another of its session sends. The proof has for
each entry (`PublishedInv`) an ingested event after which none of its app was handed
over, and whose hash the entry has, unless the app was reordered, which it stays
(`ReorderedStays`). An Upsert that overtakes none begins after all batches before
its own (`HandedInOrder`, for which a generation is sealed once, `SealedOnce`), and
the last event of an app in a slice gives its entry the hash even if it is not
written (`LastWriteHash`).

### Session publisher: `SessionProofs`

For all sets of sessions, apps, destinations, batches, shapes of backends and every
TTL (`DestAssumption`, `BatchAssumption`, `ConfigAssumption`). `Apart` says that no two
Upserts of one session are in progress, while those of different sessions may overlap
as they like. The code does not ensure it, since flushes of one group run
concurrently (section 6); it is a hypothesis about the behaviour and
not about a constant, and it is true of the behaviours of `session_sequential`:

| Theorem | States | Faults |
|---|---|---|
| `SessionTypeCorrect` | `Spec => []TypeOK` | all |
| `RefsOwnedHolds` | `Spec => []RefsOwned` | all |
| `ContentRoutedHolds` | `Spec => []ContentRouted` | all |
| `ChangedFlushRepairsHolds` | `Spec /\ []Apart => []ChangedFlushRepairs` | all |
| `MessageCurrentHolds` | `Spec /\ []Apart => []MessageCurrent` | all but late ones |
| `OneLiveMessageHolds` | `Spec /\ []Apart => []OneLiveMessage` | neither lost nor late ones |

The hypotheses on faults are those of the runs, and the properties are false without
them: a request that is carried out after its caller gave up writes over a newer state,
and a `Post` whose answer is lost leaves a message nobody refers to.

`RefsOwned` needs no such hypothesis. Its invariant `RefsInv` has the sessions, the
snapshots and answers of calls and the requests under way refer only to messages that
exist and are of the incarnation of their owner; an expired session is a new
incarnation, so that `StillCurrent` protects it. The other three rest on
`OrderlyInv`: an Upsert that is alone has the apps and references of its session, and
each destination is to be sent to, sent to or done with. Then `ReachInv` says that every
message of a session is the one it refers to or the one its Upsert has just posted;
`RepairInv` that a failed call that is not made up for is still due or failed in
this very Upsert; `CurrentInv` that an Upsert has shown the state of its session wherever
it is not still due.

### Core process: `CoreProofs`

For all sets of deliveries, workers, configurations and session keys and every queue
size (`ReceiverAssumption`; `CoreAssumption`, which also says that durations are numbers):

| Theorem | States |
|---|---|
| `CoreInvariantHolds` | `CoreSpec => []CoreInvariant`, the inductive invariant |
| `AccountedForHolds` | `CoreSpec => []AccountedFor` |
| `OvertakenOnlyWhenHeldHolds` | `CoreSpec => []OvertakenOnlyWhenHeld` |
| `ReceiverTyped` | `CoreSpec => []TypeOK`, the type invariant of `Receiver` |

`AccountedFor` says that `Places(d)` is a singleton or empty. The proof splits the
tagged set into its five kinds (`Queued`, `Carriers`, `OpenIn`, `SealedIn`,
`DeliveredIn`; `TaggedOnce`, `TaggedNowhere`), so that each action moves an event
from one kind to another: `Enqueue_Invariant`, `Take_Invariant`, `Feed_Invariant`,
`Seal_Invariant`, `Deliver_Invariant`, and `Answer_Invariant` and
`Outside_Invariant` for the actions that move none. To be inductive it has an event whose
send has not succeeded be nowhere yet (`Accounted`, so that `Append` does not put it in
twice), and `IdleWhileLoading` (the workers that are never started hold nothing).

`OvertakenOnlyWhenHeld` follows from `OrderInvariant`: the channel is the end of
the history of accepted events; what precedes it in that history is ingested or at
a worker; and an ingested event is not in the channel, for which `CoreInvariant`
is needed again.

### Backend registry: `BackendRegistryProofs`

For all processes, callers and timings (`TimeAssumption`, `ProcessAssumption`):

| Theorem | States |
|---|---|
| `RegistryTypeCorrect` | `Spec => []TypeOK` |
| `CallsReachDeclaredHolds` | `Spec => []CallsReachDeclared` |
| `LiveBackendKnownHolds` | `Spec => []LiveBackendKnown`, if `HeartbeatsMeetTTL` |

`HeartbeatsMeetTTL` is `Budget(MaxLost) + MaxDelay <= TTL`, the rule of section 3. It is a
hypothesis and not an assumption because nothing in the code enforces it. `LiveBackendKnown`
is about the age of an entry at one moment; the invariant `KnownInv` has it for every
phase of the registrar: how old the entry may be when the next heartbeat is due, after
so many lost ones, and while a registration is on the wire. `WireInv` says that a
registrar waits for at most one answer. `CallsReachDeclared` is about three moments, the
registration, the look-up and the request, between which the entry may expire or be
replaced: `DeclaredInv` has each entry and each target that a caller holds come from a
single process that has registered it.

### Election and routing: `LeaderProxyProofs`

For every finite set of replicas, any set of requests, and all deadlines with
`RenewDeadline < LeaseDuration` (`LeaseAssumption`, `ReplicaAssumption`, `RequestAssumption`):

| Theorem | States |
|---|---|
| `ElectorTypeCorrect` | `Spec => []TypeOK` |
| `LeadingBackedHolds` | `Spec => []LeadingBacked` |
| `RoutingImplementsElection` | `RoutingSpec => Spec` |
| `RoutingTypeCorrect` | `RoutingSpec => []RoutingTypeOK`, with the bound on paths |
| `StateOnlyOnLeadersHolds` | `RoutingSpec => []StateOnlyOnLeaders` |
| `TwiceOnlyInDoubtHolds` | `RoutingSpec => []TwiceOnlyInDoubt` |

`LeadingBacked` needs to know when a callback that is launched but has not run can still
raise the flag (`LeaseInv`), and that a process that ends is counted (`ExitsInv`).
`StateOnlyOnLeaders` adds the request that a leader has accepted but not processed
(`StateInv`). `TwiceOnlyInDoubt` speaks about two replicas; `TwiceInv` has for each client
without doubt that it has one try at most, which it waits for, and none once a replica has
processed the request.

### Slack backend: `SlackBackendProofs` and `SlackProofs`

For every finite set of calls and every integer for `MaxRetries` (`CallAssumption`):

| Theorem | States |
|---|---|
| `SlackTypeCorrect` | `Spec => []TypeOK` |
| `SuccessMeansDeliveredHolds` | `Spec => []SuccessMeansDelivered` if `MaxRetries >= 0`; otherwise nothing is ever sent or shown (`NothingSent`) |
| `KnownRefStaysHolds` | `Spec => []KnownRefStays` |
| `DuplicatesOnlyUnheardHolds` | `Spec => []DuplicatesOnlyUnheard` |

`TypeOK` bounds the references that Slack gives out, and is inductive only with a count of
the attempts of all calls against the messages they wrote (`CountInv`). A success on
its way is of a request that was carried out, under the reference it gives
(`DeliveredInv`); as long as a call has got every answer, and a true one, one thing of it
is under way and it goes into another round only when the last was refused (`HeardInv`).

For all sessions of any number of apps, configurations, limits, mtimes and numbers of
versions (`SlackAssumption`, `LimitsAssumption`, `WatcherAssumption`; that the apps of a session
have different names is what the keys of `perApp` are):

| Theorem | States |
|---|---|
| `WireFaithfulHolds` | `SlackSpec => []WireFaithful` |
| `ShownAsReportedHolds` | `SlackSpec => []ShownAsReported` |
| `EveryAppAccountedHolds` | `SlackSpec => []EveryAppAccounted` |
| `KeepsGoodTemplateHolds` | `SlackSpec => KeepsGoodTemplate`, an action property |
| `SentWhateverTheFileHolds` | `SlackSpec => []SentWhateverTheFile` |

The first rests on `WireItem`: what `toWireItem` omits, `fromWireItem` reads as the
empty value it was. `ShownAsReported` and `EveryAppAccounted` rest on `Answer` (an answer was
made of the request by `Build`) and on what `Build` and `renderNotification` do for any
number of apps: the items are sorted and one for each known app, `LayoutOfBuild` relates
an attachment to the fields of its app, and the apps that have no attachment are counted in
the last (`RenderedBuild`, `TotalOfCounts`, `SummaryCounts`). The other two need
`WatcherInvariant`: a reload that is about to parse has read a version that was written,
and the renderer in use stands for one that parses; `WriteAdds` shows that a write
changes none of the earlier ones.

### Only model-checked

Liveness under fairness is out of the prover's reach and stays with TLC: `EventuallyHanded`
and the fairness part of `ImplementsBatching`, `LatestShown`, `ReachesPublisher`,
`NeverBlocks`, `Converges`, `LeaderKnown`, `EveryTryAnswered`, `EveryCallEnds` and
`PicksUpTemplate`. Theorems of the library that do induction for an operator cannot be used
with the installed provers. Where data needs induction (`OfSession`, `FlattenSeq`,
`Total`), the definition is a recursive function, and the induction is made on a set of
naturals: the least element outside it has no predecessor inside (`NatSetInduction`).
No module declares a `RECURSIVE` operator.

## 6. Where the code and its documents differ

Two runs have TLC find a behaviour that contradicts what a document or a comment
says (`PROJECT.json`, "findings", quotes the lines):

| Run | What happens |
|---|---|
| `aggregator_out_of_order` | two batches of a group are flushed concurrently, the older one upserts last and the session keeps the older state |
| `elector_no_campaign` | losing the lease ends the campaign of a replica for the life of its process |

More of them came up while the models were written. Each is stated at the end
of its module, or is a property of a run, and is violated in the small instance given
here, but that is not among the runs:

| Property | Instance | What happens |
|---|---|---|
| `Engine!IdleTimerRestarts` | `engine_combined` | a callback that waits for `e.mu` seals a batch just after an event restarted the idle timer |
| `Engine!LatestEventLast` | `engine_combined` | with triggers combined, the random map order puts an older event of an app last |
| `Receiver!AppOrder` | `receiver` (module `MCCoreProcess`) | an event overtakes an earlier one of its app between the channel and `Ingest` |
| `SessionPublisher!OneLiveMessage`, `MessageCurrent` | `session_overlap` with `Faults = {}` | two Upserts of a session take their snapshots one after the other and send concurrently: neither has a reference, so both post; or the one with the older snapshot sends last, and the older state stays on display |
| `SessionPublisher!NextFlushRetries` | `session_sequential` | a failed destination is not retried by a flush of unchanged events |
| `SessionPublisher!NothingLeftBehind` | `session_sequential`, with an app whose second event has new content and names another backend | a re-routed app stays in its old message; with the same content it is a duplicate and its new destination never hears of it |
| `Elector!OneLeader` | `elector_no_campaign` | the lease is released before the flag is cleared: a successor takes it, and for some steps two replicas take themselves for the leader and accept events |
| `LeaderProxy!ForwardsOnlyToHolder` | `proxy` | a former leader forwards requests to itself |
| `LeaderProxy!ProcessedByOne` | `proxy` | a timed-out try and its retry are processed by two replicas |
| `LeaderProxy!OneActive` | `proxy` with two requests, one attempt each | a lost lease only clears the flag: a former leader keeps its batches and sessions and goes on publishing, next to its successor |
| `CoreProcess!DuplicatesAsConfigured` | `receiver` | `DUPLICATE_ACTION=Thread` passes `Validate`, which ignores case, but `main` passes the raw string on and the publisher compares it exactly: no replies |
| `TemplateWatcher!DetectsChange` | `template_reload` | a write with the mtime of the last load is never read |
| `SlackProcess!PicksUpTemplate` without `~ again` | `template_reload` | `Reload` stats v1 with mtime m1, v2 is moved into place and read, v1 is moved back with m1; m1 is stored with v2, and v1 is never read again |
| `SlackBackend!SuccessMeansDelivered` | `slack` with `MaxRetries = -1` | a call is answered 200 though nothing was sent |

Values at a boundary that nothing refuses, and other things seen on the way:

* `SLACK_MAX_RETRIES` below zero: the loop of `Client.call` has no round, no request
  is sent, no error returned, and the handler answers 200 with an empty reference
  (for every such value: `NothingSent` in `SuccessMeansDeliveredHolds`).
* `SLACK_REQUEST_TIMEOUT=0` means no timeout (section 4).
* `IDLE_WINDOW` and `MAX_WAIT` below zero pass `Validate` as long as they are in
  order; timers then fire at once.
* `INGEST_QUEUE_SIZE` below zero panics in `make` (`CoreProcess!Start`); with
  `WORKER_COUNT` of 0 or less requests are accepted until the channel is full and
  nothing is ever ingested (`ReachesPublisher` leaves that case out).
* client-go wants `RENEW_DEADLINE` above 1.2 times `RETRY_PERIOD`, `Validate` only
  above `RETRY_PERIOD`: in between, the process exits in `startLeaderElection`
  (`ElectionFailures`).
* `LISTEN_ADDR` with a host makes the address of the leader unusable: `main.go:82`
  puts the pod's IP in front of it. `LeaderProxy` assumes the usual `:port`.
* An `on-sync-failed` event without an operation message renders an empty text block
  (`render.go:143`).
* The middleware recovers `http.ErrAbortHandler` as well, with which `ReverseProxy`
  aborts an answer that broke off.

## 7. Not modelled

* Middleware and health endpoints, logging, generated API code: no state of their
  own, no decision that another component depends on. The generated code is most
  of what `PROJECT.json` does not map.
* envconfig's parsing, JSON, the text of messages and templates: what matters is
  whether parsing succeeds.
* The pprof server of the core, which keeps no state.
* Failing handlers (a panic in a request) beyond what `Validate` excludes.
* Kubernetes, client-go's election loop, Slack, ArgoCD's client and the Go runtime
  are external; they appear as far as the code depends on them.
* Growth of `Engine.groups` and `SessionPublisher.sessions`, which are never
  pruned: there is no promise about it.

## 8. Plan

Done: all modules of section 2; every safety invariant and every action property
that a run checks is proved, and so are the steps of the refinement of `Batching`.

Next, in this order:

1. Proofs across modules: `Aggregator` as an implementation of `SessionPublisher`,
   with the batches of the engine for `Batch`, so that `RefsOwned`, `OneLiveMessage`
   and `MessageCurrent` are theorems about the aggregator, the last two for sessions
   that are not in `overlapped`; `CoreProcess` over `Engine` in place of `Batching`.
2. `Delivery`: `SessionPublisher` on `SlackBackend` through `BackendRegistry`, with
   messages that disappear from the channel, so that retries, timeouts and kept
   references are checked together. Abstract promise: one message per session
   and destination, or an error reported.
