# SnapMeter in TLA+

SnapMeter counts what happens on the Farcaster networks Snapchain and
Hypersnap. A collector process follows every shard of a node, keeps its
aggregates in SQLite and posts signed batches to a Cloudflare Worker, which
stores them in D1 and fans live pulses out to browsers over WebSockets. These
modules model the parts of it where order, failure and concurrency matter.

## The system

| Component | Source | State it keeps | Operations | Hard behaviour |
|---|---|---|---|---|
| Process lock | `apps/collector/src/lock.ts` | the lock file | acquire, release | two processes starting, crash leftovers |
| Collector database | `database.ts` | schema version, identity, key, events seen, buckets, cursors, outbox | open, migrate, `recordEvent`, `checkpointCursor`, cleanup | processes that die in a migration, idempotence, rows that expire at different times |
| Shard worker, reconciliation | `collector.ts`, `reconcile.ts` | `highestSeen`, the page walk, the subscription | subscribe, replay, tail, reconcile, backfill, stop | replay racing live delivery, lossy streams, handlers that throw, crashes between two transactions |
| Transports | `hypersnap-http-rpc.ts`, `rpc.ts`, `packages/protocol/src/rpc.ts` | subscriptions, poll position, timestamp cache, request gate | get an event, page, subscribe, cancel, close | answers after a cancel, lagging backends, page borders, a gate shared by all |
| Endpoint failover | `collector.ts` | role, session, failure counters | `#runSource`, `#runSourceSession` | a switch while workers are running, shard sets that change |
| Outbox and dispatcher | `delivery.ts` | due rows, backoff | `enqueueIngestBatch`, `drainOnce` | timeouts with the request still running, capacity |
| Ingest Worker and D1 | `dashboard/worker/index.ts`, `repository.ts` | ledger, minutes, members, daily rows, snapshots, rate windows | `handleIngest`, `persistBatch`, `runScheduled` | concurrent duplicates, errors after a commit, batches out of order, refunds |
| Live delivery outbox | the same files | publication leases | `pendingLiveDeliveries`, `drainLiveDeliveryOutbox` | two drains, a lease that outlives its drain |
| LiveRoom | `dashboard/worker/live-room.ts` | delivery claims, sequence, admissions, pending pulses | publish, coalesce, admit, hydrate, upgrade | a crash between claim and completion, duplicates |
| Browser live hook | `dashboard/src/hooks/useLiveMetrics.ts` | the socket, the timer, delivery ids seen | summary, connect, message, reconnect | answers of an earlier effect, old sockets' events |
| Farcaster mini app | `dashboard/src/farcaster/` | the host value, the SDK's ready attempt and token | detect, ready, sign in | an effect that runs again while the host has not answered |

Interaction: the lock guards a data directory; the shard workers read a node
through one of the two transports and write the database; the dispatcher reads
it and calls the Worker; the Worker stores the batch with a row of the live
outbox and drains that outbox into the LiveRoom; the LiveRoom sends to
browsers. The failover loop starts, aborts and awaits shard workers. The
remaining parts are stateless or pure I/O; `PROJECT.json` lists all of them.

What makes each part correct: one collector owns a data directory, and a
database is never half migrated; the worker's cursor passes no event of the
retention period that is not incorporated, an event counts once, and a history is called complete only
if it is; a transport hands over what the node has without gap or repetition;
a failover neither drops a shard's history nor reports coverage that is not
there; what is marked as queued is never lost, and D1 neither runs ahead nor
back; one drain at a time publishes a row and forgets only what was delivered; a
browser has one connection, shows a delivery once and misses none.

## Modules

| Module | Models | State | Actions |
|---|---|---|---|
| `ProcessLock` | `acquireProcessLock`, `release` | the lock file and its content, each process' place | one per file system call |
| `Opening` | the constructor of `CollectorDatabase`, `#migrate` | the committed database, the writer's transaction, each opener's place | open, begin, DDL, record the version, commit, identity, key, refuse, die |
| `History` | `recordEvent`, `recordHistoryCoverage`, `cleanup`, `historyComplete`, `verifyCursorContinuity`, `backfill`, by days | stored actions, duplicate rows, buckets, coverage, cursors, the health row | start, open a session, connect, read, reconcile, discover, lose, retain, backfill, end, next day |
| `ReplayLog` | what the database promises of one shard | events seen, tally, cursor | produce, incorporate |
| `ShardSync` | `#runShard`, `#reconcileFixed`, `#handleEvent`, `reconcileEvents`, `recordEvent`, `checkpointCursor`, `backfill` | the rows of one shard, `highestSeen`, the page walk, the stream | one per callback or await of the worker; a crash between any two |
| `Subscription` | what a worker may rely on from an `RpcSubscription` | `ready`, whether it ended, reports, events taken | deliver, end, close |
| `HypersnapHttp` | `HypersnapHttpRpc`, its request gate | jobs (subscriptions and walks), gate queue, timestamp cache | ask, pass the gate, answers of every kind, emit, advance, poll, cancel, close |
| `HubStream` | `observeSubscriptionStream` | what the stream emitted, the settled flags | data, error, end, close, cancel |
| `Failover` | `#runSource`, `#runSourceSession`, `#openEndpoint`, `sourceStatus` | endpoints, enrollments, counters, workers, coverage, the published status | open, reject, discover, probe, leave, close; ready, catch up, fail, retry, end |
| `Replica` | what delivery promises of D1 | the two copies of minutes and members | count, catch up |
| `Delivery` | `enqueueIngestBatch`, `drainOnce`, `handleIngest`, `persistBatch`, rate windows, crons | pending rows, outbox, the payload frozen in each batch, every request's place in the handler, the D1 tables | one per await of the dispatcher and of the handler |
| `LiveOutbox` | `pendingLiveDeliveries`, `drainLiveDeliveryOutbox`, `publishAcceptedBatch` | rows, leases, each drain's claimed rows, what the room knows | select, claim, publish a part, mark, release, each with its failure |
| `LiveRoom` | the Durable Object and the page's message handler | claims, sequence in memory and in storage, the packet being coalesced, admissions, envelopes, what a browser has seen | publish, flush, complete, lapse, crash, hibernate; admit, hydrate, upgrade; receive |
| `Browser` | `useLiveMetrics`'s connection | online, pending summaries, the timer, sockets, `transport` | answer, open, break, close, online, offline, retry, unmount |
| `MiniApp` | `MiniAppProvider`, `miniAppRuntime` | runs of the effect and what each waits for, the page's value, each SDK's ready call, token and sign ins | one per answer of the host and per deadline; run again, unmount |

Three abstract specifications are implemented: `ReplayLog` by `ShardSync`,
`Replica` by `Delivery`, and `Subscription` by both transports. The refinement
mappings are `ImplementsReplayLog`, `ImplementsReplica`,
`ImplementsSubscription` and `StreamImplementsSubscription`.

`MC*` modules give the constants their values. Four of them put modules of one
neighbourhood into one instance: a behaviour of `MCStore`, `MCTransport` or
`MCDashboard` picks a part in its initial state (`focus`, `transport`) and leaves
the variables of the others alone; a behaviour of `MCShardSync` and
`MCDelivery` picks a kind of trouble (`kind`). That keeps each part's
state space its own: the parts are not interleaved with each other. `*Proofs`
modules hold the proofs. `Mutant` definitions change one definition the way a
bug in the code would; no specification uses them, they document what each
property catches.

How the models correspond to the code:

- *One step is what nothing can interrupt.* In the collector, the Worker and
  the page a step is the code between two awaits; in SQLite and D1 one
  transaction or batch is atomic; the Durable Object gets no other event while
  it awaits its storage. Lock operations are single file system calls.
- *Event ids are ranks.* An event id orders the events of a shard, and nothing
  else about it matters in `ShardSync`, except whether it is dated before the
  retention cutoff (`Old`): such an event is dropped (`collector.ts:643`). In
  `HypersnapHttp` an id is a block number and a position, as the timestamp cache
  is kept by block.
- *Histories* (`openHead`, `pulses`, `aired`, `owed`, `sent`, `readied`,
  `dropped`, `evicted`) record what properties speak of and influence nothing,
  except `sent`, which is the payload that the code freezes in the outbox row.
- *`History`* is at the grain of days: every shard emits an event a day, a
  replay takes less than one, a message may be dated a day ahead (`Ahead`), and
  the node forgets its oldest events. A bucket covers `Bucket` of these grains,
  as a minute covers many instants: cleanup deletes actions by the cutoff itself
  and buckets by the cutoff's bucket. `ShardSync` is the inside of its reads.
- *`Opening`* keeps of a database what a migration leaves: its recorded
  versions, its tables, the key, the collector id. `status` opens without the
  process lock, so openers overlap.
- *`HypersnapHttp`* abstracts the fields of a message to whether the client
  accepts it, and keeps of an event the timestamp, which may be missing, and
  of a confirmation its body, whose timestamp may be missing too. Answers come
  from a fleet of backends and may lag, fail or be corrupt in one of the ways the
  client looks for, or in that way, which it accepts.
- *`Failover`* runs one source: a Hypersnap source, which enrolls its endpoints
  and has a fallback, or a Snapchain source, which has neither. A worker is
  subscribing, replaying, live or backing off. Time is counted in rounds of
  discovery. An endpoint is healthy, failing (answers GetInfo only), silent
  (subscriptions neither deliver nor fail), down, or drifted (another identity).
  Histories are taken as complete in the status; `History` is about that. A
  restart finds the status as the process left it. A discovery starts and aborts
  workers before it looks at the coverage, whether or not it then gives up.
- *`Delivery`* covers one source and one UTC day; `now = MaxMinute + 2` stands
  for a time when the day is older than yesterday. A request holds a charge of
  the current rate window (`held`) until it is refunded or the window ends. The
  single collector makes the collector binding trivial. `Expire` may delete any
  ledger row that no request carries, which is more than the cron does.
- *`LiveOutbox`* takes a room that processes, delivers or loses its answer;
  `LiveRoom` is its inside, and takes any publication in any order. `Kinds` says
  which parts the batches of an instance have, in the code's order. The pulses
  of a batch are published at once (`Promise.all`, `index.ts:336`) and make one
  part. A drain that gives up may leave calls under way (`sent`), which arrive
  after its row is released, or never.
- *`Browser`* does not tell which effect a summary request or a timer belongs
  to, since refs are shared and it makes no difference.
- *`ProcessLock`*: pids are not reused.

## Runs

| Run | Question | Bounds |
|---|---|---|
| `shard` | is the cursor safe, counting exact, no pulse repeated or made of backlog; does the worker implement `ReplayLog`; with polling, is every event verified in the end | 5 events (4 with polling), the first too old, pages of 2, a throwing handler, a failed request, 2 stops, a backfill |
| `delivery` | is nothing queued lost, does D1 never run ahead or back, are refunds one's own | retries: one minute, 2 actions, 2 requests, 2 faults, a crash, an expiry; order: 2 minutes, batches of one bucket, 2 snapshots |
| `delivery_live` | is everything delivered in the end | outbox of 1 row, rate limit 1, a fault, a crash, an expiry |
| `store` | one owner of the data directory, whole migrations, a kept identity; complete histories, exact buckets, no partial days | 3 processes; 2 openers, 4 migrations, 3 openings; 2 shards, 5 days, buckets of 2, a window of 1 day |
| `transport` | is the subscription contract kept, are events handed over without gap, does a block have one time, does a subscription keep up | a subscription and a walk, 5 events in 3 blocks, pages of 2, a cache of 2 blocks, 2 faults of either or one of both; a gRPC stream of 3 events |
| `failover` | coverage, honest status and kept histories, for either source | 2 shards, 1 change, 2 reshards, a restart |
| `failover_live` | switches complete, the source recovers and fails back | 1 shard, 2 changes, a restart |
| `room` | shown once, aired before done, increasing sequences, nothing dropped while nothing crashes or lapses | 2 pulses, a snapshot, 2 requests, 2 crashes, a lapse, a closed socket |
| `dashboard` | leases honoured, rows forgotten only when delivered, published in the end; one socket, which recovers; the mini app shows its own run, asks once and decides | 2 valid rows and an invalid one, 2 drains, `Limit` 2, a failure while two rows are stored or none is stale, or two with a single valid row; 8 sockets, 3 requests, 3 troubles; 3 runs, an expiry |
| `lock_race` | exclusion when two collectors start at once. Violated | 3 processes |
| `history_gap` | a complete history with a node that forgets what was not read. Violated | 1 shard, 5 days |
| `failover_silent` | do switches complete with a silent endpoint? Violated | 1 shard, 1 change |

Why the bounds are enough: the hazards need two of a thing (two requests for a
batch, two drains, two pulses in a packet, two shards, two processes, two runs
of an effect) and one or two failures between them. Pages of 2 events make
full, partial and empty pages, and a page whose end is the bound; a cache of two
blocks for three is evicted. A rate limit and an outbox of one row make both
overflow. A retention of two days over five lets actions, buckets and duplicate
rows expire at their different times, and cutoffs fall on a bucket's border and
inside one. Two discoveries are the least count that
a success can reset. Eight sockets are more than three troubles can use up, so
that the page never lacks one because of the bound. The proofs remove the bounds
for safety. A module's `TypeOK` documents its types; the invariants proved
contain what they need of it, and the runs spend their properties on behaviour.

`CHECK_DEADLOCK FALSE` is given where all the bounded work gets done and the
system rests, and for `failover_silent`, where it hangs. `failover_live` checks
for deadlock.

## Fairness

- `ShardSync`: the process is restarted, requests are answered or time out
  (every RPC has a deadline), timers fire, polling delivers. Handlers may throw
  a bounded number of times. With the gRPC stream nothing is promised: an event
  that a lagging receiver lost waits for a later one.
- `Delivery`: the periodic task runs each pulse interval, `BackoffElapses` and
  `NewWindow` are the clock, a handler goes on to its next await.
- `ProcessLock`: synchronous calls return.
- `HypersnapHttp`: the gate's promise chain and clock go on, requests of a
  subscription are answered, its poll timer fires.
- `Failover`: requests and timers as above, and a subscription of an endpoint
  that is not silent becomes ready or fails. The only strong fairness is that
  the preferred endpoint's probe becomes due: `nextPreferredProbeAtMs` is a
  time, so that some discovery finds it past. Endpoints owe nothing.
- `LiveOutbox`: the minute cron drains; leases end; a room that died accepts
  the delivery again when the claim has lapsed.
- `Browser`: the network answers, sockets open or close, timers fire and events
  are dispatched. The user and the network's going and coming owe nothing.
- `MiniApp`: deadlines pass. The host owes nothing.

`Opening`, `History`, `HubStream` and `LiveRoom` are checked for safety only.

## Findings

1. `lock_race`: two collectors started together may both acquire the lock: a
   file that is created but not yet written is taken for stale.
2. `failover_silent`: an endpoint whose stream stays silent is never left. The
   session awaits its workers before it closes the client, and a worker awaits
   `subscription.ready`, which settles only with the stream.
3. `history_gap`: coverage is recorded with the first event of a replay, the
   cursor with its first page. When the replay is interrupted between them and
   the node forgets the rest, no cursor tells, and a window later the history is
   called complete over a hole.

## Known divergences

The modules follow the code in more places where it does less than a document
or a reader may expect. No run refutes them; where a property would, it states
the exception, and the model reaches the state.

- *The cursor's own event.* The live callback raises `highestSeen` before it
  handles the event (`collector.ts:505`); when it throws during catch-up the
  cursor moves to an event that was not recorded, although
  `docs/architecture.md:34` has it advance only after. Inclusive replay supplies
  it later (`EventuallyVerified`), so nothing is lost.
- *Old batches.* `persistBatch` keeps the larger total of a minute and the later
  batch's counts by family (`repository.ts:78`): a batch that arrives behind a
  newer one sets `counts` back. `docs/architecture.md:90`: "Reject replay or
  idempotently return the existing result".
- *Closed days.* `daily` is recomputed for the days of a batch's actors, today
  and yesterday (`index.ts:367`); minutes that arrive later without an actor of
  their day never reach it. `docs/architecture.md:79`: "finalizes aggregates".
- *The collector id.* Two processes that open a new database together may each
  store an id (`database.ts:97`); `IdentityIsKept` asks it of a database that
  had one when nobody was opening it.
- *A shard that returns.* The worker of a shard that is no longer advertised is
  aborted and not awaited (`collector.ts:286-293`). When the shard is back
  before it ends, it deletes its successor's entry (`collector.ts:595`), and the
  shard looks unconnected until the successor reconnects.
  `ConnectedIsAccurate` therefore asks a Snapchain source, which may change its
  shards, only that nothing is connected that does not run.
- *A block that was dropped from the cache.* Timestamps of one block are
  compared only while the cache holds it (`hypersnap-http-rpc.ts:324`);
  `TimesAgree` says so.
- *A confirmation without a timestamp.* Only its body is required
  (`hypersnap-http-rpc.ts:488`, `498`); without a timestamp it teaches the cache
  nothing (`313`) and is handed over as it is (`282`), beside stamped events of
  its block. `TimesAgree` therefore says that a block has one timestamp wherever
  there is one, and that only a confirmation may lack it.
- *The cutoff's minute.* Cleanup deletes actions by the millisecond
  (`database.ts:519`) and buckets by the minute (`523`): the bucket of the
  cutoff's minute goes on counting the actions that were deleted from it until
  the next cleanup, and a backfill may count them again. `BucketsMatchActions` is exact for every later bucket and
  asks of that one only that it counts no less than is stored.
- *Coalesced repeats.* A browser drops a packet when it has seen any of its
  delivery ids (`useLiveMetrics.ts:159`); after a crash a repeated pulse may be
  coalesced with a new one, which is dropped with it, although
  `docs/metrics.md:111` has bursts "retain event count". `NothingDropped` holds
  while nothing crashed and no claim lapsed.
- *Older snapshots.* `handleLive` reads the summary before the socket is
  accepted (`index.ts:117`), two drains may publish theirs in either order
  (`index.ts:337`), and the page takes the answer of a summary request without
  comparing it (`useLiveMetrics.ts:104`): an older snapshot may replace a newer
  one until the next. Versions of snapshots are not modelled in the room.
- *Not modelled, but worth knowing.* The operating system may give a dead
  owner's pid to another process, and the lock looks held (`lock.ts:38`). The
  room compares its socket limit at admission, not at the upgrade
  (`live-room.ts:99`). When the outbox is full pulses are dropped, by design
  (`database.ts:432`).

## Proofs

Every safety property of the passing runs, and all four refinements, are
theorems, proved for every value of the constants from the assumptions that the
modules name (`ConstantsAssumption`, `HistoryConstants`, `OpeningConstants`,
`DrainsAssumption`, `MiniAppAssumption`). Hardly any of these properties is
inductive as it stands; each module strengthens them, and shows that the
strengthened invariant holds initially and that every action keeps it. The
bounds on failures, minutes, events, processes and sessions are
constants like any other, so that nothing of the argument depends on their size.
What a theorem assumes beyond that is said here.

- `StoreProofs`, the lock: for any set of processes that start one after
  another (`Overlapping = FALSE`), `SerialInv` is inductive; `Exclusive` and
  `LockKept` follow. Without that hypothesis exclusion is false (finding 1).
- `StoreProofs`, `Opening`: `OpeningInv` says that what is committed is whole
  (`Whole`), that the open transaction holds what its writer's place says
  (`Writes`), and that what a process found out stays true (`Found`): SQLite's
  one writer makes the versions read inside the transaction the committed ones.
  `WholeMigrations` and `IdentityKept` follow, for any openers and deaths.
- `ShardSyncProofs`: `IInv` is `TypeOK`, `WalkInv`, `CursorNeverSkips` and
  `CountedExactlyOnce`. `CursorNeverSkips` alone is not inductive: a checkpoint
  is sound because of what the walk has behind it, which is `WalkInv` (all ids
  below its position are incorporated or too old, and a page that ends the walk
  early reaches the bound). `Refinement`: every step is a step of `ReplayLog` or
  stutters; `StepShape` first reduces each action to what it does to the durable
  rows. `PulsesSafe` needs that an id that pulses was not counted before, and
  `BacklogIsQuiet` that a stream can deliver only what came after its worker
  subscribed (`BeyondBacklog`), or the head, which does not pulse.
- `HistoryProofs`: `BucketsCount` and `DroppedDaysStayDropped` hold for any node.
  `LiveIsComplete` assumes that the node keeps what is still to be read of a
  shard (`Forgetful = FALSE`); without it the theorem is false (finding 3).
  Its invariant `HistoryInv` says of every event in the window who has it or
  will read it: there are no holes between the events that a shard's rows and
  cursor span (`NoHoles`), what a session has passed is stored (`ReadIsKept`), what
  comes after is still at the node (`NodeHasTheRest`), a stream that is not
  replayed any more has been read up to today (`StreamsAreRead`), and a row that
  recognises a duplicate is about a stored action (`DuplicatesAreKept`).
- `TransportProofs`, `HypersnapHttp`: for any log, page size, cache and jobs.
  `NothingIsSkipped`: `HandsInv` describes, for each place of a job, how what it
  is about to ask for continues what it has handed over. `TransportKeepsContract`:
  `SubsInv` relates the settled flags to the place of the loop. `TimesAreOne`:
  the cache vouches for every timestamp that was handed over or is about to be and
  whose block it has not dropped (`Vouched`), and goes on to (`Remembers`). What the
  cache is after a page is computed by a recursive function (`After`); as
  induction is out of reach, `LearntExists` takes the least position at which it
  would fail.
- `TransportProofs`, `HubStream`: every event of a stream, in any order, is a
  step of `Subscription` or a stutter (`StreamKeepsContract`). `HubInv`: `ready`
  is settled by the first event or by the end, and only an end is reported,
  once.
- `FailoverProofs`: `SessionInv` is inductive for any finite set of shards,
  thresholds and changes of the endpoints, and gives `ConnectedIsAccurate`,
  `StatusIsHonest` and `HistoryKept`. Beyond these it needs that nothing of a
  session is left when the next one opens, that an enrolled endpoint is followed
  with the shards it is pinned to (so that it orphans no worker, which could take
  a successor's entry), and that the preferred endpoint, which a probe may enroll
  anew, is not the one that is followed then. The cardinalities that
  `sourceStatus` compares are turned into sets by `LiveMeansCovered`. The lemmas
  follow what an action does to the session (a discovery, leaving, closing, a
  step of the loop, of a worker, of an aborted worker); `NextKeeps` has a step
  for each action.
- `DeliveryProofs`: `DeliveryInv` compares four copies of the data: what was
  counted, what the marks say is queued, what a batch froze, and D1. D1 and every
  frozen batch have no more than was counted (`NeverAhead`, `Frozen`); a mark
  names a batch that carries the current count (`MarksCarry`); what the ledger
  knows, what a handler is about to acknowledge (`KnownIsApplied`) and what has
  left the outbox (`SentIsApplied`) is in D1, as such or as later counts.
  `NothingIsLost` follows, and `DeliveryRefinesReplica`: each step counts, or
  brings D1 closer, or stutters. `RefundsAreOwn`: the requests that hold a
  charge of the window are counted by it (`HoldersInv`).
- `LiveRoomProofs`: `EnvelopesInSequence`: the envelopes under way to a browser
  are ordered between what it has seen and what the room has given out
  (`Numbered`), through hibernation and crashes. `DoneWasBroadcast`: a request
  waits for a pulse that is still coalesced or was broadcast (`ClaimsAreHeld`).
  `ShownOnceOnly` assumes that a browser remembers as many ids as there are
  deliveries (`Cardinality(Deliveries) <= SeenLimit`): with fewer, a repeat after
  a crash may come when its id has been forgotten. `NothingIsDropped`, and
  `ShownOnceWhileSmooth` for any `SeenLimit`, need that while nothing crashed or
  lapsed a delivery is broadcast once and what is under way to a browser is new
  to it (`AiredOnce`, `GetsOnce`).
- `DashboardProofs`, `LiveOutbox`: for any rows, drains and failures.
  `MarkedMeansDelivered` needs that a drain has done the parts of its first row
  before the one it is at (`PartsAreDone`), which holds although it may have lost
  its lease, because the room never takes back a delivery. `LeasesAreHonoured`:
  the drains that hold a row without a live lease of it (`Over`) are no more than
  the leases that ended under their drain (`OverrunsCounted`), since a lease
  passes on only after it has ended; besides them only the lease's owner holds
  the row.
- `DashboardProofs`, `Browser`: `PageHasOneSocket`, for any number of sockets,
  requests and troubles. When the current socket closes offline nothing
  reconnects, so `OneSocket` needs that the page does not say live then
  (`LiveIsOnline`), which needs that a pending event tells what the network is
  like now.
- `DashboardProofs`, `MiniApp`: `PageShowsOwnRun` and `HostIsAskedOnce`, for any
  number of runs. The current run has not decided while it waits, has set no
  safe area before it knew the context, and found none set when it did
  (`RunsInOrder`).

Model-checked only: the liveness properties (`StaleLockIsTaken`,
`EventuallyVerified`, `EventuallyDelivered`, `SwitchCompletes`, `FailsBack`,
`KeepsRecovering`, `KeepsUp`, `EventuallyPublished`, `Recovers`, `Decides`), which
need fairness and ENABLED and are out of this prover's reach.

## Not modelled

- *Wire formats and classification*: decoding, schemas, pagination of read
  routes and the classifier are maps without state; the models take their
  results as inputs. Signatures and the collector binding are cryptography and a
  table of one row.
- *Metric formulas and freshness rules* (`packages/metrics`): pure functions of
  the stored rows and the clock, which the repository's tests compare with
  worked examples. The status that feeds them is modelled in `Failover` and
  `History`.
- *Configuration, logging, doctor, scripts, rendering*: no state that lasts.
- *Read routes, connection rates, the socket limit and the pruning alarm of the
  room*: counters whose excess is answered with an error.
- *The fingerprint of a conflicting duplicate* (`recordEvent`) and the
  coalescing windows of pulses: what they do to an event's counting is
  `ShardSync`'s; when a pulse is sent is timing.

## Where it could grow

1. `LiveOutbox` composed with `LiveRoom`: what a browser sees of an accepted
   batch, from the row to the packet, with versions of snapshots.
2. Operators for `applyFreshness`, `applyClientFreshness` and the metric
   windows, checked against one reference and for agreement.
3. Proofs across modules: that `LiveRoom` is a room as `LiveOutbox` takes it, and
   that the subscription contract suffices for `ShardSync`.
