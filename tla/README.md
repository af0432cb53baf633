# A TLA+ model of the multi-tenant messaging service

This directory specifies the service in TLA+, checks it
with TLC on small instances and proves its safety properties with TLAPS for every
instance. `PROJECT.json` lists the runs, the source lines each definition
models, the hazards of the code, and the places where comments or documents say
one thing and the code does another.

## The system

| Component | State | Operations | Met by |
|---|---|---|---|
| Worker pool (`internal/tenant/worker_pool.go`) | worker count, buffered channel, done channel, WaitGroup, worker goroutines; rows of `messages` and `dead_letter_messages` | NewWorkerPool/Start, Resize, Submit, Stop, the workers' loop with retry and dead-lettering | consumer goroutine (Submit), HTTP requests (Resize), one stopper (Stop) |
| Tenant consumer (`manager.go`: consumeMessages, processMessage) | AMQP channel, deliveries, Done | consume, parse, submit, ack or nack | broker, pool, StopConsumer |
| Tenant manager (`manager.go`) | map of consumers | SpawnConsumer, StopConsumer, UpdateConcurrency, ShutdownAll, PublishMessage | HTTP requests, main |
| Tenant API (`routes/tenant.go`, `handler/tenant_handler.go`, `service/tenant_service.go`) | table `tenants` | create, delete, update of concurrency, get, list by offset | clients; calls the manager after the table |
| Message API (`handler/message_handler.go`, `service/tenant_service.go`) | table `messages` | create, list with a cursor, get | clients |
| RabbitMQ connection and publisher (`internal/rabbitmq`) | current connection, cached channel, closed flag, one watcher goroutine per dial | Connect, Channel, NewChannel, Close, handleReconnect, Publish, PublishBatch | main, publishers |
| Tenant queues at the broker (`manager.go`, `connection.go`: declare and delete) | main queue with its TTL, dead letter exchange, queue and binding | declareTenantQueues, DeclareTenantQueue, DeleteTenantQueue(s) | SpawnConsumer; the broker, which keeps them |
| Authentication (`auth_handler.go`, `auth_service.go`, `user_repository.go`, `middleware/jwt.go`) | table `users`, tokens held by clients | Register, Login, the middleware of every protected route | clients; the foreign key to `tenants` |
| Configuration (`internal/config`) | the values read at start | Load | main, which hands them to the manager |
| main (`cmd/api/main.go`) | | start-up, SIGTERM, shutdown | |
| Metrics, swagger | see `PROJECT.json` | | |

A message travels from a publisher to the tenant's queue, from the broker to
the consumer goroutine, which acknowledges it as soon as the pool has queued
it, and to a worker, which records it in `messages` and retries it with
backoff. What is hard here: the pool is resized and stopped by other goroutines
than those that feed it; a stop does not wait for the consumer goroutine; the
table and the manager's map are changed by separate steps of overlapping
requests; acknowledgement comes before processing; connections are lost and
re-dialled by several goroutines; the list's cursor is coarser than the times
it stands for; a registration and a login are several statements; the queues of
a tenant are declared in four frames and outlive the process that declared them;
configuration values reach `make`, `time.Duration`, `int32` and the broker
unchecked; messages are transient and published without confirmation.

What makes each part correct, in one line: the pool takes an item over once,
settles it once and stops when its workers have; a delivery has one owner and
is settled once; a consumer is stopped once and only by who took it from the
map; table and pool agree when nothing is in flight; paging neither repeats nor
loops and misses only what the cursor cannot tell apart; the connection in use
is watched, or about to be, and Close is final; one registration of a name stands and a token
says what the table says, for as long as it should; a main queue never exists
without its dead letter path; a consumer in the map has workers.

## Modules

| Module | Models | Composition |
|---|---|---|
| `WorkerPool` | the pool and its two tables | instantiates `PoolContract` |
| `PoolContract` | what the pool promises its consumer | abstract specification |
| `TenantConsumer` | one tenant's consumer, its queue at the broker, the stop sequence, channel loss, crash | extends `WorkerPool` |
| `TenantLifecycle` | requests, table, map, shutdown, restart | abstracts a pool to its worker count and its Stop to one call that may panic |
| `Pagination` | listing messages by cursor and tenants by offset while rows come and go | |
| `HttpApi` | accounts, tokens, the middleware, storing and reading messages, reading a tenant | takes the deletion of a tenant from `TenantLifecycle` as one step |
| `Provisioning` | configuration, start-up, the tenant's queues frame by frame, the making of the pool | opens up what `TenantLifecycle` takes as one `SpawnConsumer` |
| `Connection` | the AMQP connection wrapper, its watchers, its callers, the publisher | |
| `WorkerPoolProofs`, `PoolContractProofs` | theorems about `WorkerPool` | the second extends the first |
| `TenantConsumerProofs` | theorems about `TenantConsumer` | extends `PoolContractProofs`: the pool's theorems carried over to the composition |
| `TenantLifecycleProofs`, `PaginationProofs`, `HttpApiProofs`, `ProvisioningProofs`, `ConnectionProofs` | theorems about the module of that name | |
| `MC...` | instances for TLC | |

Operators that a module defines next to the one the specification uses, such
as `TakePeek` next to `Take` or `AddedOnce` next to `Added`, are deliberate
errors: variants a slip in the code would give. Nothing uses them; substituted
for their neighbour they must break the property `PROJECT.json` pairs them
with.

### WorkerPool

A worker goroutine is a number in `1..MaxGoroutines` with a control point `pc`,
the `item` it holds and the `attempt` of its retry loop. Steps are cut where
goroutines can interleave: one step per select, statement or sleep. `Resize` is
one step under the mutex. `Stop` and workers that
leave do not take the mutex and may come between two turns of its loop; the
outcomes of `Stop` are those of the one-step `Resize`: it returns when the count is
zero, or panics because the count went up again before it looked. `Stop` is three (`StopClose`, `StopWait`,
`StopReturn`): the wake-up of `wg.Wait` and its second look at the counter are
apart, since `sync.WaitGroup` panics when it was reused in between.
`SubmitAccept` and `SubmitRefuse` are the cases of one select, both possible when
the pool is closed and has room. A failed statement may or may not have taken
effect (`Handle`, `Update`, `MarkFailed`). `LocalRetryCount` is the count in the
copy of the item that `processWithRetry` works on, `RetryHeader` the one the
item came with, which is what `processWork` looks at. `outcome` and `calls` are
history.

Bounds: `MaxGoroutines`, `MaxResizes`, the set of items. Two workers, three items
over a queue of two, and two resizes give a full queue, duplicate deliveries,
a Resize during Stop and a retry on each path. Backoff times are not modelled.

### TenantConsumer

Adds the broker's place of each message (`loc`), the client library's delivery
buffer (`inbox`), the consumer goroutine (`cpc`, `cur`) and the stop sequence.
Deliveries are pushed without limit because the code sets no prefetch count.
`ChannelLost` and `Crash` are external. After a lost channel nothing re-opens it, and
the model stops delivering. The configurations keep one message id, no retry
and one resize so that the interleavings of broker, goroutine, pool and stop
can be enumerated; the safety run uses the symmetry of the items, which is
sound because no item is distinguished there.

### TenantLifecycle

A request is a process that runs one of three routes in the steps the code
takes: the statement on `tenants`, then the manager's calls. `SpawnConsumer` is one step
under `m.mu`; `StopConsumer` is three because it lets go of the lock before it
closes Done and stops the pool; `UpdateConcurrency` looks the consumer up
and resizes it in two. A pool that is resized upward after its Done was closed is
`racing`: its Stop may panic (`WorkerPool`'s stop state `panicked` seen from
outside), which the recover middleware turns into a 500, and which ends
the process in a goroutine of ShutdownAll. `disturbed` marks tenants with
overlapping or half-failed writes, for which the code cannot keep table and
pool together. `MaxWorkers` and `DefaultWorkers` are assumed positive, which `config.go` does not
enforce; what other values do to SpawnConsumer is in `Provisioning`. Five requests
on two tenants, one restart.

### Pagination

`list` says which of the two lists the client pages through. Time is counted in
ticks, two to a second; an INSERT becomes visible up to `CommitLag` after the
`NOW()` it carries. `Truncate` is what parsing and formatting with RFC 3339 do to a
time. `garbled` cursors do not parse when they come back (the `+` of a time zone
that was not escaped in the URL): the service takes them for none, and the client
begins again, for ever if it follows `has_more`. `Pages` gives every answer
that `ORDER BY created_at DESC LIMIT n OFFSET k` allows: the order of rows with one
`created_at` is open. The client moves the offset by what it got and stops at an
empty page. The tenant filter is left out: it restricts both sides of every
comparison alike. A failed query changes nothing and is left out. The model
stops when the client is done. Three rows over three seconds, limits below and
above the cap of two: the first page, a middle one and a last one exist, with a
boundary inside a second and between two.

### HttpApi

A request is a process with a control point, cut where another can come
between: lookup and INSERT of a registration, row and token of a login, check
and handler behind the middleware. Fiber registers the middleware of the tenant
and of the message routes under the same prefix, so that a request for messages
is checked twice (`recheck`). `GetByUsername` has three results: a row whose `tenant_id` is
NULL cannot be scanned into the Go string and is neither found nor missing.
`OrphanedUsers` is the table's ON DELETE SET NULL. `partitioned` are the tenants
with a partition of `messages`: the trigger of migration 003 is a row trigger,
which PostgreSQL runs in the partition the row was routed to, so it makes none,
and an INSERT for a tenant without one fails. Passwords are compared as values, and
a token is its claims: `NoToken` stands for any header that does not verify. An
INSERT that fails may have taken effect. `issued`, `at`, `known` and `hit` are
history. Three requests give two registrations of one name with a login behind
them, or a login and two uses of its token; one name, one tenant, one message
and two passwords suffice since requests for different ones do not meet. Expiry
is a second and a half, so that cutting it matters.

### Provisioning

The process loads an environment, starts up step by step (each step may end it) and
serves; it may end at any time, while the broker keeps what was declared. Two callers
send the frames of a declaration or of a deletion, one per step. `SendFails` ends a
call at any frame, with or without the frame's effect: an error, a refusal, a
lost connection. `Accepts` and `Apply` are the broker. SpawnConsumer holds the
manager's mutex over all of it and then makes the pool, where `make` panics for a
capacity below 0 or above `MaxCap`; the unlock is deferred.

Integers keep their width. `MESSAGE_TTL_MS` becomes a `Duration` of nanoseconds
(`config.go:94`, `LongWidth` = 64 bits) and, cut to whole milliseconds, an `int32`
(`manager.go:262`, `Width` bits); `workers*10` wraps too (`PoolCap`). `Exact` are the values that
survive both. The instance has 6 and 3 bits and three nanoseconds to the millisecond:
5 turns negative as int32 and 9 comes round to 1; as Durations -20 and -21 wrap above 0 and 20 below;
a maximum of -4 wraps to a capacity that `make` takes. Other environments have unset,
unreadable, zero and negative values. `declaredAs` remembers what the processes that declared the
present queue were configured with.

`PublishMessage` returns when the frames are written. They reach the broker
(`Route`) or are lost with the connection (`FramesLost`), and the caller is told the same: there
is no confirmation, and the error of the deferred Close is dropped. Queues and
exchanges are durable, messages are not: `BrokerRestarts` loses those in a queue.

One tenant stands for all: names of different tenants differ. `DeclareTenantQueue`,
`DeleteTenantQueue` and `DeleteTenantQueues` are exported and not called by the
program; `overlapped` marks behaviours in which a deletion and a declaration ran
together. Two starts, three calls: a declaration cut off, a deletion, and a
declaration over what was left, by the same or another process with another TTL.

### Connection

Connections are numbered in dialling order, and the k-th dial starts watcher k,
which registers with whatever connection is current when it gets to run.
`spinning` is the watcher's loop reading nil from a closed channel. `stuck` is
the mutex held for ever by a `Channel` that waits for itself. `PublishBatch`
sends inside a transaction: the broker takes what was sent at the commit. A
channel or connection that ends during the commit leaves open whether it was carried out,
and a broker that fails then may have carried it out in part (`cut`), since RabbitMQ
promises no more. The broker may close a channel on a connection that lives.
`Publish` returns once the frames are written, without a confirmation. A `Publisher`
begins once main has connected; `Channel` may be called from the start, the case
its own nil check provides for. No code of the repository calls `Channel` or builds a
`Publisher` at present: these findings concern the package's promise.
Two losses, four connections, batches of two.

## Runs

Passing:

| Run | Shows |
|---|---|
| `pool` | no item lost or held twice, exact WaitGroup, retry budget, right record in the table, and the pool implements `PoolContract` with its fairness: accepted items are settled, Stop ends |
| `consumer_safety` | every delivery tracked and settled once, one owner per message, bounded loss in a crash |
| `consumer_live` | the requeue loop of a full pool ends; a stop gives back what is unsettled |
| `lifecycle` | Done closed once, the map offers running consumers only, 204 means gone, 201 means served, table and pool agree; requests are answered, shutdown ends |
| `paging` | messages: no repeats, misses only within a second of a cursor; tenants: an offset drifts only with a deletion (misses) or a creation (repeats); termination |
| `connection` | the current connection is watched or a watcher has yet to register (a loss before that goes unnoticed: `connection_reconnect`), Close is final, batches are atomic unless the broker fails during the commit, watchers end |
| `http_api` | one registration of a name stands; tokens say what the table says; nobody is let in after JWT_EXPIRY nor refused more than a second early; who registered can log in, but for a failed statement or a deleted tenant; what was stored is found |
| `provisioning` | the main queue has its dead letter path wherever calls are cut off; what reaches the broker after a declaration is not discarded there, which says nothing of messages lost on the way or in a restart; the TTL is as configured or refused, for values that do not wrap; a consumer has workers; an error or panic frees the mutex |

Runs that are expected to find a violation, each a disagreement between the
code and a line of comment, test or README quoted in `PROJECT.json`:

| Run | The code |
|---|---|
| `pool_dlq` | drops an exhausted message instead of dead-lettering it |
| `consumer_drain` | drops acknowledged, queued messages on a graceful stop |
| `lifecycle_delete` | leaves a consumer when a DELETE overtakes the create's spawn |
| `connection_reconnect` | gives up after one attempt, or spins |

Further disagreements that the models contain and that no run is spent on,
because they follow from a line or two of the code:

- A shrinking `Resize` ends no worker ("Remove workers by signaling",
  `worker_pool.go:89`): it only stores the count. The surplus runs until Stop.
- `ShutdownAll` comes before `app.Shutdown` (`main.go:148-154`; the repository's
  README lists the opposite order at 281-282): a tenant created in between is
  not stopped. `ExitMissesOnlyLateSpawns` says that nothing else is missed.
- A restart spawns no consumers for existing tenants (`main.go:81`);
  `CreatedIsServed` excepts them.
- Two overlapping updates answered 200 can leave table and pool apart
  (`routes/tenant.go:94-101`); `PoolMatchesRow` excepts overlapping writes.
- The manager stays on the connection of start-up (`main.go:82`) after a
  reconnection.
- `Channel` calls `Connect` with the mutex held (`connection.go:68-72`) and waits
  for itself; `WatchersEnd` excepts that case.
- A `NewChannel` that saw a lost connection dials even if a watcher has dialled
  meanwhile; the connection that is overwritten (`connection.go:49`) is never
  closed.
- `Stop` can panic (`worker_pool.go:107` "gracefully shuts down the worker pool"): a
  `Resize` that grows the pool (`worker_pool.go:83`) between the last worker's exit
  and the return of `wg.Wait` reuses the WaitGroup. `stop = "panicked"` in `WorkerPool`.
- `next_cursor` drops the fraction of the second (`tenant_service.go:354`), and the
  next page asks for times strictly before it: messages in the second of a
  page's last one are skipped, although `integration_test.go:314` takes messages
  10 ms apart to have "different timestamps". `MissedShareSecond` says that nothing else is.
- `POST /messages` ("Publish a message to a tenant's queue", `message_handler.go:29-30`)
  stores a row at `pending` and publishes nothing; nothing calls `PublishMessage`.
- Nothing makes the partitions of `messages` (README.md:240 "Auto-partition
  trigger"): see `partitioned` above. Until someone makes one, `POST /messages`
  answers 500 and a worker's upsert fails through all its retries.
- A registration without `tenant_id`, which the request type marks `omitempty`,
  always answers 500: the empty string is no UUID.
- Users of a deleted tenant get 500 at every login, and registering their name
  again answers 500 rather than 409 (`user_repository.go:64`); `KnownIsServed` excepts them.
- `DEFAULT_WORKERS` (README.md:208) never takes effect: CreateTenant stores 1 to 50 and
  SpawnConsumer is only called with what it stored.
- `MAX_WORKERS` of 0 gives an unbuffered pool of one worker, below 0 a panic in
  `make`, unless the product wraps to a capacity. A TTL of 2^31 ms or more is
  refused by the broker or comes round; beyond about 9.2e12 ms either way the
  `Duration` wraps first, so that -9223372036855 gives a TTL.
- The integration test's schema deletes a tenant's messages with it; the
  migrations keep them, readable (`KnownIsServed`).

Deadlock checking is off: every instance is finite in work and may come to
rest.

Fairness is weak and only on goroutines that are running: a worker that can
step steps, a Stop or a handler that began goes on, the broker delivers and, in
`Connection`, comes back. Go's scheduler is preemptive and its select picks
among ready cases at random. Nobody is obliged to submit, resize, stop, publish
or fail. In `TenantLifecycle` the fairness of a handler includes the return of the pool's
Stop, which `ImplementsContract` of `pool` establishes. In `Pagination` the client
asks on. `HttpApi` and `Provisioning` state safety only.

## Proofs

Every invariant that a run checks is also a theorem, for every value of the
constants that satisfies the module's assumptions. Each proof has the same
shape: an inductive invariant, a lemma per action or group of actions that keeps it, and
theorems that read the properties off it. Each inductive invariant was checked
by TLC on the instance of the module's run before it was proved. What follows says
why the invariant has to be stronger than the properties.

- `WorkerPoolProofs`: `TypeCorrect`, `WaitGroupCounts`, `Provisioned`, `StopQuiet`.
  `PoolInv` adds to `TypeOK`: goroutines are started in
  numerical order (`SpawnedInOrder`), so that those a Resize starts are fresh; a
  worker past its select holds an item (`BusyHoldsItem`) and one that sleeps has
  a retry left (`SleepHasRetry`), which the types of `item` and `attempt` need; no
  worker leaves before Stop (`NoneLeftEarly`) and the stored count is covered by the
  started ones (`CountCovered`), which gives `NeverUnderProvisioned`; and
  `WaitGroupExact`, whose step for Resize and Exit rests on cardinality lemmas
  over `Live`. `StopReturnsQuiet` follows from `WaitGroupExact`: Wait returns at zero;
  being proved for every instance, it has no run.
- `PoolContractProofs`: `ItemsHeldOnce`, `ContractKept`, `RetryBudgetKept`,
  `CompletionRecorded`. `HandoverInv` adds
  `ItemHeldOnce` to `PoolInv`; `ItemSteps` reduces a step of the pool to one of
  the things it can do to items. With it every step maps to a step of
  `PoolContract` or to a stutter, so `Spec` implies the contract's `SafeSpec`.
  `RetryInv` adds how many calls of handleMessage an item has had at each control point
  of its worker (`CallsCounted`, none while it is new or queued) and what the row has once
  the upsert succeeded (`UpsertRecorded`). The argument is locality: `Alone` says
  that no other worker and no queue slot has a busy worker's item, `OwnStep` that such a
  step touches that item and its message only, and a message delivered once has
  no other item.
- `TenantConsumerProofs`: `ConsumerTypes`, `DeliveriesTracked`, `OneOwner`,
  `LossIsBounded`, `ConsumerKeepsContract`, `PoolPromisesKept`. `UnackedTracked` and `SingleOwner` say
  something only while the channel is open, but the goroutine works on after it is
  gone; `DeliveryInv` therefore says of the buffer and of the delivery in hand, open or
  not, that they are distinct and not yet with the pool (`ClientInv`). That makes
  every Submit one of an item the pool does not have, so each step of the
  composition is a step of `WorkerPool`'s `Next` or leaves the pool alone (`PoolStep`),
  and the pool's lemmas carry over: the composition implements `PoolContract`'s
  `SafeSpec` and keeps the pool's promises. The bound on the loss comes from
  `Accounted`: what is at risk is the image of the queue's slots and of the busy
  workers.
- `TenantLifecycleProofs`: `LifecycleTypes`, `DoneClosedAtMostOnce`, `DeletedForGood`,
  `CreatedServed`, `PoolsMatchRows`, `ExitStopsTheRest`. `LifeInv` says
  which route a control point belongs to (`RequestInv`), that a row is only written
  after its create and for good gone after a delete (`RowInv`), that a consumer
  exists exactly when its create was answered 201 (`SpawnInv`), that one that is not
  stopped is in the map, in ShutdownAll's batch or with one delete, never
  in two of them (`HolderInv`, from which Done is closed once), and that of an undisturbed tenant at most one
  request carries a value to the pool, the row's (`ValueInv`).
- `PaginationProofs`: `PaginationTypes`, `NothingListedTwice`, `OnlySecondsMissed`,
  `OffsetDriftBounded`. For messages: all that is listed lies at or after the cursor
  (`CursorInv`), and what is not yet listed is near a cursor or before the current
  one (`PendingInv`). For tenants the invariant counts: `Rank` of a tenant is the
  number of rows before it, unlisted tenants have a rank of at least the offset
  (`AheadInv`) and listed ones below it (`BehindInv`). The lemmas give the extremes
  of a finite page and the cardinality of the rows before it.
- `HttpApiProofs`: `ApiTypes`, `RegistrationsStand`, `TokensVouch`, `ServedInTime`,
  `KnownServed`. `ApiInv` needs that the row a login has read still tells password
  and role while the tenant may be gone (`RowRead`), that a token's expiry is what its
  login's clock gave (`TokensDated`), the foreign key (`TenantExists`), and
  that what was known when a request arrived is known still (`KnownStays`).
- `ProvisioningProofs`: `ProvisioningTypes`, `DeadLettersHaveAHome`,
  `ArrivalsNotDiscarded`, `QueueTTLs`. `ProvInv` says what a call may have left to
  send (`CallsOK`), that what the next frame builds on is there and what it takes
  away nobody builds on (`InOrder`), that a ready queue stands (`QueueStands`), and that a queue that is not there has no
  declarations (`NoneDeclared`). The TTL goes through `WrappedFacts` and `WholeMilliseconds`: wrapping
  is the identity in range, and a whole number of milliseconds divides without a rest.
- `ConnectionProofs`: `ConnectionTypes`, `Watched`, `StaysClosed`, `AllOrNothing`.
  `ConnInv` adds that nobody serves before main has connected, that only main's last
  step closes, and how far a transaction is at each control point
  (`TxProgress`).

The assumptions on the constants are named in the modules that declare them and
are evaluated by TLC in every run. Beyond types they say that placeholders
(`NoItem`, `None`, `Absent`, `Null`) are not values, that tables and limits are
finite or positive where the code makes them so, that one create names a tenant
(its id is a fresh UUID), that `processMessage` submits with a retry count of 0, and, in
`RangeAssumption`, that 2^(Width - 1) and 2^(LongWidth - 1) are positive numbers, which
the provers cannot compute.

Only model-checked, because fairness and `ENABLED` are outside the prover's
reach: `ReadyIsConsumed`, `StopReleases`, `RequestsAnswered`, `ShutdownEnds`, `PagingEnds`,
`WatchersEnd`, and the fairness of `PoolContract` in `ImplementsContract` (its
safety part is `ContractKept`). The four expected violations are
counterexamples and have no theorem.

## Not modelled

Metrics (counters that nothing increments), swagger, the handlers of `tenant_handler.go`
that the router does not register, `encodeCursor`, `decodeCursor`, `GetByID`,
`GenerateToken` and the getters, which nothing calls; response bodies, hashing and
signing, time-outs as durations, prefetching. A negative `MAX_RETRY_COUNT`, which
nothing refuses, is excluded by `PoolAssumption`: every message would go to the
dead letters unprocessed.

## Plan

1. Done: all modules of the table above, their runs, and a theorem for every
   invariant of a passing run.
2. Next: what the theorems leave to the liveness runs as step properties (what a
   step of each component may never undo), and the link between `TenantLifecycle`'s
   one-step `SpawnConsumer` and `Provisioning`'s frames.
