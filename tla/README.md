# EdgeFlow: TLA+ models and proofs

EdgeFlow moves device telemetry from TCP connections to PostgreSQL. A C++
gateway parses events, queues them, batches them and hands the batches to a
sink; the HTTP sink posts each batch to a NestJS backend, which deduplicates it
with Redis and inserts it. A React dashboard reads it back, and a simulator
plays the devices. The modules here model the path an event takes from the
device to the database and back to the screen, check it with TLC on small
instances and prove the central safety properties with TLAPS for every instance.

## 1. Inventory

| Part | State | Operations | What makes it hard |
|---|---|---|---|
| Event queue, mutex (`bounded_queue.hpp`) | items, flag, sleepers | push, pop, shutdown | lost wakeups, spurious wakeups, drain at shutdown |
| Event queue, lock-free (`lock_free_bounded_queue.hpp`) | ring, two cursors, waiters, mutex | push, pop, shutdown | every atomic access interleaves; parking |
| Connections, server | pending handler per connection, event being retried | accept, read, push, retry | the queue changes between push and counter |
| Worker pool, batcher, flush thread, `main` | thread positions, buffer | worker loop, add, flush, shutdown sequence | order of the joins, three flushers of one buffer |
| HTTP sink | outbound queue, sink threads, one connection each, deadline | consume, run, send, retry, stop | timeouts against late answers, deadline against flag |
| Ingest write path | one handler per request, Redis keys, leases, rows, counters | claim, insert, commit the key, release | lost replies, lease expiry, crash, overlapping attempts |
| Sink and backend together | requests under way, counters of both sides | post, answer, retry, crash | requests handled after the sink gave up on them |
| Query path and explorer | table, cursor stack, results | page forward and back, edit the form | inserts while paging, failed navigation |
| Health endpoint and strip | polls under way, status | poll, apply | answers out of order |
| Simulator | devices per context, write in flight | connect, send, spike, stop | contexts on different threads |

Parsing, formatting, configuration, infrastructure, scripts and benchmarks hold
no state that interleaves. `PROJECT.json` lists every part with its status and
every hazard at its line.

## 2. Modules and the code they model

| Module | Models |
|---|---|
| `QueueTypes` | the two enumerations of `queue_types.hpp` |
| `EventQueue` | the contract of `queue_concept.hpp`, as an abstract specification |
| `BoundedQueue` | the mutex queue as an object: one operator per outcome of a call |
| `LockFreeQueue` | the lock-free queue, one step per access to an atomic or a slot |
| `Gateway` | connections, worker pool, batcher, flush thread and `main`, around a `BoundedQueue` |
| `HttpSink` | the HTTP sink around a second `BoundedQueue` |
| `Ingest` | controller, ingest service, idempotency service, repository, Redis, PostgreSQL |
| `Delivery` | `HttpSink` and `Ingest` composed: the sink's peer is the backend |
| `Simulator` | `simulator/src/main.cpp` and `DeviceClient` |
| `EventsExplorer` | the explorer component, the events query and the repository's read side |
| `HealthStrip` | the strip component and the health endpoint |
| `Dashboard` | the page: `EventsExplorer` and `HealthStrip` |
| `LockFreeRingProofs`, `LockFreeProofs` | proofs about `LockFreeQueue`, the second continuing the first |
| `GatewayProofs`, `HttpSinkProofs`, `IngestProofs`, `SimulatorProofs`, `DashboardProofs` | proofs about these modules |
| `DeliveryProofs` | proofs about `Delivery`, from those about its two parts |
| `MC*` | instances for TLC; the safety runs use symmetry, the liveness runs do not |

**BoundedQueue.** A call holds `mutex_` throughout and is one step. The
condition variable is two sets: consumers asleep, and consumers signalled that
have not got the mutex back. The policy is a variable chosen in the initial
state, so each run covers all three. `Gateway` and `HttpSink` instantiate it.

**Gateway.** The reactor runs one handler at a time. A handler that pushes is
two steps, up to the queue's answer and from there to the counter, because the
workers run in between. `retry_push` keeps the event in `held`. Batcher calls
hold the batcher's mutex across the sink call and are one step; whether a batch
is old enough is the clock's choice. The steps of `main` after
`io_context.run()` are the shutdown sequence in its order.

**HttpSink.** A batch is its idempotency key. A connection is the list of
requests posted on it and not answered; a response answers the oldest one. The
peer may refuse, stall, answer with any status, and close. `main` takes the
snapshot for the shutdown line once nobody flushes any more, while the sink
threads go on counting, so `SnapshotSent` and `SnapshotDropped` are the loads
before and after a step of theirs. `stop()` is one step per statement, since the
sink threads read the deadline and the flag.

**Ingest.** Each `await` is a step boundary. A lease token is the request that
drew it. Redis commands fail before or after taking effect, keys expire at any
moment, a statement commits or aborts, its reply may be lost, the module may be
destroyed and the process may crash and start again. A batch in `Large` is
inserted chunk by chunk between `BEGIN` and `COMMIT`; `rows` counts, for each
chunk of a batch, how often it is stored. `fault` is a history variable: for
each batch, the events that weaken its deduplication.

**Delivery.** A `POST` of the sink becomes a request of `Ingest`, named by its
batch and the number of the attempt. It arrives later, perhaps after the sink's timeout, or is lost with a
connection; the sink reads the answer given to the request it wrote last. A
crash loses the requests under way and leaves the sink with stale connections.
The sink runs and does not stop here; its shutdown is in `HttpSink`.

**Simulator.** A handler is taken from a context's queue in one step and
finished in another, so two threads can be seen at work at the same moment.
Completions come at any time, with success or an error. A context that has run
out of work returns and does not come back. An exception in the spike handler,
or in starting a thread, unwinds over joinable threads and ends the process.

**EventsExplorer.** A row is a timestamp and an id, which is what pages are
ordered by. Ids are drawn at the insert and rows appear at the commit, so ids
become visible out of order. The `i`-th row of a page is the one with `i - 1`
rows of the answer before it, which is what `ORDER BY` and `LIMIT` yield when
the order is total. The buttons are disabled while a query loads;
fields can be edited at any time. `walk` is a history variable: the pages from
the first one to the one on the screen, as long as all of them asked the same
question.

**HealthStrip.** Polls overlap; the two checks of `health()` are two steps,
between which the world may change, and answers are applied as they arrive.

**Dashboard.** The two components share no state, so `Dashboard` lets one of
them run, chosen in the initial state, with the other at rest. Interleaving them
would multiply the states and add no behaviour of either.

**LockFreeQueue.** Memory is sequentially consistent: slots are handed over by
release/acquire pairs and the two fences order publication against `waiters_`.
Reorderings the fences exclude are therefore not re-examined. A spurious failure
of `compare_exchange_weak` is left out, and positions do not wrap. As in the
gateway, `shutdown()` comes when no push is under way.

## 3. Runs

| Run | Shows | Bounds |
|---|---|---|
| `gateway` | `TypeOK`, `AcceptedAccounted`, `ReceivedAccounted`, `ShutdownLineTruthful`, `WrittenOnce` | 2 connections, 2 workers, capacity 2, batches of 2, 4 events, 1 malformed line |
| `gateway_progress` | `ImplementsContract`, `PartialBatchFlushed`, `ShutdownCompletes` | 1 connection, 2 workers, capacity 1, 3 events |
| `http_sink` | `TypeOK`, `BatchAccounting`, `StopCountsEverything`, `ShutdownLineShortfall`, `KeyInOnePlace`, `OwnResponse`, `DropOnlyAfterDeadline`, `StopReturns` | 2 producers, 2 sink threads, capacity 1, 1 retry, 3 batches |
| `ingest` | `TypeOK`, `CountersAddUp`, `AllOrNothing`, `AcknowledgedIsStored`, `StoredOnceWithoutFault`, `LeaseEndedByOwner` | 3 requests, a batch of two chunks, a small one and one without a valid line, 1 restart |
| `delivery` | `NothingMissing`, `ArrivalIdentity`, `EveryRequestAnswered` | 1 producer, 1 sink thread, 1 batch, 1 retry, 1 restart |
| `lock_free` | `TypeOK`, `SlotExclusive`, `TakesWhatWasPut` | 2 producers, 2 consumers, requested capacity 1, 3 items |
| `lock_free_progress` | `ImplementsContract`, `PushTerminates` | 1 producer, 2 consumers, requested capacity 1, 3 items |
| `simulator` | `TypeOK`, `NoDataRace`, `OneWriteInFlight`, `FleetStopped`, `RunEnds` | 2 threads, 2 devices, a spike of 2, 1 event per device |
| `dashboard` | `TypeOK`, `RowsShownOnce`, `NoRowSkipped`, `StackMatchesScreen`, `StatusConverges` | 3 rows, 2 timestamps, limits 1 and 2, 1 edit, 2 polls at a time |

The bounds are the smallest at which the interesting cases happen. Events
exceed the capacity, so queues fill, drop and reject, and the ring of two slots
is lapped. Two consumers make stolen wakeups possible. Three requests for one
batch are a holder, a successor after its lease, and an observer. One retry
makes a first attempt that may be repeated and a last one that may not; in
`delivery` the two attempts at the one batch are where the backend may still be
at work on the first when the second arrives. A second batch there is beyond the
size of a run; batches share only the Redis client and the counters. In
`simulator` each thread owns a device of the start and one of the spike. In
`dashboard` three rows with two timestamps make ties and pages that are full,
partly full and empty. `MaxEvents`, `MaxMalformed`, `MaxBatches`, `MaxItems`,
`MaxRestarts`, `MaxRows` and `MaxEdits` bound inputs only.

The constraint `LargeAlone` of `MCIngest` leaves out mixtures of a large batch
with others: batches share only the Redis client and the counters. Small batches,
with and without valid lines, are mixed.

`MCDelivery` compares states without `fault`, a history variable that no guard
and no property of the run reads, and that changes only together with another
variable.

A definition named after another with a suffix (`StopJoin_NoJoin`) is that
definition with a plausible defect. `PROJECT.json` pairs each property with one;
with the defect in place TLC finds the property violated.

Three runs show where a comment or the documentation and the code disagree:

* `http_sink_block`: `http_sink.hpp` says that under `Block` a full outbound
  queue makes `consume()` wait. It does not; the batch is dropped and counted.
* `lock_free_drop_oldest`: the class comment says that with one producer
  `DropOldest` never rejects. If a consumer has claimed the head slot and not
  released it, `push()` discards the next item and is rejected all the same.
* `ingest_replay`: the README says a replay with the same key stores the batch
  once. When the database connection is lost after the statement committed,
  `ingest()` releases the key and the replay stores the rows again.

Three smaller disagreements met while modelling have no run of their own:

* The README says that four counters on the shutdown line account for every
  batch. They are loaded before the sink has drained; `ShutdownLineShortfall`
  says how many batches the line may leave out.
* The comment on `runQuery` says that results and cursor stack stay in step
  because the stack changes on success. `handleSubmit` resets the stack at
  once: when its query fails, the old rows stay on the screen with neither
  button. The paging properties speak of a walk, and a submit ends it.
* `events_sent()` is documented as the events written to the socket;
  `do_send()` counts before the write and does not look at its error.

## 4. Fairness

Threads that the process starts are scheduled (weak fairness of each thread's
steps); clients, signals, `consume()` and `stop()` calls owe nothing. A send
always ends: connect, handshake, write and read run under `expires_after`. The
name resolution before them is synchronous and has no deadline in the code; it
is assumed to return by the resolver's own timeout. The
event loop runs every continuation whose `await` has settled; a Redis command
settles because the offline queue is disabled, and PostgreSQL is assumed to
finish the statements it runs (the pool has no statement timeout). In
`LockFreeQueue` the acquisitions of `wait_mutex_` are strongly fair: consumers
woken spuriously over and over could otherwise pass the mutex among themselves
for ever. No code guarantees that of a mutex; it is an assumption on the
platform.

In `Simulator` a handler once begun ends, and the two timers and the posted
sweeps are strongly fair: a context is busy with devices again and again, but
takes its ready handlers in order. Connects and writes owe nothing, so a device
may hang for the whole run. In `HealthStrip` the interval fires and a poll ends:
the pool has a connection timeout, Redis commands fail rather than queue, and a
browser's fetch is assumed to end. `Delivery` asks fairness of the backend's
requests only, as `Ingest` does.

## 5. Proofs

Every theorem holds for all values of the constants that satisfy the module's
assumption. The assumptions are what the code checks or the platform gives:
thread sets are finite; there is at least one worker, consumer and sink thread,
since `config.cpp` rejects zero of any; capacities and the batch size are
positive; in `Dashboard`, the value for "none" is no row and no list of cursors.
The number of slots of the ring is not assumed: that it is at least
two is proved from the constructor's rounding. Bounds on inputs (`MaxEvents`,
`MaxBatches`, `MaxItems` and the like) are arbitrary naturals.

| Module | Theorems | Properties |
|---|---|---|
| `GatewayProofs` | `TypeCorrect`, `AcceptedReachSink`, `ReceivedCharged`, `LineTruthful`, `EventsWrittenOnce`, `ContractSafety` | every safety property of the run `gateway`, the safety half of `ImplementsContract` |
| `LockFreeProofs` | `TypeCorrect`, `SlotsExclusive`, `TakenWasPut`, `ContractSafety` | `TypeOK`, `SlotExclusive`, `TakesWhatWasPut`, the safety half of `ImplementsContract` |
| `HttpSinkProofs` | `TypeCorrect`, `BatchesAccounted`, `StopComplete`, `LineShortfall`, `KeysInOnePlace`, `AnsweredByOwnResponse`, `DropsAfterDeadline` | every safety property of the run `http_sink` |
| `IngestProofs` | `TypeCorrect`, `WholeBatches`, `AcknowledgedStored`, `CountersTruthful`, `LeaseOwnership`, `StoredOnce` | every safety property of the run `ingest` |
| `DeliveryProofs` | `NothingGoesMissing`, `ArrivalsAddUp` | `NothingMissing`, `ArrivalIdentity` |
| `SimulatorProofs` | `TypeCorrect`, `DataRaceFree`, `WritesDoNotOverlap`, `EveryDeviceStopped` | every safety property of the run `simulator` |
| `DashboardProofs` | `TypeCorrect`, `NoRowRepeats`, `EveryRowShown`, `StackDescribesScreen`, `StatusStaysTrue` | every safety property of the run `dashboard`, and the half of `StatusConverges` that says the status does not go back |

**GatewayProofs.** The inductive invariant adds `Shape`: a connection holds an
event exactly while its handler or its retry timer is pending, and the reactor
has a result exactly while a handler is current. Without it a counter could be
charged for an event that nobody holds. The lemmas on `push`, `add_event` and
`flush` say how each changes the lengths; each action then moves one event
between two terms of the sums.

For the shutdown line, `ShutdownShape` says what each stage of `main` has waited
for: the reactor is at rest, the queue closed, the workers gone from an empty
queue, the buffer empty. With `AcceptedAccounted` and `WaitAccounted`, the same
sum for the queue-wait samples, the line has nothing left to miss. `OnePlace`
says that an event is with the connection that must retry it, in the queue, with
a worker or past the workers, and there once; this is inductive only together
with `Received`, by which a new event has a number no place holds. The contract
follows by mapping `items_`, the flag, the popped events and the exited workers:
a push is `Put` or `Replace`, a pop `Take`, a worker's end `Finish`, and every
other action a stutter.

**LockFreeRingProofs, LockFreeProofs.** `WindowShape` says what the sequence of
a slot can be: between the cursors a position is published or its producer is
about to publish it, behind them the slot has moved on. `OwnShape` says that
threads that have claimed positions have claimed different ones, less than a lap
apart, and find the sequence they claimed it with, so that their slots differ.
`ReadShape` is what makes a compare-and-swap safe although the sequence was read
before it: a cursor that still has the position read means that the sequence is
still the one read, because cursors and sequences only grow. `StorageShape` ties
storage and the items in hand to the log of claims. `WaitersCounted` equates
`waiters_` with the consumers that registered, which is why the unsigned counter
does not wrap. In the contract the queue is the part of the log between the two
cursors: the compare-and-swap on `enqueue_pos_` is `Put`, the one on
`dequeue_pos_` is `Take`, a discarding push included, a consumer that finds the
ring empty after the flag is `Finish`, and every other access is a stutter.

**HttpSinkProofs.** `ThreadShape` says that a connection has an unanswered
request only while its thread reads, and that it is the one of the batch in
hand; from it `OwnResponse` follows. `OwnerShape` says what `stop()` has waited
for, and that only a fully constructed sink consumes. `DeadlineShape` is the
order of the two stores in `stop()`. `SnapshotShape` covers the moment between
the loads of the shutdown line: the first load, the drop counters and the
backlog it found cover every key, although the sink threads count on.
`KeyInOnePlace` is inductive only with the keys below `key_counter_` and apart
from those that producers have in hand (`KeysDistinct`).

**IngestProofs.** `Shape` ties the program counter to the batch, the statement
and the chunks sent so far; in particular a transaction that may commit has all
its chunks. `StoredInv` says that a committed key, a request about to commit its
key and a committed statement all have rows. For the counters, `TallyStep` shows
that every step admits one request, turns one down, reports one as stored, resets
everything by a restart, or does none of these; the sums follow from that.

`AnswerInv` says that a request has an answer exactly when it is done, keeps
it, and is counted as suppressed if the answer is `duplicate`. `LeaseInv` says
that while a batch has met no fault, whoever works on it holds its lease, and
rows are there only if the key is committed or the holder's statement is.

**DeliveryProofs.** Each part is instantiated with its proofs. A step of the
whole is a step of the sink, a step of the backend, or both when an answer is
read (`SinkSteps`, `BackendSteps`), so each side's invariants hold in the whole.
What the other side may rely on is named once: `SinkFacts` and `BackendFacts` are
what a side offers in a state, `SinkMoves` and `BackendMoves` what it offers of a
step, and `SinkKept` and `BackendKept` show that it offers them. What remains is
how the two sides' records match, `Links`:

* `Bodies`: a request that has arrived carries the batch it is an attempt at.
* `DeliveredStored`: a batch that a sink thread takes for delivered is in the
  database. It rests on `Bodies`, on `AcknowledgedIsStored` and on rows staying.
* `SentLanded`: as many batches as the sink counted as sent have left the sink
  and are in the database (or have no valid line). A batch recorded as sent
  leaves the sink in that step and never comes back, so none is counted twice.
* `HeardOver`: an answer the sink has read belongs to an attempt that is over.
  Hence no answer is read twice, and `AcceptedCounted`: the 2xx answers read
  are the batches counted as sent or about to be.

`NothingMissing` follows by counting. The missing batches and those that landed
are different keys below `key_counter_`, and `BatchAccounting` of the sink says
what the keys not counted as sent are. `ArrivalIdentity` follows from
`CountersAddUp` of the backend: while the process lives, the requests it
answered as duplicates or reported as stored are those whose 2xx answer the sink
has read and those whose answer it has not. The lemmas this needs of the parts
close `HttpSinkProofs` (`The way of a key through the sink`) and `IngestProofs`
(`Answers`).

**SimulatorProofs.** `HandShape` says that a handler in hand runs on the thread
that owns its client, that the spike runs on context 0 before the stop timer, and
sweeps after it: hence no two threads meet at a client or at the vector.
`WriteShape` is `OneWriteInFlight` without the cardinality. `RoomForDelayed`
keeps room for a delayed event. `HaltedShape` says that the slice of a halted
context is stopped and cannot grow.

**DashboardProofs.** The order of the rows is total, so ranks differ, lie below
the number of rows and are all taken (`RankInjective`, `RankBound`, `RankTaken`);
a page is therefore what it claims to be: in order, without repetition, and with
every row of the answer that is not behind its last one (`PageFacts`). The
inductive invariant says four things of a walk. `Fits`: every page but the last is
full and the stack holds the cursors of their last rows. `PagesInOrder`: a later
page lies behind an earlier one. `PagesCover`: a row that was in the table when the
walk began and that the filter admits is on a page or behind the last one.
`Asked` and `Answered`: a query under way asks for the page that the walk would
show next or again, and its answer, computed from a table that has only grown, is
such a page. The last is needed because the answer is computed at one moment and
applied at a later one. `TypeOK`, `RowsShownOnce`, `NoRowSkipped` and
`StackMatchesScreen` follow. For the strip, `Settled` says that the status and
every poll under way agree with the world; a step that leaves the world alone
keeps it so, whatever the order in which answers arrive.

The invariants were checked with TLC first, on the instances of the runs
`gateway`, `lock_free`, `http_sink`, `ingest`, `delivery`, `simulator` and
`dashboard`.

Only model-checked:

* Liveness: `PartialBatchFlushed`, `ShutdownCompletes`, `StopReturns`,
  `EveryRequestAnswered`, `PushTerminates`, `RunEnds`, the progress half of the
  two `ImplementsContract` refinements, and that `StatusConverges` gets there at
  all. The prover has no rule for fairness and `ENABLED`.

## 6. Not modelled

* Contents of events and lines, NDJSON parsing, timestamps as text, URL, flag
  and environment parsing: pure functions with nothing to interleave.
* The latency histogram in `stats.hpp`: approximate by design, and read after
  the workers are joined.
* TLS, which adds one more step that can fail to connecting; `ConnectFails`
  stands for it.
* The size of the PostgreSQL pool and statement timeouts; weak memory; disk
  errors (the file sink does not look at them).
* In the query path, the device filter and `to`; in the dashboard, rendering.
* The sink's shutdown in `Delivery`; `HttpSink` has it. A second batch and a
  second sink thread are beyond the size of its run; its proofs cover them.
* Infrastructure, scripts and benchmarks are not part of the running system.

## 7. Plan

Every safety property of the runs has a proof. What is left is to widen the
models: the sink's shutdown in `Delivery`, and the PostgreSQL pool at its limit.
