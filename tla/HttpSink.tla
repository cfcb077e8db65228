------------------------------ MODULE HttpSink ------------------------------
(***************************************************************************)
(* gateway/src/http_sink.cpp: consume() mints an idempotency key and       *)
(* queues the batch; sink threads pop batches and POST them with retries   *)
(* over one persistent connection each; stop() drains under a deadline and *)
(* joins.  main() takes the shutdown line's counters before it destroys    *)
(* the sink.                                                               *)
(*                                                                         *)
(* A batch is its idempotency key.  The HTTP peer is external: it may      *)
(* refuse, stall, answer anything, or keep or close the connection.  A     *)
(* connection is the sequence `wire' of keys POSTed on it whose response   *)
(* has not been read yet; a response answers the oldest of them.  Backoff  *)
(* delays and timeouts always end, and their length is left out.           *)
(***************************************************************************)
EXTENDS Naturals, Sequences, FiniteSets, QueueTypes

CONSTANTS Producers,    \* threads that flush the batcher, calling consume()
          SinkThreads,  \* options_.concurrency threads
          Capacity,     \* options_.outbound_capacity
          MaxRetries,   \* options_.max_retries
          MaxBatches,   \* bound on the batches consumed
          None

ASSUME SinkAssumption ==
  /\ Capacity \in Nat \ {0}
  /\ MaxRetries \in Nat
  /\ MaxBatches \in Nat
  /\ IsFiniteSet(Producers)
  /\ IsFiniteSet(SinkThreads)
  /\ SinkThreads # {}             \* config.cpp rejects --sink-concurrency=0
  /\ None \notin Nat

VARIABLES policy_, items_, shutting_down_, waiting, notified,  \* outbound_
          key_counter_,
          producer,     \* per producer: where its consume() stands
          minted,       \* per producer: the key it has minted
          thread,       \* per sink thread: where run() stands
          batch,        \* per sink thread: the batch it is sending
          attempt,      \* per sink thread: attempt in send_with_retries
          live,         \* per sink thread: its connection is open
          wire,         \* per sink thread: POSTs unanswered on it
          answered,     \* per sink thread: the POST its 2xx response answers
          owner,        \* the thread that constructs and stops the sink
          deadline,     \* drain_deadline_ has been assigned
          elapsed,      \* kDrainDeadline has passed since then
          draining_,
          snapshot,     \* main()'s copy of the counters, for the last line
          stats         \* the four batch counters of Stats

outbound == <<policy_, items_, shutting_down_, waiting, notified>>
intake == <<key_counter_, producer, minted>>
connection == <<live, wire, answered>>
sending == <<thread, batch, attempt, connection>>
stopping == <<owner, deadline, elapsed, draining_, snapshot>>
vars == <<outbound, intake, sending, stopping, stats>>

Q == INSTANCE BoundedQueue WITH Consumers <- SinkThreads

Init ==
  /\ Q!QueueInit
  /\ key_counter_ = 0
  /\ producer = [p \in Producers |-> "idle"]
  /\ minted = [p \in Producers |-> None]
  /\ thread = [t \in SinkThreads |-> "unborn"]
  /\ batch = [t \in SinkThreads |-> None]
  /\ attempt = [t \in SinkThreads |-> 0]
  /\ live = [t \in SinkThreads |-> FALSE]
  /\ wire = [t \in SinkThreads |-> <<>>]
  /\ answered = [t \in SinkThreads |-> None]
  /\ owner = "construct"
  /\ deadline = FALSE
  /\ elapsed = FALSE
  /\ draining_ = FALSE
  /\ snapshot = None
  /\ stats = [sent |-> 0, retried |-> 0, dropped_outbound |-> 0,
              dropped_exhausted |-> 0]

-----------------------------------------------------------------------------
(* The constructor.                                                        *)

SpawnThread(t) ==
  /\ owner = "construct"
  /\ thread[t] = "unborn"
  /\ thread' = [thread EXCEPT ![t] = "pop"]
  /\ UNCHANGED <<outbound, intake, batch, attempt, connection, stopping,
                 stats>>

Constructed ==
  /\ owner = "construct"
  /\ \A t \in SinkThreads : thread[t] # "unborn"
  /\ owner' = "running"
  /\ UNCHANGED <<outbound, intake, sending, deadline, elapsed, draining_,
                 snapshot, stats>>

\* std::thread throws: the constructor stops the threads it has and rethrows.
SpawnFails ==
  /\ owner = "construct"
  /\ \E t \in SinkThreads : thread[t] = "unborn"
  /\ owner' = "stop"
  /\ UNCHANGED <<outbound, intake, sending, deadline, elapsed, draining_,
                 snapshot, stats>>

-----------------------------------------------------------------------------
(* consume().                                                              *)

\* next_idempotency_key: one atomic fetch_add.
NextIdempotencyKey(p) ==
  /\ owner = "running"
  /\ producer[p] = "idle"
  /\ key_counter_ < MaxBatches
  /\ minted' = [minted EXCEPT ![p] = key_counter_]
  /\ key_counter_' = key_counter_ + 1
  /\ producer' = [producer EXCEPT ![p] = "push"]
  /\ UNCHANGED <<outbound, sending, stopping, stats>>

\* Mutant: DroppedOldest is taken for success.
ConsumePush_IgnoresDropped(p) ==
  /\ producer[p] = "push"
  /\ \/ /\ Q!PushAccepted(minted[p]) \/ Q!PushDroppedOldest(minted[p])
        /\ producer' = [producer EXCEPT ![p] = "idle"]
     \/ /\ Q!PushRejected
        /\ producer' = [producer EXCEPT ![p] = "record"]
  /\ minted' = [minted EXCEPT ![p] = None]
  /\ UNCHANGED <<key_counter_, sending, stopping, stats>>

\* outbound_.push, whatever the policy, returns at once.
ConsumePush(p) ==
  /\ producer[p] = "push"
  /\ \/ /\ Q!PushAccepted(minted[p])
        /\ producer' = [producer EXCEPT ![p] = "idle"]
     \/ /\ Q!PushDroppedOldest(minted[p]) \/ Q!PushRejected
        /\ producer' = [producer EXCEPT ![p] = "record"]
  /\ minted' = [minted EXCEPT ![p] = None]
  /\ UNCHANGED <<key_counter_, sending, stopping, stats>>

RecordDroppedOutbound(p) ==
  /\ producer[p] = "record"
  /\ stats' = [stats EXCEPT !.dropped_outbound = @ + 1]
  /\ producer' = [producer EXCEPT ![p] = "idle"]
  /\ UNCHANGED <<outbound, key_counter_, minted, sending, stopping>>

-----------------------------------------------------------------------------
(* run(), on each sink thread.                                             *)

Pop(t) ==
  /\ thread[t] = "pop"
  /\ Q!PopItem(t)
  /\ batch' = [batch EXCEPT ![t] = Head(items_)]
  /\ thread' = [thread EXCEPT ![t] = "check"]
  /\ UNCHANGED <<intake, attempt, connection, stopping, stats>>

PopSleep(t) ==
  /\ thread[t] = "pop"
  /\ Q!PopWait(t)
  /\ UNCHANGED <<intake, sending, stopping, stats>>

Spurious(t) ==
  /\ Q!SpuriousWakeup(t)
  /\ UNCHANGED <<intake, sending, stopping, stats>>

ThreadExit(t) ==
  /\ thread[t] = "pop"
  /\ Q!PopNullopt(t)
  /\ thread' = [thread EXCEPT ![t] = "exited"]
  /\ UNCHANGED <<intake, batch, attempt, connection, stopping, stats>>

\* now() >= drain_deadline_, which is the epoch until stop() assigns it.
PastDeadline == ~deadline \/ elapsed

DeadlineDrop(t) ==
  /\ thread[t] = "check"
  /\ draining_ /\ PastDeadline
  /\ thread' = [thread EXCEPT ![t] = "failed"]
  /\ UNCHANGED <<outbound, intake, batch, attempt, connection, stopping,
                 stats>>

BeginSend(t) ==
  /\ thread[t] = "check"
  /\ ~(draining_ /\ PastDeadline)
  /\ thread' = [thread EXCEPT ![t] = "connect"]
  /\ UNCHANGED <<outbound, intake, batch, attempt, connection, stopping,
                 stats>>

\* The loop body's locals go out of scope.
LoopAgain(t) ==
  /\ thread' = [thread EXCEPT ![t] = "pop"]
  /\ batch' = [batch EXCEPT ![t] = None]
  /\ attempt' = [attempt EXCEPT ![t] = 0]
  /\ answered' = [answered EXCEPT ![t] = None]

RecordSent(t) ==
  /\ thread[t] = "delivered"
  /\ stats' = [stats EXCEPT !.sent = @ + 1]
  /\ LoopAgain(t)
  /\ UNCHANGED <<outbound, intake, live, wire, stopping>>

RecordDroppedExhausted(t) ==
  /\ thread[t] = "failed"
  /\ stats' = [stats EXCEPT !.dropped_exhausted = @ + 1]
  /\ LoopAgain(t)
  /\ UNCHANGED <<outbound, intake, live, wire, stopping>>

-----------------------------------------------------------------------------
(* send_with_retries() and send_once().                                    *)

\* Mutant: one attempt too many.
AfterRetryable_OffByOne(t) ==
  thread' = [thread EXCEPT ![t] =
               IF attempt[t] > MaxRetries THEN "failed" ELSE "backoff"]

\* What send_with_retries does with a RetryableFailure.
AfterRetryable(t) ==
  thread' = [thread EXCEPT ![t] =
               IF attempt[t] = MaxRetries THEN "failed" ELSE "backoff"]

\* Mutant: a connection that timed out is kept for the next request.
DropConnection_Keeps(t) == UNCHANGED <<live, wire>>

\* PersistentConnection::drop.
DropConnection(t) ==
  /\ live' = [live EXCEPT ![t] = FALSE]
  /\ wire' = [wire EXCEPT ![t] = <<>>]

\* Reuse a live connection, or resolve, connect and handshake.
Connect(t) ==
  /\ thread[t] = "connect"
  /\ live' = [live EXCEPT ![t] = TRUE]
  /\ thread' = [thread EXCEPT ![t] = "exchange"]
  /\ UNCHANGED <<outbound, intake, batch, attempt, wire, answered, stopping,
                 stats>>

ConnectFails(t) ==
  /\ thread[t] = "connect"
  /\ ~live[t]
  /\ AfterRetryable(t)
  /\ UNCHANGED <<outbound, intake, batch, attempt, connection, stopping,
                 stats>>

\* The request is written; its response is read in a later step.
WriteRequest(t) ==
  /\ thread[t] = "exchange"
  /\ wire' = [wire EXCEPT ![t] = Append(@, batch[t])]
  /\ thread' = [thread EXCEPT ![t] = "read"]
  /\ UNCHANGED <<outbound, intake, batch, attempt, live, answered, stopping,
                 stats>>

\* The write or the read fails, or the timeout fires.
ExchangeFails(t) ==
  /\ thread[t] \in {"exchange", "read"}
  /\ DropConnection(t)
  /\ AfterRetryable(t)
  /\ UNCHANGED <<outbound, intake, batch, attempt, answered, stopping, stats>>

\* A response is read.  The peer may have asked to close the connection.
ReadResponse(t) ==
  /\ thread[t] = "read"
  /\ \/ /\ wire' = [wire EXCEPT ![t] = Tail(@)]
        /\ UNCHANGED live
     \/ DropConnection(t)
  /\ \/ /\ thread' = [thread EXCEPT ![t] = "delivered"]           \* 2xx
        /\ answered' = [answered EXCEPT ![t] = Head(wire[t])]
     \/ AfterRetryable(t) /\ UNCHANGED answered                   \* 5xx, 429
     \/ /\ thread' = [thread EXCEPT ![t] = "failed"]              \* the rest
        /\ UNCHANGED answered
  /\ UNCHANGED <<outbound, intake, batch, attempt, stopping, stats>>

\* The backoff delay is over: count the retry and try again.
Retry(t) ==
  /\ thread[t] = "backoff"
  /\ stats' = [stats EXCEPT !.retried = @ + 1]
  /\ attempt' = [attempt EXCEPT ![t] = @ + 1]
  /\ thread' = [thread EXCEPT ![t] = "connect"]
  /\ UNCHANGED <<outbound, intake, batch, connection, stopping>>

-----------------------------------------------------------------------------
(* The end of main(), and stop().                                          *)

\* The batches that are queued or with a sink thread.
Sending == {t \in SinkThreads : batch[t] # None}
Backlog == Len(items_) + Cardinality(Sending)

\* Mutant: main() does not wait for the threads that flush the batcher.
SnapshotSent_NoJoin ==
  /\ owner = "running"
  /\ snapshot' = [counted |-> stats.sent, backlog |-> Backlog]
  /\ owner' = "snapshot"
  /\ UNCHANGED <<outbound, intake, sending, deadline, elapsed, draining_,
                 stats>>

\* The flush thread and the workers are joined and the last flush is done:
\* stats.snapshot() loads batches_sent.  `backlog' is a history value.
SnapshotSent ==
  /\ owner = "running"
  /\ \A p \in Producers : producer[p] = "idle"
  /\ snapshot' = [counted |-> stats.sent, backlog |-> Backlog]
  /\ owner' = "snapshot"
  /\ UNCHANGED <<outbound, intake, sending, deadline, elapsed, draining_,
                 stats>>

\* The other loads.  The sink threads go on counting between them; only
\* batches_dropped_outbound can no longer change.
SnapshotDropped ==
  /\ owner = "snapshot"
  /\ snapshot' = [snapshot EXCEPT !.counted =
                    @ + stats.dropped_outbound + stats.dropped_exhausted]
  /\ owner' = "printed"
  /\ UNCHANGED <<outbound, intake, sending, deadline, elapsed, draining_,
                 stats>>

\* The line is out and main() returns: its locals and then the sink go.
Stop ==
  /\ owner = "printed"
  /\ owner' = "stop"
  /\ snapshot' = None
  /\ UNCHANGED <<outbound, intake, sending, deadline, elapsed, draining_,
                 stats>>

\* Mutant: draining_ is published before drain_deadline_ is assigned.
StopSetDeadline_DrainingFirst ==
  /\ owner = "stop"
  /\ draining_' = TRUE
  /\ owner' = "deadline_set"
  /\ UNCHANGED <<outbound, intake, sending, elapsed, deadline, snapshot,
                 stats>>

StopSetDeadline ==
  /\ owner = "stop"
  /\ deadline' = TRUE
  /\ owner' = "deadline_set"
  /\ UNCHANGED <<outbound, intake, sending, elapsed, draining_, snapshot,
                 stats>>

StopSetDraining ==
  /\ owner = "deadline_set"
  /\ draining_' = TRUE
  /\ owner' = "draining"
  /\ UNCHANGED <<outbound, intake, sending, deadline, elapsed, snapshot,
                 stats>>

StopShutdown ==
  /\ owner = "draining"
  /\ Q!shutdown
  /\ owner' = "join"
  /\ UNCHANGED <<intake, sending, deadline, elapsed, draining_, snapshot,
                 stats>>

\* Mutant: stop() returns without joining.
StopJoin_NoJoin ==
  /\ owner = "join"
  /\ owner' = "stopped"
  /\ UNCHANGED <<outbound, intake, sending, deadline, elapsed, draining_,
                 snapshot, stats>>

StopJoin ==
  /\ owner = "join"
  /\ \A t \in SinkThreads : thread[t] \in {"unborn", "exited"}
  /\ owner' = "stopped"
  /\ UNCHANGED <<outbound, intake, sending, deadline, elapsed, draining_,
                 snapshot, stats>>

\* The clock passes drain_deadline_.
DeadlinePasses ==
  /\ deadline
  /\ ~elapsed
  /\ elapsed' = TRUE
  /\ UNCHANGED <<outbound, intake, sending, owner, deadline, draining_,
                 snapshot, stats>>

Stopped == owner = "stopped" /\ UNCHANGED vars

-----------------------------------------------------------------------------

OwnerStep ==
  \/ Constructed \/ SpawnFails \/ \E t \in SinkThreads : SpawnThread(t)
  \/ SnapshotSent \/ SnapshotDropped \/ Stop
  \/ StopSetDeadline \/ StopSetDraining \/ StopShutdown \/ StopJoin

ProducerStep(p) ==
  NextIdempotencyKey(p) \/ ConsumePush(p) \/ RecordDroppedOutbound(p)

\* What a sink thread does by itself, the peer's answer aside.
LocalStep(t) ==
  \/ Pop(t) \/ PopSleep(t) \/ ThreadExit(t)
  \/ DeadlineDrop(t) \/ BeginSend(t)
  \/ Connect(t) \/ ConnectFails(t) \/ ExchangeFails(t) \/ Retry(t)
  \/ RecordSent(t) \/ RecordDroppedExhausted(t)

ThreadStep(t) == LocalStep(t) \/ WriteRequest(t) \/ ReadResponse(t)

Next ==
  \/ OwnerStep
  \/ \E p \in Producers : ProducerStep(p)
  \/ \E t \in SinkThreads : ThreadStep(t) \/ Spurious(t)
  \/ DeadlinePasses
  \/ Stopped

\* The threads are scheduled, and a send always makes progress: connect,
\* handshake, write and read run under expires_after, and the synchronous
\* resolve() is assumed to return, by the resolver's own timeout.  The owner's
\* steps inside stop() are scheduled too; calling it, and consuming, are up to
\* main().
Fairness ==
  /\ \A t \in SinkThreads : WF_vars(ThreadStep(t))
  /\ WF_vars(StopSetDeadline \/ StopSetDraining \/ StopShutdown \/ StopJoin)

Spec == Init /\ [][Next]_vars /\ Fairness

-----------------------------------------------------------------------------
(* Properties.                                                             *)

ProducerState == {"idle", "push", "record"}
ThreadState == {"unborn", "pop", "check", "connect", "exchange", "read",
                "backoff", "delivered", "failed", "exited"}
OwnerState == {"construct", "running", "snapshot", "printed", "stop",
               "deadline_set", "draining", "join", "stopped"}
Snapshot == [counted : Nat, backlog : Nat]
Stats == [sent : Nat, retried : Nat, dropped_outbound : Nat,
          dropped_exhausted : Nat]

\* Every variable has its type; a connection never carries two unanswered
\* requests and no batch is tried more than 1 + max_retries times.
TypeOK ==
  /\ Q!QueueTypeOK(Nat)
  /\ key_counter_ \in 0..MaxBatches
  /\ producer \in [Producers -> ProducerState]
  /\ minted \in [Producers -> Nat \cup {None}]
  /\ thread \in [SinkThreads -> ThreadState]
  /\ batch \in [SinkThreads -> Nat \cup {None}]
  /\ attempt \in [SinkThreads -> 0..MaxRetries]
  /\ live \in [SinkThreads -> BOOLEAN]
  /\ wire \in [SinkThreads -> Seq(Nat)]
  /\ \A t \in SinkThreads : Len(wire[t]) <= 1
  /\ answered \in [SinkThreads -> Nat \cup {None}]
  /\ owner \in OwnerState
  /\ deadline \in BOOLEAN
  /\ elapsed \in BOOLEAN
  /\ draining_ \in BOOLEAN
  /\ snapshot \in Snapshot \cup {None}
  /\ stats \in Stats

Consuming == {p \in Producers : producer[p] # "idle"}
Counted == stats.sent + stats.dropped_outbound + stats.dropped_exhausted

\* Every batch consume() was given is counted in exactly one of batches_sent,
\* batches_dropped_outbound and batches_dropped_exhausted, or is still with a
\* producer, in the outbound queue or with a sink thread.
BatchAccounting ==
  key_counter_ = Counted + Cardinality(Consuming) + Len(items_)
                   + Cardinality(Sending)

\* When stop() has returned nothing is left uncounted: the queue was drained
\* and every thread finished the batch it held, whatever the deadline cut off.
StopCountsEverything == owner = "stopped" => Counted = key_counter_

\* The shutdown line is printed while the sink threads are still sending, and
\* its counters are loaded one by one.  Even so no batch appears twice in it,
\* and it leaves out at most the batches that were queued or being sent when
\* main() began to load them.
ShutdownLineShortfall ==
  owner = "printed" => key_counter_ - snapshot.counted \in 0..snapshot.backlog

\* A batch is in one place only, so a key is never sent by two threads at once
\* and a retry stays inside the one send_with_retries call.
KeyInOnePlace ==
  /\ \A t, u \in SinkThreads : batch[t] = batch[u] /\ t # u => batch[t] = None
  /\ \A i, j \in 1..Len(items_) : items_[i] = items_[j] => i = j
  /\ \A t \in SinkThreads, i \in 1..Len(items_) : batch[t] # items_[i]

\* A batch is counted as sent on the 2xx response to its own request: no
\* answer of an earlier, timed-out request is ever read in its place.
OwnResponse ==
  \A t \in SinkThreads : thread[t] = "delivered" => answered[t] = batch[t]

\* A batch is given up unsent only once kDrainDeadline has really passed since
\* stop() began: run() never compares with an unassigned drain_deadline_.
DropOnlyAfterDeadline ==
  [][\A t \in SinkThreads :
       thread[t] = "check" /\ thread'[t] = "failed" => elapsed]_vars

\* stop() returns: a dead backend cannot hang the shutdown, provided that name
\* resolution returns.
StopReturns == (owner = "stop") ~> (owner = "stopped")

\* http_sink.hpp on BackpressurePolicy::Block: "under Block, a full outbound
\* queue makes consume() wait", for "an operator who would rather stall than
\* lose data".  It would follow that no batch is dropped from the outbound
\* queue under Block.
BlockNeverDrops == policy_ = Block => stats.dropped_outbound = 0
=============================================================================
