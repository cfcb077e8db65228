------------------------------ MODULE Gateway ------------------------------
(***************************************************************************)
(* The gateway process of gateway/src/main.cpp: TCP connections on one     *)
(* reactor thread push events into the event queue, worker threads pop     *)
(* them into the batcher, the batcher hands batches to the sink, a flush   *)
(* thread bounds the age of a partial batch, and main() runs the shutdown  *)
(* sequence.                                                               *)
(*                                                                         *)
(* Threads.  The reactor runs one handler at a time, so `current' is the   *)
(* connection whose handler is between queue_.push() and the counter it    *)
(* records afterwards; the workers run in that window.  Batcher calls hold *)
(* the batcher's mutex across the flush callback and are one step each.    *)
(*                                                                         *)
(* Events are numbered in the order the reactor parses them.               *)
(***************************************************************************)
EXTENDS Naturals, Sequences, FiniteSets, QueueTypes

CONSTANTS Connections,      \* client connections the acceptor will see
          Workers,          \* the threads of WorkerPool (config.workers)
          Capacity,         \* config.queue_capacity
          MaxBatchSize,     \* config.batch_size
          MaxEvents,        \* bound on the well-formed lines received
          MaxMalformed,     \* bound on the malformed lines received
          None              \* no connection, no event

\* parse_args accepts only positive sizes and at least one worker.
ASSUME SizeAssumption == Capacity \in Nat \ {0}

ASSUME BatchAssumption == MaxBatchSize \in Nat \ {0}

ASSUME GatewayBounds == MaxEvents \in Nat /\ MaxMalformed \in Nat

ASSUME ThreadAssumption ==
  /\ IsFiniteSet(Workers) /\ Workers # {}
  /\ IsFiniteSet(Connections)
  /\ None \notin Connections \cup PushResult \cup Nat

VARIABLES policy_, items_, shutting_down_, waiting, notified,  \* the queue
          conn,       \* per connection: where its handler chain stands
          held,       \* per connection: the event it is trying to push
          current,    \* the connection whose push handler is running
          result,     \* what queue_.push() returned to that handler
          received,   \* well-formed events parsed so far
          io,         \* io_context: "running" or "stopped"
          worker,     \* per worker: where worker_loop stands
          hand,       \* per worker: the event it popped
          popped,     \* history: the events pop() returned, in order
          buffer_,    \* Batcher::buffer_
          written,    \* the events handed to Sink::consume, in order
          batches,    \* the number of Sink::consume calls
          flusher,    \* the flush thread
          main,       \* main(), from io_context.run() on
          flush_shutdown,
          stats,      \* Stats
          line        \* the snapshot printed by the shutdown line

queueVars == <<policy_, items_, shutting_down_, waiting, notified>>
reactor == <<conn, held, current, result, received, io>>
pool == <<worker, hand, popped>>
batcher == <<buffer_, written, batches>>
process == <<flusher, main, flush_shutdown, line>>
vars == <<queueVars, reactor, pool, batcher, process, stats>>

Q == INSTANCE BoundedQueue WITH Consumers <- Workers

ZeroStats == [accepted |-> 0, dropped_oldest |-> 0, dropped_newest |-> 0,
              malformed |-> 0, queue_wait_count |-> 0]

Init ==
  /\ Q!QueueInit
  /\ conn = [k \in Connections |-> "unconnected"]
  /\ held = [k \in Connections |-> None]
  /\ current = None
  /\ result = None
  /\ received = 0
  /\ io = "running"
  /\ worker = [w \in Workers |-> "pop"]
  /\ hand = [w \in Workers |-> None]
  /\ popped = <<>>
  /\ buffer_ = <<>>
  /\ written = <<>>
  /\ batches = 0
  /\ flusher = "check"
  /\ main = "run"
  /\ flush_shutdown = FALSE
  /\ stats = ZeroStats
  /\ line = ZeroStats

-----------------------------------------------------------------------------
(* The reactor thread: Server and Connection.                              *)

ReactorIdle == io = "running" /\ current = None

\* Server::accept: a client connects and Connection::start reads a line.
accept(k) ==
  /\ ReactorIdle
  /\ conn[k] = "unconnected"
  /\ conn' = [conn EXCEPT ![k] = "reading"]
  /\ UNCHANGED <<queueVars, held, current, result, received, io, pool, batcher,
                 process, stats>>

\* read_line completes with an error: the connection is dropped.
Disconnect(k) ==
  /\ ReactorIdle
  /\ conn[k] = "reading"
  /\ conn' = [conn EXCEPT ![k] = "closed"]
  /\ UNCHANGED <<queueVars, held, current, result, received, io, pool, batcher,
                 process, stats>>

\* handle_line on a line parse_event refuses.
HandleMalformed(k) ==
  /\ ReactorIdle
  /\ conn[k] = "reading"
  /\ stats.malformed < MaxMalformed
  /\ stats' = [stats EXCEPT !.malformed = @ + 1]
  /\ UNCHANGED <<queueVars, reactor, pool, batcher, process>>

\* queue_.push(event) with each of its results.
Push(event) ==
  \/ Q!PushAccepted(event) /\ result' = Accepted
  \/ Q!PushDroppedOldest(event) /\ result' = DroppedOldest
  \/ Q!PushRejected /\ result' = RejectedBackpressure

\* handle_line on a well-formed line: push_event up to the queue's answer.
PushEvent(k) ==
  /\ ReactorIdle
  /\ conn[k] = "reading"
  /\ received < MaxEvents
  /\ received' = received + 1
  /\ held' = [held EXCEPT ![k] = received + 1]
  /\ Push(received + 1)
  /\ conn' = [conn EXCEPT ![k] = "pushed"]
  /\ current' = k
  /\ UNCHANGED <<io, pool, batcher, process, stats>>

\* retry_push's timer fires: the same event, up to the queue's answer.
RetryPush(k) ==
  /\ ReactorIdle
  /\ conn[k] = "retrying"
  /\ Push(held[k])
  /\ conn' = [conn EXCEPT ![k] = "repushed"]
  /\ current' = k
  /\ UNCHANGED <<held, received, io, pool, batcher, process, stats>>

\* The handler is over; the connection reads its next line.
ReadNext(k) ==
  /\ conn' = [conn EXCEPT ![k] = "reading"]
  /\ held' = [held EXCEPT ![k] = None]
  /\ current' = None
  /\ result' = None

RecordAccepted(k) ==
  /\ current = k
  /\ result = Accepted
  /\ stats' = [stats EXCEPT !.accepted = @ + 1]
  /\ ReadNext(k)
  /\ UNCHANGED <<queueVars, received, io, pool, batcher, process>>

RecordDroppedOldest(k) ==
  /\ current = k
  /\ result = DroppedOldest
  /\ stats' = [stats EXCEPT !.dropped_oldest = @ + 1]
  /\ ReadNext(k)
  /\ UNCHANGED <<queueVars, received, io, pool, batcher, process>>

\* push_event under DropNewest: count the event, forget it, keep reading.
\* The retry handler has no such branch: it retries any rejected push.
RecordDroppedNewest(k) ==
  /\ current = k
  /\ result = RejectedBackpressure
  /\ conn[k] = "pushed"
  /\ policy_ = DropNewest
  /\ stats' = [stats EXCEPT !.dropped_newest = @ + 1]
  /\ ReadNext(k)
  /\ UNCHANGED <<queueVars, received, io, pool, batcher, process>>

\* Mutant: a rejected push is forgotten instead of retried.
ArmRetry_Forgets(k) ==
  /\ current = k
  /\ result = RejectedBackpressure
  /\ conn[k] = "repushed" \/ policy_ # DropNewest
  /\ ReadNext(k)
  /\ UNCHANGED <<queueVars, received, io, pool, batcher, process, stats>>

\* Any other rejected push: stop reading, arm the retry timer.
ArmRetry(k) ==
  /\ current = k
  /\ result = RejectedBackpressure
  /\ conn[k] = "repushed" \/ policy_ # DropNewest
  /\ conn' = [conn EXCEPT ![k] = "retrying"]
  /\ current' = None
  /\ result' = None
  /\ UNCHANGED <<queueVars, held, received, io, pool, batcher, process, stats>>

\* SIGINT/SIGTERM: the signal handler stops the io_context and run() returns;
\* pending reads and retry timers never complete.
Signal ==
  /\ ReactorIdle
  /\ io' = "stopped"
  /\ UNCHANGED <<queueVars, conn, held, current, result, received, pool,
                 batcher, process, stats>>

-----------------------------------------------------------------------------
(* Batcher, called with its mutex held until the callback has returned.    *)

\* Mutant: the buffer is copied to the sink, not swapped out.
FlushLocked_Copies(events) ==
  /\ written' = written \o events
  /\ batches' = batches + 1
  /\ UNCHANGED buffer_

\* flush_locked with `events' in the buffer: the sink consumes them as one
\* batch and the buffer is empty again.
FlushLocked(events) ==
  /\ written' = written \o events
  /\ batches' = batches + 1
  /\ buffer_' = <<>>

\* Mutant: the threshold is tested before the event is appended, and the
\* event that triggers the flush is left out of it.
AddEvent_FlushesFirst(event) ==
  LET events == Append(buffer_, event)
  IN \/ FlushLocked(buffer_)
     \/ /\ Len(events) < MaxBatchSize
        /\ buffer_' = events
        /\ UNCHANGED <<written, batches>>

\* add_event.  Whether the batch has reached max_batch_age is up to the clock.
AddEvent(event) ==
  LET events == Append(buffer_, event)
  IN \/ FlushLocked(events)
     \/ /\ Len(events) < MaxBatchSize
        /\ buffer_' = events
        /\ UNCHANGED <<written, batches>>

\* flush.
Flush ==
  \/ buffer_ # <<>> /\ FlushLocked(buffer_)
  \/ buffer_ = <<>> /\ UNCHANGED batcher

-----------------------------------------------------------------------------
(* WorkerPool::worker_loop.                                                *)

Pop(w) ==
  /\ worker[w] = "pop"
  /\ Q!PopItem(w)
  /\ worker' = [worker EXCEPT ![w] = "record"]
  /\ hand' = [hand EXCEPT ![w] = Head(items_)]
  /\ popped' = Append(popped, Head(items_))
  /\ UNCHANGED <<reactor, batcher, process, stats>>

PopSleep(w) ==
  /\ worker[w] = "pop"
  /\ Q!PopWait(w)
  /\ UNCHANGED <<reactor, pool, batcher, process, stats>>

Spurious(w) ==
  /\ Q!SpuriousWakeup(w)
  /\ UNCHANGED <<reactor, pool, batcher, process, stats>>

\* pop() returned nullopt: the loop ends and the thread with it.
WorkerExit(w) ==
  /\ worker[w] = "pop"
  /\ Q!PopNullopt(w)
  /\ worker' = [worker EXCEPT ![w] = "exited"]
  /\ UNCHANGED <<hand, popped, reactor, batcher, process, stats>>

RecordQueueWait(w) ==
  /\ worker[w] = "record"
  /\ stats' = [stats EXCEPT !.queue_wait_count = @ + 1]
  /\ worker' = [worker EXCEPT ![w] = "add"]
  /\ UNCHANGED <<queueVars, reactor, hand, popped, batcher, process>>

WorkerAdd(w) ==
  /\ worker[w] = "add"
  /\ AddEvent(hand[w])
  /\ worker' = [worker EXCEPT ![w] = "pop"]
  /\ hand' = [hand EXCEPT ![w] = None]
  /\ UNCHANGED <<queueVars, reactor, popped, process, stats>>

-----------------------------------------------------------------------------
(* The flush thread.                                                       *)

\* while (!flush_shutdown), with flush_shutdown_mutex held.
FlusherCheck ==
  /\ flusher = "check"
  /\ flusher' = IF flush_shutdown THEN "exited" ELSE "waiting"
  /\ UNCHANGED <<queueVars, reactor, pool, batcher, main, flush_shutdown, line,
                 stats>>

\* wait_for returns, on the notification or on its timeout.
FlusherWake ==
  /\ flusher = "waiting"
  /\ flusher' = IF flush_shutdown THEN "exited" ELSE "flush"
  /\ UNCHANGED <<queueVars, reactor, pool, batcher, main, flush_shutdown, line,
                 stats>>

\* Mutant: the flush thread wakes up and goes back to sleep.
FlusherFlush_Skips ==
  /\ flusher = "flush"
  /\ flusher' = "check"
  /\ UNCHANGED <<queueVars, reactor, pool, batcher, main, flush_shutdown,
                 line, stats>>

FlusherFlush ==
  /\ flusher = "flush"
  /\ Flush
  /\ flusher' = "check"
  /\ UNCHANGED <<queueVars, reactor, pool, main, flush_shutdown, line, stats>>

-----------------------------------------------------------------------------
(* main() after io_context.run() has returned.                             *)

MainFlushShutdown ==
  /\ main = "run"
  /\ io = "stopped"
  /\ flush_shutdown' = TRUE
  /\ main' = "join_flusher"
  /\ UNCHANGED <<queueVars, reactor, pool, batcher, flusher, line, stats>>

MainJoinFlusher ==
  /\ main = "join_flusher"
  /\ flusher = "exited"
  /\ main' = "pool_stop"
  /\ UNCHANGED <<queueVars, reactor, pool, batcher, flusher, flush_shutdown,
                 line, stats>>

\* WorkerPool::stop up to the joins.
MainPoolStop ==
  /\ main = "pool_stop"
  /\ Q!shutdown
  /\ main' = "join_pool"
  /\ UNCHANGED <<reactor, pool, batcher, flusher, flush_shutdown, line, stats>>

\* Mutant: stop() returns without joining the workers.
MainJoinPool_NoJoin ==
  /\ main = "join_pool"
  /\ main' = "final_flush"
  /\ UNCHANGED <<queueVars, reactor, pool, batcher, flusher, flush_shutdown,
                 line, stats>>

MainJoinPool ==
  /\ main = "join_pool"
  /\ \A w \in Workers : worker[w] = "exited"
  /\ main' = "final_flush"
  /\ UNCHANGED <<queueVars, reactor, pool, batcher, flusher, flush_shutdown,
                 line, stats>>

MainFinalFlush ==
  /\ main = "final_flush"
  /\ Flush
  /\ main' = "snapshot"
  /\ UNCHANGED <<queueVars, reactor, pool, flusher, flush_shutdown, line,
                 stats>>

\* stats.snapshot() and the shutdown line; main returns.
MainSnapshot ==
  /\ main = "snapshot"
  /\ line' = stats
  /\ main' = "exited"
  /\ UNCHANGED <<queueVars, reactor, pool, batcher, flusher, flush_shutdown,
                 stats>>

\* The process has exited.
Exited == main = "exited" /\ UNCHANGED vars

-----------------------------------------------------------------------------

ReactorStep ==
  \/ \E k \in Connections :
       \/ accept(k) \/ Disconnect(k) \/ HandleMalformed(k)
       \/ PushEvent(k) \/ RetryPush(k)
       \/ RecordAccepted(k) \/ RecordDroppedOldest(k)
       \/ RecordDroppedNewest(k) \/ ArmRetry(k)
  \/ Signal

WorkerStep(w) ==
  \/ Pop(w) \/ PopSleep(w) \/ WorkerExit(w)
  \/ RecordQueueWait(w) \/ WorkerAdd(w)

FlusherStep == FlusherCheck \/ FlusherWake \/ FlusherFlush

MainStep ==
  \/ MainFlushShutdown \/ MainJoinFlusher \/ MainPoolStop
  \/ MainJoinPool \/ MainFinalFlush \/ MainSnapshot

Next ==
  \/ ReactorStep
  \/ \E w \in Workers : WorkerStep(w) \/ Spurious(w)
  \/ FlusherStep
  \/ MainStep
  \/ Exited

\* Every thread the process starts is scheduled; clients and signals owe
\* nothing.  wait_for has a timeout, so the flush thread is never stuck.
Fairness ==
  /\ \A w \in Workers : WF_vars(WorkerStep(w))
  /\ WF_vars(FlusherStep)
  /\ WF_vars(MainStep)

Spec == Init /\ [][Next]_vars /\ Fairness

-----------------------------------------------------------------------------
(* Properties.                                                             *)

Event == 1..MaxEvents

ConnState == {"unconnected", "reading", "pushed", "repushed", "retrying",
              "closed"}
WorkerState == {"pop", "record", "add", "exited"}
MainState == {"run", "join_flusher", "pool_stop", "join_pool", "final_flush",
              "snapshot", "exited"}
Stats == [accepted : Nat, dropped_oldest : Nat, dropped_newest : Nat,
          malformed : Nat, queue_wait_count : Nat]

\* Every variable has its type; the queue is never over its capacity and the
\* batcher's buffer is below max_batch_size whenever its mutex is free.
TypeOK ==
  /\ Q!QueueTypeOK(Event)
  /\ conn \in [Connections -> ConnState]
  /\ held \in [Connections -> Event \cup {None}]
  /\ current \in Connections \cup {None}
  /\ result \in PushResult \cup {None}
  /\ received \in 0..MaxEvents
  /\ io \in {"running", "stopped"}
  /\ worker \in [Workers -> WorkerState]
  /\ hand \in [Workers -> Event \cup {None}]
  /\ popped \in Seq(Event)
  /\ buffer_ \in Seq(Event)
  /\ Len(buffer_) < MaxBatchSize
  /\ written \in Seq(Event)
  /\ batches \in Nat
  /\ flusher \in {"check", "waiting", "flush", "exited"}
  /\ main \in MainState
  /\ flush_shutdown \in BOOLEAN
  /\ stats \in Stats
  /\ line \in Stats

\* The workers between a successful pop() and the end of add_event().
Busy == {w \in Workers : worker[w] \in {"record", "add"}}

\* The connections with an event no counter has been charged for.
Holding == {k \in Connections : held[k] # None}

\* No event is lost or made up between the counter and the sink: each event
\* counted (or about to be counted) as accepted by record_accepted() is in the
\* queue, in a worker's hands, in the batcher or in the sink.  A DroppedOldest
\* push adds one event and discards one, so it does not disturb the balance.
AcceptedAccounted ==
  stats.accepted + (IF result = Accepted THEN 1 ELSE 0)
    = Len(items_) + Cardinality(Busy) + Len(buffer_) + Len(written)

\* Every well-formed event is charged to exactly one of the three counters of
\* Connection::push_event and retry_push, or is still held by its connection.
\* After io_context.stop() the held ones are the only loss.
ReceivedAccounted ==
  received = stats.accepted + stats.dropped_oldest + stats.dropped_newest
               + Cardinality(Holding)

\* What the shutdown line prints is what happened: every event counted as
\* accepted has reached the sink and has a queue-wait sample.
ShutdownLineTruthful ==
  main = "exited" =>
    /\ Len(written) = line.accepted
    /\ line.queue_wait_count = line.accepted

\* No event reaches the sink twice, whatever add_event, the flush thread and
\* the final flush interleave.
WrittenOnce ==
  \A i, j \in 1..Len(written) : written[i] = written[j] => i = j

\* The event queue seen through the contract of queue_concept.hpp.
Contract ==
  INSTANCE EventQueue WITH
    Item <- Event, Consumer <- Workers, Bound <- Capacity,
    queue <- items_, closed <- shutting_down_, delivered <- popped,
    finished <- {w \in Workers : worker[w] = "exited"}

\* The mutex queue, as the reactor and the workers use it, implements the
\* contract: FIFO, each event to one worker, std::nullopt only once the queue
\* is empty and shut down, and neither a queued event nor a worker left behind.
ImplementsContract == Contract!Spec

\* A partial batch does not wait for further events: the flush thread makes
\* --batch-age-ms a bound even when the gateway is idle.
PartialBatchFlushed == (buffer_ # <<>>) ~> (buffer_ = <<>>)

\* Once the io_context has stopped, no join of the shutdown sequence hangs.
ShutdownCompletes == (io = "stopped") ~> (main = "exited")
=============================================================================
