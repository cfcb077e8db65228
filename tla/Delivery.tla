------------------------------ MODULE Delivery ------------------------------
(***************************************************************************)
(* The HTTP sink and the backend together: gateway/src/http_sink.cpp posts *)
(* batches to backend/src/ingest, which answers them.  HttpSink and Ingest *)
(* are composed; the sink's peer, anything at all in HttpSink, is here the *)
(* backend.  The sink runs; its shutdown is in HttpSink.                   *)
(*                                                                         *)
(* A POST is a request of Ingest with the sink's key and batch: one for    *)
(* each attempt at a batch, so a request is a batch and an attempt.  It    *)
(* reaches the backend some time after it was written, perhaps after the   *)
(* sink gave up on it, or never.  The sink reads the answer given to the   *)
(* request of its current attempt.                                         *)
(* When the process dies its connections die with it, and the requests     *)
(* under way on them are lost.                                             *)
(***************************************************************************)
EXTENDS Naturals, Sequences, FiniteSets

CONSTANTS
  Producers, SinkThreads, Capacity, MaxRetries, MaxBatches,  \* of HttpSink
  Valid, Large, LargeChunks, MaxRestarts, Absent, Committed, \* of Ingest
  None

VARIABLES
  policy_, items_, shutting_down_, waiting, notified, key_counter_, producer,
  minted, thread, carried, attempt, live, wire, answered, owner, deadline,
  elapsed, draining_, snapshot, stats,
  pc, batch, keyed, claimed, response, redis, client, txn, staged, rows,
  metrics, restarts, fault,
  posted,   \* the requests the sink has written
  lost,     \* the requests that will never reach the backend
  heard,    \* the requests whose answer the sink has read
  stale     \* the sink threads whose connection the backend has lost

Keys == 0..(MaxBatches - 1)
Requests == Keys \X (0..MaxRetries)

ASSUME DeliveryAssumption ==
  /\ Capacity \in Nat \ {0}
  /\ MaxRetries \in Nat
  /\ MaxBatches \in Nat
  /\ IsFiniteSet(Producers)
  /\ IsFiniteSet(SinkThreads)
  /\ SinkThreads # {}
  /\ Valid \subseteq Keys
  /\ Large \subseteq Valid
  /\ LargeChunks \in Nat \ {0, 1}
  /\ MaxRestarts \in Nat
  /\ Absent \notin Requests
  /\ Committed \notin Requests
  /\ Absent # Committed
  /\ None \notin Nat \cup {"stored", "duplicate", "503", "400"}

Sink == INSTANCE HttpSink WITH batch <- carried
Backend == INSTANCE Ingest WITH Batches <- Keys

sink == <<policy_, items_, shutting_down_, waiting, notified, key_counter_,
          producer, minted, thread, carried, attempt, live, wire, answered,
          owner, deadline, elapsed, draining_, snapshot, stats>>
backend == <<pc, batch, keyed, claimed, response, redis, client, txn, staged,
             rows, metrics, restarts, fault>>
network == <<posted, lost, heard, stale>>
vars == <<sink, backend, network>>

Init ==
  /\ Sink!Init
  /\ policy_ = "DropOldest"  \* the default of --sink-backpressure
  /\ Backend!Init
  /\ posted = {}
  /\ lost = {}
  /\ heard = {}
  /\ stale = {}

\* A connection that the sink drops is no longer a stale one.
StillStale == stale' = {t \in stale : live'[t]}

-----------------------------------------------------------------------------

\* Everything the sink does without the backend.
SinkStep(step) ==
  /\ step
  /\ StillStale
  /\ UNCHANGED <<backend, posted, lost, heard>>

\* The request of the sink thread's current attempt.
Request(t) == <<carried[t], attempt[t]>>

\* The sink writes it.
Post(t) ==
  /\ Sink!WriteRequest(t)
  /\ posted' = posted \cup {Request(t)}
  /\ lost' = IF t \in stale THEN lost \cup {Request(t)} ELSE lost
  /\ UNCHANGED <<backend, heard, stale>>

\* It reaches the controller, with the key in its header.
Reach(r) ==
  /\ r \in posted \ lost
  /\ Backend!ArriveWith(r, r[1], TRUE)
  /\ UNCHANGED <<sink, network>>

\* Everything the backend does about it.
Handle(r) ==
  /\ Backend!RequestStep(r)
  /\ UNCHANGED <<sink, network>>

\* The sink reads the answer, and takes 200 and 503 for what they are.
Answer(t) ==
  /\ thread[t] = "read"
  /\ response[Request(t)] # None
  /\ Sink!ReadResponse(t)
  /\ IF response[Request(t)] \in {"stored", "duplicate"}
     THEN thread'[t] = "delivered"
     ELSE Sink!AfterRetryable(t)
  /\ heard' = heard \cup {Request(t)}
  /\ StillStale
  /\ UNCHANGED <<backend, posted, lost>>

Redis ==
  /\ Backend!RedisStep
  /\ UNCHANGED <<sink, network>>

Crash ==
  /\ Backend!Restart
  /\ lost' = lost \cup {r \in posted : pc[r] = "unsent"}
  /\ stale' = {t \in SinkThreads : live[t]}
  /\ UNCHANGED <<sink, posted, heard>>

\* The batches that are still with the sink.
Unfinished == Cardinality(Sink!Consuming) + Sink!Backlog

\* The bound on the batches is reached and the sink is done with them.
Finished ==
  /\ key_counter_ = MaxBatches
  /\ Unfinished = 0
  /\ UNCHANGED vars

Next ==
  \/ SinkStep(Sink!Constructed)
  \/ \E p \in Producers : SinkStep(Sink!ProducerStep(p))
  \/ \E t \in SinkThreads :
       \/ SinkStep(Sink!SpawnThread(t))
       \/ SinkStep(Sink!LocalStep(t))
       \/ SinkStep(Sink!Spurious(t))
       \/ Post(t)
       \/ Answer(t)
  \/ \E r \in Requests : Reach(r) \/ Handle(r)
  \/ Redis
  \/ Crash
  \/ Finished

\* As in Ingest: every await settles and its continuation runs.
Fairness == \A r \in Requests : WF_vars(Handle(r))

Spec == Init /\ [][Next]_vars /\ Fairness

-----------------------------------------------------------------------------
(* Properties.                                                             *)

Consumed == {k \in Keys : k < key_counter_}

\* README.md: "Nothing goes missing while both sides report success".  The
\* batches that are not in the database are at most as many as the sink counts
\* as dropped or has not finished with, whatever requests and answers were
\* lost, delayed or overtaken and whatever Redis, PostgreSQL and the process
\* did.
NothingMissing ==
  Cardinality({k \in Consumed \cap Valid : ~Backend!Stored(k)})
    <= stats.dropped_outbound + stats.dropped_exhausted + Unfinished

\* The batches the backend has acknowledged, or is about to, on an answer that
\* the sink has not read: T in the README's identity.
Unheard ==
  {r \in Requests :
     /\ pc[r] = "mark" \/ response[r] \in {"stored", "duplicate"}
     /\ r \notin heard}

Delivered == {t \in SinkThreads : thread[t] = "delivered"}

\* README.md's arrival identity, exact at every moment of a process's life:
\* the batches the backend received are those the sink has counted or is about
\* to count as sent, those that failed, those refused as in flight, those
\* whose acknowledgement the sink did not get, and those under way.
ArrivalIdentity ==
  restarts = 0 =>
    metrics["batches_received"]
      = stats.sent + Cardinality(Delivered) + metrics["db_failures"]
          + metrics["batches_in_flight_rejected"] + Cardinality(Unheard)
          + Cardinality(Backend!Undecided)

\* Every request the backend keeps is answered, also when the sink is gone.
EveryRequestAnswered == Backend!EveryRequestAnswered
=============================================================================
