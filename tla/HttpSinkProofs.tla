--------------------------- MODULE HttpSinkProofs ---------------------------
(***************************************************************************)
(* Proofs about HttpSink for any number of producers and sink threads, any *)
(* outbound capacity, any number of retries and any number of batches.     *)
(***************************************************************************)
EXTENDS HttpSink, FiniteSetTheorems, SequenceTheorems, TLAPS

-----------------------------------------------------------------------------
(* The inductive invariant.                                                *)

\* Where run() holds a batch.
Holding == {"check", "connect", "exchange", "read", "backoff", "delivered",
            "failed"}

\* A sink thread holds a batch exactly inside the loop body.  Its connection
\* has at most one unanswered request, that of the batch in hand, and only
\* while the thread reads.  A backoff is followed by an attempt still allowed.
ThreadShape ==
  \A t \in SinkThreads :
    /\ batch[t] # None <=> thread[t] \in Holding
    /\ wire[t] = IF thread[t] = "read" THEN <<batch[t]>> ELSE <<>>
    /\ thread[t] = "backoff" => attempt[t] < MaxRetries
    /\ thread[t] = "delivered" => answered[t] = batch[t]

\* What the owner's progress says of the others.  Batches are consumed only by
\* a fully constructed sink, and producers are done before main() takes the
\* counters; the queue is shut down only by stop(), after the deadline and
\* draining_ are set, and a thread leaves only a queue shut down and empty.
OwnerShape ==
  /\ \A p \in Producers : minted[p] # None <=> producer[p] = "push"
  /\ owner # "running" => \A p \in Producers : producer[p] = "idle"
  /\ owner = "construct" => key_counter_ = 0
  /\ owner = "running" \/ key_counter_ > 0
       => \A t \in SinkThreads : thread[t] # "unborn"
  /\ shutting_down_ => owner \in {"join", "stopped"}
  /\ \A t \in SinkThreads :
       thread[t] = "exited" => shutting_down_ /\ items_ = <<>>
  /\ owner = "stopped"
       => \A t \in SinkThreads : thread[t] \in {"unborn", "exited"}

\* stop() assigns the deadline before it raises draining_.
DeadlineShape ==
  /\ owner = "deadline_set" => deadline
  /\ draining_ => deadline

\* Between the two loads of the shutdown line no batch is consumed: the first
\* load, the drop counters and the backlog it found cover every key minted.
SnapshotShape ==
  /\ owner \in {"snapshot", "printed"} => snapshot \in Snapshot
  /\ owner = "snapshot" =>
       /\ snapshot.counted <= stats.sent
       /\ key_counter_ <= snapshot.counted + stats.dropped_outbound
                            + stats.dropped_exhausted + snapshot.backlog

\* Every key around is one next_idempotency_key has returned, and no two of
\* the places that hold a key hold the same one.
KeysDistinct ==
  /\ \A p \in Producers :
       minted[p] # None =>
         /\ minted[p] < key_counter_
         /\ \A q \in Producers : minted[q] = minted[p] => q = p
         /\ \A t \in SinkThreads : batch[t] # minted[p]
         /\ \A i \in 1..Len(items_) : items_[i] # minted[p]
  /\ \A t \in SinkThreads : batch[t] # None => batch[t] < key_counter_
  /\ \A i \in 1..Len(items_) : items_[i] < key_counter_
  /\ KeyInOnePlace

Inv ==
  /\ TypeOK
  /\ ThreadShape
  /\ OwnerShape
  /\ DeadlineShape
  /\ BatchAccounting
  /\ SnapshotShape
  /\ ShutdownLineShortfall
  /\ KeysDistinct

-----------------------------------------------------------------------------
(* What the counters and the queue do.                                     *)

\* Each record_* function adds one to one counter and leaves the others.
LEMMA StatsLemma ==
  ASSUME NEW s \in Stats
  PROVE  /\ [s EXCEPT !.sent = @ + 1] \in Stats
         /\ [s EXCEPT !.retried = @ + 1] \in Stats
         /\ [s EXCEPT !.dropped_outbound = @ + 1] \in Stats
         /\ [s EXCEPT !.dropped_exhausted = @ + 1] \in Stats
BY DEF Stats

\* push() never leaves the queue over its capacity; it lengthens the queue
\* only when it returns Accepted.
LEMMA PushLemma ==
  ASSUME Q!QueueTypeOK(Nat), NEW key \in Nat
  PROVE  /\ Q!PushAccepted(key)
              => Q!QueueTypeOK(Nat)' /\ Len(items_') = Len(items_) + 1
         /\ Q!PushDroppedOldest(key)
              => Q!QueueTypeOK(Nat)' /\ Len(items_') = Len(items_)
         /\ Q!PushRejected => Q!QueueTypeOK(Nat)' /\ items_' = items_
<1>. USE SinkAssumption DEF Q!QueueTypeOK
<1>1. ASSUME Q!PushAccepted(key)
      PROVE  Q!QueueTypeOK(Nat)' /\ Len(items_') = Len(items_) + 1
  BY <1>1, AppendProperties DEF Q!PushAccepted, Q!NotifyOne
<1>2. ASSUME Q!PushDroppedOldest(key)
      PROVE  Q!QueueTypeOK(Nat)' /\ Len(items_') = Len(items_)
  <2>1. items_ # <<>>
    BY <1>2, EmptySeq DEF Q!PushDroppedOldest
  <2>2. /\ Tail(items_) \in Seq(Nat)
        /\ Len(Tail(items_)) = Len(items_) - 1
    BY <2>1, HeadTailProperties
  <2>3. /\ Append(Tail(items_), key) \in Seq(Nat)
        /\ Len(Append(Tail(items_), key)) = Len(items_)
    BY <2>2, AppendProperties, LenProperties
  <2>. QED
    BY <1>2, <2>3 DEF Q!PushDroppedOldest, Q!NotifyOne
<1>3. ASSUME Q!PushRejected
      PROVE  Q!QueueTypeOK(Nat)' /\ items_' = items_
  BY <1>3 DEF Q!PushRejected, Q!queueVars
<1>. QED
  BY <1>1, <1>2, <1>3

\* pop() takes the head off the queue.
LEMMA PopLemma ==
  ASSUME Q!QueueTypeOK(Nat), NEW t \in SinkThreads, Q!PopItem(t)
  PROVE  /\ Q!QueueTypeOK(Nat)'
         /\ Head(items_) \in Nat
         /\ Len(items_') = Len(items_) - 1
<1>1. /\ Head(items_) \in Nat
      /\ Tail(items_) \in Seq(Nat)
      /\ Len(Tail(items_)) = Len(items_) - 1
      /\ Len(items_) \in Nat
  BY HeadTailProperties, LenProperties DEF Q!QueueTypeOK, Q!PopItem
<1>. QED
  BY <1>1, SinkAssumption DEF Q!QueueTypeOK, Q!PopItem

\* The backlog is a number of batches.
LEMMA BacklogType ==
  ASSUME TypeOK
  PROVE  /\ Len(items_) \in Nat
         /\ IsFiniteSet(Sending) /\ Cardinality(Sending) \in Nat
         /\ IsFiniteSet(Consuming) /\ Cardinality(Consuming) \in Nat
         /\ Backlog \in Nat
<1>1. Len(items_) \in Nat
  BY LenProperties DEF TypeOK, Q!QueueTypeOK
<1>2. IsFiniteSet(Sending) /\ Cardinality(Sending) \in Nat
  BY SinkAssumption, FS_Subset, FS_CardinalityType DEF Sending
<1>3. IsFiniteSet(Consuming) /\ Cardinality(Consuming) \in Nat
  BY SinkAssumption, FS_Subset, FS_CardinalityType, SMTT(30) DEF Consuming
<1>. QED
  BY <1>1, <1>2, <1>3 DEF Backlog

-----------------------------------------------------------------------------
(* Every step preserves the invariant, conjunct by conjunct.               *)

\* No thread leaves a variable outside its type: the queue keeps within its
\* capacity, a connection has at most one request unanswered, and no batch is
\* tried more than 1 + max_retries times.
LEMMA TypeStep ==
  ASSUME TypeOK, ThreadShape, OwnerShape, SnapshotShape, [Next]_vars
  PROVE  TypeOK'
<1>. USE SinkAssumption DEF TypeOK, Q!QueueTypeOK, ProducerState, ThreadState,
         OwnerState, outbound, intake, connection, sending, stopping
<1>1. ASSUME NEW t \in SinkThreads, SpawnThread(t) PROVE TypeOK'
  BY <1>1 DEF SpawnThread
<1>2. CASE Constructed
  BY <1>2 DEF Constructed
<1>3. CASE SpawnFails
  BY <1>3, SMTT(30) DEF SpawnFails
<1>4. ASSUME NEW p \in Producers, NextIdempotencyKey(p) PROVE TypeOK'
  BY <1>4 DEF NextIdempotencyKey
<1>5. ASSUME NEW p \in Producers, ConsumePush(p) PROVE TypeOK'
  <2>1. minted[p] \in Nat
    BY <1>5 DEF ConsumePush, OwnerShape
  <2>2. Q!QueueTypeOK(Nat)'
    BY <1>5, <2>1, PushLemma DEF ConsumePush
  <2>. QED
    BY <1>5, <2>2, Zenon DEF ConsumePush
<1>6. ASSUME NEW p \in Producers, RecordDroppedOutbound(p) PROVE TypeOK'
  <2>1. stats' \in Stats
    BY <1>6, StatsLemma, Zenon DEF RecordDroppedOutbound
  <2>. QED
    BY <1>6, <2>1 DEF RecordDroppedOutbound
<1>7. ASSUME NEW t \in SinkThreads, Pop(t) PROVE TypeOK'
  <2>1. Q!QueueTypeOK(Nat)' /\ Head(items_) \in Nat
    BY <1>7, PopLemma DEF Pop
  <2>. QED
    BY <1>7, <2>1, SMTT(30) DEF Pop
<1>8. ASSUME NEW t \in SinkThreads, PopSleep(t) PROVE TypeOK'
  BY <1>8 DEF PopSleep, Q!PopWait, Q!Running
<1>9. ASSUME NEW t \in SinkThreads, Spurious(t) PROVE TypeOK'
  BY <1>9 DEF Spurious, Q!SpuriousWakeup
<1>10. ASSUME NEW t \in SinkThreads, ThreadExit(t) PROVE TypeOK'
  BY <1>10 DEF ThreadExit, Q!PopNullopt
<1>11. ASSUME NEW t \in SinkThreads, DeadlineDrop(t) PROVE TypeOK'
  BY <1>11, SMTT(30) DEF DeadlineDrop
<1>12. ASSUME NEW t \in SinkThreads, BeginSend(t) PROVE TypeOK'
  BY <1>12 DEF BeginSend
<1>13. ASSUME NEW t \in SinkThreads, RecordSent(t) PROVE TypeOK'
  <2>1. stats' \in Stats
    BY <1>13, StatsLemma, Zenon DEF RecordSent
  <2>2. /\ thread' \in [SinkThreads -> ThreadState]
        /\ batch' \in [SinkThreads -> Nat \cup {None}]
        /\ attempt' \in [SinkThreads -> 0..MaxRetries]
        /\ answered' \in [SinkThreads -> Nat \cup {None}]
    BY <1>13 DEF RecordSent, LoopAgain
  <2>. QED
    BY <1>13, <2>1, <2>2, SMTT(30) DEF RecordSent
<1>14. ASSUME NEW t \in SinkThreads, RecordDroppedExhausted(t) PROVE TypeOK'
  <2>1. stats' \in Stats
    BY <1>14, StatsLemma, Zenon DEF RecordDroppedExhausted
  <2>2. /\ thread' \in [SinkThreads -> ThreadState]
        /\ batch' \in [SinkThreads -> Nat \cup {None}]
        /\ attempt' \in [SinkThreads -> 0..MaxRetries]
        /\ answered' \in [SinkThreads -> Nat \cup {None}]
    BY <1>14 DEF RecordDroppedExhausted, LoopAgain
  <2>. QED
    BY <1>14, <2>1, <2>2, SMTT(30) DEF RecordDroppedExhausted
<1>15. ASSUME NEW t \in SinkThreads, Connect(t) PROVE TypeOK'
  BY <1>15 DEF Connect
<1>16. ASSUME NEW t \in SinkThreads, ConnectFails(t) PROVE TypeOK'
  BY <1>16 DEF ConnectFails, AfterRetryable
<1>17. ASSUME NEW t \in SinkThreads, WriteRequest(t) PROVE TypeOK'
  <2>1. wire[t] = <<>> /\ batch[t] \in Nat
    BY <1>17 DEF WriteRequest, ThreadShape, Holding
  <2>2. Append(wire[t], batch[t]) = <<batch[t]>>
    BY <2>1
  <2>3. /\ wire' \in [SinkThreads -> Seq(Nat)]
        /\ \A u \in SinkThreads : Len(wire'[u]) <= 1
    BY <1>17, <2>1, <2>2 DEF WriteRequest
  <2>. QED
    BY <1>17, <2>3 DEF WriteRequest
<1>18. ASSUME NEW t \in SinkThreads, ExchangeFails(t) PROVE TypeOK'
  <2>1. /\ wire' \in [SinkThreads -> Seq(Nat)]
        /\ \A u \in SinkThreads : Len(wire'[u]) <= 1
        /\ live' \in [SinkThreads -> BOOLEAN]
    BY <1>18 DEF ExchangeFails, DropConnection
  <2>. QED
    BY <1>18, <2>1, Zenon DEF ExchangeFails, AfterRetryable
<1>19. ASSUME NEW t \in SinkThreads, ReadResponse(t) PROVE TypeOK'
  <2>1. wire[t] = <<batch[t]>> /\ batch[t] \in Nat
    BY <1>19 DEF ReadResponse, ThreadShape, Holding
  <2>2. Tail(wire[t]) = <<>> /\ Head(wire[t]) = batch[t]
    BY <2>1
  <2>3. /\ wire' = [wire EXCEPT ![t] = <<>>]
        /\ live' \in [SinkThreads -> BOOLEAN]
    BY <1>19, <2>2, Zenon DEF ReadResponse, DropConnection
  <2>4. /\ wire' \in [SinkThreads -> Seq(Nat)]
        /\ \A u \in SinkThreads : Len(wire'[u]) <= 1
    BY <2>3
  <2>5. /\ thread' \in [SinkThreads -> ThreadState]
        /\ answered' \in [SinkThreads -> Nat \cup {None}]
    <3>1. PICK s \in ThreadState : thread' = [thread EXCEPT ![t] = s]
      BY <1>19, Zenon DEF ReadResponse, AfterRetryable
    <3>2. \/ answered' = answered
          \/ answered' = [answered EXCEPT ![t] = batch[t]]
      BY <1>19, <2>2, Zenon DEF ReadResponse
    <3>. QED
      BY <2>1, <3>1, <3>2, Zenon
  <2>. QED
    BY <1>19, <2>3, <2>4, <2>5, SMTT(30) DEF ReadResponse
<1>20. ASSUME NEW t \in SinkThreads, Retry(t) PROVE TypeOK'
  <2>1. stats' \in Stats
    BY <1>20, StatsLemma, Zenon DEF Retry
  <2>2. attempt[t] + 1 \in 0..MaxRetries
    BY <1>20 DEF Retry, ThreadShape
  <2>. QED
    BY <1>20, <2>1, <2>2 DEF Retry
<1>21. CASE SnapshotSent
  <2>1. Backlog \in Nat
    BY BacklogType
  <2>2. snapshot' \in Snapshot
    BY <1>21, <2>1 DEF SnapshotSent, Snapshot, Stats
  <2>. QED
    BY <1>21, <2>2 DEF SnapshotSent
<1>22. CASE SnapshotDropped
  <2>1. snapshot \in Snapshot
    BY <1>22 DEF SnapshotDropped, SnapshotShape
  <2>2. snapshot.counted + stats.dropped_outbound
          + stats.dropped_exhausted \in Nat
    BY <2>1 DEF Snapshot, Stats
  <2>3. snapshot' \in Snapshot
    BY <1>22, <2>1, <2>2, Zenon DEF SnapshotDropped, Snapshot
  <2>. QED
    BY <1>22, <2>3 DEF SnapshotDropped
<1>23. CASE Stop
  BY <1>23 DEF Stop
<1>24. CASE StopSetDeadline
  BY <1>24 DEF StopSetDeadline
<1>25. CASE StopSetDraining
  BY <1>25 DEF StopSetDraining
<1>26. CASE StopShutdown
  BY <1>26 DEF StopShutdown, Q!shutdown, Q!NotifyAll
<1>27. CASE StopJoin
  BY <1>27 DEF StopJoin
<1>28. CASE DeadlinePasses
  BY <1>28 DEF DeadlinePasses
<1>29. CASE Stopped
  BY <1>29 DEF Stopped, vars
<1>30. CASE UNCHANGED vars
  BY <1>30 DEF vars
<1>. HIDE DEF TypeOK, Q!QueueTypeOK, ProducerState, ThreadState, OwnerState
<1>. QED
  BY <1>1, <1>2, <1>3, <1>4, <1>5, <1>6, <1>7, <1>8, <1>9, <1>10, <1>11,
     <1>12, <1>13, <1>14, <1>15, <1>16, <1>17, <1>18, <1>19, <1>20, <1>21,
     <1>22, <1>23, <1>24, <1>25, <1>26, <1>27, <1>28, <1>29, <1>30
     DEF Next, OwnerStep, ProducerStep, ThreadStep, LocalStep

\* What moves a sink thread.
LEMMA SendingFrame ==
  ASSUME [Next]_vars
  PROVE  \/ UNCHANGED sending
         \/ \E t \in SinkThreads :
              \/ SpawnThread(t) \/ Pop(t) \/ ThreadExit(t)
              \/ DeadlineDrop(t) \/ BeginSend(t)
              \/ RecordSent(t) \/ RecordDroppedExhausted(t)
              \/ Connect(t) \/ ConnectFails(t) \/ WriteRequest(t)
              \/ ExchangeFails(t) \/ ReadResponse(t) \/ Retry(t)
<1>. USE DEF vars
<1>1. CASE Constructed
  BY <1>1 DEF Constructed
<1>2. CASE SpawnFails
  BY <1>2 DEF SpawnFails
<1>3. ASSUME NEW p \in Producers, NextIdempotencyKey(p) PROVE UNCHANGED sending
  BY <1>3 DEF NextIdempotencyKey
<1>4. ASSUME NEW p \in Producers, ConsumePush(p) PROVE UNCHANGED sending
  BY <1>4 DEF ConsumePush, Q!PushAccepted, Q!PushDroppedOldest, Q!PushRejected,
     Q!NotifyOne, Q!queueVars
<1>5. ASSUME NEW p \in Producers, RecordDroppedOutbound(p) PROVE UNCHANGED
   sending
  BY <1>5 DEF RecordDroppedOutbound
<1>6. ASSUME NEW t \in SinkThreads, PopSleep(t) PROVE UNCHANGED sending
  BY <1>6 DEF PopSleep, Q!PopWait, Q!Running
<1>7. ASSUME NEW t \in SinkThreads, Spurious(t) PROVE UNCHANGED sending
  BY <1>7 DEF Spurious, Q!SpuriousWakeup
<1>8. CASE SnapshotSent
  BY <1>8 DEF SnapshotSent
<1>9. CASE SnapshotDropped
  BY <1>9 DEF SnapshotDropped
<1>10. CASE Stop
  BY <1>10 DEF Stop
<1>11. CASE StopSetDeadline
  BY <1>11 DEF StopSetDeadline
<1>12. CASE StopSetDraining
  BY <1>12 DEF StopSetDraining
<1>13. CASE StopShutdown
  BY <1>13 DEF StopShutdown, Q!shutdown, Q!NotifyAll
<1>14. CASE StopJoin
  BY <1>14 DEF StopJoin
<1>15. CASE DeadlinePasses
  BY <1>15 DEF DeadlinePasses
<1>16. CASE Stopped
  BY <1>16 DEF Stopped, vars
<1>17. CASE UNCHANGED vars
  BY <1>17, SMTT(30) DEF vars
<1>. QED
  BY <1>1, <1>2, <1>3, <1>4, <1>5, <1>6, <1>7, <1>8, <1>9, <1>10, <1>11,
     <1>12, <1>13, <1>14, <1>15, <1>16, <1>17
     DEF Next, OwnerStep, ProducerStep, ThreadStep, LocalStep

\* run() and send_with_retries keep a thread's locals and its connection in
\* step: every way out of an exchange empties or drops the connection.
LEMMA ThreadStepShape ==
  ASSUME TypeOK, ThreadShape, [Next]_vars
  PROVE  ThreadShape'
<1>. USE SinkAssumption DEF TypeOK, ThreadShape, Holding, outbound, intake,
         connection, sending, stopping
<1>1. ASSUME NEW t \in SinkThreads, SpawnThread(t) PROVE ThreadShape'
  BY <1>1 DEF SpawnThread
<1>2. ASSUME NEW t \in SinkThreads, Pop(t) PROVE ThreadShape'
  <2>1. Head(items_) \in Nat
    BY <1>2, PopLemma DEF Pop
  <2>. QED
    BY <1>2, <2>1 DEF Pop
<1>3. ASSUME NEW t \in SinkThreads, ThreadExit(t) PROVE ThreadShape'
  BY <1>3 DEF ThreadExit, Q!PopNullopt
<1>4. ASSUME NEW t \in SinkThreads, DeadlineDrop(t) PROVE ThreadShape'
  BY <1>4 DEF DeadlineDrop
<1>5. ASSUME NEW t \in SinkThreads, BeginSend(t) PROVE ThreadShape'
  BY <1>5 DEF BeginSend
<1>6. ASSUME NEW t \in SinkThreads, RecordSent(t) PROVE ThreadShape'
  BY <1>6 DEF RecordSent, LoopAgain
<1>7. ASSUME NEW t \in SinkThreads, RecordDroppedExhausted(t) PROVE
   ThreadShape'
  BY <1>7 DEF RecordDroppedExhausted, LoopAgain
<1>8. ASSUME NEW t \in SinkThreads, Connect(t) PROVE ThreadShape'
  BY <1>8 DEF Connect
<1>9. ASSUME NEW t \in SinkThreads, ConnectFails(t) PROVE ThreadShape'
  BY <1>9 DEF ConnectFails, AfterRetryable
<1>10. ASSUME NEW t \in SinkThreads, WriteRequest(t) PROVE ThreadShape'
  <2>1. wire[t] = <<>>
    BY <1>10 DEF WriteRequest
  <2>2. Append(wire[t], batch[t]) = <<batch[t]>>
    BY <2>1
  <2>. QED
    BY <1>10, <2>2 DEF WriteRequest
<1>11. ASSUME NEW t \in SinkThreads, ExchangeFails(t) PROVE ThreadShape'
  BY <1>11 DEF ExchangeFails, AfterRetryable, DropConnection
<1>12. ASSUME NEW t \in SinkThreads, ReadResponse(t) PROVE ThreadShape'
  <2>1. Tail(wire[t]) = <<>> /\ Head(wire[t]) = batch[t]
    BY <1>12 DEF ReadResponse
  <2>2. /\ wire' = [wire EXCEPT ![t] = <<>>]
        /\ UNCHANGED <<batch, attempt>>
    BY <1>12, <2>1 DEF ReadResponse, DropConnection
  <2>3. \/ /\ thread' = [thread EXCEPT ![t] = "delivered"]
           /\ answered' = [answered EXCEPT ![t] = batch[t]]
        \/ /\ thread' = [thread EXCEPT ![t] =
                IF attempt[t] = MaxRetries THEN "failed" ELSE "backoff"]
           /\ UNCHANGED answered
        \/ /\ thread' = [thread EXCEPT ![t] = "failed"]
           /\ UNCHANGED answered
    BY <1>12, <2>1 DEF ReadResponse, AfterRetryable
  <2>4. thread[t] = "read"
    BY <1>12 DEF ReadResponse
  <2>. QED
    BY <2>2, <2>3, <2>4
<1>13. ASSUME NEW t \in SinkThreads, Retry(t) PROVE ThreadShape'
  BY <1>13, SMTT(30) DEF Retry
<1>14. CASE UNCHANGED sending
  BY <1>14
<1>. HIDE DEF TypeOK, ThreadShape, Holding
<1>. QED
  BY <1>1, <1>2, <1>3, <1>4, <1>5, <1>6, <1>7, <1>8, <1>9, <1>10, <1>11,
     <1>12, <1>13, <1>14, SendingFrame

\* The owner's steps come in their order, and what it has done so far bounds
\* what producers and sink threads can do.
LEMMA OwnerStepShape ==
  ASSUME TypeOK, OwnerShape, [Next]_vars
  PROVE  OwnerShape'
<1>. USE SinkAssumption DEF TypeOK, OwnerShape, outbound, intake, connection,
         sending, stopping
<1>1. ASSUME NEW t \in SinkThreads, SpawnThread(t) PROVE OwnerShape'
  BY <1>1 DEF SpawnThread
<1>2. CASE Constructed
  BY <1>2 DEF Constructed
<1>3. CASE SpawnFails
  BY <1>3 DEF SpawnFails
<1>4. ASSUME NEW p \in Producers, NextIdempotencyKey(p) PROVE OwnerShape'
  <2>1. key_counter_ \in Nat /\ key_counter_' = key_counter_ + 1
    BY <1>4 DEF NextIdempotencyKey
  <2>. QED
    BY <1>4, <2>1 DEF NextIdempotencyKey
<1>5. ASSUME NEW p \in Producers, ConsumePush(p) PROVE OwnerShape'
  <2>1. owner = "running" /\ ~shutting_down_
    BY <1>5 DEF ConsumePush
  <2>2. ~shutting_down_'
    BY <1>5, <2>1 DEF ConsumePush, Q!PushAccepted, Q!PushDroppedOldest,
       Q!PushRejected, Q!queueVars
  <2>. QED
    BY <1>5, <2>1, <2>2 DEF ConsumePush
<1>6. ASSUME NEW p \in Producers, RecordDroppedOutbound(p) PROVE OwnerShape'
  BY <1>6 DEF RecordDroppedOutbound
<1>7. ASSUME NEW t \in SinkThreads, Pop(t) PROVE OwnerShape'
  BY <1>7 DEF Pop, Q!PopItem
<1>8. ASSUME NEW t \in SinkThreads, PopSleep(t) PROVE OwnerShape'
  BY <1>8 DEF PopSleep, Q!PopWait, Q!Running
<1>9. ASSUME NEW t \in SinkThreads, Spurious(t) PROVE OwnerShape'
  BY <1>9 DEF Spurious, Q!SpuriousWakeup
<1>10. ASSUME NEW t \in SinkThreads, ThreadExit(t) PROVE OwnerShape'
  BY <1>10 DEF ThreadExit, Q!PopNullopt
<1>11. ASSUME NEW t \in SinkThreads, DeadlineDrop(t) PROVE OwnerShape'
  BY <1>11 DEF DeadlineDrop
<1>12. ASSUME NEW t \in SinkThreads, BeginSend(t) PROVE OwnerShape'
  BY <1>12 DEF BeginSend
<1>13. ASSUME NEW t \in SinkThreads, RecordSent(t) PROVE OwnerShape'
  BY <1>13 DEF RecordSent, LoopAgain
<1>14. ASSUME NEW t \in SinkThreads, RecordDroppedExhausted(t) PROVE
   OwnerShape'
  BY <1>14 DEF RecordDroppedExhausted, LoopAgain
<1>15. ASSUME NEW t \in SinkThreads, Connect(t) PROVE OwnerShape'
  BY <1>15 DEF Connect
<1>16. ASSUME NEW t \in SinkThreads, ConnectFails(t) PROVE OwnerShape'
  BY <1>16 DEF ConnectFails, AfterRetryable
<1>17. ASSUME NEW t \in SinkThreads, WriteRequest(t) PROVE OwnerShape'
  BY <1>17 DEF WriteRequest
<1>18. ASSUME NEW t \in SinkThreads, ExchangeFails(t) PROVE OwnerShape'
  BY <1>18 DEF ExchangeFails, AfterRetryable, DropConnection
<1>19. ASSUME NEW t \in SinkThreads, ReadResponse(t) PROVE OwnerShape'
  BY <1>19 DEF ReadResponse, AfterRetryable, DropConnection
<1>20. ASSUME NEW t \in SinkThreads, Retry(t) PROVE OwnerShape'
  BY <1>20 DEF Retry
<1>21. CASE SnapshotSent
  BY <1>21 DEF SnapshotSent
<1>22. CASE SnapshotDropped
  BY <1>22 DEF SnapshotDropped
<1>23. CASE Stop
  BY <1>23 DEF Stop
<1>24. CASE StopSetDeadline
  BY <1>24 DEF StopSetDeadline
<1>25. CASE StopSetDraining
  BY <1>25 DEF StopSetDraining
<1>26. CASE StopShutdown
  BY <1>26 DEF StopShutdown, Q!shutdown, Q!NotifyAll
<1>27. CASE StopJoin
  BY <1>27 DEF StopJoin
<1>28. CASE DeadlinePasses
  BY <1>28 DEF DeadlinePasses
<1>29. CASE Stopped
  BY <1>29 DEF Stopped, vars
<1>30. CASE UNCHANGED vars
  BY <1>30, SMTT(30) DEF vars
<1>. HIDE DEF TypeOK, OwnerShape
<1>. QED
  BY <1>1, <1>2, <1>3, <1>4, <1>5, <1>6, <1>7, <1>8, <1>9, <1>10, <1>11,
     <1>12, <1>13, <1>14, <1>15, <1>16, <1>17, <1>18, <1>19, <1>20, <1>21,
     <1>22, <1>23, <1>24, <1>25, <1>26, <1>27, <1>28, <1>29, <1>30
     DEF Next, OwnerStep, ProducerStep, ThreadStep, LocalStep

\* drain_deadline_ is assigned before draining_ is raised and never unassigned.
LEMMA DeadlineStep ==
  ASSUME DeadlineShape, [Next]_vars
  PROVE  DeadlineShape'
<1>. USE DEF DeadlineShape, stopping
<1>1. ASSUME NEW t \in SinkThreads, SpawnThread(t) PROVE DeadlineShape'
  BY <1>1 DEF SpawnThread
<1>2. CASE Constructed
  BY <1>2 DEF Constructed
<1>3. CASE SpawnFails
  BY <1>3 DEF SpawnFails
<1>4. ASSUME NEW p \in Producers, NextIdempotencyKey(p) PROVE DeadlineShape'
  BY <1>4 DEF NextIdempotencyKey
<1>5. ASSUME NEW p \in Producers, ConsumePush(p) PROVE DeadlineShape'
  BY <1>5 DEF ConsumePush
<1>6. ASSUME NEW p \in Producers, RecordDroppedOutbound(p) PROVE DeadlineShape'
  BY <1>6 DEF RecordDroppedOutbound
<1>7. ASSUME NEW t \in SinkThreads, Pop(t) PROVE DeadlineShape'
  BY <1>7 DEF Pop
<1>8. ASSUME NEW t \in SinkThreads, PopSleep(t) PROVE DeadlineShape'
  BY <1>8 DEF PopSleep
<1>9. ASSUME NEW t \in SinkThreads, Spurious(t) PROVE DeadlineShape'
  BY <1>9 DEF Spurious
<1>10. ASSUME NEW t \in SinkThreads, ThreadExit(t) PROVE DeadlineShape'
  BY <1>10 DEF ThreadExit
<1>11. ASSUME NEW t \in SinkThreads, DeadlineDrop(t) PROVE DeadlineShape'
  BY <1>11 DEF DeadlineDrop
<1>12. ASSUME NEW t \in SinkThreads, BeginSend(t) PROVE DeadlineShape'
  BY <1>12 DEF BeginSend
<1>13. ASSUME NEW t \in SinkThreads, RecordSent(t) PROVE DeadlineShape'
  BY <1>13 DEF RecordSent
<1>14. ASSUME NEW t \in SinkThreads, RecordDroppedExhausted(t) PROVE
   DeadlineShape'
  BY <1>14 DEF RecordDroppedExhausted
<1>15. ASSUME NEW t \in SinkThreads, Connect(t) PROVE DeadlineShape'
  BY <1>15 DEF Connect
<1>16. ASSUME NEW t \in SinkThreads, ConnectFails(t) PROVE DeadlineShape'
  BY <1>16 DEF ConnectFails
<1>17. ASSUME NEW t \in SinkThreads, WriteRequest(t) PROVE DeadlineShape'
  BY <1>17 DEF WriteRequest
<1>18. ASSUME NEW t \in SinkThreads, ExchangeFails(t) PROVE DeadlineShape'
  BY <1>18 DEF ExchangeFails
<1>19. ASSUME NEW t \in SinkThreads, ReadResponse(t) PROVE DeadlineShape'
  BY <1>19 DEF ReadResponse
<1>20. ASSUME NEW t \in SinkThreads, Retry(t) PROVE DeadlineShape'
  BY <1>20 DEF Retry
<1>21. CASE SnapshotSent
  BY <1>21 DEF SnapshotSent
<1>22. CASE SnapshotDropped
  BY <1>22 DEF SnapshotDropped
<1>23. CASE Stop
  BY <1>23 DEF Stop
<1>24. CASE StopSetDeadline
  BY <1>24 DEF StopSetDeadline
<1>25. CASE StopSetDraining
  BY <1>25 DEF StopSetDraining
<1>26. CASE StopShutdown
  BY <1>26 DEF StopShutdown
<1>27. CASE StopJoin
  BY <1>27 DEF StopJoin
<1>28. CASE DeadlinePasses
  BY <1>28 DEF DeadlinePasses
<1>29. CASE Stopped
  BY <1>29 DEF Stopped, vars
<1>30. CASE UNCHANGED vars
  BY <1>30 DEF vars
<1>. HIDE DEF DeadlineShape
<1>. QED
  BY <1>1, <1>2, <1>3, <1>4, <1>5, <1>6, <1>7, <1>8, <1>9, <1>10, <1>11,
     <1>12, <1>13, <1>14, <1>15, <1>16, <1>17, <1>18, <1>19, <1>20, <1>21,
     <1>22, <1>23, <1>24, <1>25, <1>26, <1>27, <1>28, <1>29, <1>30
     DEF Next, OwnerStep, ProducerStep, ThreadStep, LocalStep

\* consume(), push(), pop() and the counters move one batch at a time from
\* one place to the next, or trade one batch for another.
LEMMA AccountingStep ==
  ASSUME TypeOK, ThreadShape, OwnerShape, BatchAccounting, [Next]_vars
  PROVE  BatchAccounting'
<1>. USE SinkAssumption DEF outbound, intake, connection, sending, stopping
<1>a. /\ Len(items_) \in Nat
      /\ IsFiniteSet(Sending) /\ Cardinality(Sending) \in Nat
      /\ IsFiniteSet(Consuming) /\ Cardinality(Consuming) \in Nat
  BY BacklogType
<1>b. stats \in Stats /\ Counted \in Nat /\ key_counter_ \in Nat
  BY DEF TypeOK, Stats, Counted
<1>c. ASSUME UNCHANGED <<key_counter_, producer, items_, batch>>,
             Counted' = Counted
      PROVE  BatchAccounting'
  BY <1>c DEF BatchAccounting, Consuming, Sending
<1>1. ASSUME NEW t \in SinkThreads, SpawnThread(t) PROVE BatchAccounting'
  BY <1>1, <1>c DEF SpawnThread, Counted
<1>2. CASE Constructed
  BY <1>2, <1>c DEF Constructed, Counted
<1>3. CASE SpawnFails
  BY <1>3, <1>c, SMTT(30) DEF SpawnFails, Counted
<1>4. ASSUME NEW p \in Producers, NextIdempotencyKey(p) PROVE BatchAccounting'
  <2>1. Consuming' = Consuming \cup {p} /\ p \notin Consuming
    BY <1>4 DEF NextIdempotencyKey, Consuming, TypeOK
  <2>2. Cardinality(Consuming') = Cardinality(Consuming) + 1
    BY <1>a, <2>1, FS_AddElement, Zenon
  <2>. QED
    BY <1>4, <1>a, <1>b, <2>2, SMTT(30) DEF NextIdempotencyKey,
       BatchAccounting, Sending, Counted
<1>5. ASSUME NEW p \in Producers, ConsumePush(p) PROVE BatchAccounting'
  <2>1. minted[p] \in Nat
    BY <1>5, SMTT(30) DEF ConsumePush, OwnerShape, TypeOK
  <2>2. UNCHANGED <<key_counter_, batch, stats>>
    BY <1>5 DEF ConsumePush
  <2>3. CASE /\ Q!PushAccepted(minted[p])
             /\ producer' = [producer EXCEPT ![p] = "idle"]
    <3>1. Len(items_') = Len(items_) + 1
      BY <2>1, <2>3, PushLemma, SMTT(30) DEF TypeOK
    <3>2. Consuming' = Consuming \ {p} /\ p \in Consuming
      BY <1>5, <2>3 DEF ConsumePush, Consuming, TypeOK
    <3>3. Cardinality(Consuming') = Cardinality(Consuming) - 1
      BY <1>a, <3>2, FS_RemoveElement, Zenon
    <3>. QED
      BY <1>a, <1>b, <2>2, <3>1, <3>3, SMTT(30) DEF BatchAccounting, Sending,
         Counted
  <2>4. CASE /\ Q!PushDroppedOldest(minted[p]) \/ Q!PushRejected
             /\ producer' = [producer EXCEPT ![p] = "record"]
    <3>1. Len(items_') = Len(items_)
      BY <2>1, <2>4, PushLemma, SMTT(30) DEF TypeOK
    <3>2. Consuming' = Consuming
      BY <1>5, <2>4 DEF ConsumePush, Consuming, TypeOK
    <3>. QED
      BY <2>2, <3>1, <3>2 DEF BatchAccounting, Sending, Counted
  <2>. QED
    BY <1>5, <2>3, <2>4, SMTT(30) DEF ConsumePush
<1>6. ASSUME NEW p \in Producers, RecordDroppedOutbound(p) PROVE
   BatchAccounting'
  <2>1. Counted' = Counted + 1
    BY <1>6, <1>b DEF RecordDroppedOutbound, Counted, Stats
  <2>2. Consuming' = Consuming \ {p} /\ p \in Consuming
    BY <1>6, SMTT(30) DEF RecordDroppedOutbound, Consuming, TypeOK
  <2>3. Cardinality(Consuming') = Cardinality(Consuming) - 1
    BY <1>a, <2>2, FS_RemoveElement, Zenon
  <2>. QED
    BY <1>6, <1>a, <1>b, <2>1, <2>3
       DEF RecordDroppedOutbound, BatchAccounting, Sending
<1>7. ASSUME NEW t \in SinkThreads, Pop(t) PROVE BatchAccounting'
  <2>1. Head(items_) \in Nat /\ Len(items_') = Len(items_) - 1
    BY <1>7, PopLemma DEF Pop, TypeOK
  <2>2. Sending' = Sending \cup {t} /\ t \notin Sending
    BY <1>7, <2>1, ZenonT(30) DEF Pop, Sending, TypeOK, ThreadShape, Holding
  <2>3. Cardinality(Sending') = Cardinality(Sending) + 1
    BY <1>a, <2>2, FS_AddElement, Zenon
  <2>. QED
    BY <1>7, <1>a, <1>b, <2>1, <2>3, SMTT(30) DEF Pop, BatchAccounting,
       Consuming, Counted
<1>8. ASSUME NEW t \in SinkThreads, PopSleep(t) PROVE BatchAccounting'
  BY <1>8, <1>c, Zenon DEF PopSleep, Q!PopWait, Counted
<1>9. ASSUME NEW t \in SinkThreads, Spurious(t) PROVE BatchAccounting'
  BY <1>9, <1>c DEF Spurious, Q!SpuriousWakeup, Counted
<1>10. ASSUME NEW t \in SinkThreads, ThreadExit(t) PROVE BatchAccounting'
  BY <1>10, <1>c DEF ThreadExit, Q!PopNullopt, Counted
<1>11. ASSUME NEW t \in SinkThreads, DeadlineDrop(t) PROVE BatchAccounting'
  BY <1>11, <1>c DEF DeadlineDrop, Counted
<1>12. ASSUME NEW t \in SinkThreads, BeginSend(t) PROVE BatchAccounting'
  BY <1>12, <1>c DEF BeginSend, Counted
<1>13. ASSUME NEW t \in SinkThreads, RecordSent(t) PROVE BatchAccounting'
  <2>1. Counted' = Counted + 1
    BY <1>13, <1>b DEF RecordSent, Counted, Stats
  <2>2. Sending' = Sending \ {t} /\ t \in Sending
    BY <1>13 DEF RecordSent, LoopAgain, Sending, TypeOK,
       ThreadShape, Holding
  <2>3. Cardinality(Sending') = Cardinality(Sending) - 1
    BY <1>a, <2>2, FS_RemoveElement, Zenon
  <2>. QED
    BY <1>13, <1>a, <1>b, <2>1, <2>3, SMTT(30) DEF RecordSent,
       BatchAccounting, Consuming
<1>14. ASSUME NEW t \in SinkThreads, RecordDroppedExhausted(t) PROVE
   BatchAccounting'
  <2>1. Counted' = Counted + 1
    BY <1>14, <1>b DEF RecordDroppedExhausted, Counted, Stats
  <2>2. Sending' = Sending \ {t} /\ t \in Sending
    BY <1>14, SMTT(30) DEF RecordDroppedExhausted, LoopAgain, Sending, TypeOK,
       ThreadShape, Holding
  <2>3. Cardinality(Sending') = Cardinality(Sending) - 1
    BY <1>a, <2>2, FS_RemoveElement, Zenon
  <2>. QED
    BY <1>14, <1>a, <1>b, <2>1, <2>3, SMTT(30) DEF RecordDroppedExhausted,
       BatchAccounting, Consuming
<1>15. ASSUME NEW t \in SinkThreads, Connect(t) PROVE BatchAccounting'
  BY <1>15, <1>c DEF Connect, Counted
<1>16. ASSUME NEW t \in SinkThreads, ConnectFails(t) PROVE BatchAccounting'
  BY <1>16, <1>c DEF ConnectFails, Counted
<1>17. ASSUME NEW t \in SinkThreads, WriteRequest(t) PROVE BatchAccounting'
  BY <1>17, <1>c DEF WriteRequest, Counted
<1>18. ASSUME NEW t \in SinkThreads, ExchangeFails(t) PROVE BatchAccounting'
  BY <1>18, <1>c, SMTT(30) DEF ExchangeFails, Counted
<1>19. ASSUME NEW t \in SinkThreads, ReadResponse(t) PROVE BatchAccounting'
  BY <1>19, <1>c DEF ReadResponse, Counted
<1>20. ASSUME NEW t \in SinkThreads, Retry(t) PROVE BatchAccounting'
  <2>1. Counted' = Counted
    BY <1>20, <1>b, SMTT(30) DEF Retry, Counted, Stats
  <2>. QED
    BY <1>20, <1>c, <2>1 DEF Retry
<1>21. CASE SnapshotSent
  BY <1>21, <1>c DEF SnapshotSent, Counted
<1>22. CASE SnapshotDropped
  BY <1>22, <1>c DEF SnapshotDropped, Counted
<1>23. CASE Stop
  BY <1>23, <1>c, SMTT(30) DEF Stop, Counted
<1>24. CASE StopSetDeadline
  BY <1>24, <1>c DEF StopSetDeadline, Counted
<1>25. CASE StopSetDraining
  BY <1>25, <1>c DEF StopSetDraining, Counted
<1>26. CASE StopShutdown
  BY <1>26, <1>c DEF StopShutdown, Q!shutdown, Counted
<1>27. CASE StopJoin
  BY <1>27, <1>c DEF StopJoin, Counted
<1>28. CASE DeadlinePasses
  BY <1>28, <1>c DEF DeadlinePasses, Counted
<1>29. CASE Stopped
  BY <1>29, <1>c, SMTT(30) DEF Stopped, vars, Counted
<1>30. CASE UNCHANGED vars
  BY <1>30, <1>c, SMTT(30) DEF vars, Counted
<1>. QED
  BY <1>1, <1>2, <1>3, <1>4, <1>5, <1>6, <1>7, <1>8, <1>9, <1>10, <1>11,
     <1>12, <1>13, <1>14, <1>15, <1>16, <1>17, <1>18, <1>19, <1>20, <1>21,
     <1>22, <1>23, <1>24, <1>25, <1>26, <1>27, <1>28, <1>29, <1>30
     DEF Next, OwnerStep, ProducerStep, ThreadStep, LocalStep

\* While the shutdown line's counters are loaded, sink threads only move
\* batches of the backlog into batches_sent and batches_dropped_exhausted.
LEMMA SnapshotStep ==
  ASSUME TypeOK, OwnerShape, BatchAccounting, SnapshotShape, [Next]_vars
  PROVE  SnapshotShape'
<1>. USE SinkAssumption DEF outbound, intake, connection, sending, stopping
<1>a. stats \in Stats /\ key_counter_ \in Nat
  BY DEF TypeOK
<1>b. ASSUME owner \in {"snapshot", "printed"} PROVE snapshot \in Snapshot
  BY <1>b DEF SnapshotShape
<1>c. ASSUME UNCHANGED <<owner, snapshot, key_counter_, stats>>
      PROVE  SnapshotShape'
  BY <1>c DEF SnapshotShape
<1>d. ASSUME owner' \notin {"snapshot", "printed"} PROVE SnapshotShape'
  BY <1>d DEF SnapshotShape
<1>1. ASSUME NEW t \in SinkThreads, SpawnThread(t) PROVE SnapshotShape'
  BY <1>1, <1>c DEF SpawnThread
<1>2. CASE Constructed
  BY <1>2, <1>d DEF Constructed
<1>3. CASE SpawnFails
  BY <1>3, <1>d DEF SpawnFails
<1>4. ASSUME NEW p \in Producers, NextIdempotencyKey(p) PROVE SnapshotShape'
  BY <1>4, <1>d, SMTT(30) DEF NextIdempotencyKey
<1>5. ASSUME NEW p \in Producers, ConsumePush(p) PROVE SnapshotShape'
  BY <1>5, <1>c DEF ConsumePush
<1>6. ASSUME NEW p \in Producers, RecordDroppedOutbound(p) PROVE SnapshotShape'
  <2>1. owner' = "running"
    BY <1>6 DEF RecordDroppedOutbound, OwnerShape
  <2>. QED
    BY <1>d, <2>1
<1>7. ASSUME NEW t \in SinkThreads, Pop(t) PROVE SnapshotShape'
  BY <1>7, <1>c, SMTT(30) DEF Pop
<1>8. ASSUME NEW t \in SinkThreads, PopSleep(t) PROVE SnapshotShape'
  BY <1>8, <1>c DEF PopSleep
<1>9. ASSUME NEW t \in SinkThreads, Spurious(t) PROVE SnapshotShape'
  BY <1>9, <1>c DEF Spurious
<1>10. ASSUME NEW t \in SinkThreads, ThreadExit(t) PROVE SnapshotShape'
  BY <1>10, <1>c DEF ThreadExit
<1>11. ASSUME NEW t \in SinkThreads, DeadlineDrop(t) PROVE SnapshotShape'
  BY <1>11, <1>c DEF DeadlineDrop
<1>12. ASSUME NEW t \in SinkThreads, BeginSend(t) PROVE SnapshotShape'
  BY <1>12, <1>c DEF BeginSend
<1>13. ASSUME NEW t \in SinkThreads, RecordSent(t) PROVE SnapshotShape'
  <2>1. /\ stats'.sent = stats.sent + 1
        /\ stats'.dropped_outbound = stats.dropped_outbound
        /\ stats'.dropped_exhausted = stats.dropped_exhausted
    BY <1>13, <1>a DEF RecordSent, Stats
  <2>2. UNCHANGED <<owner, snapshot, key_counter_>>
    BY <1>13 DEF RecordSent
  <2>. QED
    BY <1>a, <1>b, <2>1, <2>2 DEF SnapshotShape, Snapshot, Stats
<1>14. ASSUME NEW t \in SinkThreads, RecordDroppedExhausted(t) PROVE
   SnapshotShape'
  <2>1. /\ stats'.sent = stats.sent
        /\ stats'.dropped_outbound = stats.dropped_outbound
        /\ stats'.dropped_exhausted = stats.dropped_exhausted + 1
    BY <1>14, <1>a DEF RecordDroppedExhausted, Stats
  <2>2. UNCHANGED <<owner, snapshot, key_counter_>>
    BY <1>14 DEF RecordDroppedExhausted
  <2>. QED
    BY <1>a, <1>b, <2>1, <2>2 DEF SnapshotShape, Snapshot, Stats
<1>15. ASSUME NEW t \in SinkThreads, Connect(t) PROVE SnapshotShape'
  BY <1>15, <1>c DEF Connect
<1>16. ASSUME NEW t \in SinkThreads, ConnectFails(t) PROVE SnapshotShape'
  BY <1>16, <1>c DEF ConnectFails
<1>17. ASSUME NEW t \in SinkThreads, WriteRequest(t) PROVE SnapshotShape'
  BY <1>17, <1>c, SMTT(30) DEF WriteRequest
<1>18. ASSUME NEW t \in SinkThreads, ExchangeFails(t) PROVE SnapshotShape'
  BY <1>18, <1>c DEF ExchangeFails
<1>19. ASSUME NEW t \in SinkThreads, ReadResponse(t) PROVE SnapshotShape'
  BY <1>19, <1>c DEF ReadResponse
<1>20. ASSUME NEW t \in SinkThreads, Retry(t) PROVE SnapshotShape'
  <2>1. /\ stats'.sent = stats.sent
        /\ stats'.dropped_outbound = stats.dropped_outbound
        /\ stats'.dropped_exhausted = stats.dropped_exhausted
    BY <1>20, <1>a DEF Retry, Stats
  <2>2. UNCHANGED <<owner, snapshot, key_counter_>>
    BY <1>20 DEF Retry
  <2>. QED
    BY <2>1, <2>2 DEF SnapshotShape
<1>21. CASE SnapshotSent
  <2>1. /\ snapshot'.counted = stats.sent
        /\ snapshot'.backlog = Backlog
        /\ snapshot' \in Snapshot
    BY <1>21, <1>a, BacklogType, SMTT(30) DEF SnapshotSent, Snapshot, Stats
  <2>2. Consuming = {}
    BY <1>21 DEF SnapshotSent, Consuming
  <2>3. Cardinality(Consuming) = 0
    BY <2>2, FS_EmptySet
  <2>4. key_counter_ = stats.sent + stats.dropped_outbound
                         + stats.dropped_exhausted + Backlog
    BY <1>a, <2>3, BacklogType, SMTT(30) DEF BatchAccounting, Counted,
       Backlog, Stats
  <2>5. owner' = "snapshot" /\ UNCHANGED <<key_counter_, stats>>
    BY <1>21 DEF SnapshotSent
  <2>. QED
    BY <1>a, <2>1, <2>4, <2>5, BacklogType, SMTT(30) DEF SnapshotShape, Stats
<1>22. CASE SnapshotDropped
  <2>1. snapshot.counted + stats.dropped_outbound
          + stats.dropped_exhausted \in Nat
    BY <1>22, <1>a, <1>b DEF SnapshotDropped, Snapshot, Stats
  <2>2. snapshot' \in Snapshot
    BY <1>22, <1>b, <2>1 DEF SnapshotDropped, Snapshot
  <2>3. owner' = "printed"
    BY <1>22 DEF SnapshotDropped
  <2>. QED
    BY <2>2, <2>3 DEF SnapshotShape
<1>23. CASE Stop
  BY <1>23, <1>d DEF Stop
<1>24. CASE StopSetDeadline
  BY <1>24, <1>d DEF StopSetDeadline
<1>25. CASE StopSetDraining
  BY <1>25, <1>d DEF StopSetDraining
<1>26. CASE StopShutdown
  BY <1>26, <1>d DEF StopShutdown
<1>27. CASE StopJoin
  BY <1>27, <1>d DEF StopJoin
<1>28. CASE DeadlinePasses
  BY <1>28, <1>c DEF DeadlinePasses
<1>29. CASE Stopped
  BY <1>29, <1>c DEF Stopped, vars
<1>30. CASE UNCHANGED vars
  BY <1>30, <1>c, SMTT(30) DEF vars
<1>. QED
  BY <1>1, <1>2, <1>3, <1>4, <1>5, <1>6, <1>7, <1>8, <1>9, <1>10, <1>11,
     <1>12, <1>13, <1>14, <1>15, <1>16, <1>17, <1>18, <1>19, <1>20, <1>21,
     <1>22, <1>23, <1>24, <1>25, <1>26, <1>27, <1>28, <1>29, <1>30
     DEF Next, OwnerStep, ProducerStep, ThreadStep, LocalStep

\* The line's total is complete up to the backlog when the last counter is
\* loaded, and nothing is consumed after that.
LEMMA ShortfallStep ==
  ASSUME TypeOK, OwnerShape, BatchAccounting, SnapshotShape,
         ShutdownLineShortfall, [Next]_vars
  PROVE  ShutdownLineShortfall'
<1>. USE SinkAssumption DEF outbound, intake, connection, sending, stopping
<1>c. ASSUME UNCHANGED <<owner, snapshot, key_counter_>>
      PROVE  ShutdownLineShortfall'
  BY <1>c DEF ShutdownLineShortfall
<1>d. ASSUME owner' # "printed" PROVE ShutdownLineShortfall'
  BY <1>d DEF ShutdownLineShortfall
<1>1. ASSUME NEW t \in SinkThreads, SpawnThread(t) PROVE ShutdownLineShortfall'
  BY <1>1, <1>c DEF SpawnThread
<1>2. CASE Constructed
  BY <1>2, <1>d DEF Constructed
<1>3. CASE SpawnFails
  BY <1>3, <1>d DEF SpawnFails
<1>4. ASSUME NEW p \in Producers, NextIdempotencyKey(p) PROVE
   ShutdownLineShortfall'
  BY <1>4, <1>d DEF NextIdempotencyKey
<1>5. ASSUME NEW p \in Producers, ConsumePush(p) PROVE ShutdownLineShortfall'
  BY <1>5, <1>c DEF ConsumePush
<1>6. ASSUME NEW p \in Producers, RecordDroppedOutbound(p) PROVE
   ShutdownLineShortfall'
  BY <1>6, <1>c DEF RecordDroppedOutbound
<1>7. ASSUME NEW t \in SinkThreads, Pop(t) PROVE ShutdownLineShortfall'
  BY <1>7, <1>c DEF Pop
<1>8. ASSUME NEW t \in SinkThreads, PopSleep(t) PROVE ShutdownLineShortfall'
  BY <1>8, <1>c DEF PopSleep
<1>9. ASSUME NEW t \in SinkThreads, Spurious(t) PROVE ShutdownLineShortfall'
  BY <1>9, <1>c DEF Spurious
<1>10. ASSUME NEW t \in SinkThreads, ThreadExit(t) PROVE ShutdownLineShortfall'
  BY <1>10, <1>c DEF ThreadExit
<1>11. ASSUME NEW t \in SinkThreads, DeadlineDrop(t) PROVE
   ShutdownLineShortfall'
  BY <1>11, <1>c DEF DeadlineDrop
<1>12. ASSUME NEW t \in SinkThreads, BeginSend(t) PROVE ShutdownLineShortfall'
  BY <1>12, <1>c DEF BeginSend
<1>13. ASSUME NEW t \in SinkThreads, RecordSent(t) PROVE ShutdownLineShortfall'
  BY <1>13, <1>c DEF RecordSent
<1>14. ASSUME NEW t \in SinkThreads, RecordDroppedExhausted(t) PROVE
   ShutdownLineShortfall'
  BY <1>14, <1>c DEF RecordDroppedExhausted
<1>15. ASSUME NEW t \in SinkThreads, Connect(t) PROVE ShutdownLineShortfall'
  BY <1>15, <1>c DEF Connect
<1>16. ASSUME NEW t \in SinkThreads, ConnectFails(t) PROVE
   ShutdownLineShortfall'
  BY <1>16, <1>c DEF ConnectFails
<1>17. ASSUME NEW t \in SinkThreads, WriteRequest(t) PROVE
   ShutdownLineShortfall'
  BY <1>17, <1>c DEF WriteRequest
<1>18. ASSUME NEW t \in SinkThreads, ExchangeFails(t) PROVE
   ShutdownLineShortfall'
  BY <1>18, <1>c DEF ExchangeFails
<1>19. ASSUME NEW t \in SinkThreads, ReadResponse(t) PROVE
   ShutdownLineShortfall'
  BY <1>19, <1>c DEF ReadResponse
<1>20. ASSUME NEW t \in SinkThreads, Retry(t) PROVE ShutdownLineShortfall'
  BY <1>20, <1>c, SMTT(30) DEF Retry
<1>21. CASE SnapshotSent
  BY <1>21, <1>d DEF SnapshotSent
<1>22. CASE SnapshotDropped
  <2>1. /\ snapshot \in Snapshot
        /\ stats \in Stats /\ key_counter_ \in Nat
    BY <1>22 DEF SnapshotDropped, SnapshotShape, TypeOK
  <2>2. /\ snapshot'.counted = snapshot.counted + stats.dropped_outbound
                                 + stats.dropped_exhausted
        /\ snapshot'.backlog = snapshot.backlog
        /\ UNCHANGED key_counter_
    BY <1>22, <2>1 DEF SnapshotDropped, Snapshot
  <2>3. /\ snapshot.counted <= stats.sent
        /\ key_counter_ <= snapshot.counted + stats.dropped_outbound
                             + stats.dropped_exhausted + snapshot.backlog
    BY <1>22 DEF SnapshotDropped, SnapshotShape
  <2>4. stats.sent + stats.dropped_outbound + stats.dropped_exhausted
          <= key_counter_
    BY <2>1, BacklogType DEF BatchAccounting, Counted, Stats
  <2>5. /\ snapshot.counted \in Nat /\ snapshot.backlog \in Nat
        /\ stats.sent \in Nat /\ stats.dropped_outbound \in Nat
        /\ stats.dropped_exhausted \in Nat
    BY <2>1 DEF Snapshot, Stats
  <2>6. key_counter_' - snapshot'.counted \in 0..snapshot'.backlog
    BY <2>1, <2>2, <2>3, <2>4, <2>5, SMTT(30)
  <2>. QED
    BY <2>6 DEF ShutdownLineShortfall
<1>23. CASE Stop
  BY <1>23, <1>d DEF Stop
<1>24. CASE StopSetDeadline
  BY <1>24, <1>d DEF StopSetDeadline
<1>25. CASE StopSetDraining
  BY <1>25, <1>d DEF StopSetDraining
<1>26. CASE StopShutdown
  BY <1>26, <1>d DEF StopShutdown
<1>27. CASE StopJoin
  BY <1>27, <1>d DEF StopJoin
<1>28. CASE DeadlinePasses
  BY <1>28, <1>c, SMTT(30) DEF DeadlinePasses
<1>29. CASE Stopped
  BY <1>29, <1>c, SMTT(30) DEF Stopped, vars
<1>30. CASE UNCHANGED vars
  BY <1>30, <1>c DEF vars
<1>. QED
  BY <1>1, <1>2, <1>3, <1>4, <1>5, <1>6, <1>7, <1>8, <1>9, <1>10, <1>11,
     <1>12, <1>13, <1>14, <1>15, <1>16, <1>17, <1>18, <1>19, <1>20, <1>21,
     <1>22, <1>23, <1>24, <1>25, <1>26, <1>27, <1>28, <1>29, <1>30
     DEF Next, OwnerStep, ProducerStep, ThreadStep, LocalStep

\* An accepted key is the last of the queue, behind the others.
LEMMA AcceptedKeys ==
  ASSUME items_ \in Seq(Nat), NEW key \in Nat, Q!PushAccepted(key)
  PROVE  \A i \in 1..Len(items_') :
           \/ i = Len(items_) + 1 /\ items_'[i] = key
           \/ /\ i # Len(items_) + 1
              /\ i \in 1..Len(items_) /\ items_'[i] = items_[i]
<1>1. items_' = Append(items_, key)
  BY DEF Q!PushAccepted
<1>2. /\ Len(items_') = Len(items_) + 1
      /\ \A i \in 1..Len(items_) : items_'[i] = items_[i]
      /\ items_'[Len(items_) + 1] = key
  BY <1>1, AppendProperties
<1>3. Len(items_) \in Nat
  BY LenProperties
<1>. QED
  BY <1>2, <1>3

\* A key that displaces the oldest moves the others up by one.
LEMMA DisplacingKeys ==
  ASSUME items_ \in Seq(Nat), NEW key \in Nat, Q!PushDroppedOldest(key)
  PROVE  /\ Len(items_') = Len(items_)
         /\ \A i \in 1..Len(items_') :
              \/ i = Len(items_) /\ items_'[i] = key
              \/ /\ i # Len(items_)
                 /\ i + 1 \in 1..Len(items_) /\ items_'[i] = items_[i + 1]
<1>1. items_' = Append(Tail(items_), key) /\ Len(items_) >= Capacity
  BY DEF Q!PushDroppedOldest
<1>2. Len(items_) \in Nat /\ items_ # <<>>
  <2>1. Len(items_) \in Nat /\ Capacity \in Nat \ {0} /\ Len(<<>>) = 0
    BY LenProperties, SinkAssumption
  <2>. QED
    BY <1>1, <2>1
<1>3. /\ Tail(items_) \in Seq(Nat)
      /\ Len(Tail(items_)) = Len(items_) - 1
      /\ \A i \in 1..(Len(items_) - 1) : Tail(items_)[i] = items_[i + 1]
  BY <1>2, HeadTailProperties
<1>4. /\ Len(items_') = Len(Tail(items_)) + 1
      /\ \A i \in 1..Len(Tail(items_)) : items_'[i] = Tail(items_)[i]
      /\ items_'[Len(Tail(items_)) + 1] = key
  BY <1>1, <1>3, AppendProperties
<1>5. /\ Len(items_') = Len(items_)
      /\ \A i \in 1..(Len(items_) - 1) : items_'[i] = items_[i + 1]
      /\ items_'[Len(items_)] = key
  <2>1. Len(items_) - 1 + 1 = Len(items_)
    BY <1>2, SMTT(30)
  <2>. QED
    BY <1>3, <1>4, <2>1
<1>. QED
  BY <1>2, <1>5

\* next_idempotency_key returns a key no one else holds; from there a key is
\* handed from place to place and never copied.
LEMMA KeysStep ==
  ASSUME TypeOK, ThreadShape, OwnerShape, KeysDistinct, [Next]_vars
  PROVE  KeysDistinct'
<1>. USE SinkAssumption DEF outbound, intake, connection, sending, stopping
<1>a. /\ items_ \in Seq(Nat) /\ Len(items_) \in Nat
      /\ key_counter_ \in Nat
      /\ minted \in [Producers -> Nat \cup {None}]
      /\ batch \in [SinkThreads -> Nat \cup {None}]
      /\ \A i \in 1..Len(items_) : items_[i] \in Nat
  BY LenProperties, ElementOfSeq, SMTT(30) DEF TypeOK, Q!QueueTypeOK
<1>c. ASSUME UNCHANGED <<key_counter_, minted, items_, batch>>
      PROVE  KeysDistinct'
  BY <1>c, ZenonT(30) DEF KeysDistinct, KeyInOnePlace
<1>1. ASSUME NEW t \in SinkThreads, SpawnThread(t) PROVE KeysDistinct'
  BY <1>1, <1>c DEF SpawnThread
<1>2. CASE Constructed
  BY <1>2, <1>c DEF Constructed
<1>3. CASE SpawnFails
  BY <1>3, <1>c DEF SpawnFails
<1>4. ASSUME NEW p \in Producers, NextIdempotencyKey(p) PROVE KeysDistinct'
  <2>1. /\ minted' = [minted EXCEPT ![p] = key_counter_]
        /\ key_counter_' = key_counter_ + 1
        /\ UNCHANGED <<items_, batch>>
    BY <1>4 DEF NextIdempotencyKey
  <2>. QED
    BY <1>a, <2>1 DEF KeysDistinct, KeyInOnePlace
<1>5. ASSUME NEW p \in Producers, ConsumePush(p) PROVE KeysDistinct'
  <2>1. /\ minted[p] \in Nat
        /\ minted' = [minted EXCEPT ![p] = None]
        /\ UNCHANGED <<key_counter_, batch>>
    BY <1>5, <1>a, SMTT(30) DEF ConsumePush, OwnerShape
  <2>2. CASE Q!PushAccepted(minted[p])
    <3>1. \A i \in 1..Len(items_') :
             \/ i = Len(items_) + 1 /\ items_'[i] = minted[p]
             \/ /\ i # Len(items_) + 1
                /\ i \in 1..Len(items_) /\ items_'[i] = items_[i]
      BY <1>a, <2>1, <2>2, AcceptedKeys, SMTT(30)
    <3>2. /\ minted[p] < key_counter_
          /\ \A u \in SinkThreads : batch[u] # minted[p]
          /\ \A i \in 1..Len(items_) : items_[i] # minted[p]
      BY <2>1, Zenon DEF KeysDistinct
    <3>3. /\ \A i \in 1..Len(items_') : items_'[i] < key_counter_'
          /\ \A i, j \in 1..Len(items_') : items_'[i] = items_'[j] => i = j
          /\ \A u \in SinkThreads, i \in 1..Len(items_') :
               batch'[u] # items_'[i]
      BY <1>a, <2>1, <3>1, <3>2, ZenonT(30) DEF KeysDistinct, KeyInOnePlace
    <3>4. ASSUME NEW q \in Producers, minted'[q] # None
          PROVE  \A i \in 1..Len(items_') : items_'[i] # minted'[q]
      BY <1>a, <2>1, <3>1, <3>4 DEF KeysDistinct
    <3>. QED
      BY <1>a, <2>1, <3>3, <3>4, SMTT(30) DEF KeysDistinct, KeyInOnePlace
  <2>3. CASE Q!PushDroppedOldest(minted[p])
    <3>1. Len(items_') = Len(items_)
      BY <1>a, <2>1, <2>3, DisplacingKeys, SMTT(30)
    <3>2. \A i \in 1..Len(items_') :
             \/ i = Len(items_) /\ items_'[i] = minted[p]
             \/ /\ i # Len(items_)
                /\ i + 1 \in 1..Len(items_) /\ items_'[i] = items_[i + 1]
      BY <1>a, <2>1, <2>3, DisplacingKeys, SMTT(30)
    <3>3. /\ minted[p] < key_counter_
          /\ \A u \in SinkThreads : batch[u] # minted[p]
          /\ \A i \in 1..Len(items_) : items_[i] # minted[p]
      BY <2>1, SMTT(30) DEF KeysDistinct
    <3>4. \A i \in 1..Len(items_') : items_'[i] < key_counter_'
      BY <1>a, <2>1, <3>2, <3>3, ZenonT(30) DEF KeysDistinct
    <3>5. ASSUME NEW i \in 1..Len(items_'), NEW j \in 1..Len(items_'),
                 items_'[i] = items_'[j]
          PROVE  i = j
      BY <1>a, <3>1, <3>2, <3>3, <3>5, SMTT(30) DEF KeysDistinct,
         KeyInOnePlace
    <3>6. \A u \in SinkThreads, i \in 1..Len(items_') :
            batch'[u] # items_'[i]
      BY <1>a, <2>1, <3>2, <3>3, SMTT(30) DEF KeysDistinct, KeyInOnePlace
    <3>7. ASSUME NEW q \in Producers, minted'[q] # None
          PROVE  \A i \in 1..Len(items_') : items_'[i] # minted'[q]
      BY <1>a, <2>1, <3>2, <3>7, SMTT(30) DEF KeysDistinct
    <3>. QED
      BY <1>a, <2>1, <3>4, <3>5, <3>6, <3>7, SMTT(30) DEF KeysDistinct,
         KeyInOnePlace
  <2>4. CASE Q!PushRejected
    <3>1. items_' = items_
      BY <2>4 DEF Q!PushRejected, Q!queueVars
    <3>. QED
      BY <1>a, <2>1, <3>1 DEF KeysDistinct, KeyInOnePlace
  <2>. QED
    BY <1>5, <2>2, <2>3, <2>4, SMTT(30) DEF ConsumePush
<1>6. ASSUME NEW p \in Producers, RecordDroppedOutbound(p) PROVE KeysDistinct'
  BY <1>6, <1>c, SMTT(30) DEF RecordDroppedOutbound
<1>7. ASSUME NEW t \in SinkThreads, Pop(t) PROVE KeysDistinct'
  <2>1. /\ items_ # <<>>
        /\ items_' = Tail(items_)
        /\ batch' = [batch EXCEPT ![t] = Head(items_)]
        /\ UNCHANGED <<key_counter_, minted>>
    BY <1>7 DEF Pop, Q!PopItem
  <2>2. /\ Len(items_) >= 1
        /\ Head(items_) = items_[1]
        /\ Len(items_') = Len(items_) - 1
        /\ \A i \in 1..(Len(items_) - 1) : items_'[i] = items_[i + 1]
    BY <1>a, <2>1, HeadTailProperties, EmptySeq, SMTT(30)
  <2>. QED
    BY <1>a, <2>1, <2>2 DEF KeysDistinct, KeyInOnePlace
<1>8. ASSUME NEW t \in SinkThreads, PopSleep(t) PROVE KeysDistinct'
  BY <1>8, <1>c, Zenon DEF PopSleep, Q!PopWait
<1>9. ASSUME NEW t \in SinkThreads, Spurious(t) PROVE KeysDistinct'
  BY <1>9, <1>c DEF Spurious, Q!SpuriousWakeup
<1>10. ASSUME NEW t \in SinkThreads, ThreadExit(t) PROVE KeysDistinct'
  BY <1>10, <1>c DEF ThreadExit, Q!PopNullopt
<1>11. ASSUME NEW t \in SinkThreads, DeadlineDrop(t) PROVE KeysDistinct'
  BY <1>11, <1>c DEF DeadlineDrop
<1>12. ASSUME NEW t \in SinkThreads, BeginSend(t) PROVE KeysDistinct'
  BY <1>12, <1>c, SMTT(30) DEF BeginSend
<1>13. ASSUME NEW t \in SinkThreads, RecordSent(t) PROVE KeysDistinct'
  <2>1. /\ batch' = [batch EXCEPT ![t] = None]
        /\ UNCHANGED <<key_counter_, minted, items_>>
    BY <1>13 DEF RecordSent, LoopAgain
  <2>. QED
    BY <1>a, <2>1 DEF KeysDistinct, KeyInOnePlace
<1>14. ASSUME NEW t \in SinkThreads, RecordDroppedExhausted(t) PROVE
   KeysDistinct'
  <2>1. /\ batch' = [batch EXCEPT ![t] = None]
        /\ UNCHANGED <<key_counter_, minted, items_>>
    BY <1>14 DEF RecordDroppedExhausted, LoopAgain
  <2>. QED
    BY <1>a, <2>1 DEF KeysDistinct, KeyInOnePlace
<1>15. ASSUME NEW t \in SinkThreads, Connect(t) PROVE KeysDistinct'
  BY <1>15, <1>c, SMTT(30) DEF Connect
<1>16. ASSUME NEW t \in SinkThreads, ConnectFails(t) PROVE KeysDistinct'
  BY <1>16, <1>c, SMTT(30) DEF ConnectFails
<1>17. ASSUME NEW t \in SinkThreads, WriteRequest(t) PROVE KeysDistinct'
  BY <1>17, <1>c, SMTT(30) DEF WriteRequest
<1>18. ASSUME NEW t \in SinkThreads, ExchangeFails(t) PROVE KeysDistinct'
  BY <1>18, <1>c, SMTT(30) DEF ExchangeFails
<1>19. ASSUME NEW t \in SinkThreads, ReadResponse(t) PROVE KeysDistinct'
  BY <1>19, <1>c DEF ReadResponse
<1>20. ASSUME NEW t \in SinkThreads, Retry(t) PROVE KeysDistinct'
  BY <1>20, <1>c, SMTT(30) DEF Retry
<1>21. CASE SnapshotSent
  BY <1>21, <1>c, Zenon DEF SnapshotSent
<1>22. CASE SnapshotDropped
  BY <1>22, <1>c DEF SnapshotDropped
<1>23. CASE Stop
  BY <1>23, <1>c DEF Stop
<1>24. CASE StopSetDeadline
  BY <1>24, <1>c, SMTT(30) DEF StopSetDeadline
<1>25. CASE StopSetDraining
  BY <1>25, <1>c DEF StopSetDraining
<1>26. CASE StopShutdown
  BY <1>26, <1>c, SMTT(30) DEF StopShutdown, Q!shutdown
<1>27. CASE StopJoin
  BY <1>27, <1>c DEF StopJoin
<1>28. CASE DeadlinePasses
  BY <1>28, <1>c DEF DeadlinePasses
<1>29. CASE Stopped
  BY <1>29, <1>c DEF Stopped, vars
<1>30. CASE UNCHANGED vars
  BY <1>30, <1>c DEF vars
<1>. QED
  BY <1>1, <1>2, <1>3, <1>4, <1>5, <1>6, <1>7, <1>8, <1>9, <1>10, <1>11,
     <1>12, <1>13, <1>14, <1>15, <1>16, <1>17, <1>18, <1>19, <1>20, <1>21,
     <1>22, <1>23, <1>24, <1>25, <1>26, <1>27, <1>28, <1>29, <1>30
     DEF Next, OwnerStep, ProducerStep, ThreadStep, LocalStep

\* The constructor starts with the invariant true.
LEMMA InitInv == Init => Inv
<1>. SUFFICES ASSUME Init PROVE Inv
  OBVIOUS
<1>1. items_ \in Seq(Nat) /\ Len(items_) = 0
  BY EmptySeq DEF Init, Q!QueueInit
<1>0. Q!QueueTypeOK(Nat)
  <2>1. /\ policy_ \in Q!BackpressurePolicy
        /\ shutting_down_ \in BOOLEAN
        /\ waiting = {}
        /\ notified = {}
    BY Zenon DEF Init, Q!QueueInit
  <2>. QED
    BY <1>1, <2>1, SinkAssumption DEF Q!QueueTypeOK
<1>. USE SinkAssumption DEF Init, Q!QueueInit
<1>2. stats \in Stats
  BY DEF Stats
<1>3. /\ wire \in [SinkThreads -> Seq(Nat)]
      /\ \A t \in SinkThreads : Len(wire[t]) <= 1
  OBVIOUS
<1>4. TypeOK
  <2>1. /\ producer \in [Producers -> ProducerState]
        /\ minted \in [Producers -> Nat \cup {None}]
        /\ key_counter_ \in 0..MaxBatches
    BY DEF ProducerState
  <2>2. /\ thread \in [SinkThreads -> ThreadState]
        /\ batch \in [SinkThreads -> Nat \cup {None}]
        /\ attempt \in [SinkThreads -> 0..MaxRetries]
        /\ live \in [SinkThreads -> BOOLEAN]
        /\ answered \in [SinkThreads -> Nat \cup {None}]
    BY DEF ThreadState
  <2>. QED
    BY <1>2, <1>3, <1>0, <2>1, <2>2, Zenon DEF TypeOK, OwnerState
<1>5. ThreadShape /\ OwnerShape /\ DeadlineShape
  BY DEF ThreadShape, Holding, OwnerShape, DeadlineShape
<1>6. BatchAccounting
  <2>1. Consuming = {} /\ Sending = {}
    BY SMTT(30) DEF Consuming, Sending
  <2>. QED
    BY <1>1, <2>1, FS_EmptySet, SMTT(30) DEF BatchAccounting, Counted
<1>7. SnapshotShape /\ ShutdownLineShortfall
  BY SMTT(30) DEF SnapshotShape, ShutdownLineShortfall
<1>8. KeysDistinct
  BY <1>1 DEF KeysDistinct, KeyInOnePlace
<1>. QED
  BY <1>4, <1>5, <1>6, <1>7, <1>8 DEF Inv

\* No step of the sink, its producers or its owner breaks it.
LEMMA InvStep == Inv /\ [Next]_vars => Inv'
BY TypeStep, ThreadStepShape, OwnerStepShape, DeadlineStep, AccountingStep,
   SnapshotStep, ShortfallStep, KeysStep DEF Inv

\* So it holds throughout every behaviour of the sink.
LEMMA Invariance == Spec => []Inv
BY InitInv, InvStep, PTL DEF Spec

-----------------------------------------------------------------------------
(* What it gives.                                                          *)

\* Every variable of the sink keeps its type; the outbound queue its capacity,
\* a connection its one request, a batch its 1 + max_retries attempts.
THEOREM TypeCorrect == Spec => []TypeOK
<1>1. Inv => TypeOK
  BY DEF Inv
<1>. QED
  BY <1>1, Invariance, PTL

\* No batch given to consume() is lost from the counters or counted twice.
THEOREM BatchesAccounted == Spec => []BatchAccounting
<1>1. Inv => BatchAccounting
  BY DEF Inv
<1>. QED
  BY <1>1, Invariance, PTL

\* When stop() has joined the threads every batch has its counter.  The queue
\* is empty because a thread leaves only an empty queue, and a sink that has
\* no thread to do so was never constructed and consumed nothing.
THEOREM StopComplete == Spec => []StopCountsEverything
<1>1. Inv => StopCountsEverything
  <2>. SUFFICES ASSUME Inv, owner = "stopped" PROVE Counted = key_counter_
    BY DEF StopCountsEverything
  <2>1. Consuming = {}
    BY DEF Inv, OwnerShape, Consuming
  <2>2. Sending = {}
    BY Zenon DEF Inv, OwnerShape, ThreadShape, Holding, Sending
  <2>3. Cardinality(Consuming) = 0 /\ Cardinality(Sending) = 0
    BY <2>1, <2>2, FS_EmptySet, SMTT(30)
  <2>4. /\ Len(items_) \in Nat /\ Counted \in Nat /\ key_counter_ \in Nat
        /\ key_counter_ = Counted + Len(items_)
    <3>1. TypeOK /\ BatchAccounting
      BY Zenon DEF Inv
    <3>2. stats \in Stats /\ key_counter_ \in Nat
      BY <3>1 DEF TypeOK
    <3>3. Counted \in Nat
      BY <3>2 DEF Counted, Stats
    <3>. QED
      BY <2>3, <3>1, <3>2, <3>3, BacklogType DEF BatchAccounting
  <2>5. PICK t \in SinkThreads : TRUE
    BY SinkAssumption
  <2>6. CASE thread[t] = "exited"
    <3>1. Len(items_) = 0
      BY <2>6, EmptySeq DEF Inv, OwnerShape
    <3>. QED
      BY <2>4, <3>1
  <2>7. CASE thread[t] = "unborn"
    <3>1. ~(key_counter_ > 0)
      BY <2>7 DEF Inv, OwnerShape
    <3>. QED
      BY <2>4, <3>1
  <2>. QED
    BY <2>6, <2>7 DEF Inv, OwnerShape
<1>. QED
  BY <1>1, Invariance, PTL

\* The shutdown line counts no batch twice and misses at most the backlog that
\* was there when main() began to load the counters.
THEOREM LineShortfall == Spec => []ShutdownLineShortfall
<1>1. Inv => ShutdownLineShortfall
  BY DEF Inv
<1>. QED
  BY <1>1, Invariance, PTL

\* No idempotency key is in two places at once, so no two threads ever send
\* the same batch.
THEOREM KeysInOnePlace == Spec => []KeyInOnePlace
<1>1. Inv => KeyInOnePlace
  BY DEF Inv, KeysDistinct
<1>. QED
  BY <1>1, Invariance, PTL

\* A batch counted as sent was acknowledged by the response to its own POST.
THEOREM AnsweredByOwnResponse == Spec => []OwnResponse
<1>1. Inv => OwnResponse
  BY ZenonT(30) DEF Inv, ThreadShape, OwnResponse
<1>. QED
  BY <1>1, Invariance, PTL

\* run() gives a batch up unsent only after kDrainDeadline has passed since
\* stop() began.
THEOREM DropsAfterDeadline == Spec => DropOnlyAfterDeadline
<1>. DEFINE Step(t) == thread[t] = "check" /\ thread'[t] = "failed" => elapsed
<1>1. ASSUME Inv, [Next]_vars, NEW t \in SinkThreads
      PROVE  Step(t)
  <2>. USE <1>1 DEF Inv, TypeOK, sending
  <2>1. CASE UNCHANGED sending
    BY <2>1, SMTT(30)
  <2>2. ASSUME NEW u \in SinkThreads, SpawnThread(u) PROVE Step(t)
    BY <2>2, SMTT(30) DEF SpawnThread
  <2>3. ASSUME NEW u \in SinkThreads, Pop(u) PROVE Step(t)
    BY <2>3, SMTT(30) DEF Pop
  <2>4. ASSUME NEW u \in SinkThreads, ThreadExit(u) PROVE Step(t)
    BY <2>4 DEF ThreadExit
  <2>5. ASSUME NEW u \in SinkThreads, BeginSend(u) PROVE Step(t)
    BY <2>5 DEF BeginSend
  <2>6. ASSUME NEW u \in SinkThreads, RecordSent(u) PROVE Step(t)
    BY <2>6 DEF RecordSent, LoopAgain
  <2>7. ASSUME NEW u \in SinkThreads, RecordDroppedExhausted(u) PROVE Step(t)
    BY <2>7, SMTT(30) DEF RecordDroppedExhausted, LoopAgain
  <2>8. ASSUME NEW u \in SinkThreads, Connect(u) PROVE Step(t)
    BY <2>8, SMTT(30) DEF Connect
  <2>9. ASSUME NEW u \in SinkThreads, ConnectFails(u) PROVE Step(t)
    BY <2>9 DEF ConnectFails, AfterRetryable
  <2>10. ASSUME NEW u \in SinkThreads, WriteRequest(u) PROVE Step(t)
    BY <2>10, SMTT(30) DEF WriteRequest
  <2>11. ASSUME NEW u \in SinkThreads, ExchangeFails(u) PROVE Step(t)
    BY <2>11, SMTT(30) DEF ExchangeFails, AfterRetryable
  <2>12. ASSUME NEW u \in SinkThreads, ReadResponse(u) PROVE Step(t)
    BY <2>12, Zenon DEF ReadResponse, AfterRetryable
  <2>13. ASSUME NEW u \in SinkThreads, Retry(u) PROVE Step(t)
    BY <2>13, SMTT(30) DEF Retry
  <2>14. ASSUME NEW u \in SinkThreads, DeadlineDrop(u) PROVE Step(t)
    BY <2>14 DEF DeadlineDrop, PastDeadline, DeadlineShape
  <2>. QED
    BY <2>1, <2>2, <2>3, <2>4, <2>5, <2>6, <2>7, <2>8, <2>9, <2>10, <2>11,
       <2>12, <2>13, <2>14, SendingFrame, ZenonT(30)
<1>2. Inv /\ [Next]_vars => [\A t \in SinkThreads : Step(t)]_vars
  BY <1>1, ZenonT(30)
<1>. QED
  BY <1>2, Invariance, PTL DEF Spec, DropOnlyAfterDeadline

-----------------------------------------------------------------------------
(* The way of a key through the sink.                                      *)

\* The keys that wait to be sent: with their producer, or in the queue.
Waits(k) == \/ \E p \in Producers : minted[p] = k
            \/ \E i \in 1..Len(items_) : items_[i] = k

\* What a step may do to a key that exists: it does not return to the queue,
\* and a sink thread that takes up a key has it from there.
KeysMoveOn ==
  /\ key_counter_' >= key_counter_
  /\ \A k \in Nat : k < key_counter_ /\ Waits(k)' => Waits(k)
  /\ \A t \in SinkThreads :
       \/ batch'[t] \in {batch[t], None}
       \/ thread[t] = "pop" /\ thread'[t] = "check" /\ Waits(batch'[t])

\* Every step of the sink moves keys this way.
LEMMA MoveStep ==
  ASSUME TypeOK, OwnerShape, [Next]_vars
  PROVE  KeysMoveOn
<1>. USE SinkAssumption DEF outbound, intake, connection, sending, stopping
<1>a. /\ items_ \in Seq(Nat) /\ Len(items_) \in Nat
      /\ key_counter_ \in Nat
      /\ minted \in [Producers -> Nat \cup {None}]
      /\ batch \in [SinkThreads -> Nat \cup {None}]
      /\ \A i \in 1..Len(items_) : items_[i] \in Nat
  BY LenProperties, ElementOfSeq, SMTT(30) DEF TypeOK, Q!QueueTypeOK
<1>c. ASSUME UNCHANGED <<key_counter_, minted, items_, batch>>
      PROVE  KeysMoveOn
  BY <1>a, <1>c, SMTT(30) DEF KeysMoveOn, Waits
<1>d. ASSUME UNCHANGED <<key_counter_, minted, items_>>,
             NEW t \in SinkThreads, batch' = [batch EXCEPT ![t] = None]
      PROVE  KeysMoveOn
  BY <1>a, <1>d, SMTT(30) DEF KeysMoveOn, Waits
<1>1. ASSUME NEW t \in SinkThreads, SpawnThread(t) PROVE KeysMoveOn
  BY <1>1, <1>c, SMTT(30) DEF SpawnThread
<1>2. CASE Constructed
  BY <1>2, <1>c, SMTT(30) DEF Constructed
<1>3. CASE SpawnFails
  BY <1>3, <1>c, SMTT(30) DEF SpawnFails
<1>4. ASSUME NEW p \in Producers, NextIdempotencyKey(p) PROVE KeysMoveOn
  <2>1. /\ minted' = [minted EXCEPT ![p] = key_counter_]
        /\ key_counter_' = key_counter_ + 1
        /\ UNCHANGED <<items_, batch>>
    BY <1>4, SMTT(30) DEF NextIdempotencyKey
  <2>2. ASSUME NEW k \in Nat, k < key_counter_, Waits(k)' PROVE Waits(k)
    BY <1>a, <2>1, <2>2, SMTT(30) DEF Waits
  <2>. QED
    BY <1>a, <2>1, <2>2, SMTT(30) DEF KeysMoveOn
<1>5. ASSUME NEW p \in Producers, ConsumePush(p) PROVE KeysMoveOn
  <2>1. /\ minted[p] \in Nat
        /\ minted' = [minted EXCEPT ![p] = None]
        /\ UNCHANGED <<key_counter_, batch>>
    BY <1>5, <1>a, ZenonT(30) DEF ConsumePush, OwnerShape
  <2>2. ASSUME NEW i \in 1..Len(items_')
        PROVE  \/ items_'[i] = minted[p]
               \/ \E j \in 1..Len(items_) : items_'[i] = items_[j]
    <3>1. CASE Q!PushAccepted(minted[p])
      BY <1>a, <2>1, <3>1, AcceptedKeys, SMTT(30)
    <3>2. CASE Q!PushDroppedOldest(minted[p])
      BY <1>a, <2>1, <3>2, DisplacingKeys, SMTT(30)
    <3>3. CASE Q!PushRejected
      BY <3>3 DEF Q!PushRejected, Q!queueVars
    <3>. QED
      BY <1>5, <3>1, <3>2, <3>3, ZenonT(30) DEF ConsumePush
  <2>3. \A k \in Nat : Waits(k)' => Waits(k)
    BY <1>a, <2>1, <2>2 DEF Waits
  <2>. QED
    BY <1>a, <2>1, <2>3, SMTT(30) DEF KeysMoveOn
<1>6. ASSUME NEW p \in Producers, RecordDroppedOutbound(p) PROVE KeysMoveOn
  BY <1>6, <1>c, SMTT(30) DEF RecordDroppedOutbound
<1>7. ASSUME NEW t \in SinkThreads, Pop(t) PROVE KeysMoveOn
  <2>1. /\ items_ # <<>>
        /\ items_' = Tail(items_)
        /\ batch' = [batch EXCEPT ![t] = Head(items_)]
        /\ thread[t] = "pop" /\ thread'[t] = "check"
        /\ UNCHANGED <<key_counter_, minted>>
    BY <1>7, SMTT(30) DEF Pop, Q!PopItem, TypeOK
  <2>2. /\ Len(items_) >= 1
        /\ Head(items_) = items_[1]
        /\ Len(items_') = Len(items_) - 1
        /\ \A i \in 1..(Len(items_) - 1) : items_'[i] = items_[i + 1]
    BY <1>a, <2>1, HeadTailProperties, EmptySeq, SMTT(30)
  <2>3. \A i \in 1..Len(items_') :
          i + 1 \in 1..Len(items_) /\ items_'[i] = items_[i + 1]
    BY <1>a, <2>2, SMTT(30)
  <2>4. \A k \in Nat : Waits(k)' => Waits(k)
    BY <2>1, <2>3 DEF Waits
  <2>5. Waits(Head(items_))
    BY <1>a, <2>2 DEF Waits
  <2>. QED
    BY <1>a, <2>1, <2>4, <2>5, SMTT(30) DEF KeysMoveOn
<1>8. ASSUME NEW t \in SinkThreads, PopSleep(t) PROVE KeysMoveOn
  BY <1>8, <1>c DEF PopSleep, Q!PopWait
<1>9. ASSUME NEW t \in SinkThreads, Spurious(t) PROVE KeysMoveOn
  BY <1>9, <1>c DEF Spurious, Q!SpuriousWakeup
<1>10. ASSUME NEW t \in SinkThreads, ThreadExit(t) PROVE KeysMoveOn
  BY <1>10, <1>c, SMTT(30) DEF ThreadExit, Q!PopNullopt
<1>11. ASSUME NEW t \in SinkThreads, DeadlineDrop(t) PROVE KeysMoveOn
  BY <1>11, <1>c, SMTT(30) DEF DeadlineDrop
<1>12. ASSUME NEW t \in SinkThreads, BeginSend(t) PROVE KeysMoveOn
  BY <1>12, <1>c DEF BeginSend
<1>13. ASSUME NEW t \in SinkThreads,
              RecordSent(t) \/ RecordDroppedExhausted(t)
       PROVE  KeysMoveOn
  BY <1>13, <1>d, SMTT(30) DEF RecordSent, RecordDroppedExhausted, LoopAgain
<1>14. ASSUME NEW t \in SinkThreads, Connect(t) PROVE KeysMoveOn
  BY <1>14, <1>c, SMTT(30) DEF Connect
<1>15. ASSUME NEW t \in SinkThreads, ConnectFails(t) PROVE KeysMoveOn
  BY <1>15, <1>c, SMTT(30) DEF ConnectFails
<1>16. ASSUME NEW t \in SinkThreads, WriteRequest(t) PROVE KeysMoveOn
  BY <1>16, <1>c DEF WriteRequest
<1>17. ASSUME NEW t \in SinkThreads, ExchangeFails(t) PROVE KeysMoveOn
  BY <1>17, <1>c DEF ExchangeFails
<1>18. ASSUME NEW t \in SinkThreads, ReadResponse(t) PROVE KeysMoveOn
  BY <1>18, <1>c DEF ReadResponse
<1>19. ASSUME NEW t \in SinkThreads, Retry(t) PROVE KeysMoveOn
  BY <1>19, <1>c, SMTT(30) DEF Retry
<1>20. CASE SnapshotSent
  BY <1>20, <1>c, Zenon DEF SnapshotSent
<1>21. CASE SnapshotDropped
  BY <1>21, <1>c DEF SnapshotDropped
<1>22. CASE Stop
  BY <1>22, <1>c DEF Stop
<1>23. CASE StopSetDeadline
  BY <1>23, <1>c DEF StopSetDeadline
<1>24. CASE StopSetDraining
  BY <1>24, <1>c DEF StopSetDraining
<1>25. CASE StopShutdown
  BY <1>25, <1>c, SMTT(30) DEF StopShutdown, Q!shutdown
<1>26. CASE StopJoin
  BY <1>26, <1>c, SMTT(30) DEF StopJoin
<1>27. CASE DeadlinePasses
  BY <1>27, <1>c, SMTT(30) DEF DeadlinePasses
<1>28. CASE Stopped
  BY <1>28, <1>c, SMTT(30) DEF Stopped, vars
<1>29. CASE UNCHANGED vars
  BY <1>29, <1>c DEF vars
<1>. QED
  BY <1>1, <1>2, <1>3, <1>4, <1>5, <1>6, <1>7, <1>8, <1>9, <1>10, <1>11,
     <1>12, <1>13, <1>14, <1>15, <1>16, <1>17, <1>18, <1>19, <1>20, <1>21,
     <1>22, <1>23, <1>24, <1>25, <1>26, <1>27, <1>28, <1>29
     DEF Next, OwnerStep, ProducerStep, ThreadStep, LocalStep

\* The keys that have left the sink: counted, or about to be as dropped.
Gone == {k \in Nat : /\ k < key_counter_
                     /\ ~Waits(k)
                     /\ \A t \in SinkThreads : batch[t] # k}

\* A key that has left does not come back.
LEMMA GoneStays ==
  ASSUME Inv, [Next]_vars
  PROVE  Gone \subseteq Gone'
<1>1. KeysMoveOn
  BY MoveStep, SMTT(30) DEF Inv
<1>2. key_counter_ \in Nat /\ key_counter_' \in Nat
  <2>1. TypeOK /\ TypeOK'
    BY InvStep DEF Inv
  <2>. QED
    BY <2>1, SinkAssumption DEF TypeOK
<1>. SUFFICES ASSUME NEW k \in Gone PROVE k \in Gone'
  OBVIOUS
<1>3. k \in Nat /\ k < key_counter_' /\ ~Waits(k)'
  BY <1>1, <1>2, SMTT(30) DEF Gone, KeysMoveOn
<1>4. \A t \in SinkThreads : batch'[t] # k
  BY <1>1, SinkAssumption, SMTT(30) DEF Gone, KeysMoveOn
<1>. QED
  BY <1>3, <1>4 DEF Gone

\* record_sent() counts a batch that leaves with this step.
LEMMA SentLeaves ==
  ASSUME TypeOK, ThreadShape, KeysDistinct, NEW t \in SinkThreads,
         RecordSent(t)
  PROVE  batch[t] \in Gone' \ Gone
<1>. USE SinkAssumption DEF outbound, intake, stopping
<1>1. /\ batch[t] \in Nat
      /\ batch' = [batch EXCEPT ![t] = None]
      /\ UNCHANGED <<key_counter_, minted, items_>>
  BY SMTT(30) DEF RecordSent, LoopAgain, TypeOK, ThreadShape, Holding
<1>2. /\ batch[t] < key_counter_
      /\ \A p \in Producers : minted[p] # batch[t]
      /\ \A i \in 1..Len(items_) : items_[i] # batch[t]
      /\ \A u \in SinkThreads : batch[u] = batch[t] => u = t
  BY <1>1, ZenonT(30) DEF KeysDistinct, KeyInOnePlace, TypeOK
<1>3. \A u \in SinkThreads : batch'[u] # batch[t]
  BY <1>1, <1>2, ZenonT(30) DEF TypeOK
<1>. QED
  BY <1>1, <1>2, <1>3 DEF Gone, Waits

\* The statements of run() up to the response of the current attempt.
Trying == {"check", "connect", "exchange", "read"}

\* Every step but the reading of a response.
Unanswered ==
  \/ OwnerStep \/ DeadlinePasses \/ UNCHANGED vars
  \/ \E p \in Producers : ProducerStep(p)
  \/ \E t \in SinkThreads : LocalStep(t) \/ WriteRequest(t) \/ Spurious(t)

\* What such a step may do to the batch that a sink thread sends: finish with
\* it, take up another, go on with the attempt or, after the backoff, begin the
\* next.  A batch that was delivered stays so until record_sent().
SendMovesOn(t) ==
  /\ \/ batch'[t] = None
     \/ thread[t] = "pop"
     \/ /\ batch'[t] = batch[t]
        /\ \/ /\ attempt'[t] = attempt[t]
              /\ thread'[t] \in Trying => thread[t] \in Trying
           \/ attempt'[t] = attempt[t] + 1
  /\ \/ thread'[t] = "delivered" <=> thread[t] = "delivered"
     \/ RecordSent(t)

\* Every such step does that to every thread.
LEMMA SendStep ==
  ASSUME TypeOK, ThreadShape, Unanswered, NEW u \in SinkThreads
  PROVE  SendMovesOn(u)
<1>. USE DEF outbound, intake, connection, sending, stopping, Trying
<1>a. /\ thread \in [SinkThreads -> ThreadState]
      /\ batch \in [SinkThreads -> Nat \cup {None}]
      /\ attempt \in [SinkThreads -> 0..MaxRetries]
  BY DEF TypeOK
<1>b. MaxRetries \in Nat
  BY SinkAssumption
<1>c. ASSUME UNCHANGED <<thread, batch, attempt>> PROVE SendMovesOn(u)
  BY <1>c, SMTT(30) DEF SendMovesOn
<1>1. ASSUME NEW t \in SinkThreads, SpawnThread(t) PROVE SendMovesOn(u)
  BY <1>a, <1>1, SMTT(30) DEF SpawnThread, SendMovesOn
<1>2. CASE Constructed \/ SpawnFails
  BY <1>2, <1>c DEF Constructed, SpawnFails
<1>3. ASSUME NEW p \in Producers, ProducerStep(p) PROVE SendMovesOn(u)
  BY <1>3, <1>c, SMTT(30) DEF ProducerStep, NextIdempotencyKey, ConsumePush,
     RecordDroppedOutbound
<1>4. ASSUME NEW t \in SinkThreads, Pop(t) PROVE SendMovesOn(u)
  BY <1>a, <1>4, SMTT(30) DEF Pop, SendMovesOn
<1>5. ASSUME NEW t \in SinkThreads, PopSleep(t) \/ Spurious(t)
      PROVE  SendMovesOn(u)
  BY <1>5, <1>c, SMTT(30) DEF PopSleep, Spurious
<1>6. ASSUME NEW t \in SinkThreads, ThreadExit(t) PROVE SendMovesOn(u)
  BY <1>a, <1>6, SMTT(30) DEF ThreadExit, SendMovesOn
<1>7. ASSUME NEW t \in SinkThreads, DeadlineDrop(t) \/ BeginSend(t)
      PROVE  SendMovesOn(u)
  BY <1>a, <1>7 DEF DeadlineDrop, BeginSend, SendMovesOn
<1>8. ASSUME NEW t \in SinkThreads,
             RecordSent(t) \/ RecordDroppedExhausted(t)
      PROVE  SendMovesOn(u)
  BY <1>a, <1>8, SMTT(30) DEF RecordSent, RecordDroppedExhausted, LoopAgain,
     SendMovesOn
<1>9. ASSUME NEW t \in SinkThreads, Connect(t) PROVE SendMovesOn(u)
  BY <1>a, <1>9, SMTT(30) DEF Connect, SendMovesOn
<1>10. ASSUME NEW t \in SinkThreads, ConnectFails(t) \/ ExchangeFails(t)
       PROVE  SendMovesOn(u)
  BY <1>a, <1>10, ZenonT(30)
     DEF ConnectFails, ExchangeFails, AfterRetryable, SendMovesOn
<1>11. ASSUME NEW t \in SinkThreads, WriteRequest(t) PROVE SendMovesOn(u)
  BY <1>a, <1>11 DEF WriteRequest, SendMovesOn
<1>12. ASSUME NEW t \in SinkThreads, Retry(t) PROVE SendMovesOn(u)
  BY <1>a, <1>b, <1>12 DEF Retry, SendMovesOn
<1>13. CASE SnapshotSent \/ SnapshotDropped \/ Stop
  BY <1>13, <1>c, SMTT(30) DEF SnapshotSent, SnapshotDropped, Stop
<1>14. CASE StopSetDeadline \/ StopSetDraining \/ StopShutdown \/ StopJoin
  BY <1>14, <1>c, ZenonT(30)
     DEF StopSetDeadline, StopSetDraining, StopShutdown, StopJoin
<1>15. CASE DeadlinePasses \/ UNCHANGED vars
  BY <1>15, <1>c, SMTT(30) DEF DeadlinePasses, vars
<1>. HIDE DEF Trying
<1>. QED
  BY <1>1, <1>2, <1>3, <1>4, <1>5, <1>6, <1>7, <1>8, <1>9, <1>10, <1>11,
     <1>12, <1>13, <1>14, <1>15
     DEF Unanswered, OwnerStep, LocalStep

\* Only record_sent() counts a batch as sent.
LEMMA OnlySentCounts ==
  ASSUME TypeOK, [Next]_vars
  PROVE  stats'.sent = stats.sent \/ \E t \in SinkThreads : RecordSent(t)
<1>. USE DEF outbound, intake, connection, sending, stopping
<1>a. stats \in Stats
  BY DEF TypeOK
<1>1. ASSUME NEW p \in Producers, RecordDroppedOutbound(p)
      PROVE  stats'.sent = stats.sent
  BY <1>1, <1>a DEF RecordDroppedOutbound, Stats
<1>2. ASSUME NEW t \in SinkThreads, RecordDroppedExhausted(t) \/ Retry(t)
      PROVE  stats'.sent = stats.sent
  BY <1>2, <1>a, SMTT(30) DEF RecordDroppedExhausted, Retry, Stats
<1>3. ASSUME NEW p \in Producers, NextIdempotencyKey(p) \/ ConsumePush(p)
      PROVE  stats' = stats
  BY <1>3, SMTT(30) DEF NextIdempotencyKey, ConsumePush
<1>4. ASSUME NEW t \in SinkThreads,
             \/ SpawnThread(t) \/ Pop(t) \/ PopSleep(t) \/ Spurious(t)
             \/ ThreadExit(t) \/ DeadlineDrop(t) \/ BeginSend(t)
      PROVE  stats' = stats
  BY <1>4, ZenonT(30) DEF SpawnThread, Pop, PopSleep, Spurious, ThreadExit,
     DeadlineDrop, BeginSend
<1>5. ASSUME NEW t \in SinkThreads,
             \/ Connect(t) \/ ConnectFails(t) \/ WriteRequest(t)
             \/ ExchangeFails(t) \/ ReadResponse(t)
      PROVE  stats' = stats
  BY <1>5, Zenon DEF Connect, ConnectFails, WriteRequest, ExchangeFails,
     ReadResponse
<1>6. CASE \/ Constructed \/ SpawnFails \/ SnapshotSent \/ SnapshotDropped
           \/ Stop \/ StopSetDeadline \/ StopSetDraining \/ StopShutdown
           \/ StopJoin
  BY <1>6, SMTT(30) DEF Constructed, SpawnFails, SnapshotSent,
     SnapshotDropped, Stop, StopSetDeadline, StopSetDraining, StopShutdown,
     StopJoin
<1>7. CASE DeadlinePasses \/ Stopped \/ UNCHANGED vars
  BY <1>7, ZenonT(30) DEF DeadlinePasses, Stopped, vars
<1>. QED
  BY <1>1, <1>2, <1>3, <1>4, <1>5, <1>6, <1>7, SMTT(30) DEF Next, OwnerStep,
     ProducerStep, ThreadStep, LocalStep
=============================================================================
