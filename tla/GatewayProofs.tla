---------------------------- MODULE GatewayProofs ----------------------------
(***************************************************************************)
(* Proofs about Gateway for any number of connections and workers, and any *)
(* capacity and batch size: what the counters account for, what the        *)
(* shutdown sequence guarantees, that no event is in two places of the     *)
(* pipeline, and that the queue as the reactor and the workers use it      *)
(* implements the contract of EventQueue.                                  *)
(***************************************************************************)
EXTENDS Gateway, FiniteSetTheorems, SequenceTheorems, TLAPS

-----------------------------------------------------------------------------
(* The inductive invariant.                                                *)

\* A connection holds an event exactly between queue_.push() and the counter
\* the event is charged to; the reactor runs one such handler at a time; a
\* worker between pop() and add_event() has an event in hand.
Shape ==
  /\ \A k \in Connections :
       /\ held[k] # None <=> conn[k] \in {"pushed", "repushed", "retrying"}
       /\ current = k => conn[k] \in {"pushed", "repushed"}
  /\ current = None <=> result = None
  /\ \A w \in Workers : worker[w] \in {"record", "add"} => hand[w] # None

Inv == TypeOK /\ Shape /\ AcceptedAccounted /\ ReceivedAccounted

-----------------------------------------------------------------------------
(* What the counters, the queue and the batcher do.                        *)

\* Each record_* function adds one to one counter.
LEMMA StatsLemma ==
  ASSUME NEW s \in Stats
  PROVE  /\ [s EXCEPT !.accepted = @ + 1] \in Stats
         /\ [s EXCEPT !.dropped_oldest = @ + 1] \in Stats
         /\ [s EXCEPT !.dropped_newest = @ + 1] \in Stats
         /\ [s EXCEPT !.malformed = @ + 1] \in Stats
         /\ [s EXCEPT !.queue_wait_count = @ + 1] \in Stats
BY DEF Stats

\* push() adds the event, or trades the oldest for it, or does nothing.
LEMMA PushLemma ==
  ASSUME Q!QueueTypeOK(Event), NEW event \in Event, Push(event)
  PROVE  /\ Q!QueueTypeOK(Event)'
         /\ result' \in PushResult
         /\ Len(items_') = Len(items_) + (IF result' = Accepted THEN 1 ELSE 0)
<1>. USE SizeAssumption DEF Q!QueueTypeOK, PushResult, Accepted, DroppedOldest,
                           RejectedBackpressure
<1>1. CASE Q!PushAccepted(event) /\ result' = Accepted
  BY <1>1, AppendProperties DEF Q!PushAccepted, Q!NotifyOne
<1>2. CASE Q!PushDroppedOldest(event) /\ result' = DroppedOldest
  <2>1. items_ # <<>>
    BY <1>2, EmptySeq DEF Q!PushDroppedOldest
  <2>2. /\ Tail(items_) \in Seq(Event)
        /\ Len(Tail(items_)) = Len(items_) - 1
    BY <2>1, HeadTailProperties
  <2>3. /\ Append(Tail(items_), event) \in Seq(Event)
        /\ Len(Append(Tail(items_), event)) = Len(items_)
    BY <2>2, AppendProperties, LenProperties
  <2>. QED
    BY <1>2, <2>3 DEF Q!PushDroppedOldest, Q!NotifyOne
<1>3. CASE Q!PushRejected /\ result' = RejectedBackpressure
  BY <1>3 DEF Q!PushRejected, Q!queueVars
<1>. QED
  BY <1>1, <1>2, <1>3 DEF Push

\* The batcher's part of TypeOK.
Buffers ==
  /\ buffer_ \in Seq(Event)
  /\ Len(buffer_) < MaxBatchSize
  /\ written \in Seq(Event)
  /\ batches \in Nat

\* add_event() adds one event to the buffer and the sink taken together.
LEMMA AddLemma ==
  ASSUME Buffers, NEW event \in Event, AddEvent(event)
  PROVE  /\ Buffers'
         /\ Len(buffer_') + Len(written') = Len(buffer_) + Len(written) + 1
<1>. DEFINE events == Append(buffer_, event)
<1>1. events \in Seq(Event) /\ Len(events) = Len(buffer_) + 1
  BY AppendProperties DEF Buffers
<1>. HIDE DEF events
<1>2. CASE FlushLocked(events)
  <2>1. /\ written \o events \in Seq(Event)
        /\ Len(written \o events) = Len(written) + Len(events)
    BY <1>1, ConcatProperties, Zenon DEF Buffers
  <2>2. Len(buffer_) \in Nat /\ Len(written) \in Nat
    BY LenProperties DEF Buffers
  <2>. QED
    BY <1>1, <1>2, <2>1, <2>2, BatchAssumption DEF FlushLocked, Buffers
<1>3. CASE /\ Len(events) < MaxBatchSize
           /\ buffer_' = events
           /\ UNCHANGED <<written, batches>>
  <2>1. Len(buffer_) \in Nat /\ Len(written) \in Nat
    BY LenProperties DEF Buffers
  <2>. QED
    BY <1>1, <1>3, <2>1 DEF Buffers
<1>. QED
  BY <1>2, <1>3 DEF AddEvent, events

\* flush() moves events from the buffer to the sink and loses none.
LEMMA FlushLemma ==
  ASSUME Buffers, Flush
  PROVE  /\ Buffers'
         /\ Len(buffer_') + Len(written') = Len(buffer_) + Len(written)
<1>1. Len(buffer_) \in Nat /\ Len(written) \in Nat
  BY LenProperties DEF Buffers
<1>2. /\ written \o buffer_ \in Seq(Event)
      /\ Len(written \o buffer_) = Len(written) + Len(buffer_)
  BY ConcatProperties DEF Buffers
<1>3. CASE FlushLocked(buffer_)
  <2>1. buffer_' \in Seq(Event) /\ Len(buffer_') = 0
    BY <1>3, EmptySeq DEF FlushLocked
  <2>. QED
    BY <1>1, <1>2, <1>3, <2>1, BatchAssumption DEF FlushLocked, Buffers
<1>4. CASE UNCHANGED batcher
  BY <1>4, SMTT(30) DEF batcher, Buffers
<1>. QED
  BY <1>3, <1>4 DEF Flush

-----------------------------------------------------------------------------
(* Every step preserves the invariant, conjunct by conjunct.               *)

\* No thread of the gateway leaves a variable outside its type; in particular
\* push() keeps the queue within its capacity and add_event() the buffer below
\* max_batch_size.
LEMMA TypeStep ==
  ASSUME TypeOK, Shape, [Next]_vars
  PROVE  TypeOK'
<1>. USE SizeAssumption, BatchAssumption, GatewayBounds, ThreadAssumption
     DEF TypeOK, Shape, Q!QueueTypeOK, ConnState, WorkerState, MainState,
         PushResult, queueVars, reactor, pool, batcher, process
<1>1. ASSUME NEW k \in Connections, accept(k) PROVE TypeOK'
  BY <1>1 DEF accept, ReactorIdle
<1>2. ASSUME NEW k \in Connections, Disconnect(k) PROVE TypeOK'
  BY <1>2 DEF Disconnect, ReactorIdle
<1>3. ASSUME NEW k \in Connections, HandleMalformed(k) PROVE TypeOK'
  <2>1. stats' \in Stats
    BY <1>3, StatsLemma, Zenon DEF HandleMalformed
  <2>. QED
    BY <1>3, <2>1 DEF HandleMalformed, ReactorIdle
<1>4. ASSUME NEW k \in Connections, PushEvent(k) PROVE TypeOK'
  <2>1. received + 1 \in Event
    BY <1>4 DEF PushEvent, ReactorIdle, Event
  <2>2. Q!QueueTypeOK(Event)' /\ result' \in PushResult
    BY <1>4, <2>1, PushLemma DEF PushEvent
  <2>. QED
    BY <1>4, <2>1, <2>2 DEF PushEvent
<1>5. ASSUME NEW k \in Connections, RetryPush(k) PROVE TypeOK'
  <2>1. held[k] \in Event
    BY <1>5 DEF RetryPush, ReactorIdle, Event
  <2>2. Q!QueueTypeOK(Event)' /\ result' \in PushResult
    BY <1>5, <2>1, PushLemma DEF RetryPush
  <2>. QED
    BY <1>5, <2>1, <2>2 DEF RetryPush
<1>6. ASSUME NEW k \in Connections, RecordAccepted(k) PROVE TypeOK'
  <2>1. stats' \in Stats
    BY <1>6, StatsLemma, Zenon DEF RecordAccepted
  <2>. QED
    BY <1>6, <2>1 DEF RecordAccepted, ReadNext
<1>7. ASSUME NEW k \in Connections, RecordDroppedOldest(k)
     PROVE  TypeOK'
  <2>1. stats' \in Stats
    BY <1>7, StatsLemma, Zenon DEF RecordDroppedOldest
  <2>. QED
    BY <1>7, <2>1 DEF RecordDroppedOldest, ReadNext
<1>8. ASSUME NEW k \in Connections, RecordDroppedNewest(k)
     PROVE  TypeOK'
  <2>1. stats' \in Stats
    BY <1>8, StatsLemma, Zenon DEF RecordDroppedNewest
  <2>. QED
    BY <1>8, <2>1 DEF RecordDroppedNewest, ReadNext
<1>9. ASSUME NEW k \in Connections, ArmRetry(k) PROVE TypeOK'
  BY <1>9 DEF ArmRetry
<1>10. CASE Signal
  BY <1>10 DEF Signal, ReactorIdle
<1>11. ASSUME NEW w \in Workers, Pop(w) PROVE TypeOK'
  <2>1. items_ # <<>>
    BY <1>11 DEF Pop, Q!PopItem
  <2>2. /\ Head(items_) \in Event
        /\ Tail(items_) \in Seq(Event)
        /\ Len(Tail(items_)) <= Capacity
        /\ Append(popped, Head(items_)) \in Seq(Event)
    BY <2>1, HeadTailProperties, AppendProperties, LenProperties, SMTT(30)
  <2>. QED
    BY <1>11, <2>2 DEF Pop, Q!PopItem
<1>12. ASSUME NEW w \in Workers, PopSleep(w) PROVE TypeOK'
  BY <1>12 DEF PopSleep, Q!PopWait, Q!Running
<1>13. ASSUME NEW w \in Workers, Spurious(w) PROVE TypeOK'
  BY <1>13 DEF Spurious, Q!SpuriousWakeup
<1>14. ASSUME NEW w \in Workers, WorkerExit(w) PROVE TypeOK'
  BY <1>14 DEF WorkerExit, Q!PopNullopt, Q!Running
<1>15. ASSUME NEW w \in Workers, RecordQueueWait(w) PROVE TypeOK'
  <2>1. stats' \in Stats
    BY <1>15, StatsLemma, Zenon DEF RecordQueueWait
  <2>. QED
    BY <1>15, <2>1 DEF RecordQueueWait
<1>16. ASSUME NEW w \in Workers, WorkerAdd(w) PROVE TypeOK'
  <2>1. hand[w] \in Event
    BY <1>16 DEF WorkerAdd
  <2>. QED
    BY <1>16, <2>1, AddLemma DEF WorkerAdd, Buffers
<1>17. CASE FlusherCheck
  BY <1>17 DEF FlusherCheck
<1>18. CASE FlusherWake
  BY <1>18 DEF FlusherWake
<1>19. CASE FlusherFlush
  BY <1>19, FlushLemma DEF FlusherFlush, Buffers
<1>20. CASE MainFlushShutdown
  BY <1>20 DEF MainFlushShutdown
<1>21. CASE MainJoinFlusher
  BY <1>21 DEF MainJoinFlusher
<1>22. CASE MainPoolStop
  BY <1>22 DEF MainPoolStop, Q!shutdown, Q!NotifyAll
<1>23. CASE MainJoinPool
  BY <1>23 DEF MainJoinPool
<1>24. CASE MainFinalFlush
  BY <1>24, FlushLemma DEF MainFinalFlush, Buffers
<1>25. CASE MainSnapshot
  BY <1>25 DEF MainSnapshot
<1>26. CASE Exited
  BY <1>26 DEF Exited, vars
<1>27. CASE UNCHANGED vars
  BY <1>27, SMTT(30) DEF vars
<1>. HIDE DEF TypeOK, Shape, Q!QueueTypeOK, ConnState, WorkerState,
         MainState, PushResult
<1>. QED
  BY <1>1, <1>2, <1>3, <1>4, <1>5, <1>6, <1>7, <1>8, <1>9, <1>10, <1>11,
     <1>12, <1>13, <1>14, <1>15, <1>16, <1>17, <1>18, <1>19, <1>20, <1>21,
     <1>22, <1>23, <1>24, <1>25, <1>26, <1>27
     DEF Next, ReactorStep, WorkerStep, FlusherStep, MainStep

\* The handlers keep the connection, the reactor and the workers in step.
LEMMA ShapeStep ==
  ASSUME TypeOK, Shape, [Next]_vars
  PROVE  Shape'
<1>. USE SizeAssumption, GatewayBounds, ThreadAssumption
     DEF TypeOK, Shape, Q!QueueTypeOK, Event, PushResult, queueVars, reactor,
         pool, batcher, process
<1>1. ASSUME NEW k \in Connections, accept(k) PROVE Shape'
  BY <1>1 DEF accept, ReactorIdle
<1>2. ASSUME NEW k \in Connections, Disconnect(k) PROVE Shape'
  BY <1>2 DEF Disconnect, ReactorIdle
<1>3. ASSUME NEW k \in Connections, HandleMalformed(k) PROVE Shape'
  BY <1>3 DEF HandleMalformed, ReactorIdle
<1>4. ASSUME NEW k \in Connections, PushEvent(k) PROVE Shape'
  BY <1>4 DEF PushEvent, ReactorIdle, Push, Q!PushAccepted,
     Q!PushDroppedOldest, Q!PushRejected, Q!NotifyOne, Q!queueVars
<1>5. ASSUME NEW k \in Connections, RetryPush(k) PROVE Shape'
  BY <1>5 DEF RetryPush, ReactorIdle, Push, Q!PushAccepted,
     Q!PushDroppedOldest, Q!PushRejected, Q!NotifyOne, Q!queueVars
<1>6. ASSUME NEW k \in Connections, RecordAccepted(k) PROVE Shape'
  BY <1>6 DEF RecordAccepted, ReadNext
<1>7. ASSUME NEW k \in Connections, RecordDroppedOldest(k)
     PROVE  Shape'
  BY <1>7 DEF RecordDroppedOldest, ReadNext
<1>8. ASSUME NEW k \in Connections, RecordDroppedNewest(k)
     PROVE  Shape'
  BY <1>8 DEF RecordDroppedNewest, ReadNext
<1>9. ASSUME NEW k \in Connections, ArmRetry(k) PROVE Shape'
  BY <1>9 DEF ArmRetry
<1>10. CASE Signal
  BY <1>10 DEF Signal, ReactorIdle
<1>11. ASSUME NEW w \in Workers, Pop(w) PROVE Shape'
  BY <1>11, SMTT(30) DEF Pop, Q!PopItem, Q!Running
<1>12. ASSUME NEW w \in Workers, PopSleep(w) PROVE Shape'
  BY <1>12 DEF PopSleep, Q!PopWait, Q!Running
<1>13. ASSUME NEW w \in Workers, Spurious(w) PROVE Shape'
  BY <1>13 DEF Spurious, Q!SpuriousWakeup
<1>14. ASSUME NEW w \in Workers, WorkerExit(w) PROVE Shape'
  BY <1>14 DEF WorkerExit, Q!PopNullopt, Q!Running
<1>15. ASSUME NEW w \in Workers, RecordQueueWait(w) PROVE Shape'
  BY <1>15 DEF RecordQueueWait
<1>16. ASSUME NEW w \in Workers, WorkerAdd(w) PROVE Shape'
  BY <1>16 DEF WorkerAdd, AddEvent, FlushLocked
<1>17. CASE FlusherCheck
  BY <1>17 DEF FlusherCheck
<1>18. CASE FlusherWake
  BY <1>18 DEF FlusherWake
<1>19. CASE FlusherFlush
  BY <1>19 DEF FlusherFlush, Flush, FlushLocked
<1>20. CASE MainFlushShutdown
  BY <1>20 DEF MainFlushShutdown
<1>21. CASE MainJoinFlusher
  BY <1>21 DEF MainJoinFlusher
<1>22. CASE MainPoolStop
  BY <1>22 DEF MainPoolStop, Q!shutdown, Q!NotifyAll
<1>23. CASE MainJoinPool
  BY <1>23 DEF MainJoinPool
<1>24. CASE MainFinalFlush
  BY <1>24 DEF MainFinalFlush, Flush, FlushLocked
<1>25. CASE MainSnapshot
  BY <1>25 DEF MainSnapshot
<1>26. CASE Exited
  BY <1>26 DEF Exited, vars
<1>27. CASE UNCHANGED vars
  BY <1>27, SMTT(30) DEF vars
<1>. HIDE DEF TypeOK, Shape, Q!QueueTypeOK, Event, PushResult
<1>. QED
  BY <1>1, <1>2, <1>3, <1>4, <1>5, <1>6, <1>7, <1>8, <1>9, <1>10, <1>11,
     <1>12, <1>13, <1>14, <1>15, <1>16, <1>17, <1>18, <1>19, <1>20, <1>21,
     <1>22, <1>23, <1>24, <1>25, <1>26, <1>27
     DEF Next, ReactorStep, WorkerStep, FlusherStep, MainStep

\* Each event accepted is in the queue, with a worker, in the batcher or in the
\* sink: the steps that move one move exactly one.
LEMMA AcceptedStep ==
  ASSUME TypeOK, Shape, AcceptedAccounted, [Next]_vars
  PROVE  AcceptedAccounted'
<1>. USE ThreadAssumption DEF Shape, Accepted, PushResult, queueVars, reactor,
                             pool, batcher, process
<1>a. /\ stats.accepted \in Nat
      /\ Len(items_) \in Nat
      /\ Len(buffer_) \in Nat
      /\ Len(written) \in Nat
      /\ IsFiniteSet(Busy)
      /\ Cardinality(Busy) \in Nat
  BY LenProperties, FS_Subset, FS_CardinalityType, ZenonT(30)
     DEF TypeOK, Q!QueueTypeOK, Stats, Busy
<1>b. ASSUME UNCHANGED <<items_, worker, buffer_, written>>,
             result' = Accepted <=> result = Accepted,
             stats'.accepted = stats.accepted
      PROVE  AcceptedAccounted'
  BY <1>b DEF AcceptedAccounted, Busy
<1>1. ASSUME NEW k \in Connections, accept(k) PROVE AcceptedAccounted'
  BY <1>1, <1>b DEF accept, ReactorIdle
<1>2. ASSUME NEW k \in Connections, Disconnect(k) PROVE AcceptedAccounted'
  BY <1>2, <1>b DEF Disconnect, ReactorIdle
<1>3. ASSUME NEW k \in Connections, HandleMalformed(k) PROVE AcceptedAccounted'
  <2>1. stats'.accepted = stats.accepted
    BY <1>3 DEF HandleMalformed, TypeOK, Stats
  <2>. QED
    BY <1>3, <1>b, <2>1 DEF HandleMalformed, ReadNext, DroppedOldest,
       RejectedBackpressure
<1>4. ASSUME NEW k \in Connections, PushEvent(k) PROVE AcceptedAccounted'
  <2>1. received + 1 \in Event
    BY <1>4, GatewayBounds DEF PushEvent, TypeOK, Event
  <2>2. Len(items_') = Len(items_) + (IF result' = Accepted THEN 1 ELSE 0)
    BY <1>4, <2>1, PushLemma, SMTT(30) DEF PushEvent, TypeOK
  <2>3. result # Accepted
    BY <1>4 DEF PushEvent, ReactorIdle
  <2>. QED
    BY <1>4, <1>a, <2>2, <2>3, SMTT(30) DEF PushEvent, AcceptedAccounted, Busy
<1>5. ASSUME NEW k \in Connections, RetryPush(k) PROVE AcceptedAccounted'
  <2>1. held[k] \in Event
    BY <1>5 DEF RetryPush, TypeOK
  <2>2. Len(items_') = Len(items_) + (IF result' = Accepted THEN 1 ELSE 0)
    BY <1>5, <2>1, PushLemma, SMTT(30) DEF RetryPush, TypeOK
  <2>3. result # Accepted
    BY <1>5 DEF RetryPush, ReactorIdle
  <2>. QED
    BY <1>5, <1>a, <2>2, <2>3, SMTT(30) DEF RetryPush, AcceptedAccounted, Busy
<1>6. ASSUME NEW k \in Connections, RecordAccepted(k) PROVE AcceptedAccounted'
  <2>1. stats'.accepted = stats.accepted + 1
    BY <1>6 DEF RecordAccepted, TypeOK, Stats
  <2>. QED
    BY <1>6, <1>a, <2>1 DEF RecordAccepted, ReadNext, AcceptedAccounted, Busy
<1>7. ASSUME NEW k \in Connections, RecordDroppedOldest(k)
     PROVE  AcceptedAccounted'
  <2>1. stats'.accepted = stats.accepted
    BY <1>7 DEF RecordDroppedOldest, TypeOK, Stats
  <2>. QED
    BY <1>7, <1>b, <2>1 DEF RecordDroppedOldest, ReadNext, DroppedOldest,
       RejectedBackpressure
<1>8. ASSUME NEW k \in Connections, RecordDroppedNewest(k)
     PROVE  AcceptedAccounted'
  <2>1. stats'.accepted = stats.accepted
    BY <1>8 DEF RecordDroppedNewest, TypeOK, Stats
  <2>. QED
    BY <1>8, <1>b, <2>1 DEF RecordDroppedNewest, ReadNext, DroppedOldest,
       RejectedBackpressure
<1>9. ASSUME NEW k \in Connections, ArmRetry(k) PROVE AcceptedAccounted'
  BY <1>9, <1>b DEF ArmRetry, RejectedBackpressure
<1>10. CASE Signal
  BY <1>10, <1>b DEF Signal, ReactorIdle
<1>11. ASSUME NEW w \in Workers, Pop(w) PROVE AcceptedAccounted'
  <2>1. Len(items_') = Len(items_) - 1
    BY <1>11, HeadTailProperties DEF Pop, Q!PopItem, TypeOK, Q!QueueTypeOK
  <2>2. Cardinality(Busy') = Cardinality(Busy) + 1
    <3>1. Busy' = Busy \cup {w} /\ w \notin Busy
      BY <1>11 DEF Pop, Busy, TypeOK
    <3>. QED
      BY <1>a, <3>1, FS_AddElement, Zenon
  <2>. QED
    BY <1>11, <1>a, <2>1, <2>2, SMTT(30) DEF Pop, AcceptedAccounted
<1>12. ASSUME NEW w \in Workers, PopSleep(w) PROVE AcceptedAccounted'
  BY <1>12, <1>b, Zenon DEF PopSleep, Q!PopWait, Q!Running
<1>13. ASSUME NEW w \in Workers, Spurious(w) PROVE AcceptedAccounted'
  BY <1>13, <1>b, Zenon DEF Spurious, Q!SpuriousWakeup
<1>14. ASSUME NEW w \in Workers, WorkerExit(w) PROVE AcceptedAccounted'
  <2>1. Busy' = Busy
    BY <1>14 DEF WorkerExit, Busy, TypeOK
  <2>. QED
    BY <1>14, <2>1 DEF WorkerExit, Q!PopNullopt, AcceptedAccounted
<1>15. ASSUME NEW w \in Workers, RecordQueueWait(w) PROVE AcceptedAccounted'
  <2>1. Busy' = Busy
    BY <1>15 DEF RecordQueueWait, Busy, TypeOK
  <2>2. stats'.accepted = stats.accepted
    BY <1>15 DEF RecordQueueWait, TypeOK, Stats
  <2>. QED
    BY <1>15, <2>1, <2>2 DEF RecordQueueWait, AcceptedAccounted
<1>16. ASSUME NEW w \in Workers, WorkerAdd(w) PROVE AcceptedAccounted'
  <2>1. hand[w] \in Event
    BY <1>16 DEF WorkerAdd, TypeOK
  <2>2. Len(buffer_') + Len(written') = Len(buffer_) + Len(written) + 1
    BY <1>16, <2>1, AddLemma, SMTT(30) DEF WorkerAdd, TypeOK, Buffers
  <2>3. Len(buffer_') \in Nat /\ Len(written') \in Nat
    BY <1>16, <2>1, AddLemma, LenProperties, SMTT(30) DEF WorkerAdd, TypeOK,
       Buffers
  <2>4. Cardinality(Busy') = Cardinality(Busy) - 1
    <3>1. Busy' = Busy \ {w} /\ w \in Busy
      BY <1>16 DEF WorkerAdd, Busy, TypeOK
    <3>. QED
      BY <1>a, <3>1, FS_RemoveElement, Zenon
  <2>. QED
    BY <1>16, <1>a, <2>2, <2>3, <2>4, SMTT(30) DEF WorkerAdd,
       AcceptedAccounted
<1>17. CASE FlusherCheck
  BY <1>17, <1>b DEF FlusherCheck
<1>18. CASE FlusherWake
  BY <1>18, <1>b DEF FlusherWake
<1>19. CASE FlusherFlush
  <2>1. Len(buffer_') + Len(written') = Len(buffer_) + Len(written)
    BY <1>19, FlushLemma DEF FlusherFlush, TypeOK, Buffers
  <2>2. Len(buffer_') \in Nat /\ Len(written') \in Nat
    BY <1>19, FlushLemma, LenProperties DEF FlusherFlush, TypeOK, Buffers
  <2>. QED
    BY <1>19, <1>a, <2>1, <2>2, SMTT(30) DEF FlusherFlush, AcceptedAccounted,
       Busy
<1>20. CASE MainFlushShutdown
  BY <1>20, <1>b DEF MainFlushShutdown
<1>21. CASE MainJoinFlusher
  BY <1>21, <1>b DEF MainJoinFlusher
<1>22. CASE MainPoolStop
  BY <1>22, <1>b DEF MainPoolStop, Q!shutdown, Q!NotifyAll
<1>23. CASE MainJoinPool
  BY <1>23, <1>b DEF MainJoinPool
<1>24. CASE MainFinalFlush
  <2>1. Len(buffer_') + Len(written') = Len(buffer_) + Len(written)
    BY <1>24, FlushLemma, SMTT(30) DEF MainFinalFlush, TypeOK, Buffers
  <2>2. Len(buffer_') \in Nat /\ Len(written') \in Nat
    BY <1>24, FlushLemma, LenProperties, SMTT(30) DEF MainFinalFlush, TypeOK,
       Buffers
  <2>. QED
    BY <1>24, <1>a, <2>1, <2>2, SMTT(30) DEF MainFinalFlush,
       AcceptedAccounted, Busy
<1>25. CASE MainSnapshot
  BY <1>25, <1>b DEF MainSnapshot
<1>26. CASE Exited
  BY <1>26, <1>b, SMTT(30) DEF Exited, vars
<1>27. CASE UNCHANGED vars
  BY <1>27, <1>b DEF vars
<1>. HIDE DEF Shape, Accepted, PushResult
<1>. QED
  BY <1>1, <1>2, <1>3, <1>4, <1>5, <1>6, <1>7, <1>8, <1>9, <1>10, <1>11,
     <1>12, <1>13, <1>14, <1>15, <1>16, <1>17, <1>18, <1>19, <1>20, <1>21,
     <1>22, <1>23, <1>24, <1>25, <1>26, <1>27
     DEF Next, ReactorStep, WorkerStep, FlusherStep, MainStep

Charged == stats.accepted + stats.dropped_oldest + stats.dropped_newest

\* Each event received is charged to one counter when its connection lets go
\* of it, and not before.
LEMMA ReceivedStep ==
  ASSUME TypeOK, Shape, ReceivedAccounted, [Next]_vars
  PROVE  ReceivedAccounted'
<1>. USE ThreadAssumption DEF Shape, queueVars, reactor, pool, batcher, process
<1>a. /\ stats \in Stats
      /\ Charged \in Nat
      /\ received \in Nat
      /\ IsFiniteSet(Holding)
      /\ Cardinality(Holding) \in Nat
  <2>1. stats \in Stats /\ received \in Nat
    BY DEF TypeOK
  <2>2. Charged \in Nat
    BY <2>1 DEF Stats, Charged
  <2>3. IsFiniteSet(Holding) /\ Cardinality(Holding) \in Nat
    BY FS_Subset, FS_CardinalityType, Zenon DEF Holding
  <2>. QED
    BY <2>1, <2>2, <2>3, Zenon
<1>b. ASSUME UNCHANGED <<held, received>>, Charged' = Charged
      PROVE  ReceivedAccounted'
  BY <1>b DEF ReceivedAccounted, Holding, Charged
<1>1. ASSUME NEW k \in Connections, accept(k) PROVE ReceivedAccounted'
  BY <1>1, <1>b DEF accept, Charged
<1>2. ASSUME NEW k \in Connections, Disconnect(k) PROVE ReceivedAccounted'
  BY <1>2, <1>b DEF Disconnect, Charged
<1>3. ASSUME NEW k \in Connections, HandleMalformed(k) PROVE ReceivedAccounted'
  <2>1. Charged' = Charged
    BY <1>3, <1>a DEF HandleMalformed, Charged, Stats
  <2>. QED
    BY <1>3, <1>b, <2>1 DEF HandleMalformed
<1>4. ASSUME NEW k \in Connections, PushEvent(k) PROVE ReceivedAccounted'
  <2>1. Cardinality(Holding') = Cardinality(Holding) + 1
    <3>1. Holding' = Holding \cup {k} /\ k \notin Holding
      BY <1>4, SMTT(30) DEF PushEvent, ReactorIdle, Holding, TypeOK
    <3>. QED
      BY <1>a, <3>1, FS_AddElement, Zenon
  <2>. QED
    BY <1>4, <1>a, <2>1 DEF PushEvent, ReceivedAccounted, Charged
<1>5. ASSUME NEW k \in Connections, RetryPush(k) PROVE ReceivedAccounted'
  BY <1>5, <1>b DEF RetryPush, Charged
<1>6. ASSUME NEW k \in Connections, RecordAccepted(k) PROVE ReceivedAccounted'
  <2>1. stats' = [stats EXCEPT !.accepted = @ + 1]
    BY <1>6 DEF RecordAccepted
  <2>2. Charged' = Charged + 1
    BY <2>1, <1>a DEF Charged, Stats
  <2>3. Cardinality(Holding') = Cardinality(Holding) - 1
    <3>1. Holding' = Holding \ {k} /\ k \in Holding
      BY <1>6 DEF RecordAccepted, ReadNext, Holding, TypeOK
    <3>. QED
      BY <1>a, <3>1, FS_RemoveElement, Zenon
  <2>. QED
    BY <1>6, <1>a, <2>2, <2>3 DEF RecordAccepted, ReceivedAccounted, Charged
<1>7. ASSUME NEW k \in Connections, RecordDroppedOldest(k)
     PROVE  ReceivedAccounted'
  <2>1. stats' = [stats EXCEPT !.dropped_oldest = @ + 1]
    BY <1>7 DEF RecordDroppedOldest
  <2>2. Charged' = Charged + 1
    BY <2>1, <1>a, SMTT(30) DEF Charged, Stats
  <2>3. Cardinality(Holding') = Cardinality(Holding) - 1
    <3>1. Holding' = Holding \ {k} /\ k \in Holding
      BY <1>7 DEF RecordDroppedOldest, ReadNext, Holding, TypeOK
    <3>. QED
      BY <1>a, <3>1, FS_RemoveElement, Zenon
  <2>. QED
    BY <1>7, <1>a, <2>2, <2>3
       DEF RecordDroppedOldest, ReceivedAccounted, Charged
<1>8. ASSUME NEW k \in Connections, RecordDroppedNewest(k)
     PROVE  ReceivedAccounted'
  <2>1. stats' = [stats EXCEPT !.dropped_newest = @ + 1]
    BY <1>8 DEF RecordDroppedNewest
  <2>2. Charged' = Charged + 1
    BY <2>1, <1>a DEF Charged, Stats
  <2>3. Cardinality(Holding') = Cardinality(Holding) - 1
    <3>1. Holding' = Holding \ {k} /\ k \in Holding
      BY <1>8 DEF RecordDroppedNewest, ReadNext, Holding, TypeOK
    <3>. QED
      BY <1>a, <3>1, FS_RemoveElement, Zenon
  <2>. QED
    BY <1>8, <1>a, <2>2, <2>3
       DEF RecordDroppedNewest, ReceivedAccounted, Charged
<1>9. ASSUME NEW k \in Connections, ArmRetry(k) PROVE ReceivedAccounted'
  BY <1>9, <1>b DEF ArmRetry, Charged
<1>10. CASE Signal
  BY <1>10, <1>b DEF Signal, Charged
<1>11. ASSUME NEW w \in Workers, Pop(w) PROVE ReceivedAccounted'
  BY <1>11, <1>b DEF Pop, Charged
<1>12. ASSUME NEW w \in Workers, PopSleep(w) PROVE ReceivedAccounted'
  BY <1>12, <1>b DEF PopSleep, Charged
<1>13. ASSUME NEW w \in Workers, Spurious(w) PROVE ReceivedAccounted'
  BY <1>13, <1>b DEF Spurious, Charged
<1>14. ASSUME NEW w \in Workers, WorkerExit(w) PROVE ReceivedAccounted'
  BY <1>14, <1>b DEF WorkerExit, Charged
<1>15. ASSUME NEW w \in Workers, RecordQueueWait(w) PROVE ReceivedAccounted'
  <2>1. Charged' = Charged
    BY <1>15, <1>a DEF RecordQueueWait, Charged, Stats
  <2>. QED
    BY <1>15, <1>b, <2>1 DEF RecordQueueWait
<1>16. ASSUME NEW w \in Workers, WorkerAdd(w) PROVE ReceivedAccounted'
  BY <1>16, <1>b DEF WorkerAdd, Charged
<1>17. CASE FlusherCheck
  BY <1>17, <1>b DEF FlusherCheck, Charged
<1>18. CASE FlusherWake
  BY <1>18, <1>b DEF FlusherWake, Charged
<1>19. CASE FlusherFlush
  BY <1>19, <1>b DEF FlusherFlush, Charged
<1>20. CASE MainFlushShutdown
  BY <1>20, <1>b DEF MainFlushShutdown, Charged
<1>21. CASE MainJoinFlusher
  BY <1>21, <1>b DEF MainJoinFlusher, Charged
<1>22. CASE MainPoolStop
  BY <1>22, <1>b DEF MainPoolStop, Charged
<1>23. CASE MainJoinPool
  BY <1>23, <1>b DEF MainJoinPool, Charged
<1>24. CASE MainFinalFlush
  BY <1>24, <1>b DEF MainFinalFlush, Charged
<1>25. CASE MainSnapshot
  BY <1>25, <1>b, SMTT(30) DEF MainSnapshot, Charged
<1>26. CASE Exited
  BY <1>26, <1>b, SMTT(30) DEF Exited, vars, Charged
<1>27. CASE UNCHANGED vars
  BY <1>27, <1>b DEF Charged, vars
<1>. HIDE DEF Shape
<1>. QED
  BY <1>1, <1>2, <1>3, <1>4, <1>5, <1>6, <1>7, <1>8, <1>9, <1>10, <1>11,
     <1>12, <1>13, <1>14, <1>15, <1>16, <1>17, <1>18, <1>19, <1>20, <1>21,
     <1>22, <1>23, <1>24, <1>25, <1>26, <1>27
     DEF Next, ReactorStep, WorkerStep, FlusherStep, MainStep

\* The process starts with the invariant true.
LEMMA InitInv == Init => Inv
<1>1. ASSUME Init PROVE TypeOK /\ Shape
  <2>1. /\ items_ \in Seq(Event) /\ Len(items_) = 0
        /\ buffer_ \in Seq(Event) /\ Len(buffer_) = 0
        /\ popped \in Seq(Event)
        /\ written \in Seq(Event)
    BY <1>1, EmptySeq DEF Init, Q!QueueInit
  <2>2. stats \in Stats /\ line \in Stats
    BY <1>1 DEF Init, ZeroStats, Stats
  <2>3. /\ policy_ \in Q!BackpressurePolicy
        /\ shutting_down_ \in BOOLEAN
        /\ waiting = {}
        /\ notified = {}
    BY <1>1, Zenon DEF Init, Q!QueueInit
  <2>4. Q!QueueTypeOK(Event)
    BY <2>1, <2>3, SizeAssumption DEF Q!QueueTypeOK
  <2>5. /\ conn \in [Connections -> ConnState]
        /\ held \in [Connections -> Event \cup {None}]
        /\ current = None
        /\ result = None
        /\ received \in 0..MaxEvents
        /\ io = "running"
    BY <1>1, GatewayBounds DEF Init, ConnState
  <2>6. /\ worker \in [Workers -> WorkerState]
        /\ hand \in [Workers -> Event \cup {None}]
        /\ batches = 0
        /\ flusher = "check"
        /\ main = "run"
        /\ flush_shutdown \in BOOLEAN
    BY <1>1, Zenon DEF Init, WorkerState
  <2>7. TypeOK
    BY <2>1, <2>2, <2>4, <2>5, <2>6, BatchAssumption, SMTT(30) DEF TypeOK,
       MainState
  <2>. QED
    BY <1>1, <2>7, ThreadAssumption DEF Init, Shape
<1>2. ASSUME Init PROVE AcceptedAccounted
  <2>1. Busy = {}
    BY <1>2 DEF Init, Busy
  <2>. QED
    BY <1>2, <2>1, ThreadAssumption, FS_EmptySet, EmptySeq, SMTT(30) DEF Init,
       Q!QueueInit, ZeroStats, AcceptedAccounted, PushResult
<1>3. ASSUME Init PROVE ReceivedAccounted
  <2>1. Holding = {}
    BY <1>3 DEF Init, Holding
  <2>. QED
    BY <1>3, <2>1, FS_EmptySet DEF Init, ZeroStats, ReceivedAccounted
<1>. QED
  BY <1>1, <1>2, <1>3 DEF Inv

\* No step of the gateway breaks it.
LEMMA InvStep == Inv /\ [Next]_vars => Inv'
BY TypeStep, ShapeStep, AcceptedStep, ReceivedStep DEF Inv

\* So it holds throughout every behaviour of the gateway.
LEMMA Invariance == Spec => []Inv
BY InitInv, InvStep, PTL DEF Spec

-----------------------------------------------------------------------------
(* What it gives.                                                          *)

\* Every variable of the gateway keeps its type, the queue its capacity and
\* the batcher's buffer its bound.
THEOREM TypeCorrect == Spec => []TypeOK
<1>1. Inv => TypeOK
  BY DEF Inv
<1>. QED
  BY <1>1, Invariance, PTL

\* No event is lost or made up between record_accepted() and the sink.
THEOREM AcceptedReachSink == Spec => []AcceptedAccounted
<1>1. Inv => AcceptedAccounted
  BY DEF Inv
<1>. QED
  BY <1>1, Invariance, PTL

\* Every well-formed event is charged to exactly one of the three counters of
\* Connection, or is still held by its connection.
THEOREM ReceivedCharged == Spec => []ReceivedAccounted
<1>1. Inv => ReceivedAccounted
  BY DEF Inv
<1>. QED
  BY <1>1, Invariance, PTL

-----------------------------------------------------------------------------
(* The invariants of the shutdown and of the way of an event.              *)

\* What each stage of the shutdown sequence has waited for: the io_context
\* has stopped and no handler is running, the queue is closed, the workers
\* found it empty and have gone, the final flush left nothing, and the line
\* shows counters nobody changes any more.
ShutdownShape ==
  /\ main # "run" => io = "stopped"
  /\ io = "stopped" => current = None
  /\ shutting_down_ =>
       main \in {"join_pool", "final_flush", "snapshot", "exited"}
  /\ \A w \in Workers :
       worker[w] = "exited" => shutting_down_ /\ items_ = <<>>
  /\ main \in {"final_flush", "snapshot", "exited"} =>
       \A w \in Workers : worker[w] = "exited"
  /\ main \in {"snapshot", "exited"} => buffer_ = <<>>
  /\ main = "exited" => line = stats

\* The workers between record_queue_wait() and the end of add_event().
Adding == {w \in Workers : worker[w] = "add"}

\* Every event with a queue-wait sample is with its worker, in the batcher or
\* in the sink.
WaitAccounted ==
  stats.queue_wait_count = Cardinality(Adding) + Len(buffer_) + Len(written)

\* The connections whose event the queue has refused.
Refused ==
  {k \in Connections : \/ conn[k] = "retrying"
                       \/ current = k /\ result = RejectedBackpressure}

\* The events past the workers, in the order they reach the sink.
Out == written \o buffer_

Once(s) == \A i, j \in 1..Len(s) : s[i] = s[j] => i = j

\* An event is in one place: with the connection that must retry it, in the
\* queue, with a worker, or past the workers, and there once.
OnePlace ==
  /\ \A k, l \in Refused : held[k] = held[l] => k = l
  /\ \A v, w \in Busy : hand[v] = hand[w] => v = w
  /\ Once(items_)
  /\ Once(Out)
  /\ Range(items_) \cap Range(Out) = {}
  /\ \A k \in Refused : held[k] \notin Range(items_) \cup Range(Out)
  /\ \A w \in Busy : hand[w] \notin Range(items_) \cup Range(Out)
  /\ \A k \in Refused, w \in Busy : held[k] # hand[w]

\* The events are numbered in the order they are received.
Received ==
  /\ \A k \in Refused : held[k] <= received
  /\ \A w \in Busy : hand[w] <= received
  /\ \A e \in Range(items_) \cup Range(Out) : e <= received

Flow == OnePlace /\ Received

FlowInv == ShutdownShape /\ WaitAccounted /\ Flow

-----------------------------------------------------------------------------
(* What the queue and the batcher do to the events.                        *)

\* push_back() of an element that is not there yet.
LEMMA OnceAppend ==
  ASSUME NEW S, NEW s \in Seq(S), NEW e \in S, Once(s), e \notin Range(s)
  PROVE  Once(Append(s, e)) /\ Range(Append(s, e)) = Range(s) \cup {e}
<1>. DEFINE t == Append(s, e)
<1>1. /\ t \in Seq(S) /\ Len(t) = Len(s) + 1 /\ t[Len(s) + 1] = e
      /\ \A i \in 1..Len(s) : t[i] = s[i]
  BY AppendProperties
<1>2. Len(s) \in Nat
  BY LenProperties
<1>3. /\ Range(t) = {t[i] : i \in 1..Len(t)}
      /\ Range(s) = {s[i] : i \in 1..Len(s)}
  BY <1>1, RangeEquality, Zenon
<1>. HIDE DEF t
<1>4. Once(t)
  <2>. SUFFICES ASSUME NEW i \in 1..Len(t), NEW j \in 1..Len(t), t[i] = t[j]
                PROVE  i = j
    BY DEF Once
  <2>1. CASE i \in 1..Len(s) /\ j \in 1..Len(s)
    BY <2>1, <1>1 DEF Once
  <2>2. CASE i = Len(s) + 1 \/ j = Len(s) + 1
    BY <2>2, <1>1, <1>2, <1>3
  <2>. QED
    BY <2>1, <2>2, <1>1, <1>2
<1>5. Range(t) = Range(s) \cup {e}
  <2>1. ASSUME NEW x \in Range(t) PROVE x \in Range(s) \cup {e}
    BY <2>1, <1>1, <1>2, <1>3
  <2>2. ASSUME NEW x \in Range(s) PROVE x \in Range(t)
    BY <2>2, <1>1, <1>2, <1>3, SMTT(30)
  <2>3. e \in Range(t)
    BY <1>1, <1>2, <1>3
  <2>. QED
    BY <2>1, <2>2, <2>3, SMTT(30)
<1>. QED
  BY <1>4, <1>5, SMTT(30) DEF t

\* pop_front() takes its element away altogether.
LEMMA OnceTail ==
  ASSUME NEW S, NEW s \in Seq(S), s # <<>>, Once(s)
  PROVE  /\ Once(Tail(s))
         /\ Head(s) \in Range(s)
         /\ Range(Tail(s)) = Range(s) \ {Head(s)}
<1>. DEFINE t == Tail(s)
<1>1. /\ t \in Seq(S) /\ Len(t) = Len(s) - 1
      /\ \A i \in 1..Len(t) : t[i] = s[i + 1]
  BY HeadTailProperties
<1>2. Len(s) \in Nat /\ Len(s) # 0 /\ Head(s) = s[1]
  BY LenProperties, EmptySeq
<1>3. /\ Range(t) = {t[i] : i \in 1..Len(t)}
      /\ Range(s) = {s[i] : i \in 1..Len(s)}
  BY <1>1, RangeEquality, Zenon
<1>. HIDE DEF t
<1>4. Once(t)
  BY <1>1, <1>2 DEF Once
<1>5. Head(s) \in Range(s)
  BY <1>2, <1>3
<1>6. ASSUME NEW x \in Range(t) PROVE x \in Range(s) /\ x # Head(s)
  <2>1. PICK i \in 1..Len(t) : x = t[i]
    BY <1>3
  <2>2. x = s[i + 1] /\ i + 1 \in 1..Len(s) /\ i + 1 # 1
    BY <2>1, <1>1, <1>2
  <2>. QED
    BY <2>2, <1>2, <1>3 DEF Once
<1>7. ASSUME NEW x \in Range(s), x # Head(s) PROVE x \in Range(t)
  <2>1. PICK i \in 1..Len(s) : x = s[i]
    BY <1>3
  <2>2. i - 1 \in 1..Len(t) /\ t[i - 1] = s[i]
    BY <2>1, <1>1, <1>2, <1>7, SMTT(30)
  <2>. QED
    BY <2>1, <2>2, <1>3
<1>. QED
  BY <1>4, <1>5, <1>6, <1>7, SMTT(30) DEF t

\* push() of an event that is not in the queue: it is there once when the
\* queue took it, and the queue is as it was when it did not.
LEMMA PushOnce ==
  ASSUME Q!QueueTypeOK(Event), Once(items_), NEW event \in Event,
         event \notin Range(items_), Push(event)
  PROVE  /\ Once(items_')
         /\ Range(items_') \subseteq Range(items_) \cup {event}
         /\ result' = RejectedBackpressure => items_' = items_
<1>1. CASE Q!PushAccepted(event) /\ result' = Accepted
  BY <1>1, OnceAppend
     DEF Q!PushAccepted, Q!QueueTypeOK, Accepted, RejectedBackpressure
<1>2. CASE Q!PushDroppedOldest(event) /\ result' = DroppedOldest
  <2>1. items_ # <<>> /\ items_ \in Seq(Event)
    BY <1>2, EmptySeq, SizeAssumption DEF Q!PushDroppedOldest, Q!QueueTypeOK
  <2>2. Tail(items_) \in Seq(Event)
    BY <2>1, HeadTailProperties
  <2>3. Once(Tail(items_)) /\ Range(Tail(items_)) \subseteq Range(items_)
    BY <2>1, OnceTail
  <2>4. /\ Once(Append(Tail(items_), event))
        /\ Range(Append(Tail(items_), event))
             = Range(Tail(items_)) \cup {event}
    BY <2>2, <2>3, OnceAppend, ZenonT(30)
  <2>. QED
    BY <1>2, <2>3, <2>4
       DEF Q!PushDroppedOldest, DroppedOldest, RejectedBackpressure
<1>3. CASE Q!PushRejected /\ result' = RejectedBackpressure
  BY <1>3 DEF Q!PushRejected, Q!queueVars
<1>. QED
  BY <1>1, <1>2, <1>3 DEF Push

\* add_event() puts its event last, whether or not it flushes.
LEMMA AddOut ==
  ASSUME Buffers, NEW event \in Event, AddEvent(event)
  PROVE  Out' = Append(Out, event) /\ Out \in Seq(Event)
<1>1. /\ written \in Seq(Event) /\ buffer_ \in Seq(Event)
      /\ <<event>> \in Seq(Event)
      /\ Out \in Seq(Event)
  BY ConcatProperties DEF Buffers, Out
<1>2. /\ Append(buffer_, event) = buffer_ \o <<event>>
      /\ Append(Out, event) = Out \o <<event>>
      /\ Append(buffer_, event) \in Seq(Event)
  BY <1>1, AppendIsConcat, AppendProperties
<1>3. written \o Append(buffer_, event) = Append(Out, event)
  BY <1>1, <1>2, ConcatAssociative DEF Out
<1>4. CASE FlushLocked(Append(buffer_, event))
  <2>1. /\ written' = written \o Append(buffer_, event)
        /\ written \o Append(buffer_, event) \in Seq(Event)
        /\ buffer_' = <<>>
    BY <1>1, <1>2, <1>4, ConcatProperties DEF FlushLocked
  <2>. QED
    BY <1>1, <1>3, <2>1, ConcatEmptySeq, SMTT(30) DEF Out
<1>5. CASE buffer_' = Append(buffer_, event) /\ UNCHANGED <<written, batches>>
  BY <1>1, <1>3, <1>5 DEF Out
<1>. QED
  BY <1>4, <1>5 DEF AddEvent

\* flush() leaves the order of the events as it was, and the buffer empty.
LEMMA FlushOut ==
  ASSUME Buffers, Flush
  PROVE  Out' = Out /\ buffer_' = <<>>
<1>1. /\ written \o buffer_ \in Seq(Event)
      /\ Out = written \o buffer_
  BY ConcatProperties DEF Buffers, Out
<1>2. CASE buffer_ # <<>> /\ FlushLocked(buffer_)
  BY <1>1, <1>2, ConcatEmptySeq DEF FlushLocked, Out
<1>3. CASE buffer_ = <<>> /\ UNCHANGED batcher
  BY <1>3, SMTT(30) DEF batcher, Out
<1>. QED
  BY <1>2, <1>3 DEF Flush

-----------------------------------------------------------------------------
(* Every step preserves these invariants.                                  *)

\* Each stage of the shutdown sequence finds what it waited for, and nothing
\* that comes later undoes it.
LEMMA ShutdownStep ==
  ASSUME TypeOK, Shape, ShutdownShape, [Next]_vars
  PROVE  ShutdownShape'
<1>. USE ThreadAssumption
     DEF ShutdownShape, queueVars, reactor, pool, batcher, process
<1>a. /\ shutting_down_ \in BOOLEAN
      /\ worker \in [Workers -> WorkerState]
      /\ Buffers
  BY DEF TypeOK, Q!QueueTypeOK, Buffers
<1>1. ASSUME NEW k \in Connections, accept(k) PROVE ShutdownShape'
  BY <1>1 DEF accept, ReactorIdle
<1>2. ASSUME NEW k \in Connections, Disconnect(k) PROVE ShutdownShape'
  BY <1>2 DEF Disconnect, ReactorIdle
<1>3. ASSUME NEW k \in Connections, HandleMalformed(k) PROVE ShutdownShape'
  BY <1>3, SMTT(30) DEF HandleMalformed, ReactorIdle
<1>4. ASSUME NEW k \in Connections, PushEvent(k) PROVE ShutdownShape'
  BY <1>4, <1>a, SMTT(30) DEF PushEvent, ReactorIdle, Push, Q!PushAccepted,
     Q!PushDroppedOldest, Q!PushRejected, Q!NotifyOne, Q!queueVars
<1>5. ASSUME NEW k \in Connections, RetryPush(k) PROVE ShutdownShape'
  BY <1>5, <1>a DEF RetryPush, ReactorIdle, Push, Q!PushAccepted,
     Q!PushDroppedOldest, Q!PushRejected, Q!NotifyOne, Q!queueVars
<1>6. ASSUME NEW k \in Connections, RecordAccepted(k) PROVE ShutdownShape'
  BY <1>6 DEF RecordAccepted, ReadNext
<1>7. ASSUME NEW k \in Connections, RecordDroppedOldest(k) PROVE ShutdownShape'
  BY <1>7 DEF RecordDroppedOldest, ReadNext
<1>8. ASSUME NEW k \in Connections, RecordDroppedNewest(k) PROVE ShutdownShape'
  BY <1>8, SMTT(30) DEF RecordDroppedNewest, ReadNext
<1>9. ASSUME NEW k \in Connections, ArmRetry(k) PROVE ShutdownShape'
  BY <1>9, SMTT(30) DEF ArmRetry
<1>10. CASE Signal
  BY <1>10, SMTT(30) DEF Signal, ReactorIdle
<1>11. ASSUME NEW w \in Workers, Pop(w) PROVE ShutdownShape'
  BY <1>11, <1>a DEF Pop, Q!PopItem, Q!Running, WorkerState
<1>12. ASSUME NEW w \in Workers, PopSleep(w) PROVE ShutdownShape'
  BY <1>12 DEF PopSleep, Q!PopWait, Q!Running
<1>13. ASSUME NEW w \in Workers, Spurious(w) PROVE ShutdownShape'
  BY <1>13, SMTT(30) DEF Spurious, Q!SpuriousWakeup
<1>14. ASSUME NEW w \in Workers, WorkerExit(w) PROVE ShutdownShape'
  BY <1>14, <1>a DEF WorkerExit, Q!PopNullopt, Q!Running, WorkerState
<1>15. ASSUME NEW w \in Workers, RecordQueueWait(w) PROVE ShutdownShape'
  BY <1>15, <1>a DEF RecordQueueWait, WorkerState
<1>16. ASSUME NEW w \in Workers, WorkerAdd(w) PROVE ShutdownShape'
  BY <1>16, <1>a, SMTT(30) DEF WorkerAdd, WorkerState
<1>17. CASE FlusherCheck
  BY <1>17, SMTT(30) DEF FlusherCheck
<1>18. CASE FlusherWake
  BY <1>18, SMTT(30) DEF FlusherWake
<1>19. CASE FlusherFlush
  BY <1>19, <1>a, FlushOut, SMTT(30) DEF FlusherFlush
<1>20. CASE MainFlushShutdown
  BY <1>20 DEF MainFlushShutdown
<1>21. CASE MainJoinFlusher
  BY <1>21 DEF MainJoinFlusher
<1>22. CASE MainPoolStop
  BY <1>22, <1>a, SMTT(30) DEF MainPoolStop, Q!shutdown, Q!NotifyAll
<1>23. CASE MainJoinPool
  BY <1>23, <1>a, SMTT(30) DEF MainJoinPool
<1>24. CASE MainFinalFlush
  BY <1>24, <1>a, FlushOut DEF MainFinalFlush
<1>25. CASE MainSnapshot
  BY <1>25, SMTT(30) DEF MainSnapshot
<1>26. CASE Exited
  BY <1>26, SMTT(30) DEF Exited, vars
<1>27. CASE UNCHANGED vars
  BY <1>27, SMTT(30) DEF vars
<1>. HIDE DEF ShutdownShape
<1>. QED
  BY <1>1, <1>2, <1>3, <1>4, <1>5, <1>6, <1>7, <1>8, <1>9, <1>10, <1>11,
     <1>12, <1>13, <1>14, <1>15, <1>16, <1>17, <1>18, <1>19, <1>20, <1>21,
     <1>22, <1>23, <1>24, <1>25, <1>26, <1>27
     DEF Next, ReactorStep, WorkerStep, FlusherStep, MainStep

\* A sample is recorded once for each event a worker takes to the batcher.
LEMMA WaitStep ==
  ASSUME TypeOK, Shape, WaitAccounted, [Next]_vars
  PROVE  WaitAccounted'
<1>. USE ThreadAssumption DEF queueVars, reactor, pool, batcher, process
<1>a. /\ stats.queue_wait_count \in Nat
      /\ Len(buffer_) \in Nat
      /\ Len(written) \in Nat
      /\ IsFiniteSet(Adding)
      /\ Cardinality(Adding) \in Nat
      /\ Buffers
  BY LenProperties, FS_Subset, FS_CardinalityType, ZenonT(30)
     DEF TypeOK, Stats, Adding, Buffers
<1>b. ASSUME UNCHANGED <<worker, buffer_, written>>,
             stats'.queue_wait_count = stats.queue_wait_count
      PROVE  WaitAccounted'
  BY <1>b DEF WaitAccounted, Adding
<1>1. ASSUME NEW k \in Connections, accept(k) PROVE WaitAccounted'
  BY <1>1, <1>b, ZenonT(30) DEF accept, ReactorIdle
<1>2. ASSUME NEW k \in Connections, Disconnect(k) PROVE WaitAccounted'
  BY <1>2, <1>b DEF Disconnect, ReactorIdle
<1>3. ASSUME NEW k \in Connections, HandleMalformed(k) PROVE WaitAccounted'
  <2>1. stats'.queue_wait_count = stats.queue_wait_count
    BY <1>3 DEF HandleMalformed, TypeOK, Stats
  <2>. QED
    BY <1>3, <1>b, <2>1 DEF HandleMalformed
<1>4. ASSUME NEW k \in Connections, PushEvent(k) PROVE WaitAccounted'
  BY <1>4, <1>b DEF PushEvent, ReactorIdle
<1>5. ASSUME NEW k \in Connections, RetryPush(k) PROVE WaitAccounted'
  BY <1>5, <1>b DEF RetryPush, ReactorIdle
<1>6. ASSUME NEW k \in Connections, RecordAccepted(k) PROVE WaitAccounted'
  <2>1. stats'.queue_wait_count = stats.queue_wait_count
    BY <1>6 DEF RecordAccepted, TypeOK, Stats
  <2>. QED
    BY <1>6, <1>b, <2>1 DEF RecordAccepted
<1>7. ASSUME NEW k \in Connections, RecordDroppedOldest(k) PROVE WaitAccounted'
  <2>1. stats'.queue_wait_count = stats.queue_wait_count
    BY <1>7 DEF RecordDroppedOldest, TypeOK, Stats
  <2>. QED
    BY <1>7, <1>b, <2>1 DEF RecordDroppedOldest
<1>8. ASSUME NEW k \in Connections, RecordDroppedNewest(k) PROVE WaitAccounted'
  <2>1. stats'.queue_wait_count = stats.queue_wait_count
    BY <1>8 DEF RecordDroppedNewest, TypeOK, Stats
  <2>. QED
    BY <1>8, <1>b, <2>1 DEF RecordDroppedNewest
<1>9. ASSUME NEW k \in Connections, ArmRetry(k) PROVE WaitAccounted'
  BY <1>9, <1>b DEF ArmRetry
<1>10. CASE Signal
  BY <1>10, <1>b DEF Signal, ReactorIdle
<1>11. ASSUME NEW w \in Workers, Pop(w) PROVE WaitAccounted'
  <2>1. Adding' = Adding
    BY <1>11, ZenonT(30) DEF Pop, Adding, TypeOK
  <2>. QED
    BY <1>11, <2>1, SMTT(30) DEF Pop, WaitAccounted
<1>12. ASSUME NEW w \in Workers, PopSleep(w) PROVE WaitAccounted'
  BY <1>12, <1>b DEF PopSleep, Q!PopWait, Q!Running
<1>13. ASSUME NEW w \in Workers, Spurious(w) PROVE WaitAccounted'
  BY <1>13, <1>b DEF Spurious, Q!SpuriousWakeup
<1>14. ASSUME NEW w \in Workers, WorkerExit(w) PROVE WaitAccounted'
  <2>1. Adding' = Adding
    BY <1>14, ZenonT(30) DEF WorkerExit, Adding, TypeOK
  <2>. QED
    BY <1>14, <2>1, SMTT(30) DEF WorkerExit, WaitAccounted
<1>15. ASSUME NEW w \in Workers, RecordQueueWait(w) PROVE WaitAccounted'
  <2>1. stats'.queue_wait_count = stats.queue_wait_count + 1
    BY <1>15 DEF RecordQueueWait, TypeOK, Stats
  <2>2. Cardinality(Adding') = Cardinality(Adding) + 1
    <3>1. Adding' = Adding \cup {w} /\ w \notin Adding
      BY <1>15, SMTT(30) DEF RecordQueueWait, Adding, TypeOK
    <3>. QED
      BY <1>a, <3>1, FS_AddElement, Zenon
  <2>. QED
    BY <1>15, <1>a, <2>1, <2>2 DEF RecordQueueWait, WaitAccounted
<1>16. ASSUME NEW w \in Workers, WorkerAdd(w) PROVE WaitAccounted'
  <2>1. hand[w] \in Event
    BY <1>16, ZenonT(30) DEF WorkerAdd, TypeOK, Shape
  <2>2. Len(buffer_') + Len(written') = Len(buffer_) + Len(written) + 1
    BY <1>16, <1>a, <2>1, AddLemma, SMTT(30) DEF WorkerAdd
  <2>3. Len(buffer_') \in Nat /\ Len(written') \in Nat
    BY <1>16, <1>a, <2>1, AddLemma, LenProperties, SMTT(30) DEF WorkerAdd,
       Buffers
  <2>4. Cardinality(Adding') = Cardinality(Adding) - 1
    <3>1. Adding' = Adding \ {w} /\ w \in Adding
      BY <1>16, ZenonT(30) DEF WorkerAdd, Adding, TypeOK
    <3>. QED
      BY <1>a, <3>1, FS_RemoveElement, Zenon
  <2>. QED
    BY <1>16, <1>a, <2>2, <2>3, <2>4, SMTT(30) DEF WorkerAdd, WaitAccounted
<1>17. CASE FlusherCheck
  BY <1>17, <1>b, ZenonT(30) DEF FlusherCheck
<1>18. CASE FlusherWake
  BY <1>18, <1>b, SMTT(30) DEF FlusherWake
<1>19. CASE FlusherFlush
  <2>1. Len(buffer_') + Len(written') = Len(buffer_) + Len(written)
    BY <1>19, <1>a, FlushLemma, SMTT(30) DEF FlusherFlush
  <2>2. Len(buffer_') \in Nat /\ Len(written') \in Nat
    BY <1>19, <1>a, FlushLemma, LenProperties, SMTT(30) DEF FlusherFlush,
       Buffers
  <2>. QED
    BY <1>19, <1>a, <2>1, <2>2, SMTT(30) DEF FlusherFlush, WaitAccounted,
       Adding
<1>20. CASE MainFlushShutdown
  BY <1>20, <1>b, SMTT(30) DEF MainFlushShutdown
<1>21. CASE MainJoinFlusher
  BY <1>21, <1>b, SMTT(30) DEF MainJoinFlusher
<1>22. CASE MainPoolStop
  BY <1>22, <1>b, SMTT(30) DEF MainPoolStop, Q!shutdown, Q!NotifyAll
<1>23. CASE MainJoinPool
  BY <1>23, <1>b, SMTT(30) DEF MainJoinPool
<1>24. CASE MainFinalFlush
  <2>1. Len(buffer_') + Len(written') = Len(buffer_) + Len(written)
    BY <1>24, <1>a, FlushLemma, SMTT(30) DEF MainFinalFlush
  <2>2. Len(buffer_') \in Nat /\ Len(written') \in Nat
    BY <1>24, <1>a, FlushLemma, LenProperties, SMTT(30) DEF MainFinalFlush,
       Buffers
  <2>. QED
    BY <1>24, <1>a, <2>1, <2>2, SMTT(30) DEF MainFinalFlush, WaitAccounted,
       Adding
<1>25. CASE MainSnapshot
  BY <1>25, <1>b, SMTT(30) DEF MainSnapshot
<1>26. CASE Exited
  BY <1>26, <1>b, SMTT(30) DEF Exited, vars
<1>27. CASE UNCHANGED vars
  BY <1>27, <1>b, SMTT(30) DEF vars
<1>. QED
  BY <1>1, <1>2, <1>3, <1>4, <1>5, <1>6, <1>7, <1>8, <1>9, <1>10, <1>11,
     <1>12, <1>13, <1>14, <1>15, <1>16, <1>17, <1>18, <1>19, <1>20, <1>21,
     <1>22, <1>23, <1>24, <1>25, <1>26, <1>27
     DEF Next, ReactorStep, WorkerStep, FlusherStep, MainStep

\* An event changes places whole: the step that puts it in one place is the
\* step that takes it out of the other, and a new event has a new number.
LEMMA PlaceStep ==
  ASSUME TypeOK, Shape, Flow, [Next]_vars
  PROVE  Flow'
<1>. USE ThreadAssumption DEF Flow, queueVars, reactor, pool, batcher, process
<1>a. /\ Q!QueueTypeOK(Event)
      /\ items_ \in Seq(Event)
      /\ conn \in [Connections -> ConnState]
      /\ held \in [Connections -> Event \cup {None}]
      /\ \A k \in Connections : conn[k] = "retrying" => held[k] \in Event
      /\ received \in 0..MaxEvents
      /\ worker \in [Workers -> WorkerState]
      /\ hand \in [Workers -> Event \cup {None}]
      /\ Buffers
  BY SMTT(30) DEF TypeOK, Q!QueueTypeOK, Shape, Buffers
<1>b. Out \in Seq(Event) /\ Range(items_) \cup Range(Out) \subseteq Event
  BY <1>a, ConcatProperties, RangeOfSeq, Zenon DEF Out, Buffers
<1>c. ASSUME UNCHANGED <<items_, Busy, hand, Out, received>>,
             Refused' \subseteq Refused,
             \A k \in Refused' : held'[k] = held[k]
      PROVE  Flow'
  BY <1>c, ZenonT(30) DEF Flow, OnePlace, Received
<1>d. /\ Received
      /\ \A k \in Refused : held[k] \in Event
      /\ \A w \in Busy : hand[w] \in Event
      /\ Range(items_) \cup Range(Out) \subseteq Event
      /\ Event \subseteq Nat
  BY <1>a, <1>b, GatewayBounds, SMTT(30) DEF Refused, Busy, Shape, Event,
     TypeOK, PushResult, RejectedBackpressure
<1>1. ASSUME NEW k \in Connections, accept(k) PROVE Flow'
  <2>1. Refused' \subseteq Refused
    BY <1>1 DEF accept, ReactorIdle, Refused
  <2>2. \A l \in Refused' : held'[l] = held[l]
    BY <1>1, <1>a DEF accept, ReactorIdle, Refused
  <2>. QED
    BY <1>1, <1>c, <2>1, <2>2, SMTT(30) DEF Busy, Out, accept
<1>2. ASSUME NEW k \in Connections, Disconnect(k) PROVE Flow'
  <2>1. Refused' \subseteq Refused
    BY <1>2 DEF Disconnect, ReactorIdle, Refused
  <2>2. \A l \in Refused' : held'[l] = held[l]
    BY <1>2, <1>a DEF Disconnect, ReactorIdle, Refused
  <2>. QED
    BY <1>2, <1>c, <2>1, <2>2, SMTT(30) DEF Busy, Out, Disconnect
<1>3. ASSUME NEW k \in Connections, HandleMalformed(k) PROVE Flow'
  BY <1>3, <1>c DEF HandleMalformed, ReactorIdle, Out, Refused, Busy
<1>4. ASSUME NEW k \in Connections, PushEvent(k) PROVE Flow'
  <2>. DEFINE e == received + 1
  <2>1. e \in Event /\ Push(e) /\ current = None
    BY <1>4, <1>a, GatewayBounds, SMTT(30) DEF PushEvent, ReactorIdle, Event
  <2>2. /\ e \notin Range(items_) \cup Range(Out)
        /\ \A w \in Busy : hand[w] # e
        /\ \A l \in Refused \ {k} : held[l] # e
        /\ e <= received'
        /\ received <= received'
    <3>1. /\ \A w \in Busy : hand[w] # received + 1
          /\ \A l \in Refused : held[l] # received + 1
          /\ received + 1 \notin Range(items_) \cup Range(Out)
      BY <1>a, <1>d, GatewayBounds, SMTT(30) DEF Received
    <3>. QED
      BY <1>4, <1>a, <3>1 DEF PushEvent
  <2>3. /\ Once(items_')
        /\ Range(items_') \subseteq Range(items_) \cup {e}
        /\ result' = RejectedBackpressure => items_' = items_
    BY <1>a, <2>1, <2>2, PushOnce, SMTT(30) DEF OnePlace
  <2>4. \A l \in Refused' :
          \/ l \in Refused \ {k} /\ held'[l] = held[l]
          \/ l = k /\ held'[l] = e /\ result' = RejectedBackpressure
    BY <1>4, <1>a, <2>1 DEF PushEvent, Refused
  <2>5. Busy' = Busy /\ hand' = hand /\ Out' = Out
    BY <1>4, SMTT(30) DEF PushEvent, Busy, Out
  <2>6. received \in Nat /\ received' \in Nat /\ \A x \in Event : x \in Nat
    BY <1>4, <1>a, GatewayBounds, SMTT(30) DEF PushEvent, Event
  <2>. HIDE DEF e
  <2>7. OnePlace'
    BY <2>2, <2>3, <2>4, <2>5, SMTT(30) DEF OnePlace
  <2>8. \A x \in Event : x <= received => x <= received'
    BY <2>2, <2>6, SMTT(30)
  <2>9. Received'
    <3>1. ASSUME NEW l \in Refused' PROVE held'[l] <= received'
      BY <2>2, <2>4, <2>8, <1>d, Zenon DEF Received
    <3>2. ASSUME NEW w \in Busy' PROVE hand'[w] <= received'
      BY <2>5, <2>8, <1>d, Zenon DEF Received
    <3>3. ASSUME NEW x \in Range(items_') \cup Range(Out') PROVE x <= received'
      BY <2>2, <2>3, <2>5, <2>8, <1>d, ZenonT(30) DEF Received
    <3>. QED
      BY <3>1, <3>2, <3>3 DEF Received
  <2>. QED
    BY <2>7, <2>9
<1>5. ASSUME NEW k \in Connections, RetryPush(k) PROVE Flow'
  <2>. DEFINE e == held[k]
  <2>1. e \in Event /\ Push(e) /\ current = None
    BY <1>5, <1>a, SMTT(30) DEF RetryPush, ReactorIdle
  <2>2. /\ e \notin Range(items_) \cup Range(Out)
        /\ \A w \in Busy : hand[w] # e
        /\ \A l \in Refused \ {k} : held[l] # e
        /\ e <= received'
        /\ received <= received'
    <3>1. k \in Refused /\ received' = received
      BY <1>5, Zenon DEF RetryPush, Refused
    <3>. QED
      BY <1>a, <1>d, <3>1 DEF OnePlace, Received
  <2>3. /\ Once(items_')
        /\ Range(items_') \subseteq Range(items_) \cup {e}
        /\ result' = RejectedBackpressure => items_' = items_
    BY <1>a, <2>1, <2>2, PushOnce, SMTT(30) DEF OnePlace
  <2>4. \A l \in Refused' :
          \/ l \in Refused \ {k} /\ held'[l] = held[l]
          \/ l = k /\ held'[l] = e /\ result' = RejectedBackpressure
    BY <1>5, <1>a, <2>1, SMTT(30) DEF RetryPush, Refused
  <2>5. Busy' = Busy /\ hand' = hand /\ Out' = Out
    BY <1>5, SMTT(30) DEF RetryPush, Busy, Out
  <2>6. received \in Nat /\ received' \in Nat /\ \A x \in Event : x \in Nat
    BY <1>5, <1>a, GatewayBounds, SMTT(30) DEF RetryPush, Event
  <2>. HIDE DEF e
  <2>7. OnePlace'
    BY <2>2, <2>3, <2>4, <2>5 DEF OnePlace
  <2>8. \A x \in Event : x <= received => x <= received'
    BY <2>2, <2>6
  <2>9. Received'
    <3>1. ASSUME NEW l \in Refused' PROVE held'[l] <= received'
      BY <2>2, <2>4, <2>8, <1>d, Zenon DEF Received
    <3>2. ASSUME NEW w \in Busy' PROVE hand'[w] <= received'
      BY <2>5, <2>8, <1>d, Zenon DEF Received
    <3>3. ASSUME NEW x \in Range(items_') \cup Range(Out') PROVE x <= received'
      BY <2>2, <2>3, <2>5, <2>8, <1>d, Zenon DEF Received
    <3>. QED
      BY <3>1, <3>2, <3>3 DEF Received
  <2>. QED
    BY <2>7, <2>9
<1>6. ASSUME NEW k \in Connections, RecordAccepted(k) PROVE Flow'
  <2>1. Refused' \subseteq Refused
    BY <1>6 DEF RecordAccepted, ReadNext, Refused
  <2>2. \A l \in Refused' : held'[l] = held[l]
    BY <1>6, <1>a DEF RecordAccepted, ReadNext, Refused
  <2>. QED
    BY <1>6, <1>c, <2>1, <2>2 DEF Busy, Out, RecordAccepted
<1>7. ASSUME NEW k \in Connections, RecordDroppedOldest(k) PROVE Flow'
  <2>1. Refused' \subseteq Refused
    BY <1>7 DEF RecordDroppedOldest, ReadNext,
       DroppedOldest, RejectedBackpressure, Refused
  <2>2. \A l \in Refused' : held'[l] = held[l]
    BY <1>7, <1>a DEF RecordDroppedOldest, ReadNext,
       DroppedOldest, RejectedBackpressure, Refused
  <2>. QED
    BY <1>7, <1>c, <2>1, <2>2 DEF Busy, Out, RecordDroppedOldest
<1>8. ASSUME NEW k \in Connections, RecordDroppedNewest(k) PROVE Flow'
  <2>1. Refused' \subseteq Refused
    BY <1>8 DEF RecordDroppedNewest, ReadNext,
       DroppedOldest, RejectedBackpressure, Refused
  <2>2. \A l \in Refused' : held'[l] = held[l]
    BY <1>8, <1>a, SMTT(30) DEF RecordDroppedNewest, ReadNext, DroppedOldest,
       RejectedBackpressure, Refused
  <2>. QED
    BY <1>8, <1>c, <2>1, <2>2 DEF Busy, Out, RecordDroppedNewest
<1>9. ASSUME NEW k \in Connections, ArmRetry(k) PROVE Flow'
  <2>1. Refused' \subseteq Refused
    BY <1>9, SMTT(30) DEF ArmRetry, Refused
  <2>2. \A l \in Refused' : held'[l] = held[l]
    BY <1>9, <1>a, SMTT(30) DEF ArmRetry, Refused
  <2>. QED
    BY <1>9, <1>c, <2>1, <2>2, SMTT(30) DEF Busy, Out, ArmRetry
<1>10. CASE Signal
  BY <1>10, <1>c, SMTT(30) DEF Signal, ReactorIdle, Out, Refused, Busy
<1>11. ASSUME NEW w \in Workers, Pop(w) PROVE Flow'
  <2>. DEFINE e == Head(items_)
  <2>1. items_ # <<>> /\ items_' = Tail(items_)
    BY <1>11, SMTT(30) DEF Pop, Q!PopItem
  <2>2. /\ Once(items_') /\ e \in Range(items_)
        /\ Range(items_') = Range(items_) \ {e}
    BY <1>a, <2>1, OnceTail, SMTT(30) DEF OnePlace
  <2>3. /\ Busy' = Busy \cup {w} /\ w \notin Busy
        /\ hand'[w] = e
        /\ \A v \in Busy : hand'[v] = hand[v]
    BY <1>11, <1>a, SMTT(30) DEF Pop, Busy
  <2>4. UNCHANGED <<Refused, held, Out, received>>
    BY <1>11, SMTT(30) DEF Pop, Refused, Out
  <2>. HIDE DEF e
  <2>. QED
    BY <2>2, <2>3, <2>4, SMTT(30) DEF OnePlace, Received
<1>12. ASSUME NEW w \in Workers, PopSleep(w) PROVE Flow'
  BY <1>12, <1>c, SMTT(30) DEF PopSleep, Q!PopWait, Q!Running, Out, Refused,
     Busy
<1>13. ASSUME NEW w \in Workers, Spurious(w) PROVE Flow'
  BY <1>13, <1>c, SMTT(30) DEF Spurious, Q!SpuriousWakeup, Out, Refused, Busy
<1>14. ASSUME NEW w \in Workers, WorkerExit(w) PROVE Flow'
  <2>1. Busy' = Busy
    BY <1>14, <1>a DEF WorkerExit, Busy
  <2>. QED
    BY <1>14, <1>c, <2>1, SMTT(30) DEF WorkerExit, Q!PopNullopt, Out, Refused
<1>15. ASSUME NEW w \in Workers, RecordQueueWait(w) PROVE Flow'
  <2>1. Busy' = Busy
    BY <1>15, <1>a, SMTT(30) DEF RecordQueueWait, Busy
  <2>. QED
    BY <1>15, <1>c, <2>1 DEF RecordQueueWait, Out, Refused
<1>16. ASSUME NEW w \in Workers, WorkerAdd(w) PROVE Flow'
  <2>. DEFINE e == hand[w]
  <2>1. e \in Event /\ w \in Busy
    BY <1>16, ZenonT(30) DEF WorkerAdd, TypeOK, Shape, Busy
  <2>2. Out' = Append(Out, e) /\ Out \in Seq(Event)
    BY <1>16, <1>a, <2>1, AddOut, SMTT(30) DEF WorkerAdd
  <2>3. Once(Out') /\ Range(Out') = Range(Out) \cup {e}
    BY <2>1, <2>2, OnceAppend, SMTT(30) DEF OnePlace
  <2>4. /\ Busy' = Busy \ {w}
        /\ \A v \in Busy' : hand'[v] = hand[v] /\ hand[v] # e
    BY <1>16, <1>a, <2>1, ZenonT(30) DEF WorkerAdd, Busy, OnePlace
  <2>5. UNCHANGED <<Refused, held, items_, received>>
    BY <1>16 DEF WorkerAdd, Refused
  <2>. HIDE DEF e
  <2>6. e <= received
    BY <2>1, SMTT(30) DEF Received, e
  <2>7. OnePlace'
    <3>1. e \notin Range(items_) /\ \A k \in Refused : held[k] # e
      BY <2>1, Zenon DEF OnePlace, e
    <3>2. /\ Once(items_)' /\ Once(Out')
          /\ Range(items_)' \cap Range(Out') = {}
      BY <2>3, <2>5, <3>1, Zenon DEF OnePlace
    <3>3. /\ \A k, l \in Refused' : held'[k] = held'[l] => k = l
          /\ \A k \in Refused' :
               held'[k] \notin Range(items_)' \cup Range(Out')
      BY <2>3, <2>5, <3>1, Zenon DEF OnePlace
    <3>4. \A v \in Busy' : v \in Busy /\ hand'[v] = hand[v] /\ hand[v] # e
      BY <2>4, Zenon
    <3>5. \A u, v \in Busy' : hand'[u] = hand'[v] => u = v
      BY <3>4, Zenon DEF OnePlace
    <3>6. \A v \in Busy' : hand'[v] \notin Range(items_)' \cup Range(Out')
      BY <2>3, <2>5, <3>4, Zenon DEF OnePlace
    <3>7. \A k \in Refused', v \in Busy' : held'[k] # hand'[v]
      BY <2>5, <3>4, Zenon DEF OnePlace
    <3>. QED
      BY <3>2, <3>3, <3>5, <3>6, <3>7, Zenon DEF OnePlace
  <2>. QED
    BY <2>3, <2>4, <2>5, <2>6, <2>7, SMTT(30) DEF Received
<1>17. CASE FlusherCheck
  BY <1>17, <1>c DEF FlusherCheck, Out, Refused, Busy
<1>18. CASE FlusherWake
  BY <1>18, <1>c, SMTT(30) DEF FlusherWake, Out, Refused, Busy
<1>19. CASE FlusherFlush
  <2>1. Out' = Out
    BY <1>19, <1>a, FlushOut, SMTT(30) DEF FlusherFlush
  <2>2. Refused' = Refused
    BY <1>19, SMTT(30) DEF FlusherFlush, Refused
  <2>. QED
    BY <1>19, <1>c, <2>1, <2>2, SMTT(30) DEF Busy, FlusherFlush
<1>20. CASE MainFlushShutdown
  BY <1>20, <1>c, SMTT(30) DEF MainFlushShutdown, Out, Refused, Busy
<1>21. CASE MainJoinFlusher
  BY <1>21, <1>c, SMTT(30) DEF MainJoinFlusher, Out, Refused, Busy
<1>22. CASE MainPoolStop
  BY <1>22, <1>c, SMTT(30) DEF MainPoolStop, Q!shutdown, Q!NotifyAll, Out,
     Refused, Busy
<1>23. CASE MainJoinPool
  BY <1>23, <1>c, SMTT(30) DEF MainJoinPool, Out, Refused, Busy
<1>24. CASE MainFinalFlush
  <2>1. Out' = Out
    BY <1>24, <1>a, FlushOut, SMTT(30) DEF MainFinalFlush
  <2>2. Refused' = Refused
    BY <1>24, ZenonT(30) DEF MainFinalFlush, Refused
  <2>. QED
    BY <1>24, <1>c, <2>1, <2>2, ZenonT(30) DEF Busy, MainFinalFlush
<1>25. CASE MainSnapshot
  BY <1>25, <1>c, SMTT(30) DEF MainSnapshot, Out, Refused, Busy
<1>26. CASE Exited
  BY <1>26, <1>c, ZenonT(30) DEF Exited, vars, Out, Refused, Busy
<1>27. CASE UNCHANGED vars
  BY <1>27, <1>c, ZenonT(30) DEF vars, Out, Refused, Busy
<1>. HIDE DEF Flow
<1>. QED
  BY <1>1, <1>2, <1>3, <1>4, <1>5, <1>6, <1>7, <1>8, <1>9, <1>10, <1>11,
     <1>12, <1>13, <1>14, <1>15, <1>16, <1>17, <1>18, <1>19, <1>20, <1>21,
     <1>22, <1>23, <1>24, <1>25, <1>26, <1>27
     DEF Next, ReactorStep, WorkerStep, FlusherStep, MainStep

\* The process starts with the invariant true.
LEMMA InitFlow == Init => FlowInv
<1>1. ASSUME Init PROVE ShutdownShape
  BY <1>1, SMTT(30) DEF Init, ShutdownShape, Q!QueueInit
<1>2. ASSUME Init PROVE WaitAccounted
  <2>1. Adding = {}
    BY <1>2, SMTT(30) DEF Init, Adding
  <2>. QED
    BY <1>2, <2>1, FS_EmptySet, EmptySeq, SMTT(30) DEF Init, ZeroStats,
       WaitAccounted
<1>3. ASSUME Init PROVE Flow
  <2>1. Refused = {} /\ Busy = {}
    BY <1>3, ThreadAssumption, SMTT(30) DEF Init, Refused, Busy, PushResult,
       RejectedBackpressure
  <2>2. items_ = <<>> /\ Out = <<>>
    BY <1>3 DEF Init, Q!QueueInit, Out
  <2>3. Once(<<>>) /\ Range(<<>>) = {}
    BY DEF Once, Range
  <2>. QED
    BY <2>1, <2>2, <2>3, SMTT(30) DEF Flow, OnePlace, Received
<1>. QED
  BY <1>1, <1>2, <1>3, SMTT(30) DEF FlowInv

\* No step of the gateway breaks it.
LEMMA FlowStep == Inv /\ FlowInv /\ [Next]_vars => FlowInv'
BY ShutdownStep, WaitStep, PlaceStep DEF Inv, FlowInv

\* So it holds throughout every behaviour of the gateway.
LEMMA FlowInvariance == Spec => []FlowInv
BY InitFlow, FlowStep, Invariance, PTL DEF Spec

-----------------------------------------------------------------------------
(* What they give.                                                         *)

\* When main() has printed its shutdown line, every event that
\* record_accepted() counted has been consumed by the sink, and has been
\* counted once by record_queue_wait().
THEOREM LineTruthful == Spec => []ShutdownLineTruthful
<1>1. ASSUME Inv, FlowInv, main = "exited"
      PROVE  Len(written) = line.accepted
             /\ line.queue_wait_count = line.accepted
  <2>1. /\ \A w \in Workers : worker[w] = "exited"
        /\ buffer_ = <<>>
        /\ line = stats
        /\ current = None
    BY <1>1, SMTT(30) DEF FlowInv, ShutdownShape
  <2>2. items_ = <<>> /\ Busy = {} /\ Adding = {} /\ result # Accepted
    BY <1>1, <2>1, ThreadAssumption, SMTT(30) DEF FlowInv, ShutdownShape,
       Busy, Adding, Inv, Shape, PushResult, Accepted
  <2>3. Len(items_) = 0 /\ Len(buffer_) = 0 /\ Len(written) \in Nat
    BY <1>1, <2>1, <2>2, EmptySeq, LenProperties, SMTT(30) DEF Inv, TypeOK
  <2>4. Cardinality(Busy) = 0 /\ Cardinality(Adding) = 0
    BY <2>2, FS_EmptySet, SMTT(30)
  <2>5. stats.accepted = Len(written)
    <3>1. stats.accepted \in Nat
      BY <1>1 DEF Inv, TypeOK, Stats
    <3>. QED
      BY <1>1, <2>2, <2>3, <2>4, <3>1, SMTT(30) DEF Inv, AcceptedAccounted
  <2>6. stats.queue_wait_count = Len(written)
    BY <1>1, <2>3, <2>4, SMTT(30) DEF FlowInv, WaitAccounted
  <2>. QED
    BY <2>1, <2>5, <2>6
<1>2. Inv /\ FlowInv => ShutdownLineTruthful
  BY <1>1 DEF ShutdownLineTruthful
<1>. QED
  BY <1>2, Invariance, FlowInvariance, PTL

\* No event reaches the sink twice, whatever add_event(), the flush thread,
\* the retries and the final flush interleave.
THEOREM EventsWrittenOnce == Spec => []WrittenOnce
<1>1. ASSUME Inv, FlowInv PROVE WrittenOnce
  <2>1. written \in Seq(Event) /\ buffer_ \in Seq(Event)
    BY <1>1 DEF Inv, TypeOK
  <2>2. /\ Len(Out) = Len(written) + Len(buffer_)
        /\ \A i \in 1..Len(written) : Out[i] = written[i]
    BY <2>1, ConcatProperties, LenProperties, SMTT(30) DEF Out
  <2>3. \A i \in 1..Len(written) : i \in 1..Len(Out)
    BY <2>1, <2>2, LenProperties, SMTT(30)
  <2>. QED
    BY <1>1, <2>2, <2>3, ZenonT(30) DEF FlowInv, Flow, OnePlace, Once,
       WrittenOnce
<1>. QED
  BY <1>1, Invariance, FlowInvariance, PTL

-----------------------------------------------------------------------------
(* The contract of queue_concept.hpp.                                      *)

\* The workers that pop() has sent home.
Gone == {w \in Workers : worker[w] = "exited"}

\* A step the contract has, or one it does not see.
ContractAllows == [Contract!Next]_(Contract!abstractVars)

\* Each step of the gateway is a step of the contract or leaves the queue as
\* the contract sees it: push() is Put or Replace, pop() is Take or Finish,
\* shutdown() is Close.
LEMMA ContractStep ==
  ASSUME TypeOK, Shape, [Next]_vars
  PROVE  ContractAllows
<1>. USE DEF queueVars, reactor, pool, batcher, process
<1>a. /\ Q!QueueTypeOK(Event)
      /\ \A k \in Connections : conn[k] = "retrying" => held[k] \in Event
      /\ received \in 0..MaxEvents
      /\ worker \in [Workers -> WorkerState]
  BY DEF TypeOK, Shape
<1>b. ASSUME UNCHANGED <<items_, shutting_down_, popped, Gone>>
      PROVE  ContractAllows
  BY <1>b DEF ContractAllows, Contract!abstractVars, Gone
<1>c. ASSUME NEW e \in Event, Push(e), UNCHANGED <<popped, worker>>
      PROVE  ContractAllows
  <2>1. CASE Q!PushAccepted(e)
    <3>1. Contract!Put(e)
      BY <1>c, <2>1 DEF Q!PushAccepted, Contract!Put
    <3>. QED
      BY <3>1 DEF ContractAllows, Contract!Next
  <2>2. CASE Q!PushDroppedOldest(e)
    <3>1. Len(items_) = Capacity
      BY <1>a, <2>2, SizeAssumption, LenProperties
         DEF Q!PushDroppedOldest, Q!QueueTypeOK
    <3>2. Contract!Replace(e)
      BY <1>c, <2>2, <3>1 DEF Q!PushDroppedOldest, Contract!Replace
    <3>. QED
      BY <3>2, SMTT(30) DEF ContractAllows, Contract!Next
  <2>3. CASE Q!PushRejected
    BY <1>c, <2>3, <1>b DEF Q!PushRejected, Q!queueVars, Gone
  <2>. QED
    BY <1>c, <2>1, <2>2, <2>3, SMTT(30) DEF Push
<1>1. ASSUME NEW k \in Connections, accept(k) PROVE ContractAllows
  BY <1>1, <1>b, SMTT(30) DEF accept, ReactorIdle, Gone
<1>2. ASSUME NEW k \in Connections, Disconnect(k) PROVE ContractAllows
  BY <1>2, <1>b DEF Disconnect, ReactorIdle, Gone
<1>3. ASSUME NEW k \in Connections, HandleMalformed(k) PROVE ContractAllows
  BY <1>3, <1>b DEF HandleMalformed, ReactorIdle, Gone
<1>4. ASSUME NEW k \in Connections, PushEvent(k) PROVE ContractAllows
  <2>1. received + 1 \in Event /\ Push(received + 1)
    BY <1>4, <1>a, GatewayBounds DEF PushEvent, Event
  <2>2. UNCHANGED <<popped, worker>>
    BY <1>4 DEF PushEvent
  <2>. QED
    BY <2>1, <2>2, <1>c, SMTT(30)
<1>5. ASSUME NEW k \in Connections, RetryPush(k) PROVE ContractAllows
  <2>1. held[k] \in Event /\ Push(held[k])
    BY <1>5, <1>a DEF RetryPush
  <2>2. UNCHANGED <<popped, worker>>
    BY <1>5 DEF RetryPush
  <2>. QED
    BY <2>1, <2>2, <1>c
<1>6. ASSUME NEW k \in Connections, RecordAccepted(k) PROVE ContractAllows
  BY <1>6, <1>b DEF RecordAccepted, ReadNext, Gone
<1>7. ASSUME NEW k \in Connections, RecordDroppedOldest(k) PROVE ContractAllows
  BY <1>7, <1>b DEF RecordDroppedOldest, ReadNext, Gone
<1>8. ASSUME NEW k \in Connections, RecordDroppedNewest(k) PROVE ContractAllows
  BY <1>8, <1>b DEF RecordDroppedNewest, ReadNext, Gone
<1>9. ASSUME NEW k \in Connections, ArmRetry(k) PROVE ContractAllows
  BY <1>9, <1>b DEF ArmRetry, Gone
<1>10. CASE Signal
  BY <1>10, <1>b DEF Signal, ReactorIdle, Gone
<1>11. ASSUME NEW w \in Workers, Pop(w) PROVE ContractAllows
  <2>1. Contract!Take
    <3>1. /\ items_ # <<>> /\ items_' = Tail(items_)
          /\ popped' = Append(popped, Head(items_))
          /\ shutting_down_' = shutting_down_
      BY <1>11, SMTT(30) DEF Pop, Q!PopItem
    <3>2. Gone' = Gone /\ w \notin Gone
      BY <1>11, <1>a, ZenonT(30) DEF Pop, Gone
    <3>. QED
      BY <3>1, <3>2 DEF Contract!Take, Gone
  <2>. QED
    BY <2>1 DEF ContractAllows, Contract!Next
<1>12. ASSUME NEW w \in Workers, PopSleep(w) PROVE ContractAllows
  BY <1>12, <1>b, ZenonT(30) DEF PopSleep, Q!PopWait, Q!Running, Gone
<1>13. ASSUME NEW w \in Workers, Spurious(w) PROVE ContractAllows
  BY <1>13, <1>b DEF Spurious, Q!SpuriousWakeup, Gone
<1>14. ASSUME NEW w \in Workers, WorkerExit(w) PROVE ContractAllows
  <2>1. Contract!Finish(w)
    <3>1. /\ items_ = <<>> /\ shutting_down_
          /\ UNCHANGED <<items_, shutting_down_, popped>>
      BY <1>14, SMTT(30) DEF WorkerExit, Q!PopNullopt
    <3>2. Gone' = Gone \cup {w} /\ w \notin Gone
      BY <1>14, <1>a, ZenonT(30) DEF WorkerExit, Gone
    <3>. QED
      BY <3>1, <3>2 DEF Contract!Finish, Gone
  <2>. QED
    BY <2>1 DEF ContractAllows, Contract!Next
<1>15. ASSUME NEW w \in Workers, RecordQueueWait(w) PROVE ContractAllows
  <2>1. Gone' = Gone
    BY <1>15, <1>a DEF RecordQueueWait, Gone
  <2>. QED
    BY <1>15, <1>b, <2>1 DEF RecordQueueWait
<1>16. ASSUME NEW w \in Workers, WorkerAdd(w) PROVE ContractAllows
  <2>1. Gone' = Gone
    BY <1>16, <1>a, ZenonT(30) DEF WorkerAdd, Gone
  <2>. QED
    BY <1>16, <1>b, <2>1, SMTT(30) DEF WorkerAdd
<1>17. CASE FlusherCheck
  BY <1>17, <1>b DEF FlusherCheck, Gone
<1>18. CASE FlusherWake
  BY <1>18, <1>b DEF FlusherWake, Gone
<1>19. CASE FlusherFlush
  BY <1>19, <1>b, SMTT(30) DEF FlusherFlush, Gone
<1>20. CASE MainFlushShutdown
  BY <1>20, <1>b, SMTT(30) DEF MainFlushShutdown, Gone
<1>21. CASE MainJoinFlusher
  BY <1>21, <1>b DEF MainJoinFlusher, Gone
<1>22. CASE MainPoolStop
  <2>1. Contract!Close
    BY <1>22 DEF MainPoolStop, Q!shutdown, Contract!Close
  <2>. QED
    BY <2>1 DEF ContractAllows, Contract!Next
<1>23. CASE MainJoinPool
  BY <1>23, <1>b DEF MainJoinPool, Gone
<1>24. CASE MainFinalFlush
  BY <1>24, <1>b, SMTT(30) DEF MainFinalFlush, Gone
<1>25. CASE MainSnapshot
  BY <1>25, <1>b, SMTT(30) DEF MainSnapshot, Gone
<1>26. CASE Exited
  BY <1>26, <1>b, SMTT(30) DEF Exited, vars, Gone
<1>27. CASE UNCHANGED vars
  BY <1>27, <1>b DEF vars, Gone
<1>. QED
  BY <1>1, <1>2, <1>3, <1>4, <1>5, <1>6, <1>7, <1>8, <1>9, <1>10, <1>11,
     <1>12, <1>13, <1>14, <1>15, <1>16, <1>17, <1>18, <1>19, <1>20, <1>21,
     <1>22, <1>23, <1>24, <1>25, <1>26, <1>27
     DEF Next, ReactorStep, WorkerStep, FlusherStep, MainStep

\* The mutex queue, with the reactor pushing and the workers popping, is a
\* correct EventQueue: events come out in the order they went in, each to one
\* worker, and a worker is sent home only by an empty queue that is closed.
THEOREM ContractSafety == Spec => Contract!Safety
<1>1. Init => Contract!Init
  BY DEF Init, Q!QueueInit, Contract!Init
<1>2. Inv /\ [Next]_vars => [Contract!Next]_(Contract!abstractVars)
  BY ContractStep DEF Inv, ContractAllows
<1>. QED
  BY <1>1, <1>2, Invariance, PTL DEF Spec, Contract!Safety
==============================================================================
