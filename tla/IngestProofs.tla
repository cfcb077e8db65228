---------------------------- MODULE IngestProofs ----------------------------
(***************************************************************************)
(* Proofs about Ingest for any number of requests, batches, chunks and     *)
(* restarts: types, whole batches, what an answer means, the counters and  *)
(* the leases.                                                             *)
(***************************************************************************)
EXTENDS Ingest, FiniteSetTheorems, TLAPS

-----------------------------------------------------------------------------
(* The inductive invariant.                                                *)

\* What every program counter means for the batch and its transaction: a
\* request past Arrive has a batch, its transaction is open exactly while it
\* inserts chunks, and what is left to commit has all of them.
Shape ==
  \A r \in Requests :
    /\ pc[r] \in Working \cup {"claim"} => batch[r] \in Batches
    /\ txn[r] # "none" => batch[r] \in Valid
    /\ pc[r] \in {"unsent", "claim", "insert"} => txn[r] = "none"
    /\ pc[r] = "chunks" => txn[r] = "open" /\ batch[r] \in Large
    /\ txn[r] = "open" => pc[r] = "chunks"
    /\ txn[r] = "running" => staged[r] = Chunks(batch[r])
    /\ pc[r] \in {"unsent", "claim", "insert"} => staged[r] = 0
    /\ pc[r] = "unsent" => response[r] = None
    /\ pc[r] = "unsent" => \A b \in Batches : redis[b] # r

\* What is acknowledged, or about to be, is stored.
StoredInv ==
  /\ AcknowledgedIsStored
  /\ \A b \in Valid : redis[b] = Committed => Stored(b)
  /\ \A r \in Requests :
       /\ pc[r] = "mark" /\ batch[r] \in Valid => Stored(batch[r])
       /\ txn[r] = "committed" => Stored(batch[r])

Inv == TypeOK /\ Shape /\ AllOrNothing /\ StoredInv

-----------------------------------------------------------------------------
(* Every step preserves it, conjunct by conjunct.                          *)

\* A counter that is incremented stays a number.
LEMMA CountType ==
  ASSUME TypeOK, NEW counter, Count(counter)
  PROVE  metrics' \in [Counters -> Nat]
<1>1. metrics \in [Counters -> Nat]
  BY DEF TypeOK
<1>2. metrics' = [c \in Counters |->
                    IF c = counter THEN metrics[c] + 1 ELSE metrics[c]]
  BY <1>1, Zenon DEF Count
<1>3. \A c \in Counters :
        (IF c = counter THEN metrics[c] + 1 ELSE metrics[c]) \in Nat
  BY <1>1
<1>. QED
  BY <1>2, <1>3

\* A recorded fault is a fault, recorded for its batch alone.
LEMMA BlameType ==
  ASSUME TypeOK, NEW b, NEW what \in Faults, Blame(b, what)
  PROVE  fault' \in [Batches -> SUBSET Faults]
<1>1. fault \in [Batches -> SUBSET Faults]
  BY DEF TypeOK
<1>. QED
  BY <1>1, Zenon DEF Blame

\* A request goes to one of the awaits of ingest().
LEMMA GotoType ==
  ASSUME TypeOK, NEW r, NEW where \in Pc, Goto(r, where)
  PROVE  pc' \in [Requests -> Pc]
<1>1. pc \in [Requests -> Pc]
  BY DEF TypeOK
<1>. QED
  BY <1>1, Zenon DEF Goto

\* Whatever insertEvents does, the rest of ingest() keeps the types.
LEMMA OutcomeType ==
  ASSUME TypeOK, NEW r \in Requests, InsertReturns(r) \/ InsertThrows(r)
  PROVE  /\ pc' \in [Requests -> Pc]
         /\ response' \in [Requests ->
                            {"stored", "duplicate", "503", "400", None}]
         /\ metrics' \in [Counters -> Nat]
<1>1. metrics' \in [Counters -> Nat]
  BY CountType DEF InsertReturns, InsertThrows, TypeOK
<1>2. pc' \in [Requests -> Pc]
  BY GotoType DEF InsertReturns, InsertThrows, Respond, Pc, Working
<1>3. response' \in [Requests -> {"stored", "duplicate", "503", "400", None}]
  BY DEF InsertReturns, InsertThrows, Respond, TypeOK
<1>. QED
  BY <1>1, <1>2, <1>3

\* No handler of the write path leaves a variable outside its type.
LEMMA TypeStep ==
  ASSUME TypeOK, Shape, [Next]_vars
  PROVE  TypeOK'
<1>. USE IngestAssumption DEF TypeOK, Shape, Pc, Working, Faults, request,
                             database
<1>1. ASSUME NEW r \in Requests, RejectBody(r) PROVE TypeOK'
  BY <1>1 DEF RejectBody, Respond, Goto
<1>2. ASSUME NEW r \in Requests, Arrive(r) PROVE TypeOK'
  <2>1. PICK b \in Batches, k \in BOOLEAN : ArriveWith(r, b, k)
    BY <1>2 DEF Arrive
  <2>2. pc' \in [Requests -> Pc]
    BY <2>1, GotoType DEF ArriveWith
  <2>3. metrics' \in [Counters -> Nat]
    BY <2>1, CountType DEF ArriveWith
  <2>4. fault' \in [Batches -> SUBSET Faults]
    BY <2>1, BlameType DEF ArriveWith
  <2>. QED
    BY <2>1, <2>2, <2>3, <2>4, Zenon DEF ArriveWith
<1>3. ASSUME NEW r \in Requests, ClaimFails(r) PROVE TypeOK'
  BY <1>3, BlameType, CountType DEF ClaimFails, ClaimUnavailable, Goto
<1>4. ASSUME NEW r \in Requests, ClaimReplyLost(r) PROVE TypeOK'
  BY <1>4, BlameType, CountType DEF ClaimReplyLost, ClaimUnavailable, Goto
<1>5. ASSUME NEW r \in Requests, ClaimGranted(r) PROVE TypeOK'
  BY <1>5 DEF ClaimGranted, Goto
<1>6. ASSUME NEW r \in Requests, ClaimCommitted(r) PROVE TypeOK'
  BY <1>6, CountType DEF ClaimCommitted, Respond, Goto
<1>7. ASSUME NEW r \in Requests, ClaimInFlight(r) PROVE TypeOK'
  BY <1>7, CountType DEF ClaimInFlight, Respond, Goto
<1>8. ASSUME NEW r \in Requests, InsertNothing(r) PROVE TypeOK'
  BY <1>8, OutcomeType DEF InsertNothing
<1>9. ASSUME NEW r \in Requests, InsertFails(r) PROVE TypeOK'
  BY <1>9, OutcomeType DEF InsertFails
<1>10. ASSUME NEW r \in Requests, SendInsert(r) PROVE TypeOK'
  BY <1>10 DEF SendInsert, Goto
<1>28. ASSUME NEW r \in Requests, Begin(r) PROVE TypeOK'
  BY <1>28 DEF Begin, Goto
<1>29. ASSUME NEW r \in Requests, InsertChunk(r) PROVE TypeOK'
  BY <1>29 DEF InsertChunk, Chunks
<1>30. ASSUME NEW r \in Requests, SendCommit(r) PROVE TypeOK'
  BY <1>30 DEF SendCommit, Goto
<1>11. ASSUME NEW r \in Requests, ReplyCommitted(r) PROVE TypeOK'
  BY <1>11, OutcomeType DEF ReplyCommitted
<1>12. ASSUME NEW r \in Requests, ReplyAborted(r) PROVE TypeOK'
  BY <1>12, OutcomeType DEF ReplyAborted
<1>13. ASSUME NEW r \in Requests, ReplyLost(r) PROVE TypeOK'
  BY <1>13, BlameType, OutcomeType DEF ReplyLost
<1>14. ASSUME NEW r \in Requests, MarkCommitted(r) PROVE TypeOK'
  BY <1>14 DEF MarkCommitted, COMMIT_IF_OWNER, Respond, Goto
<1>15. ASSUME NEW r \in Requests, MarkFails(r) PROVE TypeOK'
  BY <1>15, BlameType, CountType, SMTT(30) DEF MarkFails, COMMIT_IF_OWNER,
     Respond, Goto
<1>16. ASSUME NEW r \in Requests, Release(r) PROVE TypeOK'
  BY <1>16 DEF Release, RELEASE_IF_OWNER, Respond, Goto
<1>17. ASSUME NEW r \in Requests, ReleaseFails(r) PROVE TypeOK'
  BY <1>17 DEF ReleaseFails, Respond, Goto
<1>18. ASSUME NEW r \in Requests, DbCommit(r) PROVE TypeOK'
  BY <1>18 DEF DbCommit, Store
<1>19. ASSUME NEW r \in Requests, DbAbort(r) PROVE TypeOK'
  BY <1>19 DEF DbAbort
<1>20. ASSUME NEW b \in Batches, LeaseExpires(b) PROVE TypeOK'
  BY <1>20, BlameType DEF LeaseExpires
<1>21. ASSUME NEW b \in Batches, CommittedExpires(b) PROVE TypeOK'
  BY <1>21, BlameType DEF CommittedExpires
<1>22. CASE ClientReady
  BY <1>22 DEF ClientReady
<1>23. CASE ClientError
  BY <1>23 DEF ClientError
<1>24. CASE OnModuleDestroy
  BY <1>24 DEF OnModuleDestroy
<1>25. CASE Restart
  BY <1>25 DEF Restart, InFlight, ZeroMetrics, Counters
<1>26. CASE Idle
  BY <1>26 DEF Idle, vars
<1>27. CASE UNCHANGED vars
  BY <1>27, SMTT(30) DEF vars
<1>. HIDE DEF TypeOK, Shape, Pc, Working, Faults
<1>. QED
  BY <1>1, <1>2, <1>3, <1>4, <1>5, <1>6, <1>7, <1>8, <1>9, <1>10, <1>11,
     <1>12, <1>13, <1>14, <1>15, <1>16, <1>17, <1>18, <1>19, <1>20, <1>21,
     <1>22, <1>23, <1>24, <1>25, <1>26, <1>27, <1>28, <1>29, <1>30
     DEF Next, RequestStep, RedisStep, ClaimStep, InsertStep, FinishStep,
         DbStep

\* The handlers run in the order of ingest(): claim, insert, await, answer.
LEMMA ShapeStep ==
  ASSUME TypeOK, Shape, [Next]_vars
  PROVE  Shape'
<1>. USE IngestAssumption DEF TypeOK, Shape, Pc, Working, Chunks, ChunkIds,
                             request, database
<1>1. ASSUME NEW r \in Requests, RejectBody(r) PROVE Shape'
  BY <1>1 DEF RejectBody, Respond, Goto
<1>2. ASSUME NEW r \in Requests, Arrive(r) PROVE Shape'
  BY <1>2 DEF Arrive, ArriveWith, Goto
<1>3. ASSUME NEW r \in Requests, ClaimFails(r) PROVE Shape'
  BY <1>3 DEF ClaimFails, ClaimUnavailable, Goto
<1>4. ASSUME NEW r \in Requests, ClaimReplyLost(r) PROVE Shape'
  BY <1>4 DEF ClaimReplyLost, ClaimUnavailable, Goto
<1>5. ASSUME NEW r \in Requests, ClaimGranted(r) PROVE Shape'
  BY <1>5 DEF ClaimGranted, Goto
<1>6. ASSUME NEW r \in Requests, ClaimCommitted(r) PROVE Shape'
  BY <1>6 DEF ClaimCommitted, Respond, Goto
<1>7. ASSUME NEW r \in Requests, ClaimInFlight(r) PROVE Shape'
  BY <1>7 DEF ClaimInFlight, Respond, Goto
<1>8. ASSUME NEW r \in Requests, InsertNothing(r) PROVE Shape'
  BY <1>8 DEF InsertNothing, InsertReturns, Respond, Goto
<1>9. ASSUME NEW r \in Requests, InsertFails(r) PROVE Shape'
  BY <1>9 DEF InsertFails, InsertThrows, Respond, Goto
<1>10. ASSUME NEW r \in Requests, SendInsert(r) PROVE Shape'
  BY <1>10 DEF SendInsert, Goto
<1>28. ASSUME NEW r \in Requests, Begin(r) PROVE Shape'
  BY <1>28 DEF Begin, Goto
<1>29. ASSUME NEW r \in Requests, InsertChunk(r) PROVE Shape'
  BY <1>29 DEF InsertChunk
<1>30. ASSUME NEW r \in Requests, SendCommit(r) PROVE Shape'
  BY <1>30 DEF SendCommit, Goto
<1>11. ASSUME NEW r \in Requests, ReplyCommitted(r) PROVE Shape'
  BY <1>11 DEF ReplyCommitted, InsertReturns, Respond, Goto
<1>12. ASSUME NEW r \in Requests, ReplyAborted(r) PROVE Shape'
  BY <1>12 DEF ReplyAborted, InsertThrows, Respond, Goto
<1>13. ASSUME NEW r \in Requests, ReplyLost(r) PROVE Shape'
  BY <1>13 DEF ReplyLost, InsertThrows, Respond, Goto
<1>14. ASSUME NEW r \in Requests, MarkCommitted(r) PROVE Shape'
  BY <1>14 DEF MarkCommitted, COMMIT_IF_OWNER, Respond, Goto
<1>15. ASSUME NEW r \in Requests, MarkFails(r) PROVE Shape'
  BY <1>15 DEF MarkFails, COMMIT_IF_OWNER, Respond, Goto
<1>16. ASSUME NEW r \in Requests, Release(r) PROVE Shape'
  BY <1>16 DEF Release, RELEASE_IF_OWNER, Respond, Goto
<1>17. ASSUME NEW r \in Requests, ReleaseFails(r) PROVE Shape'
  BY <1>17 DEF ReleaseFails, Respond, Goto
<1>18. ASSUME NEW r \in Requests, DbCommit(r) PROVE Shape'
  BY <1>18 DEF DbCommit, Store
<1>19. ASSUME NEW r \in Requests, DbAbort(r) PROVE Shape'
  BY <1>19 DEF DbAbort
<1>20. ASSUME NEW b \in Batches, LeaseExpires(b) PROVE Shape'
  BY <1>20 DEF LeaseExpires
<1>21. ASSUME NEW b \in Batches, CommittedExpires(b) PROVE Shape'
  BY <1>21 DEF CommittedExpires
<1>22. CASE ClientReady
  BY <1>22 DEF ClientReady
<1>23. CASE ClientError
  BY <1>23 DEF ClientError
<1>24. CASE OnModuleDestroy
  BY <1>24 DEF OnModuleDestroy
<1>25. CASE Restart
  BY <1>25, SMTT(30) DEF Restart, InFlight
<1>26. CASE Idle
  BY <1>26 DEF Idle, vars
<1>27. CASE UNCHANGED vars
  BY <1>27 DEF vars
<1>. HIDE DEF TypeOK, Shape, Pc, Working, Chunks, ChunkIds
<1>. QED
  BY <1>1, <1>2, <1>3, <1>4, <1>5, <1>6, <1>7, <1>8, <1>9, <1>10, <1>11,
     <1>12, <1>13, <1>14, <1>15, <1>16, <1>17, <1>18, <1>19, <1>20, <1>21,
     <1>22, <1>23, <1>24, <1>25, <1>26, <1>27, <1>28, <1>29, <1>30
     DEF Next, RequestStep, RedisStep, ClaimStep, InsertStep, FinishStep,
         DbStep

\* Only PostgreSQL's commit puts rows into the table.
LEMMA OnlyCommitStores ==
  ASSUME [Next]_vars
  PROVE  UNCHANGED rows \/ \E r \in Requests : DbCommit(r)
<1>. USE DEF request, database
<1>1. ASSUME NEW r \in Requests, ClaimStep(r) PROVE UNCHANGED rows
  BY <1>1 DEF ClaimStep, ClaimFails, ClaimReplyLost, ClaimUnavailable,
     ClaimGranted, ClaimCommitted, ClaimInFlight
<1>2. ASSUME NEW r \in Requests, InsertStep(r) PROVE UNCHANGED rows
  BY <1>2, SMTT(30) DEF InsertStep, InsertNothing, InsertFails, SendInsert,
     Begin, InsertChunk, SendCommit, ReplyCommitted, ReplyAborted, ReplyLost
<1>3. ASSUME NEW r \in Requests, FinishStep(r) PROVE UNCHANGED rows
  BY <1>3 DEF FinishStep, MarkCommitted, MarkFails, Release, ReleaseFails
<1>4. ASSUME NEW r \in Requests, RejectBody(r) \/ Arrive(r) \/ DbAbort(r)
      PROVE  UNCHANGED rows
  BY <1>4 DEF RejectBody, Arrive, ArriveWith, DbAbort
<1>5. ASSUME NEW b \in Batches, LeaseExpires(b) \/ CommittedExpires(b)
      PROVE  UNCHANGED rows
  BY <1>5 DEF LeaseExpires, CommittedExpires
<1>6. CASE ClientReady \/ ClientError \/ OnModuleDestroy \/ Restart \/ Idle
             \/ UNCHANGED vars
  BY <1>6, SMTT(30) DEF ClientReady, ClientError, OnModuleDestroy, Restart,
     Idle, vars
<1>. QED
  BY <1>1, <1>2, <1>3, <1>4, <1>5, <1>6, SMTT(30) DEF Next, RequestStep,
     RedisStep, FinishStep, DbStep

\* It puts every chunk of the batch there.
LEMMA AtomicStep ==
  ASSUME TypeOK, Shape, AllOrNothing, [Next]_vars
  PROVE  AllOrNothing'
<1>. USE IngestAssumption DEF AllOrNothing, Chunks, ChunkIds
<1>1. CASE UNCHANGED rows
  BY <1>1
<1>2. ASSUME NEW r \in Requests, DbCommit(r) PROVE AllOrNothing'
  <2>1. /\ batch[r] \in Batches
        /\ staged[r] = Chunks(batch[r])
        /\ rows \in [Batches -> [ChunkIds -> Nat]]
    BY <1>2 DEF DbCommit, TypeOK, Shape
  <2>2. \A b \in Batches : rows'[b] =
          IF b = batch[r]
          THEN [c \in ChunkIds |-> IF c <= staged[r] THEN rows[b][c] + 1
                                                     ELSE rows[b][c]]
          ELSE rows[b]
    BY <1>2, <2>1 DEF DbCommit, Store
  <2>. SUFFICES ASSUME NEW b \in Batches,
                       NEW c \in 1..Chunks(b), NEW d \in 1..Chunks(b)
                PROVE  rows'[b][c] = rows'[b][d]
    OBVIOUS
  <2>3. c \in ChunkIds /\ d \in ChunkIds
    OBVIOUS
  <2>4. CASE b = batch[r]
    <3>1. c <= staged[r] /\ d <= staged[r]
      BY <2>1, <2>4
    <3>2. rows'[b][c] = rows[b][c] + 1 /\ rows'[b][d] = rows[b][d] + 1
      BY <2>2, <2>3, <2>4, <3>1, Zenon
    <3>. QED
      BY <3>2
  <2>5. CASE b # batch[r]
    <3>1. rows'[b] = rows[b]
      BY <2>2, <2>5, Zenon
    <3>2. rows[b][c] = rows[b][d]
      BY DEF AllOrNothing
    <3>. QED
      BY <3>1, <3>2
  <2>. QED
    BY <2>4, <2>5
<1>. QED
  BY <1>1, <1>2, OnlyCommitStores

\* A request is only reported as stored, and a key only promoted, once the
\* rows are in the database, and rows never leave it.
LEMMA StoredStep ==
  ASSUME TypeOK, Shape, StoredInv, [Next]_vars
  PROVE  StoredInv'
<1>. USE IngestAssumption DEF TypeOK, Shape, StoredInv, AcknowledgedIsStored,
                             Stored, Pc, Working, Chunks, ChunkIds, request,
                             database
<1>1. ASSUME NEW r \in Requests, RejectBody(r) PROVE StoredInv'
  BY <1>1 DEF RejectBody, Respond, Goto
<1>2. ASSUME NEW r \in Requests, Arrive(r) PROVE StoredInv'
  <2>1. PICK c \in Batches, k \in BOOLEAN :
          /\ pc[r] = "unsent"
          /\ batch' = [batch EXCEPT ![r] = c]
          /\ pc' = [pc EXCEPT ![r] = IF k THEN "claim" ELSE "insert"]
          /\ UNCHANGED <<response, redis, txn, rows>>
    BY <1>2, Zenon DEF Arrive, ArriveWith, Goto
  <2>2. txn[r] = "none" /\ response[r] = None
    BY <2>1
  <2>3. response[r] \notin {"stored", "duplicate"}
    BY <2>2
  <2>. QED
    BY <2>1, <2>2, <2>3
<1>3. ASSUME NEW r \in Requests, ClaimFails(r) PROVE StoredInv'
  BY <1>3 DEF ClaimFails, ClaimUnavailable, Goto
<1>4. ASSUME NEW r \in Requests, ClaimReplyLost(r) PROVE StoredInv'
  BY <1>4 DEF ClaimReplyLost, ClaimUnavailable, Goto
<1>5. ASSUME NEW r \in Requests, ClaimGranted(r) PROVE StoredInv'
  BY <1>5 DEF ClaimGranted, Goto
<1>6. ASSUME NEW r \in Requests, ClaimCommitted(r) PROVE StoredInv'
  BY <1>6 DEF ClaimCommitted, Respond, Goto
<1>7. ASSUME NEW r \in Requests, ClaimInFlight(r) PROVE StoredInv'
  BY <1>7 DEF ClaimInFlight, Respond, Goto
<1>8. ASSUME NEW r \in Requests, InsertNothing(r) PROVE StoredInv'
  <2>1. UNCHANGED <<batch, redis, txn, rows>> /\ batch[r] \notin Valid
    BY <1>8, Zenon DEF InsertNothing
  <2>2. \A q \in Requests : q # r => /\ pc'[q] = pc[q]
                                     /\ response'[q] = response[q]
    BY <1>8 DEF InsertNothing, InsertReturns, Respond, Goto
  <2>. QED
    BY <2>1, <2>2, Zenon
<1>9. ASSUME NEW r \in Requests, InsertFails(r) PROVE StoredInv'
  BY <1>9 DEF InsertFails, InsertThrows, Respond, Goto
<1>10. ASSUME NEW r \in Requests, SendInsert(r) PROVE StoredInv'
  BY <1>10, SMTT(30) DEF SendInsert, Goto
<1>28. ASSUME NEW r \in Requests, Begin(r) PROVE StoredInv'
  BY <1>28, SMTT(30) DEF Begin, Goto
<1>29. ASSUME NEW r \in Requests, InsertChunk(r) PROVE StoredInv'
  BY <1>29, SMTT(30) DEF InsertChunk
<1>30. ASSUME NEW r \in Requests, SendCommit(r) PROVE StoredInv'
  BY <1>30, SMTT(30) DEF SendCommit, Goto
<1>11. ASSUME NEW r \in Requests, ReplyCommitted(r) PROVE StoredInv'
  BY <1>11, SMTT(30) DEF ReplyCommitted, InsertReturns, Respond, Goto
<1>12. ASSUME NEW r \in Requests, ReplyAborted(r) PROVE StoredInv'
  BY <1>12, SMTT(30) DEF ReplyAborted, InsertThrows, Respond, Goto
<1>13. ASSUME NEW r \in Requests, ReplyLost(r) PROVE StoredInv'
  BY <1>13, SMTT(30) DEF ReplyLost, InsertThrows, Respond, Goto
<1>14. ASSUME NEW r \in Requests, MarkCommitted(r) PROVE StoredInv'
  BY <1>14, SMTT(30) DEF MarkCommitted, COMMIT_IF_OWNER, Respond, Goto
<1>15. ASSUME NEW r \in Requests, MarkFails(r) PROVE StoredInv'
  <2>1. CASE UNCHANGED redis
    BY <1>15, <2>1, SMTT(30) DEF MarkFails, Respond, Goto
  <2>2. CASE COMMIT_IF_OWNER(r)
    BY <1>15, <2>2, SMTT(30) DEF MarkFails, COMMIT_IF_OWNER, Respond, Goto
  <2>. QED
    BY <1>15, <2>1, <2>2, Zenon DEF MarkFails
<1>16. ASSUME NEW r \in Requests, Release(r) PROVE StoredInv'
  BY <1>16, SMTT(30) DEF Release, RELEASE_IF_OWNER, Respond, Goto
<1>17. ASSUME NEW r \in Requests, ReleaseFails(r) PROVE StoredInv'
  BY <1>17, SMTT(30) DEF ReleaseFails, Respond, Goto
<1>18. ASSUME NEW r \in Requests, DbCommit(r) PROVE StoredInv'
  BY <1>18, SMTT(30) DEF DbCommit, Store
<1>19. ASSUME NEW r \in Requests, DbAbort(r) PROVE StoredInv'
  BY <1>19, SMTT(30) DEF DbAbort
<1>20. ASSUME NEW b \in Batches, LeaseExpires(b) PROVE StoredInv'
  BY <1>20, SMTT(30) DEF LeaseExpires
<1>21. ASSUME NEW b \in Batches, CommittedExpires(b) PROVE StoredInv'
  BY <1>21, SMTT(30) DEF CommittedExpires
<1>22. CASE ClientReady
  BY <1>22, SMTT(30) DEF ClientReady
<1>23. CASE ClientError
  BY <1>23, SMTT(30) DEF ClientError
<1>24. CASE OnModuleDestroy
  BY <1>24, SMTT(30) DEF OnModuleDestroy
<1>25. CASE Restart
  BY <1>25, SMTT(30) DEF Restart, InFlight
<1>26. CASE Idle
  BY <1>26, SMTT(30) DEF Idle, vars
<1>27. CASE UNCHANGED vars
  BY <1>27 DEF vars
<1>. HIDE DEF TypeOK, Shape, StoredInv, AcknowledgedIsStored, Stored, Pc,
         Working, Chunks, ChunkIds
<1>. QED
  BY <1>1, <1>2, <1>3, <1>4, <1>5, <1>6, <1>7, <1>8, <1>9, <1>10, <1>11,
     <1>12, <1>13, <1>14, <1>15, <1>16, <1>17, <1>18, <1>19, <1>20, <1>21,
     <1>22, <1>23, <1>24, <1>25, <1>26, <1>27, <1>28, <1>29, <1>30
     DEF Next, RequestStep, RedisStep, ClaimStep, InsertStep, FinishStep,
         DbStep

\* The process starts with the invariant true.
LEMMA InitInv == Init => Inv
BY IngestAssumption DEF Init, Inv, TypeOK, Shape, StoredInv,
   AcknowledgedIsStored, AllOrNothing, Stored, Chunks, ChunkIds, Pc, Working,
   ZeroMetrics, Counters, Faults

\* No step of the write path breaks it.
LEMMA InvStep == Inv /\ [Next]_vars => Inv'
BY TypeStep, ShapeStep, AtomicStep, StoredStep DEF Inv

\* So it holds throughout every behaviour of the write path.
LEMMA Invariance == Spec => []Inv
BY InitInv, InvStep, PTL DEF Spec

-----------------------------------------------------------------------------
(* What it gives.                                                          *)

\* Every variable of the write path keeps its type.
THEOREM TypeCorrect == Spec => []TypeOK
<1>1. Inv => TypeOK
  BY DEF Inv
<1>. QED
  BY <1>1, Invariance, PTL

\* A batch of several chunks is stored whole or not at all, whichever statement
\* of insertEvents' transaction fails and whenever the process dies.
THEOREM WholeBatches == Spec => []AllOrNothing
<1>1. Inv => AllOrNothing
  BY DEF Inv
<1>. QED
  BY <1>1, Invariance, PTL

\* A 2xx answer of POST /v1/events, "duplicate":true included, is given only
\* when the batch's rows are in PostgreSQL, whatever Redis, the database
\* connection and the process do.
THEOREM AcknowledgedStored == Spec => []AcknowledgedIsStored
<1>1. Inv => AcknowledgedIsStored
  BY DEF Inv, StoredInv
<1>. QED
  BY <1>1, Invariance, PTL

-----------------------------------------------------------------------------
(* The lease protocol: only its owner ends a lease, and a batch that meets *)
(* no fault is stored at most once.  The invariant is strengthened with    *)
(* what a lease means.                                                     *)

\* The lease of a batch: whoever works on it holds it, and its rows are there
\* only if the holder's insert has committed or the key has.
LeaseOf(b) ==
  /\ \A r \in Requests : batch[r] = b =>
       /\ pc[r] \in Working => claimed[r] /\ redis[b] = r
       /\ txn[r] = "running" => pc[r] = "await"
       /\ pc[r] = "mark" /\ b \in Valid => txn[r] = "committed"
       /\ pc[r] = "release" => txn[r] # "committed"
  /\ redis[b] \in Requests => batch[redis[b]] = b
  /\ \A c \in ChunkIds : rows[b][c] <= 1
  /\ (\E c \in ChunkIds : rows[b][c] > 0) =>
       \/ redis[b] = Committed
       \/ /\ redis[b] \in Requests
          /\ pc[redis[b]] \in {"await", "mark"}
          /\ txn[redis[b]] = "committed"

\* So it is for every undisturbed batch.
LeaseInv == \A b \in Batches : fault[b] = {} => LeaseOf(b)

\* A recorded fault is recorded for its batch alone.
LEMMA BlameLeaves ==
  ASSUME TypeOK, NEW b \in Batches, NEW what, Blame(b, what)
  PROVE  /\ fault'[b] # {}
         /\ \A c \in Batches \ {b} : fault'[c] = fault[c]
BY DEF TypeOK, Blame

\* A step that disturbs one batch, and leaves the others and their requests
\* alone, leaves their leases alone.
LEMMA LeaseElsewhere ==
  ASSUME LeaseInv, NEW d \in Batches, fault'[d] # {}, UNCHANGED batch,
         \A c \in Batches \ {d} : /\ fault'[c] = fault[c]
                                 /\ redis'[c] = redis[c]
                                 /\ rows'[c] = rows[c],
         \A q \in Requests : batch[q] # d => /\ pc'[q] = pc[q]
                                            /\ claimed'[q] = claimed[q]
                                            /\ txn'[q] = txn[q]
  PROVE  LeaseInv'
<1>. SUFFICES ASSUME NEW b \in Batches, fault'[b] = {}
              PROVE  LeaseOf(b)'
  BY SMTT(30) DEF LeaseInv
<1>1. b # d /\ fault[b] = {} /\ redis'[b] = redis[b] /\ rows'[b] = rows[b]
  OBVIOUS
<1>2. LeaseOf(b)
  BY <1>1, SMTT(30) DEF LeaseInv
<1>3. ASSUME NEW q \in Requests, batch'[q] = b
      PROVE  /\ batch[q] = b
             /\ pc'[q] = pc[q] /\ claimed'[q] = claimed[q] /\ txn'[q] = txn[q]
  BY <1>1, <1>3
<1>4. \A q \in Requests : batch'[q] = b =>
        /\ pc'[q] \in Working => claimed'[q] /\ redis'[b] = q
        /\ txn'[q] = "running" => pc'[q] = "await"
        /\ pc'[q] = "mark" /\ b \in Valid => txn'[q] = "committed"
        /\ pc'[q] = "release" => txn'[q] # "committed"
  BY <1>1, <1>2, <1>3, SMTT(30) DEF LeaseOf
<1>5. redis[b] \in Requests => batch[redis[b]] = b /\ batch'[redis[b]] = b
  BY <1>2, SMTT(30) DEF LeaseOf
<1>6. (\E c \in ChunkIds : rows'[b][c] > 0) =>
        \/ redis'[b] = Committed
        \/ /\ redis'[b] \in Requests
           /\ pc'[redis'[b]] \in {"await", "mark"}
           /\ txn'[redis'[b]] = "committed"
  BY <1>1, <1>2, <1>3, <1>5 DEF LeaseOf
<1>7. \A c \in ChunkIds : rows'[b][c] <= 1
  BY <1>1, <1>2, SMTT(30) DEF LeaseOf
<1>. QED
  BY <1>1, <1>4, <1>5, <1>6, <1>7, SMTT(30) DEF LeaseOf

\* The steps that record a fault of their request's batch: a claim without
\* Redis, a reply that is lost and a commit of the key that fails.
LEMMA BlamedLease ==
  ASSUME TypeOK, Shape, LeaseInv, NEW r \in Requests,
         ClaimFails(r) \/ ClaimReplyLost(r) \/ ReplyLost(r) \/ MarkFails(r)
  PROVE  LeaseInv'
<1>1. batch[r] \in Batches
  BY SMTT(30) DEF Shape, Working, ClaimFails, ClaimReplyLost,
     ClaimUnavailable, ReplyLost, MarkFails
<1>2. /\ fault'[batch[r]] # {}
      /\ \A c \in Batches \ {batch[r]} : fault'[c] = fault[c]
  BY <1>1, BlameLeaves, Zenon DEF ClaimFails, ClaimReplyLost,
     ClaimUnavailable, ReplyLost, MarkFails
<1>3. /\ rows' = rows
      /\ \A c \in Batches \ {batch[r]} : redis'[c] = redis[c]
  BY <1>1 DEF TypeOK, ClaimFails, ClaimReplyLost, ClaimUnavailable, ReplyLost,
     MarkFails, COMMIT_IF_OWNER, database
<1>4. /\ UNCHANGED <<batch, claimed, txn>>
      /\ \A q \in Requests \ {r} : pc'[q] = pc[q]
  BY DEF TypeOK, ClaimFails, ClaimReplyLost, ClaimUnavailable, ReplyLost,
     MarkFails, InsertThrows, Respond, Goto, database
<1>. QED
  BY <1>1, <1>2, <1>3, <1>4, LeaseElsewhere, SMTT(30)

\* The key of a committed batch expires.
LEMMA ExpiredLease ==
  ASSUME TypeOK, LeaseInv, NEW b \in Batches, CommittedExpires(b)
  PROVE  LeaseInv'
<1>1. /\ fault'[b] # {}
      /\ \A c \in Batches \ {b} : fault'[c] = fault[c]
  BY BlameLeaves DEF CommittedExpires
<1>2. /\ UNCHANGED <<batch, pc, claimed, txn, rows>>
      /\ \A c \in Batches \ {b} : redis'[c] = redis[c]
  BY SMTT(30) DEF TypeOK, CommittedExpires, request, database
<1>. QED
  BY <1>1, <1>2, LeaseElsewhere

\* A restart disturbs the batches of the requests it ends.
LEMMA RestartLease ==
  ASSUME TypeOK, LeaseInv, Restart
  PROVE  LeaseInv'
<1>. SUFFICES ASSUME NEW b \in Batches, fault'[b] = {}
              PROVE  LeaseOf(b)'
  BY DEF LeaseInv
<1>1. fault[b] = {} /\ \A r \in InFlight : batch[r] # b
  BY Zenon DEF TypeOK, Restart
<1>2. LeaseOf(b)
  BY <1>1 DEF LeaseInv
<1>3. \A r \in Requests :
        /\ pc'[r] \notin Working
        /\ txn'[r] = "running" => txn[r] = "running"
        /\ pc[r] \in Working => r \in InFlight
  BY DEF TypeOK, Pc, Working, Restart, InFlight
<1>4. UNCHANGED <<batch, claimed, redis, rows>>
  BY DEF Restart
<1>. QED
  BY <1>1, <1>2, <1>3, <1>4 DEF LeaseOf, Working

\* While a batch is undisturbed its lease passes from claim to commit, or to
\* release, in one pair of hands.
LEMMA LeaseStep ==
  ASSUME TypeOK, Shape, StoredInv, LeaseInv, [Next]_vars
  PROVE  LeaseInv'
<1>1. ASSUME NEW r \in Requests, ClaimFails(r) PROVE LeaseInv'
  BY <1>1, BlamedLease
<1>2. ASSUME NEW r \in Requests, ClaimReplyLost(r) PROVE LeaseInv'
  BY <1>2, BlamedLease
<1>3. ASSUME NEW r \in Requests, ReplyLost(r) PROVE LeaseInv'
  BY <1>3, BlamedLease
<1>4. ASSUME NEW r \in Requests, MarkFails(r) PROVE LeaseInv'
  BY <1>4, BlamedLease
<1>5. ASSUME NEW b \in Batches, CommittedExpires(b) PROVE LeaseInv'
  BY <1>5, ExpiredLease
<1>6. CASE Restart
  BY <1>6, RestartLease
<1>. USE IngestAssumption DEF TypeOK, Shape, LeaseInv, LeaseOf, Pc, Working,
                             request, database
<1>7. ASSUME NEW r \in Requests, RejectBody(r) PROVE LeaseInv'
  BY <1>7, SMTT(30) DEF RejectBody, Respond, Goto
<1>8. ASSUME NEW r \in Requests, Arrive(r) PROVE LeaseInv'
  <2>1. PICK c \in Batches, k \in BOOLEAN :
          /\ pc[r] = "unsent"
          /\ batch' = [batch EXCEPT ![r] = c]
          /\ pc' = [pc EXCEPT ![r] = IF k THEN "claim" ELSE "insert"]
          /\ IF k THEN UNCHANGED fault ELSE Blame(c, "no_key")
          /\ UNCHANGED <<claimed, redis, txn, rows>>
    BY <1>8, Zenon DEF Arrive, ArriveWith, Goto
  <2>2. \A b \in Batches : fault'[b] = {} =>
          fault[b] = {} /\ (b = c => k)
    BY <2>1, BlameLeaves
  <2>. QED
    BY <2>1, <2>2, SMTT(30)
<1>9. ASSUME NEW r \in Requests, ClaimGranted(r) PROVE LeaseInv'
  BY <1>9 DEF ClaimGranted, Goto
<1>10. ASSUME NEW r \in Requests, ClaimCommitted(r) PROVE LeaseInv'
  BY <1>10 DEF ClaimCommitted, Respond, Goto
<1>11. ASSUME NEW r \in Requests, ClaimInFlight(r) PROVE LeaseInv'
  BY <1>11 DEF ClaimInFlight, Respond, Goto
<1>12. ASSUME NEW r \in Requests, InsertNothing(r) PROVE LeaseInv'
  BY <1>12, SMTT(30) DEF InsertNothing, InsertReturns, Respond, Goto
<1>13. ASSUME NEW r \in Requests, InsertFails(r) PROVE LeaseInv'
  BY <1>13, SMTT(30) DEF InsertFails, InsertThrows, Respond, Goto
<1>14. ASSUME NEW r \in Requests, SendInsert(r) PROVE LeaseInv'
  BY <1>14, SMTT(30) DEF SendInsert, Goto
<1>15. ASSUME NEW r \in Requests, Begin(r) PROVE LeaseInv'
  BY <1>15, SMTT(30) DEF Begin, Goto
<1>16. ASSUME NEW r \in Requests, InsertChunk(r) PROVE LeaseInv'
  BY <1>16 DEF InsertChunk
<1>17. ASSUME NEW r \in Requests, SendCommit(r) PROVE LeaseInv'
  BY <1>17 DEF SendCommit, Goto
<1>18. ASSUME NEW r \in Requests, ReplyCommitted(r) PROVE LeaseInv'
  BY <1>18, SMTT(30) DEF ReplyCommitted, InsertReturns, Respond, Goto
<1>19. ASSUME NEW r \in Requests, ReplyAborted(r) PROVE LeaseInv'
  BY <1>19, SMTT(30) DEF ReplyAborted, InsertThrows, Respond, Goto
<1>20. ASSUME NEW r \in Requests, MarkCommitted(r) PROVE LeaseInv'
  BY <1>20 DEF MarkCommitted, COMMIT_IF_OWNER, Respond, Goto
<1>21. ASSUME NEW r \in Requests, Release(r) PROVE LeaseInv'
  BY <1>21 DEF Release, RELEASE_IF_OWNER, Respond, Goto
<1>22. ASSUME NEW r \in Requests, ReleaseFails(r) PROVE LeaseInv'
  BY <1>22 DEF ReleaseFails, Respond, Goto
<1>23. ASSUME NEW r \in Requests, DbCommit(r) PROVE LeaseInv'
  BY <1>23 DEF DbCommit, Store
<1>24. ASSUME NEW r \in Requests, DbAbort(r) PROVE LeaseInv'
  BY <1>24, SMTT(30) DEF DbAbort
<1>25. ASSUME NEW b \in Batches, LeaseExpires(b) PROVE LeaseInv'
  <2>1. CASE pc[redis[b]] \in Working
    <3>1. /\ fault'[b] # {}
          /\ \A c \in Batches \ {b} : fault'[c] = fault[c]
      BY <1>25, <2>1, BlameLeaves, SMTT(30) DEF LeaseExpires
    <3>. QED
      BY <1>25, <3>1, SMTT(30) DEF LeaseExpires
  <2>2. CASE pc[redis[b]] \notin Working
    BY <1>25, <2>2, SMTT(30) DEF LeaseExpires
  <2>. QED
    BY <2>1, <2>2, ZenonT(30)
<1>26. CASE ClientReady
  BY <1>26 DEF ClientReady
<1>27. CASE ClientError
  BY <1>27 DEF ClientError
<1>28. CASE OnModuleDestroy
  BY <1>28, SMTT(30) DEF OnModuleDestroy
<1>29. CASE Idle
  BY <1>29, SMTT(30) DEF Idle, vars
<1>30. CASE UNCHANGED vars
  BY <1>30 DEF vars
<1>. HIDE DEF TypeOK, Shape, LeaseInv, LeaseOf, Pc, Working
<1>. QED
  BY <1>1, <1>2, <1>3, <1>4, <1>5, <1>6, <1>7, <1>8, <1>9, <1>10, <1>11,
     <1>12, <1>13, <1>14, <1>15, <1>16, <1>17, <1>18, <1>19, <1>20, <1>21,
     <1>22, <1>23, <1>24, <1>25, <1>26, <1>27, <1>28, <1>29, <1>30
     DEF Next, RequestStep, RedisStep, ClaimStep, InsertStep, FinishStep,
         DbStep

\* It holds throughout every behaviour of the write path.
LEMMA LeaseInvariance == Spec => []LeaseInv
<1>1. Init => LeaseInv
  BY IngestAssumption DEF Init, LeaseInv, LeaseOf
<1>2. Inv /\ LeaseInv /\ [Next]_vars => LeaseInv'
  BY LeaseStep DEF Inv
<1>. QED
  BY <1>1, <1>2, Invariance, PTL DEF Spec

\* Only its owner ends a lease that has not expired: the compare-and-swap of
\* COMMIT_IF_OWNER and RELEASE_IF_OWNER protects the successor's lease.
THEOREM LeaseOwnership == Spec => LeaseEndedByOwner
<1>1. ASSUME TypeOK, Shape, [Next]_vars
      PROVE  [\A b \in Batches :
                redis[b] \in Requests /\ redis'[b] # redis[b]
                  => pc' = pc \/ pc'[redis[b]] # pc[redis[b]]]_vars
  <2>. SUFFICES ASSUME NEW b \in Batches, redis[b] \in Requests,
                       redis'[b] # redis[b]
                PROVE  pc' = pc \/ pc'[redis[b]] # pc[redis[b]]
    BY SMTT(30)
  <2>. USE <1>1, IngestAssumption DEF TypeOK, Shape
  <2>1. ASSUME NEW r \in Requests, MarkCommitted(r) \/ MarkFails(r)
        PROVE  redis[b] = r /\ pc'[r] # pc[r]
    BY <2>1, SMTT(30) DEF MarkCommitted, MarkFails, COMMIT_IF_OWNER, Respond,
       Goto
  <2>2. ASSUME NEW r \in Requests, Release(r)
        PROVE  redis[b] = r /\ pc'[r] # pc[r]
    BY <2>2, SMTT(30) DEF Release, RELEASE_IF_OWNER, Respond, Goto
  <2>3. ASSUME NEW r \in Requests, ClaimStep(r)
        PROVE  FALSE
    BY <2>3, SMTT(30) DEF ClaimStep, ClaimFails, ClaimReplyLost, ClaimGranted,
       ClaimCommitted, ClaimInFlight
  <2>4. ASSUME NEW r \in Requests,
               RejectBody(r) \/ Arrive(r) \/ InsertStep(r) \/ DbStep(r)
                 \/ ReleaseFails(r)
        PROVE  FALSE
    BY <2>4, Zenon DEF RejectBody, Arrive, ArriveWith, InsertStep,
       InsertNothing, InsertFails, SendInsert, Begin, InsertChunk, SendCommit,
       request, ReplyCommitted, ReplyAborted, ReplyLost, DbStep, DbCommit,
       DbAbort, ReleaseFails
  <2>5. ASSUME NEW c \in Batches, LeaseExpires(c) \/ CommittedExpires(c)
        PROVE  pc' = pc
    BY <2>5, SMTT(30) DEF LeaseExpires, CommittedExpires, request
  <2>6. CASE ClientReady \/ ClientError \/ OnModuleDestroy \/ Restart \/ Idle
               \/ UNCHANGED vars
    BY <2>6 DEF ClientReady, ClientError, OnModuleDestroy, Restart, Idle, vars
  <2>. QED
    BY <2>1, <2>2, <2>3, <2>4, <2>5, <2>6, SMTT(30) DEF Next, RequestStep,
       RedisStep, FinishStep, DbStep
<1>. QED
  BY <1>1, Invariance, PTL DEF Spec, Inv, LeaseEndedByOwner

\* Without one of the listed faults, overlapping attempts at a batch store it
\* at most once: claim(), markCommitted() and release() exclude each other.
THEOREM StoredOnce == Spec => []StoredOnceWithoutFault
<1>1. Inv /\ LeaseInv => StoredOnceWithoutFault
  BY DEF Inv, TypeOK, LeaseInv, LeaseOf, StoredOnceWithoutFault
<1>. QED
  BY <1>1, Invariance, LeaseInvariance, PTL

-----------------------------------------------------------------------------
(* The counters.                                                           *)

\* The requests reported as stored whose batch has rows.
ReportedRows == {r \in ReportedStored : batch[r] \in Valid}

\* How a step moves the counters CountersAddUp relates: `c' alone goes up.
Ticks(c) ==
  \A d \in Counters \ {"redis_unavailable"} :
    metrics'[d] = IF d = c THEN metrics[d] + 1 ELSE metrics[d]

\* A batch is received, ...
Admitted(r) ==
  /\ r \notin Undecided /\ Undecided' = Undecided \cup {r}
  /\ ReportedStored' = ReportedStored /\ ReportedRows' = ReportedRows
  /\ Ticks("batches_received")

\* ... is suppressed, refused or failed, ...
TurnedDown(r) ==
  /\ r \in Undecided /\ Undecided' = Undecided \ {r}
  /\ ReportedStored' = ReportedStored /\ ReportedRows' = ReportedRows
  /\ \E c \in {"batches_duplicate_suppressed", "batches_in_flight_rejected",
               "db_failures"} : Ticks(c)

\* ... is reported as stored, ...
Reported(r) ==
  /\ r \in Undecided /\ Undecided' = Undecided \ {r}
  /\ r \notin ReportedStored /\ ReportedStored' = ReportedStored \cup {r}
  /\ IF batch[r] \in Valid
     THEN /\ r \notin ReportedRows /\ ReportedRows' = ReportedRows \cup {r}
          /\ Ticks("events_stored")
     ELSE ReportedRows' = ReportedRows /\ Ticks("redis_unavailable")

\* ... or the step is about something else.
Calm ==
  /\ Undecided' = Undecided
  /\ ReportedStored' = ReportedStored /\ ReportedRows' = ReportedRows
  /\ Ticks("redis_unavailable")

Tallied ==
  \/ Calm \/ Restart
  \/ \E r \in Requests : Admitted(r) \/ TurnedDown(r) \/ Reported(r)

\* Count() adds one to the counter it names and leaves the others alone.
LEMMA CountTicks ==
  ASSUME TypeOK, NEW c \in Counters, Count(c)
  PROVE  Ticks(c)
BY DEF TypeOK, Count, Ticks

\* A step that counts nothing, or only that Redis was unavailable.
LEMMA CountsNothing ==
  ASSUME TypeOK, UNCHANGED metrics
  PROVE  Ticks("redis_unavailable")
BY SMTT(30) DEF Ticks

\* A request that insertEvents returned for is reported as stored, whether the
\* answer goes out now or after markCommitted.
LEMMA ReturnsTally ==
  ASSUME TypeOK, NEW r \in Requests, InsertReturns(r), UNCHANGED batch,
         pc[r] \in {"insert", "await"}
  PROVE  Reported(r)
<1>1. /\ \A q \in Requests \ {r} : pc'[q] = pc[q] /\ response'[q] = response[q]
      /\ pc'[r] = "mark" \/ (pc'[r] = "done" /\ response'[r] = "stored")
  BY DEF InsertReturns, Respond, Goto, TypeOK
<1>2. r \in Undecided /\ Undecided' = Undecided \ {r}
  BY <1>1 DEF Undecided
<1>3. r \notin ReportedStored /\ ReportedStored' = ReportedStored \cup {r}
  BY <1>1 DEF ReportedStored
<1>4. CASE batch[r] \in Valid
  <2>1. r \notin ReportedRows /\ ReportedRows' = ReportedRows \cup {r}
    BY <1>3, <1>4 DEF ReportedRows
  <2>2. Count("events_stored")
    BY <1>4 DEF InsertReturns
  <2>3. Ticks("events_stored")
    BY <2>2, CountTicks DEF Counters
  <2>. QED
    BY <1>2, <1>3, <1>4, <2>1, <2>3 DEF Reported
<1>5. CASE batch[r] \notin Valid
  <2>1. ReportedRows' = ReportedRows
    BY <1>3, <1>5 DEF ReportedRows
  <2>2. UNCHANGED metrics
    BY <1>5 DEF InsertReturns
  <2>3. Ticks("redis_unavailable")
    BY <2>2, CountsNothing
  <2>. QED
    BY <1>2, <1>3, <1>5, <2>1, <2>3 DEF Reported
<1>. QED
  BY <1>4, <1>5

\* A request that insertEvents threw for is a db_failure, whether the answer
\* goes out now or after release.
LEMMA ThrowsTally ==
  ASSUME TypeOK, NEW r \in Requests, InsertThrows(r), UNCHANGED batch,
         pc[r] \in {"insert", "chunks", "await"}
  PROVE  TurnedDown(r)
<1>1. /\ \A q \in Requests \ {r} : pc'[q] = pc[q] /\ response'[q] = response[q]
      /\ pc'[r] = "release" \/ (pc'[r] = "done" /\ response'[r] = "503")
  BY DEF InsertThrows, Respond, Goto, TypeOK
<1>2. r \in Undecided /\ Undecided' = Undecided \ {r}
  BY <1>1 DEF Undecided
<1>3. ReportedStored' = ReportedStored
  BY <1>1 DEF ReportedStored
<1>4. ReportedRows' = ReportedRows
  BY <1>3 DEF ReportedRows
<1>5. Count("db_failures")
  BY DEF InsertThrows
<1>6. Ticks("db_failures")
  BY <1>5, CountTicks DEF Counters
<1>. QED
  BY <1>2, <1>3, <1>4, <1>6 DEF TurnedDown

\* Every step of the write path is one of these.
LEMMA TallyStep ==
  ASSUME TypeOK, Shape, [Next]_vars
  PROVE  Tallied
<1>. USE DEF request, database
<1>a. ASSUME UNCHANGED <<pc, response, batch, metrics>> PROVE Tallied
  <2>1. Undecided' = Undecided /\ ReportedStored' = ReportedStored
        /\ ReportedRows' = ReportedRows
    BY <1>a DEF Undecided, ReportedStored, ReportedRows
  <2>2. Ticks("redis_unavailable")
    BY <1>a, CountsNothing
  <2>. QED
    BY <2>1, <2>2, SMTT(30) DEF Tallied, Calm
<1>b. ASSUME NEW r \in Requests, UNCHANGED batch,
             \A q \in Requests \ {r} : /\ pc'[q] = pc[q]
                                       /\ response'[q] = response[q],
             (r \in Undecided)' <=> r \in Undecided,
             (r \in ReportedStored)' <=> r \in ReportedStored,
             UNCHANGED metrics \/ Count("redis_unavailable")
      PROVE  Tallied
  <2>1. Undecided' = Undecided /\ ReportedStored' = ReportedStored
    BY <1>b DEF Undecided, ReportedStored
  <2>2. ReportedRows' = ReportedRows
    BY <1>b, <2>1 DEF ReportedRows
  <2>3. Ticks("redis_unavailable")
    BY <1>b, CountsNothing, CountTicks DEF Counters
  <2>. QED
    BY <2>1, <2>2, <2>3 DEF Tallied, Calm
<1>1. ASSUME NEW r \in Requests, RejectBody(r) PROVE Tallied
  <2>1. /\ UNCHANGED batch
        /\ \A q \in Requests \ {r} : /\ pc'[q] = pc[q]
                                      /\ response'[q] = response[q]
        /\ UNCHANGED metrics \/ Count("redis_unavailable")
    BY <1>1 DEF RejectBody, Respond, Goto
  <2>2. /\ (r \in Undecided)' <=> r \in Undecided
        /\ (r \in ReportedStored)' <=> r \in ReportedStored
    BY <1>1 DEF RejectBody, Respond, Goto, TypeOK, Undecided,
       ReportedStored
  <2>. QED
    BY <1>1, <1>b, <2>1, <2>2
<1>2. ASSUME NEW r \in Requests, Arrive(r) PROVE Tallied
  <2>1. PICK b \in Batches, k \in BOOLEAN : ArriveWith(r, b, k)
    BY <1>2 DEF Arrive
  <2>2. /\ pc[r] = "unsent" /\ pc'[r] \in {"claim", "insert"}
        /\ \A q \in Requests \ {r} : pc'[q] = pc[q] /\ batch'[q] = batch[q]
        /\ UNCHANGED response
    BY <2>1, SMTT(30) DEF ArriveWith, Goto, TypeOK
  <2>3. r \notin Undecided /\ Undecided' = Undecided \cup {r}
    BY <2>2 DEF Undecided
  <2>4. ReportedStored' = ReportedStored /\ r \notin ReportedStored
    BY <2>2, SMTT(30) DEF ReportedStored
  <2>5. ReportedRows' = ReportedRows
    BY <2>2, <2>4 DEF ReportedRows, ReportedStored
  <2>6. Count("batches_received")
    BY <2>1 DEF ArriveWith
  <2>7. Ticks("batches_received")
    BY <2>6, CountTicks, SMTT(30) DEF Counters
  <2>. QED
    BY <2>3, <2>4, <2>5, <2>7 DEF Tallied, Admitted
<1>3. ASSUME NEW r \in Requests, ClaimFails(r) PROVE Tallied
  <2>1. /\ UNCHANGED batch
        /\ \A q \in Requests \ {r} : /\ pc'[q] = pc[q]
                                      /\ response'[q] = response[q]
        /\ UNCHANGED metrics \/ Count("redis_unavailable")
    BY <1>3 DEF ClaimFails, ClaimUnavailable, Goto
  <2>2. /\ (r \in Undecided)' <=> r \in Undecided
        /\ (r \in ReportedStored)' <=> r \in ReportedStored
    BY <1>3 DEF ClaimFails, ClaimUnavailable, Goto, TypeOK, Undecided,
       ReportedStored
  <2>. QED
    BY <1>3, <1>b, <2>1, <2>2
<1>4. ASSUME NEW r \in Requests, ClaimReplyLost(r) PROVE Tallied
  <2>1. /\ UNCHANGED batch
        /\ \A q \in Requests \ {r} : /\ pc'[q] = pc[q]
                                      /\ response'[q] = response[q]
        /\ UNCHANGED metrics \/ Count("redis_unavailable")
    BY <1>4 DEF ClaimReplyLost, ClaimUnavailable, Goto
  <2>2. /\ (r \in Undecided)' <=> r \in Undecided
        /\ (r \in ReportedStored)' <=> r \in ReportedStored
    BY <1>4 DEF ClaimReplyLost, ClaimUnavailable, Goto, TypeOK, Undecided,
       ReportedStored
  <2>. QED
    BY <1>4, <1>b, <2>1, <2>2
<1>5. ASSUME NEW r \in Requests, ClaimGranted(r) PROVE Tallied
  <2>1. /\ UNCHANGED batch
        /\ \A q \in Requests \ {r} : /\ pc'[q] = pc[q]
                                      /\ response'[q] = response[q]
        /\ UNCHANGED metrics \/ Count("redis_unavailable")
    BY <1>5 DEF ClaimGranted, Goto
  <2>2. /\ (r \in Undecided)' <=> r \in Undecided
        /\ (r \in ReportedStored)' <=> r \in ReportedStored
    BY <1>5 DEF ClaimGranted, Goto, TypeOK, Undecided,
       ReportedStored
  <2>. QED
    BY <1>5, <1>b, <2>1, <2>2
<1>6. ASSUME NEW r \in Requests, ClaimCommitted(r) PROVE Tallied
  <2>1. r \in Undecided /\ Undecided' = Undecided \ {r}
    BY <1>6 DEF ClaimCommitted, Respond, Goto, TypeOK, Undecided
  <2>2. ReportedStored' = ReportedStored /\ UNCHANGED batch
    BY <1>6 DEF ClaimCommitted, Respond, Goto, TypeOK, ReportedStored
  <2>3. ReportedRows' = ReportedRows
    BY <2>2 DEF ReportedRows
  <2>4. Count("batches_duplicate_suppressed")
    BY <1>6 DEF ClaimCommitted
  <2>5. Ticks("batches_duplicate_suppressed")
    BY <2>4, CountTicks DEF Counters
  <2>. QED
    BY <2>1, <2>2, <2>3, <2>5 DEF Tallied, TurnedDown
<1>7. ASSUME NEW r \in Requests, ClaimInFlight(r) PROVE Tallied
  <2>1. r \in Undecided /\ Undecided' = Undecided \ {r}
    BY <1>7 DEF ClaimInFlight, Respond, Goto, TypeOK, Undecided
  <2>2. ReportedStored' = ReportedStored /\ UNCHANGED batch
    BY <1>7 DEF ClaimInFlight, Respond, Goto, TypeOK, ReportedStored
  <2>3. ReportedRows' = ReportedRows
    BY <2>2 DEF ReportedRows
  <2>4. Count("batches_in_flight_rejected")
    BY <1>7 DEF ClaimInFlight
  <2>5. Ticks("batches_in_flight_rejected")
    BY <2>4, CountTicks, SMTT(30) DEF Counters
  <2>. QED
    BY <2>1, <2>2, <2>3, <2>5 DEF Tallied, TurnedDown
<1>8. ASSUME NEW r \in Requests, InsertNothing(r) PROVE Tallied
  BY <1>8, ReturnsTally DEF InsertNothing, Tallied
<1>9. ASSUME NEW r \in Requests, InsertFails(r) PROVE Tallied
  BY <1>9, ThrowsTally DEF InsertFails, Tallied
<1>10. ASSUME NEW r \in Requests, SendInsert(r) PROVE Tallied
  <2>1. /\ UNCHANGED batch
        /\ \A q \in Requests \ {r} : /\ pc'[q] = pc[q]
                                      /\ response'[q] = response[q]
        /\ UNCHANGED metrics \/ Count("redis_unavailable")
    BY <1>10 DEF SendInsert, Goto
  <2>2. /\ (r \in Undecided)' <=> r \in Undecided
        /\ (r \in ReportedStored)' <=> r \in ReportedStored
    BY <1>10 DEF SendInsert, Goto, TypeOK, Undecided,
       ReportedStored
  <2>. QED
    BY <1>10, <1>b, <2>1, <2>2
<1>11. ASSUME NEW r \in Requests, Begin(r) PROVE Tallied
  <2>1. /\ UNCHANGED batch
        /\ \A q \in Requests \ {r} : /\ pc'[q] = pc[q]
                                      /\ response'[q] = response[q]
        /\ UNCHANGED metrics \/ Count("redis_unavailable")
    BY <1>11 DEF Begin, Goto
  <2>2. /\ (r \in Undecided)' <=> r \in Undecided
        /\ (r \in ReportedStored)' <=> r \in ReportedStored
    BY <1>11 DEF Begin, Goto, TypeOK, Undecided,
       ReportedStored
  <2>. QED
    BY <1>11, <1>b, <2>1, <2>2
<1>12. ASSUME NEW r \in Requests, InsertChunk(r) PROVE Tallied
  BY <1>12, <1>a DEF InsertChunk
<1>13. ASSUME NEW r \in Requests, SendCommit(r) PROVE Tallied
  <2>1. /\ UNCHANGED batch
        /\ \A q \in Requests \ {r} : /\ pc'[q] = pc[q]
                                      /\ response'[q] = response[q]
        /\ UNCHANGED metrics \/ Count("redis_unavailable")
    BY <1>13 DEF SendCommit, Goto
  <2>2. /\ (r \in Undecided)' <=> r \in Undecided
        /\ (r \in ReportedStored)' <=> r \in ReportedStored
    BY <1>13 DEF SendCommit, Goto, TypeOK, Undecided,
       ReportedStored
  <2>. QED
    BY <1>13, <1>b, <2>1, <2>2
<1>14. ASSUME NEW r \in Requests, ReplyCommitted(r) PROVE Tallied
  BY <1>14, ReturnsTally DEF ReplyCommitted, Tallied
<1>15. ASSUME NEW r \in Requests, ReplyAborted(r) PROVE Tallied
  BY <1>15, ThrowsTally DEF ReplyAborted, Tallied
<1>16. ASSUME NEW r \in Requests, ReplyLost(r) PROVE Tallied
  BY <1>16, ThrowsTally DEF ReplyLost, Tallied
<1>17. ASSUME NEW r \in Requests, MarkCommitted(r) PROVE Tallied
  <2>1. /\ UNCHANGED batch
        /\ \A q \in Requests \ {r} : /\ pc'[q] = pc[q]
                                      /\ response'[q] = response[q]
        /\ UNCHANGED metrics \/ Count("redis_unavailable")
    BY <1>17 DEF MarkCommitted, Respond, Goto
  <2>2. /\ (r \in Undecided)' <=> r \in Undecided
        /\ (r \in ReportedStored)' <=> r \in ReportedStored
    BY <1>17 DEF MarkCommitted, Respond, Goto, TypeOK, Undecided,
       ReportedStored
  <2>. QED
    BY <1>17, <1>b, <2>1, <2>2
<1>18. ASSUME NEW r \in Requests, MarkFails(r) PROVE Tallied
  <2>1. /\ UNCHANGED batch
        /\ \A q \in Requests \ {r} : /\ pc'[q] = pc[q]
                                      /\ response'[q] = response[q]
        /\ UNCHANGED metrics \/ Count("redis_unavailable")
    BY <1>18 DEF MarkFails, Respond, Goto
  <2>2. /\ (r \in Undecided)' <=> r \in Undecided
        /\ (r \in ReportedStored)' <=> r \in ReportedStored
    BY <1>18 DEF MarkFails, Respond, Goto, TypeOK, Undecided,
       ReportedStored
  <2>. QED
    BY <1>18, <1>b, <2>1, <2>2
<1>19. ASSUME NEW r \in Requests, Release(r) PROVE Tallied
  <2>1. /\ UNCHANGED batch
        /\ \A q \in Requests \ {r} : /\ pc'[q] = pc[q]
                                      /\ response'[q] = response[q]
        /\ UNCHANGED metrics \/ Count("redis_unavailable")
    BY <1>19 DEF Release, Respond, Goto
  <2>2. /\ (r \in Undecided)' <=> r \in Undecided
        /\ (r \in ReportedStored)' <=> r \in ReportedStored
    BY <1>19 DEF Release, Respond, Goto, TypeOK, Undecided,
       ReportedStored
  <2>. QED
    BY <1>19, <1>b, <2>1, <2>2
<1>20. ASSUME NEW r \in Requests, ReleaseFails(r) PROVE Tallied
  <2>1. /\ UNCHANGED batch
        /\ \A q \in Requests \ {r} : /\ pc'[q] = pc[q]
                                      /\ response'[q] = response[q]
        /\ UNCHANGED metrics \/ Count("redis_unavailable")
    BY <1>20 DEF ReleaseFails, Respond, Goto
  <2>2. /\ (r \in Undecided)' <=> r \in Undecided
        /\ (r \in ReportedStored)' <=> r \in ReportedStored
    BY <1>20 DEF ReleaseFails, Respond, Goto, TypeOK, Undecided,
       ReportedStored
  <2>. QED
    BY <1>20, <1>b, <2>1, <2>2
<1>21. ASSUME NEW r \in Requests, DbCommit(r) PROVE Tallied
  BY <1>21, <1>a DEF DbCommit
<1>22. ASSUME NEW r \in Requests, DbAbort(r) PROVE Tallied
  BY <1>22, <1>a DEF DbAbort
<1>23. ASSUME NEW b \in Batches, LeaseExpires(b) PROVE Tallied
  BY <1>23, <1>a DEF LeaseExpires
<1>24. ASSUME NEW b \in Batches, CommittedExpires(b) PROVE Tallied
  BY <1>24, <1>a DEF CommittedExpires
<1>25. CASE ClientReady
  BY <1>25, <1>a DEF ClientReady
<1>26. CASE ClientError
  BY <1>26, <1>a DEF ClientError
<1>27. CASE OnModuleDestroy
  BY <1>27, <1>a DEF OnModuleDestroy
<1>28. CASE Restart
  BY <1>28 DEF Tallied
<1>29. CASE Idle
  BY <1>29, <1>a DEF Idle, vars
<1>30. CASE UNCHANGED vars
  BY <1>30, <1>a DEF vars
<1>. QED
  BY <1>1, <1>2, <1>3, <1>4, <1>5, <1>6, <1>7, <1>8, <1>9, <1>10, <1>11,
     <1>12, <1>13, <1>14, <1>15, <1>16, <1>17, <1>18, <1>19, <1>20, <1>21,
     <1>22, <1>23, <1>24, <1>25, <1>26, <1>27, <1>28, <1>29, <1>30
     DEF Next, RequestStep, RedisStep, ClaimStep, InsertStep, FinishStep,
         DbStep

\* Each of them moves the counters and the requests they count together.
LEMMA CountersStep ==
  ASSUME TypeOK, Shape, CountersAddUp, [Next]_vars
  PROVE  CountersAddUp'
<1>a. /\ IsFiniteSet(Undecided) /\ IsFiniteSet(ReportedStored)
      /\ IsFiniteSet(ReportedRows)
  BY IngestAssumption, FS_Subset DEF Undecided, ReportedStored, ReportedRows
<1>b. /\ Cardinality(Undecided) \in Nat /\ Cardinality(ReportedStored) \in Nat
      /\ Cardinality(ReportedRows) \in Nat
  BY <1>a, FS_CardinalityType
<1>c. /\ metrics["batches_received"] \in Nat
      /\ metrics["batches_duplicate_suppressed"] \in Nat
      /\ metrics["batches_in_flight_rejected"] \in Nat
      /\ metrics["events_stored"] \in Nat
      /\ metrics["db_failures"] \in Nat
  BY DEF TypeOK, Counters
<1>. DEFINE u == Cardinality(Undecided)
            s == Cardinality(ReportedStored)
            v == Cardinality(ReportedRows)
<1>d. /\ metrics["batches_received"]
           = metrics["batches_duplicate_suppressed"]
               + metrics["batches_in_flight_rejected"]
               + metrics["db_failures"] + s + u
      /\ metrics["events_stored"] = v
  BY DEF CountersAddUp, ReportedRows
<1>e. ASSUME NEW c, Ticks(c)
      PROVE  \A d \in {"batches_received", "batches_duplicate_suppressed",
                       "batches_in_flight_rejected", "events_stored",
                       "db_failures"} :
               metrics'[d] = IF d = c THEN metrics[d] + 1 ELSE metrics[d]
  BY <1>e DEF Ticks, Counters
<1>. DEFINE
       AddUp ==
         /\ metrics'["batches_received"]
              = metrics'["batches_duplicate_suppressed"]
                  + metrics'["batches_in_flight_rejected"]
                  + metrics'["db_failures"] + s' + u'
         /\ metrics'["events_stored"] = v'
<1>f. SUFFICES AddUp
  BY DEF CountersAddUp, ReportedRows
<1>g. u \in Nat /\ s \in Nat /\ v \in Nat
  BY <1>b
<1>. HIDE DEF u, s, v
<1>1. CASE Calm
  <2>1. u' = u /\ s' = s /\ v' = v
    BY <1>1 DEF Calm, u, s, v
  <2>2. Ticks("redis_unavailable")
    BY <1>1 DEF Calm
  <2>. QED
    BY <1>c, <1>d, <1>e, <2>1, <2>2
<1>2. CASE Restart
  <2>1. /\ \A r \in Requests : pc'[r] \in {"unsent", "gone"}
        /\ \A c \in Counters : metrics'[c] = 0
    BY <1>2, ZenonT(30) DEF Restart, ZeroMetrics
  <2>2. Undecided' = {} /\ ReportedStored' = {} /\ ReportedRows' = {}
    BY <2>1, ZenonT(30) DEF Undecided, ReportedStored, ReportedRows
  <2>3. u' = 0 /\ s' = 0 /\ v' = 0
    BY <2>2, FS_EmptySet DEF u, s, v
  <2>. QED
    BY <2>1, <2>3, SMTT(30) DEF Counters
<1>3. ASSUME NEW r \in Requests, Admitted(r) PROVE AddUp
  <2>1. u' = u + 1 /\ s' = s /\ v' = v
    BY <1>3, <1>a, FS_AddElement, Zenon DEF Admitted, u, s, v
  <2>2. Ticks("batches_received")
    BY <1>3 DEF Admitted
  <2>. QED
    BY <1>c, <1>d, <1>e, <1>g, <2>1, <2>2
<1>4. ASSUME NEW r \in Requests, TurnedDown(r) PROVE AddUp
  <2>1. u' = u - 1 /\ s' = s /\ v' = v
    BY <1>4, <1>a, FS_RemoveElement, Zenon DEF TurnedDown, u, s, v
  <2>2. PICK c \in {"batches_duplicate_suppressed",
                    "batches_in_flight_rejected", "db_failures"} : Ticks(c)
    BY <1>4 DEF TurnedDown
  <2>3. /\ metrics'["batches_received"] = metrics["batches_received"]
        /\ metrics'["events_stored"] = metrics["events_stored"]
    BY <1>e, <2>2
  <2>4. metrics'["batches_duplicate_suppressed"]
          + metrics'["batches_in_flight_rejected"] + metrics'["db_failures"]
        = metrics["batches_duplicate_suppressed"]
            + metrics["batches_in_flight_rejected"]
            + metrics["db_failures"] + 1
    <3>1. CASE c = "batches_duplicate_suppressed"
      BY <1>c, <1>e, <2>2, <3>1
    <3>2. CASE c = "batches_in_flight_rejected"
      BY <1>c, <1>e, <2>2, <3>2
    <3>3. CASE c = "db_failures"
      BY <1>c, <1>e, <2>2, <3>3
    <3>. QED
      BY <3>1, <3>2, <3>3
  <2>. QED
    BY <1>c, <1>d, <1>g, <2>1, <2>3, <2>4
<1>5. ASSUME NEW r \in Requests, Reported(r) PROVE AddUp
  <2>1. u' = u - 1 /\ s' = s + 1
    BY <1>5, <1>a, FS_AddElement, FS_RemoveElement, Zenon DEF Reported, u, s
  <2>2. CASE batch[r] \in Valid
    <3>1. v' = v + 1
      BY <1>5, <1>a, <2>2, FS_AddElement DEF Reported, v
    <3>2. Ticks("events_stored")
      BY <1>5, <2>2 DEF Reported
    <3>3. /\ metrics'["batches_received"] = metrics["batches_received"]
          /\ metrics'["batches_duplicate_suppressed"]
               = metrics["batches_duplicate_suppressed"]
          /\ metrics'["batches_in_flight_rejected"]
               = metrics["batches_in_flight_rejected"]
          /\ metrics'["db_failures"] = metrics["db_failures"]
          /\ metrics'["events_stored"] = metrics["events_stored"] + 1
      BY <1>e, <3>2
    <3>. QED
      BY <1>c, <1>d, <1>g, <2>1, <3>1, <3>3
  <2>3. CASE batch[r] \notin Valid
    <3>1. v' = v
      BY <1>5, <2>3 DEF Reported, v
    <3>2. Ticks("redis_unavailable")
      BY <1>5, <2>3 DEF Reported
    <3>3. /\ metrics'["batches_received"] = metrics["batches_received"]
          /\ metrics'["batches_duplicate_suppressed"]
               = metrics["batches_duplicate_suppressed"]
          /\ metrics'["batches_in_flight_rejected"]
               = metrics["batches_in_flight_rejected"]
          /\ metrics'["db_failures"] = metrics["db_failures"]
          /\ metrics'["events_stored"] = metrics["events_stored"]
      BY <1>e, <3>2
    <3>. QED
      BY <1>c, <1>d, <1>g, <2>1, <3>1, <3>3
  <2>. QED
    BY <2>2, <2>3
<1>6. Tallied
  BY TallyStep
<1>. QED
  BY <1>1, <1>2, <1>3, <1>4, <1>5, <1>6, SMTT(30) DEF Tallied

\* The process starts with nothing received and every counter at zero.
LEMMA CountersInit == Init => CountersAddUp
<1>. SUFFICES ASSUME Init PROVE CountersAddUp
  OBVIOUS
<1>1. Undecided = {} /\ ReportedStored = {}
  BY DEF Init, Undecided, ReportedStored
<1>2. {r \in ReportedStored : batch[r] \in Valid} = {}
  BY <1>1
<1>3. Cardinality({}) = 0
  BY FS_EmptySet
<1>4. \A c \in Counters : metrics[c] = 0
  BY DEF Init, ZeroMetrics
<1>. QED
  BY <1>1, <1>2, <1>3, <1>4 DEF CountersAddUp, Counters

\* GET /metrics adds up at any moment of a process's life: every batch received
\* is undecided, suppressed, refused, failed or reported as stored, however
\* requests overlap and whatever Redis and PostgreSQL do to them.
THEOREM CountersTruthful == Spec => []CountersAddUp
<1>1. Inv /\ CountersAddUp /\ [Next]_vars => CountersAddUp'
  BY CountersStep, SMTT(30) DEF Inv
<1>. QED
  BY <1>1, CountersInit, Invariance, PTL DEF Spec

-----------------------------------------------------------------------------
(* Answers.                                                                *)

\* The requests this process has answered as duplicates.
Duplicates ==
  {r \in Requests : pc[r] = "done" /\ response[r] = "duplicate"}

Suppressed ==
  metrics["batches_duplicate_suppressed"] = Cardinality(Duplicates)

\* A request has an answer when it is done, and keeps it; only a crash makes it
\* forgotten.
Answered ==
  \A r \in Requests :
    /\ pc[r] = "done" => response[r] # None
    /\ response[r] # None => pc[r] \in {"done", "gone"}
    /\ restarts = 0 => pc[r] # "gone"

AnswerInv == Suppressed /\ Answered

\* A request moves on, perhaps to an answer other than `duplicate', ...
Proceeds(r) ==
  /\ pc[r] \notin {"done", "gone"}
  /\ \A q \in Requests \ {r} : pc'[q] = pc[q] /\ response'[q] = response[q]
  /\ \/ pc'[r] \notin {"done", "gone"} /\ response'[r] = response[r]
     \/ pc'[r] = "done" /\ response'[r] \in {"stored", "503", "400"}
  /\ metrics'["batches_duplicate_suppressed"]
       = metrics["batches_duplicate_suppressed"]
  /\ restarts' = restarts

\* ... or every request stays where it is.
Rests ==
  /\ UNCHANGED <<pc, response, restarts>>
  /\ metrics'["batches_duplicate_suppressed"]
       = metrics["batches_duplicate_suppressed"]

\* Every step of the write path is one of these, the suppression of a duplicate
\* or a restart.
LEMMA ProceedStep ==
  ASSUME TypeOK, [Next]_vars
  PROVE  \/ Rests \/ Restart
         \/ \E r \in Requests : Proceeds(r) \/ ClaimCommitted(r)
<1>. DEFINE Dup == "batches_duplicate_suppressed"
            Goal == \/ Rests \/ Restart
                    \/ \E r \in Requests : Proceeds(r) \/ ClaimCommitted(r)
<1>. USE DEF request, database
<1>a. ASSUME NEW c \in Counters \ {Dup}, Count(c)
      PROVE  metrics'[Dup] = metrics[Dup]
  BY <1>a DEF Count, TypeOK, Counters
<1>b. ASSUME NEW r \in Requests, InsertReturns(r) \/ InsertThrows(r),
             pc[r] \in {"insert", "chunks", "await"}, UNCHANGED restarts
      PROVE  Proceeds(r)
  <2>1. metrics'[Dup] = metrics[Dup]
    BY <1>a, <1>b DEF InsertReturns, InsertThrows, Counters
  <2>2. /\ \A q \in Requests \ {r} : /\ pc'[q] = pc[q]
                                     /\ response'[q] = response[q]
        /\ \/ pc'[r] \in {"mark", "release"} /\ response'[r] = response[r]
           \/ pc'[r] = "done" /\ response'[r] \in {"stored", "503"}
    BY <1>b DEF InsertReturns, InsertThrows, Respond, Goto, TypeOK
  <2>. QED
    BY <1>b, <2>1, <2>2, SMTT(30) DEF Proceeds
<1>1. ASSUME NEW r \in Requests, RejectBody(r) PROVE Proceeds(r)
  BY <1>1, SMTT(30) DEF Proceeds, RejectBody, Respond, Goto, TypeOK
<1>2. ASSUME NEW r \in Requests, Arrive(r) PROVE Proceeds(r)
  <2>1. Count("batches_received")
    BY <1>2 DEF Arrive, ArriveWith
  <2>2. metrics'[Dup] = metrics[Dup]
    BY <1>a, <2>1 DEF Counters
  <2>. QED
    BY <1>2, <2>2 DEF Proceeds, Arrive, ArriveWith, Goto, TypeOK
<1>3. ASSUME NEW r \in Requests, ClaimFails(r) PROVE Proceeds(r)
  <2>1. Count("redis_unavailable")
    BY <1>3 DEF ClaimFails, ClaimUnavailable
  <2>2. metrics'[Dup] = metrics[Dup]
    BY <1>a, <2>1 DEF Counters
  <2>. QED
    BY <1>3, <2>2 DEF Proceeds, ClaimFails, ClaimUnavailable, Goto, TypeOK
<1>4. ASSUME NEW r \in Requests, ClaimReplyLost(r) PROVE Proceeds(r)
  <2>1. Count("redis_unavailable")
    BY <1>4 DEF ClaimReplyLost, ClaimUnavailable
  <2>2. metrics'[Dup] = metrics[Dup]
    BY <1>a, <2>1 DEF Counters
  <2>. QED
    BY <1>4, <2>2 DEF Proceeds, ClaimReplyLost, ClaimUnavailable, Goto,
       TypeOK
<1>5. ASSUME NEW r \in Requests, ClaimGranted(r) PROVE Proceeds(r)
  BY <1>5, SMTT(30) DEF Proceeds, ClaimGranted, Goto, TypeOK
<1>6. ASSUME NEW r \in Requests, ClaimInFlight(r) PROVE Proceeds(r)
  <2>1. Count("batches_in_flight_rejected")
    BY <1>6 DEF ClaimInFlight
  <2>2. metrics'[Dup] = metrics[Dup]
    BY <1>a, <2>1 DEF Counters
  <2>. QED
    BY <1>6, <2>2 DEF Proceeds, ClaimInFlight, Respond, Goto, TypeOK
<1>7. ASSUME NEW r \in Requests, SendInsert(r) PROVE Proceeds(r)
  BY <1>7 DEF Proceeds, SendInsert, Goto, TypeOK
<1>8. ASSUME NEW r \in Requests, Begin(r) PROVE Proceeds(r)
  BY <1>8 DEF Proceeds, Begin, Goto, TypeOK
<1>9. ASSUME NEW r \in Requests, SendCommit(r) PROVE Proceeds(r)
  BY <1>9 DEF Proceeds, SendCommit, Goto, TypeOK
<1>10. ASSUME NEW r \in Requests, MarkCommitted(r) PROVE Proceeds(r)
  BY <1>10, SMTT(30) DEF Proceeds, MarkCommitted, Respond, Goto, TypeOK
<1>11. ASSUME NEW r \in Requests, MarkFails(r) PROVE Proceeds(r)
  <2>1. Count("redis_unavailable")
    BY <1>11, SMTT(30) DEF MarkFails
  <2>2. metrics'[Dup] = metrics[Dup]
    BY <1>a, <2>1 DEF Counters
  <2>. QED
    BY <1>11, <2>2 DEF Proceeds, MarkFails, Respond, Goto, TypeOK
<1>12. ASSUME NEW r \in Requests, Release(r) PROVE Proceeds(r)
  BY <1>12, SMTT(30) DEF Proceeds, Release, Respond, Goto, TypeOK
<1>13. ASSUME NEW r \in Requests, ReleaseFails(r) PROVE Proceeds(r)
  BY <1>13, SMTT(30) DEF Proceeds, ReleaseFails, Respond, Goto, TypeOK
<1>14. ASSUME NEW r \in Requests, InsertNothing(r) PROVE Proceeds(r)
  BY <1>14, <1>b, Zenon DEF InsertNothing
<1>15. ASSUME NEW r \in Requests, InsertFails(r) PROVE Proceeds(r)
  BY <1>15, <1>b DEF InsertFails
<1>16. ASSUME NEW r \in Requests, ReplyCommitted(r) PROVE Proceeds(r)
  BY <1>16, <1>b DEF ReplyCommitted
<1>17. ASSUME NEW r \in Requests, ReplyAborted(r) PROVE Proceeds(r)
  BY <1>17, <1>b, SMTT(30) DEF ReplyAborted
<1>18. ASSUME NEW r \in Requests, ReplyLost(r) PROVE Proceeds(r)
  BY <1>18, <1>b DEF ReplyLost
<1>19. ASSUME NEW r \in Requests, InsertChunk(r) PROVE Rests
  BY <1>19, SMTT(30) DEF InsertChunk, Rests
<1>20. ASSUME NEW r \in Requests, DbCommit(r) PROVE Rests
  BY <1>20 DEF DbCommit, Rests
<1>21. ASSUME NEW r \in Requests, DbAbort(r) PROVE Rests
  BY <1>21 DEF DbAbort, Rests
<1>22. ASSUME NEW b \in Batches, LeaseExpires(b) \/ CommittedExpires(b)
      PROVE  Rests
  BY <1>22, SMTT(30) DEF LeaseExpires, CommittedExpires, Rests
<1>23. CASE ClientReady \/ ClientError \/ OnModuleDestroy \/ Idle
             \/ UNCHANGED vars
  BY <1>23, SMTT(30) DEF ClientReady, ClientError, OnModuleDestroy, Idle,
     vars, Rests
<1>. QED
  BY <1>1, <1>2, <1>3, <1>4, <1>5, <1>6, <1>7, <1>8, <1>9, <1>10, <1>11,
     <1>12, <1>13, <1>14, <1>15, <1>16, <1>17, <1>18, <1>19, <1>20, <1>21,
     <1>22, <1>23
     DEF Next, RequestStep, RedisStep, ClaimStep, InsertStep, FinishStep,
         DbStep

\* The answers a step leaves alone, and what the suppressed ones come to.
LEMMA AnswerStep ==
  ASSUME TypeOK, AnswerInv, [Next]_vars
  PROVE  /\ AnswerInv'
         /\ \A r \in Requests :
              response[r] # None => response'[r] = response[r]
<1>. DEFINE Kept == \A r \in Requests :
                      response[r] # None => response'[r] = response[r]
<1>a. IsFiniteSet(Duplicates) /\ Cardinality(Duplicates) \in Nat
  BY IngestAssumption, FS_Subset, FS_CardinalityType, Zenon DEF Duplicates
<1>b. None \notin {"stored", "duplicate", "503", "400"}
  BY IngestAssumption, SMTT(30)
<1>1. CASE Rests
  <2>1. Duplicates' = Duplicates
    BY <1>1, SMTT(30) DEF Rests, Duplicates
  <2>. QED
    BY <1>1, <2>1, Zenon DEF Rests, AnswerInv, Suppressed, Answered
<1>2. CASE Restart
  <2>1. /\ restarts' # 0
        /\ response' = response
        /\ metrics'["batches_duplicate_suppressed"] = 0
        /\ \A r \in Requests :
             pc'[r] = IF pc[r] = "unsent" THEN "unsent" ELSE "gone"
    BY <1>2, SMTT(30) DEF Restart, ZeroMetrics, Counters, TypeOK
  <2>2. Duplicates' = {}
    BY <2>1 DEF Duplicates
  <2>3. Suppressed'
    BY <2>1, <2>2, FS_EmptySet, SMTT(30) DEF Suppressed
  <2>4. Answered'
    BY <2>1 DEF AnswerInv, Answered
  <2>. QED
    BY <2>1, <2>3, <2>4, Zenon DEF AnswerInv
<1>3. ASSUME NEW r \in Requests, Proceeds(r) PROVE AnswerInv' /\ Kept
  <2>1. Duplicates' = Duplicates
    BY <1>3 DEF Proceeds, Duplicates
  <2>2. Suppressed'
    BY <1>3, <2>1, SMTT(30) DEF Proceeds, AnswerInv, Suppressed
  <2>3. Answered' /\ Kept
    BY <1>3, <1>b, SMTT(30) DEF Proceeds, AnswerInv, Answered
  <2>. QED
    BY <2>2, <2>3 DEF AnswerInv
<1>4. ASSUME NEW r \in Requests, ClaimCommitted(r) PROVE AnswerInv' /\ Kept
  <2>1. /\ pc[r] = "claim" /\ pc'[r] = "done" /\ response'[r] = "duplicate"
        /\ \A q \in Requests \ {r} : /\ pc'[q] = pc[q]
                                     /\ response'[q] = response[q]
        /\ UNCHANGED restarts
    BY <1>4 DEF ClaimCommitted, Respond, Goto, TypeOK
  <2>2. metrics'["batches_duplicate_suppressed"]
          = metrics["batches_duplicate_suppressed"] + 1
    BY <1>4 DEF ClaimCommitted, Count, Counters, TypeOK
  <2>3. r \notin Duplicates /\ Duplicates' = Duplicates \cup {r}
    BY <2>1 DEF Duplicates
  <2>4. Cardinality(Duplicates') = Cardinality(Duplicates) + 1
    BY <1>a, <2>3, FS_AddElement, ZenonT(30)
  <2>5. Suppressed'
    BY <2>2, <2>4 DEF AnswerInv, Suppressed
  <2>6. Answered' /\ Kept
    BY <1>b, <2>1 DEF AnswerInv, Answered
  <2>. QED
    BY <2>5, <2>6 DEF AnswerInv
<1>. QED
  BY <1>1, <1>2, <1>3, <1>4, ProceedStep, ZenonT(30)

\* The process starts with no requests and its counters at zero.
LEMMA AnswerInit == Init => AnswerInv
<1>. SUFFICES ASSUME Init PROVE AnswerInv
  OBVIOUS
<1>1. Duplicates = {}
  BY DEF Init, Duplicates
<1>2. Suppressed
  BY <1>1, FS_EmptySet DEF Init, ZeroMetrics, Counters, Suppressed
<1>3. Answered
  BY DEF Init, Answered
<1>. QED
  BY <1>2, <1>3 DEF AnswerInv

\* Nothing takes rows out of the table.
LEMMA StoredStays ==
  ASSUME TypeOK, [Next]_vars, NEW b \in Batches, Stored(b)
  PROVE  Stored(b)'
<1>1. CASE UNCHANGED rows
  BY <1>1 DEF Stored, Chunks
<1>2. ASSUME NEW r \in Requests, DbCommit(r) PROVE Stored(b)'
  <2>1. rows' = [rows EXCEPT ![batch[r]] = [c \in ChunkIds |->
                   IF c <= staged[r] THEN @[c] + 1 ELSE @[c]]]
    BY <1>2 DEF DbCommit, Store
  <2>2. \A c \in ChunkIds : rows[b][c] \in Nat
    BY DEF TypeOK
  <2>3. \A c \in ChunkIds : rows'[b][c] >= rows[b][c]
    BY <2>1, <2>2 DEF TypeOK
  <2>4. \A c \in 1..Chunks(b) : c \in ChunkIds
    BY IngestAssumption DEF Chunks, ChunkIds
  <2>5. ASSUME NEW c \in 1..Chunks(b) PROVE rows'[b][c] > 0
    <3>1. c \in ChunkIds /\ rows[b][c] > 0
      BY <2>4, <2>5, SMTT(30) DEF Stored
    <3>2. rows'[b][c] \in Nat
      BY <2>1, <2>2, <3>1, SMTT(30) DEF TypeOK
    <3>. QED
      BY <2>2, <2>3, <3>1, <3>2
  <2>. QED
    BY <2>5 DEF Stored, Chunks
<1>. QED
  BY <1>1, <1>2, OnlyCommitStores

\* A request has its batch from its arrival on, and arrives once.
LEMMA BodyKept ==
  ASSUME TypeOK,
         RedisStep \/ Restart \/ \E r \in Requests : RequestStep(r)
  PROVE  /\ batch' = batch
         /\ \A q \in Requests : pc[q] = "unsent" => pc'[q] = "unsent"
<1>. DEFINE Kept == /\ batch' = batch
                    /\ \A q \in Requests : pc[q] = "unsent"
                                             => pc'[q] = "unsent"
<1>. USE DEF request, database, Goto, Respond
<1>a. pc \in [Requests -> Pc]
  BY SMTT(30) DEF TypeOK
<1>1. ASSUME NEW r \in Requests, ClaimStep(r) PROVE Kept
  BY <1>1, <1>a, ZenonT(30)
     DEF ClaimStep, ClaimFails, ClaimReplyLost, ClaimUnavailable,
         ClaimGranted, ClaimCommitted, ClaimInFlight
<1>2. ASSUME NEW r \in Requests, InsertStep(r) PROVE Kept
  BY <1>2, <1>a, Zenon DEF InsertStep, InsertNothing, InsertFails, SendInsert,
     Begin, InsertChunk, SendCommit, ReplyCommitted, ReplyAborted, ReplyLost,
     InsertReturns, InsertThrows
<1>3. ASSUME NEW r \in Requests, FinishStep(r) PROVE Kept
  BY <1>3, <1>a, SMTT(30) DEF FinishStep, MarkCommitted, MarkFails, Release,
     ReleaseFails
<1>4. ASSUME NEW r \in Requests, DbStep(r) PROVE Kept
  BY <1>4, ZenonT(30) DEF DbStep, DbCommit, DbAbort
<1>5. CASE RedisStep
  BY <1>5, ZenonT(30)
     DEF RedisStep, LeaseExpires, CommittedExpires, ClientReady,
         ClientError, OnModuleDestroy
<1>6. CASE Restart
  BY <1>6, Zenon DEF Restart
<1>. QED
  BY <1>1, <1>2, <1>3, <1>4, <1>5, <1>6, Zenon DEF RequestStep
=============================================================================
