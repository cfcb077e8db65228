------------------------------- MODULE Ingest -------------------------------
(***************************************************************************)
(* The backend's write path: POST /v1/events through IngestController,     *)
(* IngestService, IdempotencyService and EventsRepository                  *)
(* (backend/src/ingest, backend/src/idempotency, backend/src/db).          *)
(*                                                                         *)
(* A request carries a batch and, when it has the Idempotency-Key header,  *)
(* the key of that batch; requests of one batch are first attempts,        *)
(* retries of the sink that timed out and replays, in any order and        *)
(* overlapping.  A request's lease token is the request itself, because    *)
(* claim() draws a fresh UUID for every call.                              *)
(*                                                                         *)
(* Every await is a step boundary.  Redis and PostgreSQL are external: a   *)
(* Redis command may fail before or after it takes effect, a lease or a    *)
(* committed key may expire between any two steps (which also covers a     *)
(* Redis that restarts empty), a statement commits or aborts, and the      *)
(* connection may be lost before its outcome is known.  A batch with more  *)
(* rows than one statement takes is a transaction of several chunks.  The  *)
(* process may crash at any step.                                          *)
(***************************************************************************)
EXTENDS Naturals, FiniteSets

CONSTANTS Requests,    \* POSTs that will arrive
          Batches,     \* distinct batches
          Valid,       \* the batches with at least one well-formed line
          Large,       \* those of more than MAX_ROWS_PER_STATEMENT rows
          LargeChunks, \* the chunks of a large batch
          MaxRestarts, \* bound on the process's crashes and redeployments
          Absent,      \* the key does not exist in Redis
          Committed,   \* the value 'committed'
          None

ASSUME IngestAssumption ==
  /\ IsFiniteSet(Requests)
  /\ Valid \subseteq Batches
  /\ Large \subseteq Valid
  /\ LargeChunks \in Nat \ {0, 1}
  /\ MaxRestarts \in Nat
  /\ Absent \notin Requests
  /\ Committed \notin Requests
  /\ Absent # Committed
  /\ None \notin Batches \cup {"stored", "duplicate", "503", "400"}

VARIABLES pc,        \* per request: the await it stands at
          batch,     \* per request: the batch in its body
          keyed,     \* per request: the header is present and not empty
          claimed,   \* per request: `claimed' is defined
          response,  \* per request: what the controller answered
          redis,     \* per batch: the value of its key
          client,    \* the Redis client: "null", "connecting" or "ready"
          txn,       \* per request: its statement or transaction
          staged,    \* per request: the chunks it has inserted in it
          rows,      \* per batch and chunk: how many times it is stored
          metrics,   \* MetricsService
          restarts,
          fault      \* history, per batch: what happened to its dedup

request == <<pc, batch, keyed, claimed, response>>
database == <<txn, staged, rows>>
vars == <<request, redis, client, database, metrics, restarts, fault>>

Counters == {"batches_received", "batches_duplicate_suppressed",
             "batches_in_flight_rejected", "events_stored", "db_failures",
             "redis_unavailable"}

\* insertEvents: groups = chunk(rows, MAX_ROWS_PER_STATEMENT).
ChunkIds == 1..LargeChunks
Chunks(b) == IF b \in Large THEN LargeChunks ELSE 1

ZeroMetrics == [counter \in Counters |-> 0]

Init ==
  /\ pc = [r \in Requests |-> "unsent"]
  /\ batch = [r \in Requests |-> None]
  /\ keyed = [r \in Requests |-> FALSE]
  /\ claimed = [r \in Requests |-> FALSE]
  /\ response = [r \in Requests |-> None]
  /\ redis = [b \in Batches |-> Absent]
  /\ client = "connecting"
  /\ txn = [r \in Requests |-> "none"]
  /\ staged = [r \in Requests |-> 0]
  /\ rows = [b \in Batches |-> [c \in ChunkIds |-> 0]]
  /\ metrics = ZeroMetrics
  /\ restarts = 0
  /\ fault = [b \in Batches |-> {}]

Count(counter) == metrics' = [metrics EXCEPT ![counter] = @ + 1]

Blame(b, what) == fault' = [fault EXCEPT ![b] = @ \cup {what}]

Goto(r, where) == pc' = [pc EXCEPT ![r] = where]

Respond(r, answer) ==
  /\ Goto(r, "done")
  /\ response' = [response EXCEPT ![r] = answer]

-----------------------------------------------------------------------------
(* IngestController.post and the first lines of IngestService.ingest.      *)

\* An empty body, or one that is not text: 400 before ingest() is called.
RejectBody(r) ==
  /\ pc[r] = "unsent"
  /\ Respond(r, "400")
  /\ UNCHANGED <<batch, keyed, claimed, redis, client, database, metrics,
                 restarts, fault>>

\* ingest() up to its first await.  Without a key nothing is claimed.
ArriveWith(r, b, k) ==
  /\ pc[r] = "unsent"
  /\ batch' = [batch EXCEPT ![r] = b]
  /\ keyed' = [keyed EXCEPT ![r] = k]
  /\ Goto(r, IF k THEN "claim" ELSE "insert")
  /\ Count("batches_received")
  /\ IF k THEN UNCHANGED fault ELSE Blame(b, "no_key")
  /\ UNCHANGED <<claimed, response, redis, client, database, restarts>>

Arrive(r) == \E b \in Batches, k \in BOOLEAN : ArriveWith(r, b, k)

-----------------------------------------------------------------------------
(* IdempotencyService.claim: SET NX GET EX, one atomic command.            *)

\* claim() answers 'unavailable' and the batch is ingested without protection.
ClaimUnavailable(r) ==
  /\ pc[r] = "claim"
  /\ Count("redis_unavailable")
  /\ Blame(batch[r], "redis")
  /\ Goto(r, "insert")
  /\ UNCHANGED <<batch, keyed, claimed, response, client, database, restarts>>

\* The client is not ready, or the command failed before taking effect.
ClaimFails(r) ==
  /\ ClaimUnavailable(r)
  /\ UNCHANGED redis

\* The command took effect but its reply was lost.
ClaimReplyLost(r) ==
  /\ client = "ready"
  /\ ClaimUnavailable(r)
  /\ redis[batch[r]] = Absent
  /\ redis' = [redis EXCEPT ![batch[r]] = r]

\* Mutant: the key only says that the batch was seen, as a boolean would.
ClaimGranted_Boolean(r) ==
  /\ pc[r] = "claim"
  /\ client = "ready"
  /\ redis[batch[r]] = Absent
  /\ redis' = [redis EXCEPT ![batch[r]] = Committed]
  /\ claimed' = [claimed EXCEPT ![r] = TRUE]
  /\ Goto(r, "insert")
  /\ UNCHANGED <<batch, keyed, response, client, database, metrics, restarts,
                 fault>>

ClaimGranted(r) ==
  /\ pc[r] = "claim"
  /\ client = "ready"
  /\ redis[batch[r]] = Absent
  /\ redis' = [redis EXCEPT ![batch[r]] = r]
  /\ claimed' = [claimed EXCEPT ![r] = TRUE]
  /\ Goto(r, "insert")
  /\ UNCHANGED <<batch, keyed, response, client, database, metrics, restarts,
                 fault>>

ClaimCommitted(r) ==
  /\ pc[r] = "claim"
  /\ client = "ready"
  /\ redis[batch[r]] = Committed
  /\ Count("batches_duplicate_suppressed")
  /\ Respond(r, "duplicate")
  /\ UNCHANGED <<batch, keyed, claimed, redis, client, database, restarts,
                 fault>>

\* Mutant: an attempt that finds a lease inserts as well.
ClaimInFlight_Proceeds(r) ==
  /\ pc[r] = "claim"
  /\ client = "ready"
  /\ redis[batch[r]] \notin {Absent, Committed}
  /\ Goto(r, "insert")
  /\ UNCHANGED <<batch, keyed, claimed, response, redis, client, database,
                 metrics, restarts, fault>>

\* Any other value is somebody's lease: refuse, so that the sink comes back.
ClaimInFlight(r) ==
  /\ pc[r] = "claim"
  /\ client = "ready"
  /\ redis[batch[r]] \notin {Absent, Committed}
  /\ Count("batches_in_flight_rejected")
  /\ Respond(r, "503")
  /\ UNCHANGED <<batch, keyed, claimed, redis, client, database, restarts,
                 fault>>

-----------------------------------------------------------------------------
(* EventsRepository.insertEvents, all rows or none.                        *)

\* What ingest() does when insertEvents returns.  A valid batch counts as one
\* event: its rows are stored together.
InsertReturns(r) ==
  /\ IF batch[r] \in Valid THEN Count("events_stored") ELSE UNCHANGED metrics
  /\ IF claimed[r] THEN Goto(r, "mark") /\ UNCHANGED response
                   ELSE Respond(r, "stored")

\* Mutant: without the controller's catch, the error leaves as a 500.
InsertThrows_Uncaught(r) ==
  /\ Count("db_failures")
  /\ IF claimed[r] THEN Goto(r, "release") /\ UNCHANGED response
                   ELSE Respond(r, "500")

\* Mutant: the failure is counted only where there is a key to release.
InsertThrows_UncountedUnclaimed(r) ==
  IF claimed[r] THEN /\ Count("db_failures")
                     /\ Goto(r, "release")
                     /\ UNCHANGED response
                ELSE Respond(r, "503") /\ UNCHANGED metrics

\* What ingest() does when insertEvents throws.
InsertThrows(r) ==
  /\ Count("db_failures")
  /\ IF claimed[r] THEN Goto(r, "release") /\ UNCHANGED response
                   ELSE Respond(r, "503")

\* No row is valid: insertEvents returns 0 without a connection.
InsertNothing(r) ==
  /\ pc[r] = "insert"
  /\ batch[r] \notin Valid
  /\ InsertReturns(r)
  /\ UNCHANGED <<batch, keyed, claimed, redis, client, database, restarts,
                 fault>>

\* pool.connect(), BEGIN or the INSERT of a chunk fails.  ROLLBACK, or the
\* loss of the connection, undoes an open transaction.
InsertFails(r) ==
  /\ pc[r] \in {"insert", "chunks"}
  /\ batch[r] \in Valid
  /\ txn' = [txn EXCEPT ![r] = IF @ = "open" THEN "aborted" ELSE @]
  /\ InsertThrows(r)
  /\ UNCHANGED <<batch, keyed, claimed, redis, client, staged, rows, restarts,
                 fault>>

\* One chunk: the INSERT is its own transaction.
SendInsert(r) ==
  /\ pc[r] = "insert"
  /\ batch[r] \in Valid \ Large
  /\ txn' = [txn EXCEPT ![r] = "running"]
  /\ staged' = [staged EXCEPT ![r] = 1]
  /\ Goto(r, "await")
  /\ UNCHANGED <<batch, keyed, claimed, response, redis, client, rows, metrics,
                 restarts, fault>>

\* Several: BEGIN, ...
Begin(r) ==
  /\ pc[r] = "insert"
  /\ batch[r] \in Large
  /\ txn' = [txn EXCEPT ![r] = "open"]
  /\ Goto(r, "chunks")
  /\ UNCHANGED <<batch, keyed, claimed, response, redis, client, staged, rows,
                 metrics, restarts, fault>>

\* Mutant: without BEGIN every chunk commits by itself.
InsertChunk_Autocommit(r) ==
  /\ pc[r] = "chunks"
  /\ staged[r] < Chunks(batch[r])
  /\ staged' = [staged EXCEPT ![r] = @ + 1]
  /\ rows' = [rows EXCEPT ![batch[r]][staged[r] + 1] = @ + 1]
  /\ UNCHANGED <<request, redis, client, txn, metrics, restarts, fault>>

\* ... an INSERT for each chunk in turn, ...
InsertChunk(r) ==
  /\ pc[r] = "chunks"
  /\ staged[r] < Chunks(batch[r])
  /\ staged' = [staged EXCEPT ![r] = @ + 1]
  /\ UNCHANGED <<request, redis, client, txn, rows, metrics, restarts, fault>>

\* ... and COMMIT.
SendCommit(r) ==
  /\ pc[r] = "chunks"
  /\ staged[r] = Chunks(batch[r])
  /\ txn' = [txn EXCEPT ![r] = "running"]
  /\ Goto(r, "await")
  /\ UNCHANGED <<batch, keyed, claimed, response, redis, client, staged, rows,
                 metrics, restarts, fault>>

\* What a committed transaction leaves in the table.
Store(b, n) ==
  rows' = [rows EXCEPT ![b] = [c \in ChunkIds |->
                                 IF c <= n THEN @[c] + 1 ELSE @[c]]]

\* PostgreSQL, external.  The statement that commits finishes even if its
\* client has gone away.
DbCommit(r) ==
  /\ txn[r] = "running"
  /\ txn' = [txn EXCEPT ![r] = "committed"]
  /\ Store(batch[r], staged[r])
  /\ UNCHANGED <<request, redis, client, staged, metrics, restarts, fault>>

DbAbort(r) ==
  /\ txn[r] = "running"
  /\ txn' = [txn EXCEPT ![r] = "aborted"]
  /\ UNCHANGED <<request, redis, client, staged, rows, metrics, restarts,
                 fault>>

ReplyCommitted(r) ==
  /\ pc[r] = "await"
  /\ txn[r] = "committed"
  /\ InsertReturns(r)
  /\ UNCHANGED <<batch, keyed, claimed, redis, client, database, restarts,
                 fault>>

ReplyAborted(r) ==
  /\ pc[r] = "await"
  /\ txn[r] = "aborted"
  /\ InsertThrows(r)
  /\ UNCHANGED <<batch, keyed, claimed, redis, client, database, restarts,
                 fault>>

\* The connection breaks before the reply: the query rejects like any other
\* failure, and the best-effort ROLLBACK has no connection to run on.
ReplyLost(r) ==
  /\ pc[r] = "await"
  /\ txn[r] \in {"running", "committed"}
  /\ InsertThrows(r)
  /\ Blame(batch[r], "reply_lost")
  /\ UNCHANGED <<batch, keyed, claimed, redis, client, database, restarts>>

-----------------------------------------------------------------------------
(* markCommitted and release: compare-and-swap on the token, one Lua       *)
(* script each, and neither ever throws.                                   *)

COMMIT_IF_OWNER(r) ==
  redis' = IF redis[batch[r]] = r
           THEN [redis EXCEPT ![batch[r]] = Committed]
           ELSE redis

\* Mutant: a plain DEL.
RELEASE_IF_OWNER_Del(r) ==
  redis' = [redis EXCEPT ![batch[r]] = Absent]

RELEASE_IF_OWNER(r) ==
  redis' = IF redis[batch[r]] = r
           THEN [redis EXCEPT ![batch[r]] = Absent]
           ELSE redis

MarkCommitted(r) ==
  /\ pc[r] = "mark"
  /\ client = "ready"
  /\ COMMIT_IF_OWNER(r)
  /\ Respond(r, "stored")
  /\ UNCHANGED <<batch, keyed, claimed, client, database, metrics, restarts,
                 fault>>

\* Mutant: markCommitted throws, into the catch block of ingest().
MarkFails_Throws(r) ==
  /\ pc[r] = "mark"
  /\ Count("db_failures")
  /\ Blame(batch[r], "redis")
  /\ Goto(r, "release")
  /\ UNCHANGED <<batch, keyed, claimed, response, redis, client, database,
                 restarts>>

\* The client is not ready, or the script's outcome never came back.
MarkFails(r) ==
  /\ pc[r] = "mark"
  /\ UNCHANGED redis \/ (client = "ready" /\ COMMIT_IF_OWNER(r))
  /\ Count("redis_unavailable")
  /\ Blame(batch[r], "redis")
  /\ Respond(r, "stored")
  /\ UNCHANGED <<batch, keyed, claimed, client, database, restarts>>

Release(r) ==
  /\ pc[r] = "release"
  /\ client = "ready"
  /\ RELEASE_IF_OWNER(r)
  /\ Respond(r, "503")
  /\ UNCHANGED <<batch, keyed, claimed, client, database, metrics, restarts,
                 fault>>

\* Mutant: the command is queued until the client is connected again.
ReleaseFails_Queued(r) ==
  /\ pc[r] = "release"
  /\ client = "ready"
  /\ Respond(r, "503")
  /\ UNCHANGED <<batch, keyed, claimed, redis, client, database, metrics,
                 restarts, fault>>

\* Swallowed: the lease is left to expire.
ReleaseFails(r) ==
  /\ pc[r] = "release"
  /\ Respond(r, "503")
  /\ UNCHANGED <<batch, keyed, claimed, redis, client, database, metrics,
                 restarts, fault>>

-----------------------------------------------------------------------------
(* Redis, the client's connection, and the process.                        *)

\* The awaits of a request that has its claim, or goes without one.
Working == {"insert", "chunks", "await", "mark", "release"}

\* The lease runs out.  `lease' is blamed when the holder was still at work.
LeaseExpires(b) ==
  /\ redis[b] \in Requests
  /\ redis' = [redis EXCEPT ![b] = Absent]
  /\ IF pc[redis[b]] \in Working
     THEN Blame(b, "lease") ELSE UNCHANGED fault
  /\ UNCHANGED <<request, client, database, metrics, restarts>>

\* The deduplication window of a committed key ends.
CommittedExpires(b) ==
  /\ redis[b] = Committed
  /\ redis' = [redis EXCEPT ![b] = Absent]
  /\ Blame(b, "window")
  /\ UNCHANGED <<request, client, database, metrics, restarts>>

\* The client's 'ready' event; it reconnects for ever.
ClientReady ==
  /\ client = "connecting"
  /\ client' = "ready"
  /\ UNCHANGED <<request, redis, database, metrics, restarts, fault>>

\* The client's 'error' event.
ClientError ==
  /\ client = "ready"
  /\ client' = "connecting"
  /\ UNCHANGED <<request, redis, database, metrics, restarts, fault>>

\* SIGTERM: the client is gone, requests in flight carry on without it.
OnModuleDestroy ==
  /\ restarts < MaxRestarts
  /\ client # "null"
  /\ client' = "null"
  /\ UNCHANGED <<request, redis, database, metrics, restarts, fault>>

InFlight == {r \in Requests : pc[r] \notin {"unsent", "done", "gone"}}

\* The process dies and is started again: the requests in flight are never
\* answered, the counters start from zero, Redis and PostgreSQL carry on.  A
\* transaction left open is rolled back with its connection.
Restart ==
  /\ restarts < MaxRestarts
  /\ restarts' = restarts + 1
  /\ pc' = [r \in Requests |-> IF pc[r] = "unsent" THEN "unsent" ELSE "gone"]
  /\ fault' = [b \in Batches |->
                 IF \E r \in InFlight : batch[r] = b
                 THEN fault[b] \cup {"crash"} ELSE fault[b]]
  /\ metrics' = ZeroMetrics
  /\ client' = "connecting"
  /\ txn' = [r \in Requests |-> IF txn[r] = "open" THEN "aborted" ELSE txn[r]]
  /\ UNCHANGED <<batch, keyed, claimed, response, redis, staged, rows>>

\* Every request has been dealt with and nothing is left to expire.
Idle ==
  /\ \A r \in Requests : pc[r] \in {"done", "gone"} /\ txn[r] # "running"
  /\ UNCHANGED vars

-----------------------------------------------------------------------------

ClaimStep(r) ==
  \/ ClaimFails(r) \/ ClaimReplyLost(r) \/ ClaimGranted(r)
  \/ ClaimCommitted(r) \/ ClaimInFlight(r)

InsertStep(r) ==
  \/ InsertNothing(r) \/ InsertFails(r) \/ SendInsert(r)
  \/ Begin(r) \/ InsertChunk(r) \/ SendCommit(r)
  \/ ReplyCommitted(r) \/ ReplyAborted(r) \/ ReplyLost(r)

FinishStep(r) ==
  MarkCommitted(r) \/ MarkFails(r) \/ Release(r) \/ ReleaseFails(r)

DbStep(r) == DbCommit(r) \/ DbAbort(r)

RequestStep(r) == ClaimStep(r) \/ InsertStep(r) \/ FinishStep(r) \/ DbStep(r)

RedisStep ==
  \/ \E b \in Batches : LeaseExpires(b) \/ CommittedExpires(b)
  \/ ClientReady \/ ClientError \/ OnModuleDestroy

Next ==
  \/ \E r \in Requests : RejectBody(r) \/ Arrive(r) \/ RequestStep(r)
  \/ RedisStep
  \/ Restart
  \/ Idle

\* The event loop runs every continuation whose await has settled; a Redis
\* command settles (disableOfflineQueue makes it fail rather than queue) and
\* PostgreSQL finishes the statements it is running.
Fairness ==
  \A r \in Requests :
    /\ WF_vars(ClaimStep(r))
    /\ WF_vars(InsertStep(r))
    /\ WF_vars(FinishStep(r))
    /\ WF_vars(DbStep(r))

Spec == Init /\ [][Next]_vars /\ Fairness

-----------------------------------------------------------------------------
(* Properties.                                                             *)

Pc == Working \cup {"unsent", "claim", "done", "gone"}
Faults == {"no_key", "redis", "reply_lost", "lease", "window", "crash"}

\* Every variable has its type.
TypeOK ==
  /\ pc \in [Requests -> Pc]
  /\ batch \in [Requests -> Batches \cup {None}]
  /\ keyed \in [Requests -> BOOLEAN]
  /\ claimed \in [Requests -> BOOLEAN]
  /\ response \in [Requests -> {"stored", "duplicate", "503", "400", None}]
  /\ redis \in [Batches -> Requests \cup {Absent, Committed}]
  /\ client \in {"null", "connecting", "ready"}
  /\ txn \in [Requests -> {"none", "open", "running", "committed", "aborted"}]
  /\ staged \in [Requests -> 0..LargeChunks]
  /\ rows \in [Batches -> [ChunkIds -> Nat]]
  /\ metrics \in [Counters -> Nat]
  /\ restarts \in 0..MaxRestarts
  /\ fault \in [Batches -> SUBSET Faults]

\* Every row of the batch is in the database.
Stored(b) == \A c \in 1..Chunks(b) : rows[b][c] > 0

\* insertEvents "writes every row, or none": whatever fails between BEGIN and
\* COMMIT, no chunk of a batch is stored more often than another.
AllOrNothing ==
  \A b \in Batches : \A c, d \in 1..Chunks(b) : rows[b][c] = rows[b][d]

\* Every 2xx answer means the batch's rows are in the database, the answer
\* "duplicate":true included: the sink forgets the batch on it.
AcknowledgedIsStored ==
  \A r \in Requests :
    response[r] \in {"stored", "duplicate"} /\ batch[r] \in Valid
      => Stored(batch[r])

\* With its key and with none of the faults the code is built to survive, a
\* batch is stored at most once however its attempts overlap: Redis commands
\* succeed, no lease expires under a working holder, the deduplication window
\* has not ended, no database reply is lost and the process does not die.
StoredOnceWithoutFault ==
  \A b \in Batches, c \in ChunkIds : rows[b][c] > 1 => fault[b] # {}

\* A lease ends by expiry or by a step of the request that owns it: an attempt
\* that lost its lease neither deletes nor promotes its successor's.
LeaseEndedByOwner ==
  [][\A b \in Batches :
       redis[b] \in Requests /\ redis'[b] # redis[b]
         => pc' = pc \/ pc'[redis[b]] # pc[redis[b]]]_vars

\* The requests received and neither answered nor about to be.
Undecided ==
  {r \in Requests : pc[r] \in {"claim", "insert", "chunks", "await"}}

\* The requests whose insert returned.
ReportedStored ==
  {r \in Requests :
     pc[r] = "mark" \/ (pc[r] = "done" /\ response[r] = "stored")}

\* The counters account for every batch of this process's life exactly once:
\* each one received is still undecided, or suppressed as a duplicate, or
\* refused as in flight, or failed, or reported as stored; and events_stored
\* counts the batches with rows that were reported as stored.
CountersAddUp ==
  /\ metrics["batches_received"]
       = metrics["batches_duplicate_suppressed"]
           + metrics["batches_in_flight_rejected"] + metrics["db_failures"]
           + Cardinality(ReportedStored) + Cardinality(Undecided)
  /\ metrics["events_stored"]
       = Cardinality({r \in ReportedStored : batch[r] \in Valid})

\* Every request the process keeps is answered.
EveryRequestAnswered ==
  \A r \in Requests :
    (pc[r] = "claim" \/ pc[r] = "insert") ~> (pc[r] \in {"done", "gone"})

\* README.md: "Replaying a batch with the same `Idempotency-Key` stores it
\* once", and the catch block of ingest(): "the key is only given back once
\* the insert has definitively failed".  Then a lost database reply alone,
\* with Redis healthy and no expiry, would not store a batch twice.
ReplayStoresOnce ==
  \A b \in Batches, c \in ChunkIds :
    rows[b][c] > 1 => fault[b] \ {"reply_lost"} # {}
=============================================================================
