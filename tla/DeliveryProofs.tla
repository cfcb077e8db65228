--------------------------- MODULE DeliveryProofs ---------------------------
(***************************************************************************)
(* Proofs about Delivery for any number of batches, producers, sink        *)
(* threads, retries and restarts.  First, how the records of the sink and  *)
(* of the backend match, from what each side offers the other; then, that  *)
(* each side offers it, because every step of the whole is a step of that  *)
(* side's own module or leaves it alone.                                   *)
(***************************************************************************)
EXTENDS Delivery, FiniteSetTheorems, TLAPS

-----------------------------------------------------------------------------
(* Counting.                                                               *)

\* The keys the sink gives its batches are numbers.
LEMMA KeysNatural == Keys \subseteq Nat
BY DeliveryAssumption DEF Keys

\* The sink makes finitely many attempts.
LEMMA RequestsFinite == IsFiniteSet(Requests) /\ IsFiniteSet(Keys)
<1>1. IsFiniteSet(Keys) /\ IsFiniteSet(0..MaxRetries)
  BY DeliveryAssumption, FS_Interval DEF Keys
<1>. QED
  BY <1>1, FS_Product, Zenon DEF Requests

\* Two sets with nothing in common count separately, ...
LEMMA CountApart ==
  ASSUME NEW S, NEW T, IsFiniteSet(S), IsFiniteSet(T), S \cap T = {}
  PROVE  /\ Cardinality(S) \in Nat /\ Cardinality(T) \in Nat
         /\ Cardinality(S \cup T) = Cardinality(S) + Cardinality(T)
<1>1. Cardinality(S) \in Nat /\ Cardinality(T) \in Nat
  BY FS_CardinalityType
<1>2. Cardinality(S \cup T)
        = Cardinality(S) + Cardinality(T) - Cardinality(S \cap T)
  BY FS_Union
<1>. QED
  BY <1>1, <1>2, FS_EmptySet

\* ... and so do two sets of keys below n, which are at most n together.
LEMMA KeysApart ==
  ASSUME NEW n \in Nat, NEW S, NEW T, S \cap T = {},
         S \subseteq 0..(n - 1), T \subseteq 0..(n - 1)
  PROVE  /\ Cardinality(S) \in Nat /\ Cardinality(T) \in Nat
         /\ Cardinality(S) + Cardinality(T) <= n
<1>1. IsFiniteSet(0..(n - 1)) /\ Cardinality(0..(n - 1)) = n
  BY FS_Interval
<1>2. IsFiniteSet(S) /\ IsFiniteSet(T)
  BY <1>1, FS_Subset, Zenon
<1>3. Cardinality(S \cup T) <= n
  BY <1>1, FS_Subset, Zenon
<1>. QED
  BY <1>2, <1>3, CountApart, Zenon

-----------------------------------------------------------------------------
(* What each side offers.                                                  *)

\* The batches that wait to be sent, and those that have left the sink.
Waits(k) == \/ \E p \in Producers : minted[p] = k
            \/ \E i \in 1..Len(items_) : items_[i] = k

Gone == {k \in Nat : /\ k < key_counter_
                     /\ ~Waits(k)
                     /\ \A t \in SinkThreads : carried[t] # k}

\* The statements of run() up to the response of the current attempt.
Trying == {"check", "connect", "exchange", "read"}

\* The sink has a batch in one place, and accounts for every key.
SinkFacts ==
  /\ key_counter_ \in 0..MaxBatches
  /\ thread \in [SinkThreads -> Sink!ThreadState]
  /\ attempt \in [SinkThreads -> 0..MaxRetries]
  /\ \A t \in SinkThreads :
       /\ carried[t] # None =>
            /\ carried[t] \in Keys
            /\ carried[t] < key_counter_
            /\ ~Waits(carried[t])
            /\ \A u \in SinkThreads : carried[u] = carried[t] => u = t
       /\ thread[t] \in {"read", "delivered"} => carried[t] # None
       /\ thread[t] = "pop" => carried[t] = None
  /\ stats.sent \in Nat
  /\ stats.dropped_outbound \in Nat
  /\ stats.dropped_exhausted \in Nat
  /\ Unfinished \in Nat
  /\ key_counter_ = stats.sent + stats.dropped_outbound
                      + stats.dropped_exhausted + Unfinished

\* Its batches move on: none returns to the queue, and a sink thread that takes
\* one up has it from there.
KeysMoveOn ==
  /\ key_counter_' >= key_counter_
  /\ \A k \in Nat : k < key_counter_ /\ Waits(k)' => Waits(k)
  /\ \A t \in SinkThreads :
       \/ carried'[t] \in {carried[t], None}
       \/ thread[t] = "pop" /\ thread'[t] = "check" /\ Waits(carried'[t])

\* A batch that is recorded as sent leaves the sink.
Recorded(t) ==
  /\ thread[t] = "delivered"
  /\ thread'[t] = "pop"
  /\ \A u \in SinkThreads \ {t} : thread'[u] = thread[u]
  /\ stats'.sent = stats.sent + 1
  /\ carried[t] \in Gone' \ Gone

\* When no answer is read a sink thread goes on with its attempt, begins the
\* next or finishes with its batch.
SendMovesOn(t) ==
  /\ \/ carried'[t] = None
     \/ thread[t] = "pop"
     \/ /\ carried'[t] = carried[t]
        /\ \/ /\ attempt'[t] = attempt[t]
              /\ thread'[t] \in Trying => thread[t] \in Trying
           \/ attempt'[t] = attempt[t] + 1
  /\ \/ thread'[t] = "delivered" <=> thread[t] = "delivered"
     \/ Recorded(t)

SinkMoves ==
  /\ KeysMoveOn
  /\ Gone \subseteq Gone'
  /\ \/ stats'.sent = stats.sent
     \/ \E t \in SinkThreads : Recorded(t)
  /\ \/ heard' = heard /\ \A t \in SinkThreads : SendMovesOn(t)
     \/ \E t \in SinkThreads : Answer(t)

\* The requests the backend's process has answered as duplicates.
Duplicates ==
  {r \in Requests : pc[r] = "done" /\ response[r] = "duplicate"}

\* The backend answers what is done, stores what it acknowledges and counts
\* what it receives.
BackendFacts ==
  /\ \A r \in Requests :
       /\ pc[r] = "done" => response[r] # None
       /\ response[r] # None => pc[r] \in {"done", "gone"}
       /\ restarts = 0 => pc[r] # "gone"
       /\ response[r] \in {"stored", "duplicate"} /\ batch[r] \in Valid
            => Backend!Stored(batch[r])
  /\ metrics["batches_in_flight_rejected"] \in Nat
  /\ metrics["db_failures"] \in Nat
  /\ metrics["batches_received"]
       = Cardinality(Duplicates) + metrics["batches_in_flight_rejected"]
           + metrics["db_failures"] + Cardinality(Backend!ReportedStored)
           + Cardinality(Backend!Undecided)

\* It keeps its answers, its rows and the batch a request arrived with.
BackendMoves ==
  /\ \A r \in Requests :
       /\ response[r] # None => response'[r] = response[r]
       /\ pc'[r] # "unsent"
            => batch'[r] = IF pc[r] = "unsent" THEN r[1] ELSE batch[r]
  /\ \A k \in Valid : Backend!Stored(k) => Backend!Stored(k)'

-----------------------------------------------------------------------------
(* How the two sides' records match.                                       *)

\* A request that has arrived has the batch it is an attempt at.
Bodies == \A r \in Requests : pc[r] # "unsent" => batch[r] = r[1]

\* The sink has read answers that were given, and each to an attempt that is
\* over: its batch is in no queue, and whoever still sends it is further on.
HeardOver ==
  \A r \in heard :
    /\ r \in Requests
    /\ response[r] # None
    /\ r[1] < key_counter_
    /\ ~Waits(r[1])
    /\ \A t \in SinkThreads : carried[t] = r[1] =>
         /\ r[2] <= attempt[t]
         /\ thread[t] \in Trying => r[2] < attempt[t]

\* A batch that a sink thread takes for delivered is in the database.
DeliveredStored ==
  \A t \in Delivered : carried[t] \in Valid => Backend!Stored(carried[t])

\* The batches the sink is done with that are in the database, or have nothing
\* to store, are at least as many as it counted as sent.
Landed == {k \in Gone : k \in Valid => Backend!Stored(k)}

SentLanded == stats.sent <= Cardinality(Landed)

\* The 2xx answers the sink has read are the batches it counted as sent or is
\* about to.
Accepted == {r \in heard : response[r] \in {"stored", "duplicate"}}

AcceptedCounted ==
  Cardinality(Accepted) = stats.sent + Cardinality(Delivered)

Links ==
  /\ Bodies
  /\ HeardOver
  /\ DeliveredStored
  /\ SentLanded
  /\ AcceptedCounted

\* What reading an answer does to the sink.
LEMMA AnswerEffect ==
  ASSUME SinkFacts, NEW t \in SinkThreads, Answer(t)
  PROVE  /\ UNCHANGED <<backend, carried, attempt, stats, key_counter_, minted,
                        items_>>
         /\ thread[t] = "read"
         /\ Request(t) \in Requests
         /\ response[Request(t)] # None
         /\ heard' = heard \cup {Request(t)}
         /\ \A u \in SinkThreads \ {t} : thread'[u] = thread[u]
         /\ IF response[Request(t)] \in {"stored", "duplicate"}
            THEN thread'[t] = "delivered"
            ELSE thread'[t] \in {"failed", "backoff"}
<1>1. Request(t) \in Requests
  BY DEF SinkFacts, Answer, Request, Requests
<1>2. /\ UNCHANGED <<carried, attempt, stats, key_counter_, minted, items_>>
      /\ \A u \in SinkThreads \ {t} : thread'[u] = thread[u]
  BY DEF SinkFacts, Answer, Sink!ReadResponse, Sink!AfterRetryable,
     Sink!outbound, Sink!intake
<1>3. Sink!AfterRetryable(t) => thread'[t] \in {"failed", "backoff"}
  BY DEF SinkFacts, Sink!AfterRetryable
<1>. QED
  BY <1>1, <1>2, <1>3 DEF Answer

\* The sink goes on to other attempts and other batches, never back.
LEMMA HeardStep ==
  ASSUME SinkFacts, SinkFacts', SinkMoves, BackendMoves, HeardOver
  PROVE  HeardOver'
<1>. DEFINE Over(r) ==
              /\ r[1] < key_counter_
              /\ ~Waits(r[1])
              /\ \A t \in SinkThreads : carried[t] = r[1] =>
                   /\ r[2] <= attempt[t]
                   /\ thread[t] \in Trying => r[2] < attempt[t]
<1>1. \A r \in heard : /\ r \in Requests /\ Over(r)
                       /\ r[1] \in Nat /\ r[2] \in Nat /\ r[1] # None
                       /\ response[r] # None /\ response'[r] = response[r]
  BY DeliveryAssumption DEF BackendMoves, HeardOver, Requests, Keys
<1>2. ASSUME \A t \in SinkThreads : SendMovesOn(t), NEW r \in heard
      PROVE  Over(r)'
  <2>1. r[1] < key_counter_' /\ ~Waits(r[1])'
    <3>1. key_counter_ \in Nat /\ key_counter_' \in Nat
      BY DeliveryAssumption DEF SinkFacts
    <3>. QED
      BY <1>1, <3>1 DEF SinkMoves, KeysMoveOn, Waits
  <2>2. ASSUME NEW t \in SinkThreads, carried'[t] = r[1]
        PROVE  /\ r[2] <= attempt'[t]
               /\ thread'[t] \in Trying => r[2] < attempt'[t]
    <3>1. carried[t] = r[1] /\ thread[t] # "pop" /\ attempt[t] \in Nat
      BY <1>1, <2>2, DeliveryAssumption DEF SinkMoves, KeysMoveOn, SinkFacts
    <3>. QED
      BY <1>1, <1>2, <2>2, <3>1, SMTT(30) DEF SendMovesOn
  <2>. QED
    BY <2>1, <2>2
<1>3. ASSUME NEW t \in SinkThreads, Answer(t),
             NEW r \in heard \cup {Request(t)}
      PROVE  r \in Requests /\ response'[r] # None /\ Over(r)'
  <2>1. /\ UNCHANGED <<response, carried, attempt, key_counter_>>
        /\ Waits(r[1])' <=> Waits(r[1])
        /\ Request(t) \in Requests
        /\ response[Request(t)] # None
        /\ \A u \in SinkThreads \ {t} : thread'[u] = thread[u]
        /\ thread[t] = "read"
        /\ thread'[t] \in {"delivered", "failed", "backoff"}
    BY <1>3, AnswerEffect DEF backend, Waits
  <2>2. CASE r \in heard
    BY <1>1, <2>1, <2>2, SMTT(30) DEF Trying
  <2>3. CASE r = Request(t)
    BY <2>1, <2>3, DeliveryAssumption DEF Request, SinkFacts, Trying
  <2>. QED
    BY <1>3, <2>2, <2>3
<1>4. CASE heard' = heard /\ \A t \in SinkThreads : SendMovesOn(t)
  BY <1>1, <1>2, <1>4 DEF HeardOver
<1>5. ASSUME NEW t \in SinkThreads, Answer(t) PROVE HeardOver'
  BY <1>3, <1>5, AnswerEffect DEF HeardOver
<1>. QED
  BY <1>4, <1>5 DEF SinkMoves

\* The sink takes a batch for delivered on a 2xx answer to its own request.
LEMMA DeliveredStep ==
  ASSUME SinkFacts, SinkFacts', SinkMoves, BackendFacts, BackendMoves, Bodies,
         DeliveredStored
  PROVE  DeliveredStored'
<1>1. ASSUME NEW t \in SinkThreads, thread[t] = "delivered",
             carried'[t] = carried[t], carried'[t] \in Valid
      PROVE  Backend!Stored(carried[t])'
  <2>1. PICK k : k = carried[t]
    OBVIOUS
  <2>2. k \in Valid /\ Backend!Stored(k)
    BY <1>1, <2>1 DEF DeliveredStored, Delivered
  <2>3. Backend!Stored(k)'
    BY <2>2 DEF BackendMoves
  <2>. QED
    BY <1>1, <2>1, <2>3 DEF Backend!Stored, Backend!Chunks
<1>2. CASE \A t \in SinkThreads : SendMovesOn(t)
  <2>1. ASSUME NEW t \in SinkThreads, thread'[t] = "delivered"
        PROVE  thread[t] = "delivered" /\ carried'[t] = carried[t]
    BY <1>2, <2>1 DEF SinkFacts, SinkMoves, KeysMoveOn, SendMovesOn, Recorded
  <2>. QED
    BY <1>1, <2>1, SMTT(30) DEF DeliveredStored, Delivered
<1>3. ASSUME NEW t \in SinkThreads, Answer(t) PROVE DeliveredStored'
  <2>1. /\ UNCHANGED <<rows, carried>>
        /\ Request(t) \in Requests
        /\ response[Request(t)] # None
        /\ \A u \in SinkThreads \ {t} : thread'[u] = thread[u]
        /\ thread'[t] = "delivered"
             => response[Request(t)] \in {"stored", "duplicate"}
    BY <1>3, AnswerEffect DEF backend
  <2>2. batch[Request(t)] = carried[t]
    BY <2>1 DEF Bodies, BackendFacts, Request
  <2>3. thread'[t] = "delivered" /\ carried[t] \in Valid
          => Backend!Stored(carried[t])
    BY <2>1, <2>2 DEF BackendFacts
  <2>4. \A k : Backend!Stored(k)' <=> Backend!Stored(k)
    BY <2>1 DEF Backend!Stored, Backend!Chunks
  <2>. QED
    BY <2>1, <2>3, <2>4 DEF DeliveredStored, Delivered
<1>. QED
  BY <1>2, <1>3 DEF SinkMoves

\* What the sink has counted as sent has landed and stays.
LEMMA LandedStep ==
  ASSUME SinkFacts, SinkFacts', SinkMoves, BackendMoves, DeliveredStored,
         SentLanded
  PROVE  SentLanded'
<1>1. Landed \subseteq Landed'
  BY DEF SinkMoves, BackendMoves, Landed
<1>2. Landed \subseteq Keys /\ Landed' \subseteq Keys
  BY DeliveryAssumption DEF SinkFacts, Landed, Gone, Keys
<1>3. /\ IsFiniteSet(Landed) /\ Cardinality(Landed) \in Nat
      /\ IsFiniteSet(Landed') /\ Cardinality(Landed') \in Nat
      /\ stats.sent \in Nat
  BY <1>2, RequestsFinite, FS_Subset, FS_CardinalityType, Zenon DEF SinkFacts
<1>4. CASE stats'.sent = stats.sent
  BY <1>1, <1>3, <1>4, FS_Subset DEF SentLanded
<1>5. ASSUME NEW t \in SinkThreads, Recorded(t) PROVE SentLanded'
  <2>1. PICK k : k = carried[t]
    OBVIOUS
  <2>2. /\ k \in Gone' \ Gone
        /\ k \in Valid => Backend!Stored(k)
    BY <1>5, <2>1, SMTT(30) DEF Recorded, DeliveredStored, Delivered
  <2>3. k \notin Landed /\ Landed \cup {k} \subseteq Landed'
    BY <1>1, <2>2 DEF Landed, BackendMoves
  <2>4. /\ IsFiniteSet(Landed \cup {k})
        /\ Cardinality(Landed \cup {k}) = Cardinality(Landed) + 1
    BY <1>3, <2>3, FS_AddElement
  <2>5. Cardinality(Landed) + 1 <= Cardinality(Landed')
    BY <1>3, <2>3, <2>4, FS_Subset
  <2>. QED
    BY <1>3, <1>5, <2>5 DEF SentLanded, Recorded
<1>. QED
  BY <1>4, <1>5 DEF SinkMoves

\* An answer is read once, and counted when its batch is recorded as sent.
LEMMA AcceptedStep ==
  ASSUME SinkFacts, SinkMoves, BackendMoves, HeardOver, AcceptedCounted
  PROVE  AcceptedCounted'
<1>1. /\ IsFiniteSet(Accepted) /\ IsFiniteSet(Delivered)
      /\ Cardinality(Accepted) \in Nat /\ Cardinality(Delivered) \in Nat
      /\ stats.sent \in Nat
  <2>1. Accepted \subseteq Requests /\ Delivered \subseteq SinkThreads
    BY DEF HeardOver, Accepted, Delivered
  <2>. QED
    BY <2>1, RequestsFinite, DeliveryAssumption, FS_Subset,
       FS_CardinalityType, SMTT(30) DEF SinkFacts
<1>2. CASE heard' = heard /\ \A t \in SinkThreads : SendMovesOn(t)
  <2>1. Accepted' = Accepted
    BY <1>2 DEF BackendMoves, HeardOver, Accepted
  <2>2. CASE \A t \in SinkThreads : ~Recorded(t)
    <3>1. Delivered' = Delivered /\ stats'.sent = stats.sent
      BY <1>2, <2>2 DEF SinkMoves, SendMovesOn, Delivered
    <3>. QED
      BY <2>1, <3>1, SMTT(30) DEF AcceptedCounted
  <2>3. ASSUME NEW t \in SinkThreads, Recorded(t) PROVE AcceptedCounted'
    <3>1. /\ t \in Delivered /\ Delivered' = Delivered \ {t}
          /\ stats'.sent = stats.sent + 1
      BY <2>3 DEF Recorded, Delivered
    <3>2. Cardinality(Delivered') = Cardinality(Delivered) - 1
      BY <1>1, <3>1, FS_RemoveElement, Zenon
    <3>. QED
      BY <1>1, <2>1, <3>1, <3>2, SMTT(30) DEF AcceptedCounted
  <2>. QED
    BY <2>2, <2>3
<1>3. ASSUME NEW t \in SinkThreads, Answer(t) PROVE AcceptedCounted'
  <2>1. /\ UNCHANGED <<response, stats>>
        /\ thread[t] = "read"
        /\ heard' = heard \cup {Request(t)}
        /\ \A u \in SinkThreads \ {t} : thread'[u] = thread[u]
        /\ IF response[Request(t)] \in {"stored", "duplicate"}
           THEN thread'[t] = "delivered"
           ELSE thread'[t] \in {"failed", "backoff"}
    BY <1>3, AnswerEffect DEF backend
  <2>2. Request(t) \notin heard
    <3>1. attempt[t] \in Nat
      BY DeliveryAssumption DEF SinkFacts
    <3>. QED
      BY <2>1, <3>1 DEF HeardOver, Request, Trying
  <2>3. CASE response[Request(t)] \in {"stored", "duplicate"}
    <3>1. /\ Request(t) \notin Accepted
          /\ Accepted' = Accepted \cup {Request(t)}
          /\ t \notin Delivered /\ Delivered' = Delivered \cup {t}
      BY <2>1, <2>2, <2>3 DEF Accepted, Delivered
    <3>2. /\ Cardinality(Accepted') = Cardinality(Accepted) + 1
          /\ Cardinality(Delivered') = Cardinality(Delivered) + 1
      BY <1>1, <3>1, FS_AddElement, Zenon
    <3>. QED
      BY <1>1, <2>1, <3>2 DEF AcceptedCounted
  <2>4. CASE response[Request(t)] \notin {"stored", "duplicate"}
    <3>1. Accepted' = Accepted /\ Delivered' = Delivered
      BY <2>1, <2>4 DEF Accepted, Delivered
    <3>. QED
      BY <2>1, <3>1 DEF AcceptedCounted
  <2>. QED
    BY <2>3, <2>4
<1>. QED
  BY <1>2, <1>3 DEF SinkMoves

\* So whatever the two sides do, their records go on matching.
LEMMA LinksStep ==
  ASSUME SinkFacts, SinkFacts', SinkMoves, BackendFacts, BackendMoves, Links
  PROVE  Links'
<1>1. Bodies'
  BY DEF Links, Bodies, BackendMoves
<1>. QED
  BY <1>1, HeardStep, DeliveredStep, LandedStep, AcceptedStep, SMTT(30) DEF
     Links

\* Before the first batch they are empty.
LEMMA LinksInit == Init => Links
<1>. SUFFICES ASSUME Init PROVE Links
  OBVIOUS
<1>1. /\ Accepted = {} /\ Delivered = {} /\ Landed = {} /\ stats.sent = 0
  BY DEF Init, Accepted, Delivered, Landed, Sink!Init, Gone
<1>2. Bodies /\ HeardOver
  BY DEF Init, Bodies, HeardOver, Backend!Init
<1>. QED
  BY <1>1, <1>2, FS_EmptySet DEF Links, DeliveredStored, AcceptedCounted,
     SentLanded

\* The missing batches and those that landed are different keys, and the sink
\* accounts for the keys it has not counted as sent.
LEMMA MissingCounted ==
  ASSUME SinkFacts, SentLanded
  PROVE  NothingMissing
<1>. DEFINE Missing == {k \in Consumed \cap Valid : ~Backend!Stored(k)}
<1>1. key_counter_ \in Nat
  BY DeliveryAssumption DEF SinkFacts
<1>2. /\ Missing \cap Landed = {}
      /\ Missing \subseteq 0..(key_counter_ - 1)
      /\ Landed \subseteq 0..(key_counter_ - 1)
  BY <1>1, DeliveryAssumption DEF Consumed, Keys, Landed, Gone
<1>3. /\ Cardinality(Missing) \in Nat /\ Cardinality(Landed) \in Nat
      /\ Cardinality(Missing) + Cardinality(Landed) <= key_counter_
  BY <1>1, <1>2, KeysApart, Zenon
<1>4. Cardinality(Missing) <= stats.dropped_outbound
                                + stats.dropped_exhausted + Unfinished
  <2>. HIDE DEF Missing
  <2>. QED
    BY <1>1, <1>3 DEF SinkFacts, SentLanded
<1>. QED
  BY <1>4 DEF NothingMissing

\* The requests answered as duplicates or reported as stored are those whose
\* 2xx answer the sink has read and those whose answer it has not.
LEMMA ArrivalsCounted ==
  ASSUME SinkFacts, BackendFacts, HeardOver, AcceptedCounted
  PROVE  ArrivalIdentity
<1>. SUFFICES ASSUME restarts = 0
              PROVE  metrics["batches_received"]
                       = stats.sent + Cardinality(Delivered)
                           + metrics["db_failures"]
                           + metrics["batches_in_flight_rejected"]
                           + Cardinality(Unheard)
                           + Cardinality(Backend!Undecided)
  BY DEF ArrivalIdentity
<1>1. /\ Duplicates \cap Backend!ReportedStored = {}
      /\ Accepted \cap Unheard = {}
      /\ Duplicates \cup Backend!ReportedStored = Accepted \cup Unheard
  BY DeliveryAssumption DEF BackendFacts, HeardOver, Accepted, Unheard,
     Duplicates, Backend!ReportedStored
<1>2. /\ IsFiniteSet(Duplicates) /\ IsFiniteSet(Backend!ReportedStored)
      /\ IsFiniteSet(Accepted) /\ IsFiniteSet(Unheard)
      /\ IsFiniteSet(Delivered) /\ IsFiniteSet(Backend!Undecided)
  BY RequestsFinite, DeliveryAssumption, FS_Subset DEF HeardOver, Duplicates,
     Backend!ReportedStored, Accepted, Unheard, Delivered, Backend!Undecided
<1>3. /\ Cardinality(Duplicates) \in Nat
      /\ Cardinality(Backend!ReportedStored) \in Nat
      /\ Cardinality(Unheard) \in Nat
      /\ Cardinality(Duplicates) + Cardinality(Backend!ReportedStored)
           = stats.sent + Cardinality(Delivered) + Cardinality(Unheard)
  BY <1>1, <1>2, CountApart, ZenonT(30) DEF AcceptedCounted
<1>4. /\ Cardinality(Delivered) \in Nat
      /\ Cardinality(Backend!Undecided) \in Nat
  BY <1>2, FS_CardinalityType
<1>5. /\ metrics["batches_in_flight_rejected"] \in Nat
      /\ metrics["db_failures"] \in Nat
      /\ metrics["batches_received"]
           = Cardinality(Duplicates) + metrics["batches_in_flight_rejected"]
               + metrics["db_failures"] + Cardinality(Backend!ReportedStored)
               + Cardinality(Backend!Undecided)
  BY DEF BackendFacts
<1>6. stats.sent \in Nat
  BY DEF SinkFacts
<1>. DEFINE rest == metrics["batches_in_flight_rejected"]
                      + metrics["db_failures"] + Cardinality(Backend!Undecided)
<1>7. metrics["batches_received"]
        = (Cardinality(Duplicates) + Cardinality(Backend!ReportedStored))
            + rest
  BY <1>3, <1>4, <1>5
<1>8. metrics["batches_received"]
        = (stats.sent + Cardinality(Delivered) + Cardinality(Unheard)) + rest
  BY <1>3, <1>7, Zenon
<1>. QED
  BY <1>3, <1>4, <1>5, <1>6, <1>8

-----------------------------------------------------------------------------
(* The sink in the whole.                                                  *)

SinkProofs == INSTANCE HttpSinkProofs WITH batch <- carried

\* The assumptions of the sink hold, and it counts as the whole does.
LEMMA SinkConstants ==
  /\ SinkProofs!SinkAssumption
  /\ \A S : /\ Sink!Cardinality(S) = Cardinality(S)
            /\ SinkProofs!Cardinality(S) = Cardinality(S)
<1>1. \A S : SinkProofs!IsFiniteSet(S) <=> IsFiniteSet(S)
  BY DEF SinkProofs!IsFiniteSet, IsFiniteSet
<1>2. \A S : /\ Sink!Cardinality(S) = Cardinality(S)
             /\ SinkProofs!Cardinality(S) = Cardinality(S)
  BY Zenon DEF Sink!Cardinality, SinkProofs!Cardinality, Cardinality
<1>. QED
  BY <1>1, <1>2, DeliveryAssumption, ZenonT(30) DEF SinkProofs!SinkAssumption

\* The sink starts here as in HttpSink, ...
LEMMA SinkInit == Sink!Init => SinkProofs!Init
BY ZenonT(30) DEF Sink!Init, SinkProofs!Init, Sink!Q!QueueInit,
   SinkProofs!Q!QueueInit, Sink!Q!BackpressurePolicy,
   SinkProofs!Q!BackpressurePolicy, Sink!Q!Block, SinkProofs!Q!Block,
   Sink!Q!DropOldest, SinkProofs!Q!DropOldest, Sink!Q!DropNewest,
   SinkProofs!Q!DropNewest

\* ... a thread of it does by itself what it does there, ...
LEMMA LocalSteps ==
  ASSUME NEW t \in SinkThreads, Sink!LocalStep(t)
  PROVE  SinkProofs!LocalStep(t)
BY ZenonT(30) DEF Sink!LocalStep, SinkProofs!LocalStep, Sink!Pop,
   SinkProofs!Pop, Sink!PopSleep, SinkProofs!PopSleep, Sink!ThreadExit,
   SinkProofs!ThreadExit, Sink!DeadlineDrop, SinkProofs!DeadlineDrop,
   Sink!BeginSend, SinkProofs!BeginSend, Sink!Connect, SinkProofs!Connect,
   Sink!ConnectFails, SinkProofs!ConnectFails, Sink!ExchangeFails,
   SinkProofs!ExchangeFails, Sink!Retry, SinkProofs!Retry, Sink!RecordSent,
   SinkProofs!RecordSent, Sink!RecordDroppedExhausted,
   SinkProofs!RecordDroppedExhausted, Sink!Q!PopItem, SinkProofs!Q!PopItem,
   Sink!Q!PopWait, SinkProofs!Q!PopWait, Sink!Q!PopNullopt,
   SinkProofs!Q!PopNullopt, Sink!Q!Running, SinkProofs!Q!Running,
   Sink!PastDeadline, SinkProofs!PastDeadline, Sink!AfterRetryable,
   SinkProofs!AfterRetryable, Sink!DropConnection, SinkProofs!DropConnection,
   Sink!LoopAgain, SinkProofs!LoopAgain, Sink!outbound, SinkProofs!outbound,
   Sink!intake, SinkProofs!intake, Sink!connection, SinkProofs!connection,
   Sink!sending, SinkProofs!sending, Sink!stopping, SinkProofs!stopping

\* ... and with the backend, ...
LEMMA ThreadSteps ==
  ASSUME NEW t \in SinkThreads
  PROVE  /\ Sink!SpawnThread(t) => SinkProofs!SpawnThread(t)
         /\ Sink!Spurious(t) => SinkProofs!Spurious(t)
         /\ Sink!WriteRequest(t) => SinkProofs!WriteRequest(t)
         /\ Sink!ReadResponse(t) => SinkProofs!ReadResponse(t)
BY DEF Sink!SpawnThread, SinkProofs!SpawnThread, Sink!Spurious,
   SinkProofs!Spurious, Sink!WriteRequest, SinkProofs!WriteRequest,
   Sink!ReadResponse, SinkProofs!ReadResponse, Sink!Q!SpuriousWakeup,
   SinkProofs!Q!SpuriousWakeup, Sink!AfterRetryable, SinkProofs!AfterRetryable,
   Sink!DropConnection, SinkProofs!DropConnection, Sink!outbound,
   SinkProofs!outbound, Sink!intake, SinkProofs!intake, Sink!connection,
   SinkProofs!connection, Sink!sending, SinkProofs!sending, Sink!stopping,
   SinkProofs!stopping

\* ... and so do its constructor and its producers.
LEMMA IntakeSteps ==
  /\ Sink!Constructed => SinkProofs!Constructed
  /\ \A p \in Producers : Sink!ProducerStep(p) => SinkProofs!ProducerStep(p)
BY DEF Sink!Constructed, SinkProofs!Constructed, Sink!ProducerStep,
   SinkProofs!ProducerStep, Sink!NextIdempotencyKey,
   SinkProofs!NextIdempotencyKey, Sink!ConsumePush, SinkProofs!ConsumePush,
   Sink!RecordDroppedOutbound, SinkProofs!RecordDroppedOutbound,
   Sink!Q!PushAccepted, SinkProofs!Q!PushAccepted, Sink!Q!PushDroppedOldest,
   SinkProofs!Q!PushDroppedOldest, Sink!Q!PushRejected,
   SinkProofs!Q!PushRejected, Sink!Q!NotifyOne, SinkProofs!Q!NotifyOne,
   Sink!Q!DropOldest, SinkProofs!Q!DropOldest, Sink!Q!queueVars,
   SinkProofs!Q!queueVars, Sink!outbound, SinkProofs!outbound, Sink!intake,
   SinkProofs!intake, Sink!connection, SinkProofs!connection, Sink!sending,
   SinkProofs!sending, Sink!stopping, SinkProofs!stopping

\* What a step of the whole is to the sink.
LEMMA SinkSteps ==
  ASSUME [Next]_vars
  PROVE  \/ SinkProofs!Unanswered /\ heard' = heard
         \/ \E t \in SinkThreads : Answer(t) /\ SinkProofs!ReadResponse(t)
         \/ UNCHANGED <<sink, heard>>
<1>1. CASE \/ SinkStep(Sink!Constructed)
           \/ \E p \in Producers : SinkStep(Sink!ProducerStep(p))
  BY <1>1, IntakeSteps, ZenonT(30) DEF SinkStep, SinkProofs!Unanswered,
     SinkProofs!OwnerStep
<1>2. ASSUME NEW t \in SinkThreads,
             \/ SinkStep(Sink!SpawnThread(t)) \/ SinkStep(Sink!LocalStep(t))
             \/ SinkStep(Sink!Spurious(t)) \/ Post(t)
      PROVE  SinkProofs!Unanswered /\ heard' = heard
  BY <1>2, LocalSteps, ThreadSteps, ZenonT(30) DEF SinkStep, Post,
     SinkProofs!Unanswered, SinkProofs!OwnerStep
<1>3. ASSUME NEW t \in SinkThreads, Answer(t)
      PROVE  SinkProofs!ReadResponse(t)
  BY <1>3, ThreadSteps, ZenonT(30) DEF Answer
<1>4. CASE \/ \E r \in Requests : Reach(r) \/ Handle(r)
           \/ Redis \/ Crash \/ Finished \/ UNCHANGED vars
  BY <1>4, ZenonT(30) DEF Reach, Handle, Redis, Crash, Finished, vars, network
<1>. QED
  BY <1>1, <1>2, <1>3, <1>4, ZenonT(30) DEF Next

\* What its invariant offers.
LEMMA SinkGives == SinkProofs!Inv => SinkFacts
<1>. SUFFICES ASSUME SinkProofs!Inv PROVE SinkFacts
  OBVIOUS
<1>1. /\ SinkProofs!TypeOK /\ SinkProofs!ThreadShape
      /\ SinkProofs!KeysDistinct /\ SinkProofs!BatchAccounting
  BY ZenonT(30) DEF SinkProofs!Inv
<1>2. /\ key_counter_ \in 0..MaxBatches
      /\ thread \in [SinkThreads -> Sink!ThreadState]
      /\ attempt \in [SinkThreads -> 0..MaxRetries]
      /\ carried \in [SinkThreads -> Nat \cup {None}]
      /\ stats.sent \in Nat /\ stats.dropped_outbound \in Nat
      /\ stats.dropped_exhausted \in Nat
  BY <1>1, ZenonT(30) DEF SinkProofs!TypeOK, SinkProofs!Stats,
     SinkProofs!ThreadState, Sink!ThreadState
<1>3. ASSUME NEW t \in SinkThreads, carried[t] # None
      PROVE  /\ carried[t] \in Keys
             /\ carried[t] < key_counter_
             /\ ~Waits(carried[t])
             /\ \A u \in SinkThreads : carried[u] = carried[t] => u = t
  <2>1. carried[t] < key_counter_ /\ carried[t] \in Nat
    BY <1>1, <1>2, <1>3, ZenonT(30) DEF SinkProofs!KeysDistinct
  <2>2. carried[t] \in Keys
    BY <1>2, <2>1, DeliveryAssumption, SMTT(30) DEF Keys
  <2>. QED
    BY <1>1, <1>3, <2>1, <2>2, DeliveryAssumption, ZenonT(30) DEF
       SinkProofs!KeysDistinct, SinkProofs!KeyInOnePlace, Waits
<1>4. ASSUME NEW t \in SinkThreads
      PROVE  /\ thread[t] \in {"read", "delivered"} => carried[t] # None
             /\ thread[t] = "pop" => carried[t] = None
  BY <1>1, ZenonT(30) DEF SinkProofs!ThreadShape, SinkProofs!Holding
<1>5. /\ Len(items_) \in Nat
      /\ SinkProofs!Cardinality(SinkProofs!Sending) \in Nat
      /\ SinkProofs!Cardinality(SinkProofs!Consuming) \in Nat
  BY <1>1, SinkConstants, SinkProofs!BacklogType
<1>6. Unfinished = SinkProofs!Cardinality(SinkProofs!Consuming)
        + (Len(items_) + SinkProofs!Cardinality(SinkProofs!Sending))
  BY SinkConstants, ZenonT(30) DEF Unfinished, Sink!Backlog, Sink!Consuming,
     SinkProofs!Consuming, Sink!Sending, SinkProofs!Sending
<1>7. /\ Unfinished \in Nat
      /\ key_counter_ = stats.sent + stats.dropped_outbound
                          + stats.dropped_exhausted + Unfinished
  BY <1>1, <1>2, <1>5, <1>6, SMTT(30) DEF SinkProofs!BatchAccounting,
     SinkProofs!Counted
<1>. QED
  BY <1>2, <1>3, <1>4, <1>7 DEF SinkFacts

\* The sink keeps its invariant in the whole, and its batches move on.
LEMMA SinkKept ==
  ASSUME SinkProofs!Inv, [Next]_vars
  PROVE  SinkProofs!Inv' /\ SinkMoves
<1>. USE SinkConstants
<1>1. /\ [SinkProofs!Next]_(SinkProofs!vars)
      /\ UNCHANGED <<sink, heard>> => SinkProofs!Unanswered
  BY SinkSteps, ZenonT(30) DEF SinkProofs!Unanswered, SinkProofs!Next,
     SinkProofs!ThreadStep, sink, SinkProofs!vars, SinkProofs!outbound,
     SinkProofs!intake, SinkProofs!sending, SinkProofs!connection,
     SinkProofs!stopping
<1>2. /\ SinkProofs!TypeOK /\ SinkProofs!ThreadShape
      /\ SinkProofs!OwnerShape /\ SinkProofs!KeysDistinct
      /\ stats \in SinkProofs!Stats
      /\ thread \in [SinkThreads -> SinkProofs!ThreadState]
  BY DEF SinkProofs!Inv, SinkProofs!TypeOK
<1>3. SinkProofs!Inv'
  BY <1>1, SinkProofs!InvStep, ZenonT(30)
<1>4. KeysMoveOn
  BY <1>1, <1>2, SinkProofs!MoveStep, ZenonT(30) DEF SinkProofs!KeysMoveOn,
     SinkProofs!Waits, KeysMoveOn, Waits
<1>5. Gone = SinkProofs!Gone /\ Gone' = SinkProofs!Gone'
  BY ZenonT(30) DEF Gone, Waits, SinkProofs!Gone, SinkProofs!Waits
<1>6. Gone \subseteq Gone'
  BY <1>1, <1>5, SinkProofs!GoneStays, ZenonT(30)
<1>7. ASSUME NEW t \in SinkThreads, SinkProofs!RecordSent(t)
      PROVE  Recorded(t)
  <2>1. carried[t] \in Gone' \ Gone
    BY <1>1, <1>2, <1>5, <1>7, SinkProofs!SentLeaves, ZenonT(30)
  <2>. QED
    BY <1>2, <1>7, <2>1, ZenonT(30) DEF SinkProofs!RecordSent,
       SinkProofs!LoopAgain, SinkProofs!Stats, Recorded
<1>8. \/ stats'.sent = stats.sent
      \/ \E t \in SinkThreads : Recorded(t)
  BY <1>1, <1>2, <1>7, SinkProofs!OnlySentCounts, ZenonT(30)
<1>9. ASSUME SinkProofs!Unanswered, NEW t \in SinkThreads
      PROVE  SendMovesOn(t)
  BY <1>2, <1>7, <1>9, SinkProofs!SendStep, ZenonT(30) DEF SendMovesOn, Trying,
     SinkProofs!SendMovesOn, SinkProofs!Trying
<1>. QED
  BY <1>1, <1>3, <1>4, <1>6, <1>8, <1>9, SinkSteps, ZenonT(30) DEF SinkMoves

-----------------------------------------------------------------------------
(* The backend in the whole.                                               *)

BackendProofs == INSTANCE IngestProofs WITH Batches <- Keys

\* The assumptions of the backend hold, and it counts as the whole does.
LEMMA BackendConstants ==
  /\ BackendProofs!IngestAssumption
  /\ \A S : BackendProofs!Cardinality(S) = Cardinality(S)
<1>1. BackendProofs!IsFiniteSet(Requests)
  BY RequestsFinite, ZenonT(30) DEF BackendProofs!IsFiniteSet, IsFiniteSet
<1>2. \A S : BackendProofs!Cardinality(S) = Cardinality(S)
  BY Zenon DEF BackendProofs!Cardinality, Cardinality
<1>. QED
  BY <1>1, <1>2, KeysNatural, DeliveryAssumption, ZenonT(30)
     DEF BackendProofs!IngestAssumption

\* The backend starts here as in Ingest, ...
LEMMA BackendInit == Backend!Init => BackendProofs!Init
BY ZenonT(30) DEF Backend!Init, BackendProofs!Init, Backend!ZeroMetrics,
   BackendProofs!ZeroMetrics, Backend!Counters, BackendProofs!Counters,
   Backend!ChunkIds, BackendProofs!ChunkIds

\* ... does about a request what it does there, ...
LEMMA RequestSteps ==
  ASSUME NEW r \in Requests, Backend!RequestStep(r)
  PROVE  BackendProofs!RequestStep(r)
BY ZenonT(30) DEF Backend!RequestStep, BackendProofs!RequestStep,
   Backend!ClaimStep, BackendProofs!ClaimStep, Backend!InsertStep,
   BackendProofs!InsertStep, Backend!FinishStep, BackendProofs!FinishStep,
   Backend!DbStep, BackendProofs!DbStep, Backend!ClaimFails,
   BackendProofs!ClaimFails, Backend!ClaimReplyLost,
   BackendProofs!ClaimReplyLost, Backend!ClaimGranted,
   BackendProofs!ClaimGranted, Backend!ClaimCommitted,
   BackendProofs!ClaimCommitted, Backend!ClaimInFlight,
   BackendProofs!ClaimInFlight, Backend!InsertNothing,
   BackendProofs!InsertNothing, Backend!InsertFails,
   BackendProofs!InsertFails, Backend!SendInsert, BackendProofs!SendInsert,
   Backend!Begin, BackendProofs!Begin, Backend!InsertChunk,
   BackendProofs!InsertChunk, Backend!SendCommit, BackendProofs!SendCommit,
   Backend!ReplyCommitted, BackendProofs!ReplyCommitted, Backend!ReplyAborted,
   BackendProofs!ReplyAborted, Backend!ReplyLost, BackendProofs!ReplyLost,
   Backend!MarkCommitted, BackendProofs!MarkCommitted, Backend!MarkFails,
   BackendProofs!MarkFails, Backend!Release, BackendProofs!Release,
   Backend!ReleaseFails, BackendProofs!ReleaseFails, Backend!DbCommit,
   BackendProofs!DbCommit, Backend!DbAbort, BackendProofs!DbAbort,
   Backend!ClaimUnavailable, BackendProofs!ClaimUnavailable, Backend!Count,
   BackendProofs!Count, Backend!Blame, BackendProofs!Blame, Backend!Goto,
   BackendProofs!Goto, Backend!Respond, BackendProofs!Respond,
   Backend!InsertReturns, BackendProofs!InsertReturns, Backend!InsertThrows,
   BackendProofs!InsertThrows, Backend!Chunks, BackendProofs!Chunks,
   Backend!ChunkIds, BackendProofs!ChunkIds, Backend!Store,
   BackendProofs!Store, Backend!COMMIT_IF_OWNER,
   BackendProofs!COMMIT_IF_OWNER, Backend!RELEASE_IF_OWNER,
   BackendProofs!RELEASE_IF_OWNER, Backend!request, BackendProofs!request,
   Backend!database, BackendProofs!database

\* ... takes it in with the key of its batch, ...
LEMMA ArriveSteps ==
  ASSUME NEW r \in Requests, Backend!ArriveWith(r, r[1], TRUE)
  PROVE  BackendProofs!ArriveWith(r, r[1], TRUE) /\ BackendProofs!Arrive(r)
<1>1. BackendProofs!ArriveWith(r, r[1], TRUE)
  BY ZenonT(30) DEF Backend!ArriveWith, BackendProofs!ArriveWith, Backend!Goto,
   BackendProofs!Goto, Backend!Count, BackendProofs!Count, Backend!Blame,
   BackendProofs!Blame, Backend!request, BackendProofs!request,
   Backend!database, BackendProofs!database
<1>2. r[1] \in Keys
  BY ZenonT(30) DEF Requests
<1>. QED
  BY <1>1, <1>2, ZenonT(30) DEF BackendProofs!Arrive

\* ... and has the same Redis and the same process.
LEMMA OtherSteps ==
  /\ Backend!RedisStep => BackendProofs!RedisStep
  /\ Backend!Restart => BackendProofs!Restart
BY ZenonT(30) DEF Backend!RedisStep, BackendProofs!RedisStep, Backend!Restart,
   BackendProofs!Restart, Backend!LeaseExpires, BackendProofs!LeaseExpires,
   Backend!CommittedExpires, BackendProofs!CommittedExpires,
   Backend!ClientReady, BackendProofs!ClientReady, Backend!ClientError,
   BackendProofs!ClientError, Backend!OnModuleDestroy,
   BackendProofs!OnModuleDestroy, Backend!Blame, BackendProofs!Blame,
   Backend!Working, BackendProofs!Working, Backend!InFlight,
   BackendProofs!InFlight, Backend!ZeroMetrics, BackendProofs!ZeroMetrics,
   Backend!Counters, BackendProofs!Counters, Backend!request,
   BackendProofs!request, Backend!database, BackendProofs!database

\* What a step of the whole is to the backend.
LEMMA BackendSteps ==
  ASSUME [Next]_vars
  PROVE  \/ UNCHANGED backend
         \/ \E r \in Requests : /\ BackendProofs!ArriveWith(r, r[1], TRUE)
                                /\ BackendProofs!Arrive(r)
         \/ BackendProofs!RedisStep \/ BackendProofs!Restart
         \/ \E r \in Requests : BackendProofs!RequestStep(r)
<1>1. CASE \/ SinkStep(Sink!Constructed)
           \/ \E p \in Producers : SinkStep(Sink!ProducerStep(p))
           \/ \E t \in SinkThreads :
                \/ SinkStep(Sink!SpawnThread(t)) \/ SinkStep(Sink!LocalStep(t))
                \/ SinkStep(Sink!Spurious(t)) \/ Post(t) \/ Answer(t)
           \/ Finished \/ UNCHANGED vars
  BY <1>1, ZenonT(30) DEF SinkStep, Post, Answer, Finished, vars
<1>2. ASSUME NEW r \in Requests, Reach(r) \/ Handle(r)
      PROVE  \/ /\ BackendProofs!ArriveWith(r, r[1], TRUE)
                /\ BackendProofs!Arrive(r)
             \/ BackendProofs!RequestStep(r)
  BY <1>2, ArriveSteps, RequestSteps, ZenonT(30) DEF Reach, Handle
<1>3. CASE Redis \/ Crash
  BY <1>3, OtherSteps, ZenonT(30) DEF Redis, Crash
<1>. QED
  BY <1>1, <1>2, <1>3, ZenonT(30) DEF Next

\* Its invariant, with its counters and its answers.
BackendInv ==
  /\ BackendProofs!Inv
  /\ BackendProofs!CountersAddUp
  /\ BackendProofs!AnswerInv

\* What it offers.
LEMMA BackendGives == BackendInv => BackendFacts
<1>. SUFFICES ASSUME BackendInv PROVE BackendFacts
  OBVIOUS
<1>1. /\ metrics["batches_in_flight_rejected"] \in Nat
      /\ metrics["db_failures"] \in Nat
  BY ZenonT(30) DEF BackendInv, BackendProofs!Inv, BackendProofs!TypeOK,
     BackendProofs!Counters
<1>2. \A r \in Requests :
        /\ pc[r] = "done" => response[r] # None
        /\ response[r] # None => pc[r] \in {"done", "gone"}
        /\ restarts = 0 => pc[r] # "gone"
        /\ response[r] \in {"stored", "duplicate"} /\ batch[r] \in Valid
             => Backend!Stored(batch[r])
  BY ZenonT(30) DEF BackendInv, BackendProofs!Inv, BackendProofs!StoredInv,
     BackendProofs!AcknowledgedIsStored, BackendProofs!AnswerInv,
     BackendProofs!Answered, BackendProofs!Stored, BackendProofs!Chunks,
     Backend!Stored, Backend!Chunks
<1>3. metrics["batches_received"]
        = Cardinality(Duplicates) + metrics["batches_in_flight_rejected"]
            + metrics["db_failures"] + Cardinality(Backend!ReportedStored)
            + Cardinality(Backend!Undecided)
  BY BackendConstants, ZenonT(30) DEF BackendInv, BackendProofs!CountersAddUp,
     BackendProofs!AnswerInv, BackendProofs!Suppressed,
     BackendProofs!Duplicates, Duplicates, Backend!Undecided,
     BackendProofs!Undecided, Backend!ReportedStored,
     BackendProofs!ReportedStored
<1>. QED
  BY <1>1, <1>2, <1>3, ZenonT(30) DEF BackendFacts

\* The backend keeps its invariant in the whole, its answers and its rows.
LEMMA BackendKept ==
  ASSUME BackendInv, [Next]_vars
  PROVE  BackendInv' /\ BackendMoves
<1>. USE BackendConstants DEF BackendInv
<1>1. [BackendProofs!Next]_(BackendProofs!vars)
  BY BackendSteps, ZenonT(30) DEF BackendProofs!Next, backend,
     BackendProofs!vars, BackendProofs!request, BackendProofs!database
<1>2. /\ BackendProofs!TypeOK /\ BackendProofs!Shape
      /\ pc \in [Requests -> BackendProofs!Pc]
      /\ batch \in [Requests -> Keys \cup {None}]
  BY DEF BackendProofs!Inv, BackendProofs!TypeOK
<1>3. BackendProofs!Inv'
  BY <1>1, BackendProofs!InvStep, ZenonT(30)
<1>4. BackendProofs!CountersAddUp'
  BY <1>1, <1>2, BackendProofs!CountersStep, ZenonT(30)
<1>5. /\ BackendProofs!AnswerInv'
      /\ \A r \in Requests : response[r] # None => response'[r] = response[r]
  BY <1>1, <1>2, BackendProofs!AnswerStep, ZenonT(30)
<1>6. ASSUME NEW k \in Valid, Backend!Stored(k) PROVE Backend!Stored(k)'
  <2>1. k \in Keys /\ BackendProofs!Stored(k)
    BY <1>6, DeliveryAssumption, ZenonT(30) DEF Backend!Stored, Backend!Chunks,
       BackendProofs!Stored, BackendProofs!Chunks
  <2>2. BackendProofs!Stored(k)'
    BY <1>1, <1>2, <2>1, BackendProofs!StoredStays, ZenonT(30)
  <2>. QED
    BY <2>2, ZenonT(30) DEF Backend!Stored, Backend!Chunks,
       BackendProofs!Stored, BackendProofs!Chunks
<1>7. ASSUME NEW q \in Requests, pc'[q] # "unsent"
      PROVE  batch'[q] = IF pc[q] = "unsent" THEN q[1] ELSE batch[q]
  <2>1. CASE UNCHANGED backend
    BY <1>7, <2>1, ZenonT(30) DEF backend
  <2>2. ASSUME NEW r \in Requests, BackendProofs!ArriveWith(r, r[1], TRUE)
        PROVE  batch'[q] = IF pc[q] = "unsent" THEN q[1] ELSE batch[q]
    BY <1>2, <1>7, <2>2, ZenonT(30) DEF BackendProofs!ArriveWith,
       BackendProofs!Goto
  <2>3. CASE \/ BackendProofs!RedisStep \/ BackendProofs!Restart
             \/ \E r \in Requests : BackendProofs!RequestStep(r)
    BY <1>2, <1>7, <2>3, BackendProofs!BodyKept, ZenonT(30)
  <2>. QED
    BY <2>1, <2>2, <2>3, BackendSteps, ZenonT(30)
<1>. QED
  BY <1>3, <1>4, <1>5, <1>6, <1>7, ZenonT(30) DEF BackendMoves

\* Both sides start so.
LEMMA PartsInit == Init => SinkProofs!Inv /\ BackendInv
<1>. SUFFICES ASSUME Init PROVE SinkProofs!Inv /\ BackendInv
  BY ZenonT(30)
<1>1. SinkProofs!Init /\ BackendProofs!Init
  BY SinkInit, BackendInit, ZenonT(30) DEF Init
<1>. QED
  BY <1>1, SinkConstants, BackendConstants, SinkProofs!InitInv,
     BackendProofs!InitInv, BackendProofs!CountersInit,
     BackendProofs!AnswerInit, ZenonT(30) DEF BackendInv

-----------------------------------------------------------------------------
(* The theorems.                                                           *)

\* Throughout every behaviour each side offers what it should, and the records
\* match.
LEMMA Invariance == Spec => [](SinkFacts /\ BackendFacts /\ Links)
<1>1. Spec => [](SinkProofs!Inv /\ BackendInv)
  BY PartsInit, SinkKept, BackendKept, PTL DEF Spec
<1>2. ASSUME SinkProofs!Inv, BackendInv, SinkFacts, SinkFacts', BackendFacts,
             Links, [Next]_vars
      PROVE  Links'
  BY <1>2, SinkKept, BackendKept, LinksStep, ZenonT(30)
<1>. QED
  BY <1>1, <1>2, LinksInit, SinkGives, BackendGives, PTL DEF Spec

\* However requests and answers are lost, delayed or overtaken, and whatever
\* Redis, PostgreSQL and the backend's process do, the batches that are not in
\* the database are at most those the sink's counters own up to.
THEOREM NothingGoesMissing == Spec => []NothingMissing
<1>1. SinkFacts /\ Links => NothingMissing
  BY MissingCounted, ZenonT(30) DEF Links
<1>. QED
  BY <1>1, Invariance, PTL

\* While the backend's process lives, its count of received batches is exactly
\* what the two sides' other counters and the requests under way add up to.
THEOREM ArrivalsAddUp == Spec => []ArrivalIdentity
<1>1. SinkFacts /\ BackendFacts /\ Links => ArrivalIdentity
  BY ArrivalsCounted, ZenonT(30) DEF Links
<1>. QED
  BY <1>1, Invariance, PTL
=============================================================================
