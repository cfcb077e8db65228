------------------------- MODULE LockFreeRingProofs -------------------------
(***************************************************************************)
(* The inductive invariant of LockFreeQueue, and that every access keeps   *)
(* the part of it that is about the ring: cursors, sequences and storage.  *)
(***************************************************************************)
EXTENDS LockFreeQueue, FiniteSetTheorems, SequenceTheorems, TLAPS

-----------------------------------------------------------------------------
(* The inductive invariant.                                                *)

PushPc == {"push_load", "push_seq", "push_cas", "push_store", "push_publish",
           "notify", "notify_lock"}
PopPc == {"pop_load", "pop_seq", "pop_cas", "pop_take", "pop_release"}

\* A producer is in try_pop() only to make room, and has an item until push()
\* returns.  shutdown() finds no push under way.
ProducerShape ==
  \A p \in Producers :
    /\ phase[p] \in {"first", "second", "discard"}
    /\ \/ pc[p] = "idle"
       \/ pc[p] \in PushPc /\ phase[p] # "discard"
       \/ pc[p] \in PopPc /\ phase[p] = "discard"
    /\ pc[p] # "idle" => item[p] \in Item /\ ~shutting_down_

\* Which call of try_pop() a consumer is in tells where pop() stands; it looks
\* one last time only after shutdown().
ConsumerShape ==
  \A c \in Consumers :
    /\ \/ phase[c] = "spin" /\ pc[c] \in PopPc \cup {"flag", "lock"}
       \/ /\ phase[c] = "recheck"
          /\ pc[c] \in PopPc \cup {"decide", "wait", "asleep", "register"}
       \/ phase[c] = "last" /\ pc[c] \in PopPc \cup {"exited"}
    /\ phase[c] = "last" => shutting_down_
    /\ phase[c] = "spin" /\ pc[c] # "lock" => attempt[c] < kSpinAttempts

\* The consumers that have registered and not yet taken it back.
Registered ==
  {c \in Consumers : phase[c] = "recheck" /\ pc[c] # "register"}

WaitersCounted == waiters_ = Cardinality(Registered)

\* The producers that own a slot, and the threads that own one they popped.
Storing == {t \in Threads : pc[t] \in {"push_store", "push_publish"}}
Taking == {t \in Threads : pc[t] \in {"pop_take", "pop_release"}}

\* The slot of a position.
At(n) == n % Slots

\* A position that was read from a cursor is never ahead of it, and a
\* compare-and-swap that will succeed was preceded by a read of the slot's
\* sequence that is still true.
ReadPc == {"push_seq", "push_cas", "pop_seq", "pop_cas"}
Reads(t) ==
  /\ pc[t] \in {"push_seq", "push_cas"} => pos[t] <= enqueue_pos_
  /\ pc[t] \in {"pop_seq", "pop_cas"} => pos[t] <= dequeue_pos_
  /\ pc[t] = "push_cas" /\ pos[t] = enqueue_pos_ =>
       sequence[At(pos[t])] = pos[t]
  /\ pc[t] = "pop_cas" /\ pos[t] = dequeue_pos_ =>
       sequence[At(pos[t])] = pos[t] + 1

ReadShape == \A t \in Threads : Reads(t)

\* A claimed position is behind its cursor, no two threads have claimed the
\* same, and a thread that owns a slot finds the sequence it claimed it with.
OwnShape ==
  /\ \A t \in Storing : /\ pos[t] < enqueue_pos_
                        /\ sequence[At(pos[t])] = pos[t]
  /\ \A t \in Taking : /\ pos[t] < dequeue_pos_
                       /\ sequence[At(pos[t])] = pos[t] + 1
  /\ \A t, u \in Storing : pos[t] = pos[u] => t = u
  /\ \A t, u \in Taking : pos[t] = pos[u] => t = u

\* Between the cursors every position is published or about to be, and behind
\* them every slot has moved on.
WindowShape ==
  /\ \A n \in Nat : dequeue_pos_ <= n /\ n < enqueue_pos_ =>
       \/ sequence[At(n)] = n + 1
       \/ sequence[At(n)] = n /\ \E t \in Storing : pos[t] = n
  /\ \A n \in Nat : n < dequeue_pos_ => sequence[At(n)] >= n + 1

\* A published slot holds the item logged for its position until it is taken.
StorageShape ==
  /\ Len(log) = enqueue_pos_
  /\ \A t \in Storing : item[t] = log[pos[t] + 1]
  /\ \A t \in Storing :
       pc[t] = "push_publish" => storage[At(pos[t])] = log[pos[t] + 1]
  /\ \A n \in Nat : sequence[At(n)] = n + 1 =>
       /\ n < enqueue_pos_
       /\ \/ storage[At(n)] = log[n + 1]
          \/ \E t \in Taking : pc[t] = "pop_release" /\ pos[t] = n
  /\ \A t \in Taking : pc[t] = "pop_release" => got[t] = log[pos[t] + 1]

Inv ==
  /\ TypeOK
  /\ ProducerShape
  /\ ConsumerShape
  /\ WaitersCounted
  /\ ReadShape
  /\ OwnShape
  /\ WindowShape
  /\ StorageShape

-----------------------------------------------------------------------------
(* Slots and threads.                                                      *)

\* The constructor rounds every capacity up to kMaxCapacity to a power of two,
\* and never to less than two.
LEMMA SlotsLemma == Slots \in Nat /\ Slots >= 2
<1>. DEFINE Powers == {2^i : i \in 0..30}
<1>1. /\ 2^0 = 1 /\ 2^1 = 2 /\ 2^2 = 4
      /\ 2^3 = 8 /\ 2^4 = 16 /\ 2^5 = 32
      /\ 2^6 = 64 /\ 2^7 = 128 /\ 2^8 = 256
      /\ 2^9 = 512 /\ 2^10 = 1024 /\ 2^11 = 2048
      /\ 2^12 = 4096 /\ 2^13 = 8192 /\ 2^14 = 16384
      /\ 2^15 = 32768 /\ 2^16 = 65536 /\ 2^17 = 131072
      /\ 2^18 = 262144 /\ 2^19 = 524288 /\ 2^20 = 1048576
      /\ 2^21 = 2097152 /\ 2^22 = 4194304 /\ 2^23 = 8388608
      /\ 2^24 = 16777216 /\ 2^25 = 33554432 /\ 2^26 = 67108864
      /\ 2^27 = 134217728 /\ 2^28 = 268435456 /\ 2^29 = 536870912
      /\ 2^30 = 1073741824
  OBVIOUS
<1>2. /\ {1, 2, 4, 8, 16} \subseteq Powers
      /\ {32, 64, 128, 256, 512} \subseteq Powers
      /\ {1024, 2048, 4096, 8192, 16384} \subseteq Powers
      /\ {32768, 65536, 131072, 262144, 524288} \subseteq Powers
      /\ {1048576, 2097152, 4194304, 8388608, 16777216} \subseteq Powers
      /\ {33554432, 67108864, 134217728, 268435456, 536870912} \subseteq Powers
      /\ {1073741824} \subseteq Powers
  BY <1>1
<1>3. Powers \subseteq Nat
  OBVIOUS
<1>. HIDE DEF Powers
<1>4. RequestedCapacity \in Nat /\ 1 <= RequestedCapacity
      /\ RequestedCapacity <= 1073741824
  BY <1>1, LockFreeAssumption
<1>5. \E r \in Powers : r >= RequestedCapacity /\ r < 2 * RequestedCapacity
  BY <1>2, <1>4
<1>6. (CHOOSE r \in Powers : r >= RequestedCapacity
                             /\ r < 2 * RequestedCapacity) \in Nat
  BY <1>3, <1>5, Zenon
<1>. QED
  BY <1>6 DEF Slots, validated_capacity, Powers

\* Division with remainder.
LEMMA Division ==
  ASSUME NEW n \in Nat
  PROVE  /\ n \div Slots \in Int
         /\ n % Slots \in 0..Slots - 1
         /\ n = (Slots * (n \div Slots)) + (n % Slots)
BY SlotsLemma

\* The only multiple of Slots between -Slots and Slots.
LEMMA SmallMultiple ==
  ASSUME NEW d \in Int, Slots * d < Slots, Slots * d > -Slots
  PROVE  d = 0
BY SlotsLemma

\* Every position has a slot, the next position has another one, and a lap
\* later the position has the same.
LEMMA AtLemma ==
  ASSUME NEW n \in Nat
  PROVE  /\ At(n) \in 0..Slots - 1
         /\ At(n + 1) # At(n)
         /\ At(n + Slots) = At(n)
<1>1. At(n) \in 0..Slots - 1
  BY Division DEF At
<1>2. ASSUME At(n + 1) = At(n) PROVE FALSE
  <2>. DEFINE a == (n + 1) \div Slots
              b == n \div Slots
              r == n % Slots
  <2>1. /\ a \in Int /\ b \in Int /\ r \in Int
        /\ n + 1 = (Slots * a) + r /\ n = (Slots * b) + r
    BY <1>2, Division DEF At
  <2>. HIDE DEF a, b, r
  <2>2. Slots * (a - b) = 1
    BY <2>1, SlotsLemma
  <2>3. a - b = 0
    BY <2>1, <2>2, SlotsLemma, SmallMultiple
  <2>. QED
    BY <2>1, <2>2, <2>3, SlotsLemma
<1>3. At(n + Slots) = At(n)
  <2>. DEFINE a == (n + Slots) \div Slots
              b == n \div Slots
              r == n % Slots
              s == (n + Slots) % Slots
  <2>1. /\ a \in Int /\ b \in Int /\ r \in 0..Slots - 1 /\ s \in 0..Slots - 1
        /\ n + Slots = (Slots * a) + s /\ n = (Slots * b) + r
    <3>1. n + Slots \in Nat
      BY SlotsLemma
    <3>. QED
      BY <3>1, Division
  <2>. HIDE DEF a, b, r, s
  <2>2. Slots * (a - b - 1) = r - s
    BY <2>1, SlotsLemma
  <2>3. a - b - 1 = 0
    BY <2>1, <2>2, SlotsLemma, SmallMultiple
  <2>4. r = s
    BY <2>1, <2>2, <2>3, SlotsLemma
  <2>. QED
    BY <2>4 DEF r, s, At
<1>. QED
  BY <1>1, <1>2, <1>3

\* A thread is a producer or a consumer, and not both.
LEMMA ThreadSets ==
  /\ Producers \subseteq Threads
  /\ Consumers \subseteq Threads
  /\ \A t \in Threads : t \in Producers \/ t \in Consumers
  /\ \A t \in Producers : t \notin Consumers
  /\ None \notin Consumers
BY LockFreeAssumption DEF Threads

\* What the ring lemmas use of TypeOK.
RingType ==
  /\ sequence \in [0..Slots - 1 -> Nat]
  /\ storage \in [0..Slots - 1 -> Item \cup {None}]
  /\ enqueue_pos_ \in Nat
  /\ dequeue_pos_ \in Nat
  /\ dequeue_pos_ <= enqueue_pos_
  /\ pc \in [Threads -> Pc]
  /\ pos \in [Threads -> Nat]
  /\ item \in [Producers -> Item \cup {None}]
  /\ got \in [Threads -> Item \cup {None}]
  /\ log \in Seq(Item)

\* TypeOK says that and more.
LEMMA TypeRing == TypeOK => RingType
BY DEF TypeOK, RingType

\* Two owners of the same slot would read the same sequence, so they would
\* have claimed the same position, or two positions in a row.
LEMMA Exclusive ==
  ASSUME RingType, OwnShape
  PROVE  /\ \A t, u \in Storing : At(pos[t]) = At(pos[u]) => t = u
         /\ \A t, u \in Taking : At(pos[t]) = At(pos[u]) => t = u
         /\ \A t \in Storing, u \in Taking : At(pos[t]) # At(pos[u])
<1>1. \A t \in Storing \cup Taking : pos[t] \in Nat
  BY DEF RingType, Storing, Taking
<1>2. ASSUME NEW t \in Storing, NEW u \in Taking, At(pos[t]) = At(pos[u])
      PROVE  FALSE
  <2>1. pos[t] = pos[u] + 1
    BY <1>2 DEF OwnShape
  <2>. QED
    BY <1>1, <1>2, <2>1, AtLemma
<1>3. ASSUME NEW t \in Taking, NEW u \in Taking, At(pos[t]) = At(pos[u])
      PROVE  t = u
  <2>1. pos[t] + 1 = pos[u] + 1
    BY <1>3 DEF OwnShape
  <2>. QED
    BY <1>1, <2>1 DEF OwnShape
<1>. QED
  BY <1>2, <1>3 DEF OwnShape

-----------------------------------------------------------------------------
(* What the six accesses that matter do to the ring and its owners.        *)

\* try_push wins its compare-and-swap.
Claimed(p) ==
  /\ enqueue_pos_' = enqueue_pos_ + 1 /\ log' = Append(log, item[p])
  /\ Storing' = Storing \cup {p} /\ p \notin Storing /\ Taking' = Taking
  /\ pc[p] = "push_cas" /\ pc' = [pc EXCEPT ![p] = "push_store"]
  /\ UNCHANGED <<sequence, storage, dequeue_pos_, pos, item, got>>

\* A successful compare-and-swap on enqueue_pos_ has that effect.
LEMMA ClaimEffect ==
  ASSUME RingType, NEW p \in Producers, PushClaim(p), enqueue_pos_ = pos[p]
  PROVE  Claimed(p)
BY ThreadSets DEF Claimed, PushClaim, Goto, RingType, Storing, Taking

\* try_push stores its item in the slot it owns.
Stored(p) ==
  /\ storage' = [storage EXCEPT ![At(pos[p])] = item[p]]
  /\ Storing' = Storing /\ p \in Storing /\ Taking' = Taking
  /\ pc[p] = "push_store" /\ pc' = [pc EXCEPT ![p] = "push_publish"]
  /\ UNCHANGED <<sequence, enqueue_pos_, dequeue_pos_, log, pos, item, got>>

\* Moving the item into the slot has that effect.
LEMMA StoreEffect ==
  ASSUME RingType, NEW p \in Producers, PushStore(p)
  PROVE  Stored(p)
BY ThreadSets DEF Stored, PushStore, Goto, history, RingType, Storing, Taking,
   Slot, At

\* try_push hands the slot to the consumers.
Published(p) ==
  /\ sequence' = [sequence EXCEPT ![At(pos[p])] = pos[p] + 1]
  /\ Storing' = Storing \ {p} /\ p \in Storing /\ Taking' = Taking
  /\ pc[p] = "push_publish" /\ pc' = [pc EXCEPT ![p] = "notify"]
  /\ UNCHANGED <<storage, enqueue_pos_, dequeue_pos_, log, pos, item, got>>

\* The release store of the sequence has that effect.
LEMMA PublishEffect ==
  ASSUME RingType, NEW p \in Producers, PushPublish(p)
  PROVE  Published(p)
BY ThreadSets DEF Published, PushPublish, Goto, history, RingType, Storing,
   Taking, Slot, At

\* try_pop wins its compare-and-swap.
PopClaimed(t) ==
  /\ dequeue_pos_' = dequeue_pos_ + 1
  /\ Taking' = Taking \cup {t} /\ t \notin Taking /\ Storing' = Storing
  /\ pc[t] = "pop_cas" /\ pc' = [pc EXCEPT ![t] = "pop_take"]
  /\ UNCHANGED <<sequence, storage, enqueue_pos_, log, pos, item, got>>

\* A successful compare-and-swap on dequeue_pos_ has that effect.
LEMMA PopClaimEffect ==
  ASSUME RingType, NEW t \in Threads, PopClaim(t), dequeue_pos_ = pos[t]
  PROVE  PopClaimed(t)
BY DEF PopClaimed, PopClaim, Goto, RingType, Storing, Taking

\* try_pop moves the item out of the slot it owns.
Taken(t) ==
  /\ storage' = [storage EXCEPT ![At(pos[t])] = None]
  /\ got' = [got EXCEPT ![t] = storage[At(pos[t])]]
  /\ Taking' = Taking /\ t \in Taking /\ Storing' = Storing
  /\ pc[t] = "pop_take" /\ pc' = [pc EXCEPT ![t] = "pop_release"]
  /\ UNCHANGED <<sequence, enqueue_pos_, dequeue_pos_, log, pos, item>>

\* Moving the item out has that effect.
LEMMA TakeEffect ==
  ASSUME RingType, NEW t \in Threads, PopTake(t)
  PROVE  Taken(t)
BY DEF Taken, PopTake, Goto, history, RingType, Storing, Taking, Slot, At

\* try_pop hands the slot to the producers, one lap ahead.
Released(t) ==
  /\ sequence' = [sequence EXCEPT ![At(pos[t])] = pos[t] + Slots]
  /\ Taking' = Taking \ {t} /\ t \in Taking /\ Storing' = Storing
  /\ pc[t] = "pop_release"
  /\ pc'[t] \in {"push_load", "pop_load", "decide"}
  /\ \A u \in Threads \ {t} : pc'[u] = pc[u] /\ got'[u] = got[u]
  /\ UNCHANGED <<storage, enqueue_pos_, dequeue_pos_, log, pos, item>>

\* The release store of the next lap's sequence has that effect, whichever
\* caller try_pop returns to.
LEMMA ReleaseEffect ==
  ASSUME RingType, ProducerShape, ConsumerShape,
         NEW t \in Threads, PopRelease(t)
  PROVE  Released(t)
<1>1. /\ sequence' = [sequence EXCEPT ![At(pos[t])] = pos[t] + Slots]
      /\ pc[t] = "pop_release"
      /\ UNCHANGED <<storage, enqueue_pos_, dequeue_pos_, log, pos, item>>
  BY DEF PopRelease, history, Slot, At
<1>2. phase[t] \in {"discard", "recheck", "spin", "last"}
  BY <1>1, ThreadSets DEF ProducerShape, ConsumerShape, PushPc, PopPc
<1>3. /\ pc'[t] \in {"push_load", "pop_load", "decide"}
      /\ \A u \in Threads \ {t} : pc'[u] = pc[u] /\ got'[u] = got[u]
  BY <1>2, Zenon DEF PopRelease, PopReturns, Goto, RingType
<1>4. Taking' = Taking \ {t} /\ t \in Taking /\ Storing' = Storing
  BY <1>1, <1>3 DEF Taking, Storing
<1>. QED
  BY <1>1, <1>3, <1>4 DEF Released

\* Every other step leaves the ring, its owners and what they hold alone.
OwnPc == {"push_store", "push_publish", "pop_take", "pop_release"}
Still ==
  /\ UNCHANGED <<sequence, storage, enqueue_pos_, dequeue_pos_, log>>
  /\ Storing' = Storing
  /\ Taking' = Taking
  /\ \A t \in Storing \cup Taking : /\ pc'[t] = pc[t]
                                    /\ pos'[t] = pos[t]
                                    /\ got'[t] = got[t]
  /\ \A t \in Storing : item'[t] = item[t]

RingAction ==
  \/ \E p \in Producers : \/ PushClaim(p) /\ enqueue_pos_ = pos[p]
                          \/ PushStore(p)
                          \/ PushPublish(p)
  \/ \E t \in Threads : \/ PopClaim(t) /\ dequeue_pos_ = pos[t]
                        \/ PopTake(t)
                        \/ PopRelease(t)

\* Every step is one of the six or keeps still.
LEMMA Moves ==
  ASSUME RingType, ConsumerShape, [Next]_vars
  PROVE  RingAction \/ Still
<1>. USE ThreadSets DEF RingType, ring, parking, locals, history, closing
<1>a. Storing \subseteq Producers
  BY Zenon DEF ConsumerShape, Storing, PopPc
<1>b. ASSUME UNCHANGED <<sequence, storage, enqueue_pos_, dequeue_pos_, log>>,
             NEW s \in Threads,
             pc[s] \notin OwnPc, pc'[s] \notin OwnPc,
             \A u \in Threads \ {s} : /\ pc'[u] = pc[u]
                                      /\ pos'[u] = pos[u]
                                      /\ got'[u] = got[u]
                                      /\ u \in Producers => item'[u] = item[u]
      PROVE  Still
  <2>1. Storing' = Storing /\ Taking' = Taking
    BY <1>b DEF Storing, Taking, OwnPc
  <2>2. s \notin Storing \cup Taking /\ Storing \cup Taking \subseteq Threads
    BY <1>b DEF Storing, Taking, OwnPc
  <2>. QED
    BY <1>a, <1>b, <2>1, <2>2 DEF Still
<1>c. ASSUME UNCHANGED <<sequence, storage, enqueue_pos_, dequeue_pos_, log,
                         pc, pos, got, item>>
      PROVE  Still
  BY <1>c DEF Still, Storing, Taking
<1>1. ASSUME NEW p \in Producers, PushCall(p) PROVE RingAction \/ Still
  <2>1. UNCHANGED <<sequence, storage, enqueue_pos_, dequeue_pos_, log>>
    BY <1>1 DEF PushCall, Goto
  <2>2. p \in Threads /\ pc[p] \notin OwnPc /\ pc'[p] \notin OwnPc
    BY <1>1, <2>1 DEF PushCall, Goto, OwnPc
  <2>3. \A u \in Threads \ {p} : /\ pc'[u] = pc[u] /\ pos'[u] = pos[u]
                                 /\ got'[u] = got[u]
                                 /\ u \in Producers => item'[u] = item[u]
    BY <1>1 DEF PushCall, Goto
  <2>. QED
    BY <1>b, <2>1, <2>2, <2>3
<1>2. ASSUME NEW p \in Producers, PushLoad(p) PROVE RingAction \/ Still
  <2>1. UNCHANGED <<sequence, storage, enqueue_pos_, dequeue_pos_, log>>
    BY <1>2 DEF PushLoad, Goto
  <2>2. p \in Threads /\ pc[p] \notin OwnPc /\ pc'[p] \notin OwnPc
    BY <1>2, <2>1 DEF PushLoad, Goto, OwnPc
  <2>3. \A u \in Threads \ {p} : /\ pc'[u] = pc[u] /\ pos'[u] = pos[u]
                                 /\ got'[u] = got[u]
                                 /\ u \in Producers => item'[u] = item[u]
    BY <1>2 DEF PushLoad, Goto
  <2>. QED
    BY <1>b, <2>1, <2>2, <2>3
<1>3. ASSUME NEW p \in Producers, PushSequence(p) PROVE RingAction \/ Still
  <2>1. UNCHANGED <<sequence, storage, enqueue_pos_, dequeue_pos_, log>>
    BY <1>3 DEF PushSequence, Reject, Goto
  <2>2. p \in Threads /\ pc[p] \notin OwnPc /\ pc'[p] \notin OwnPc
    BY <1>3, <2>1 DEF PushSequence, Reject, Goto, OwnPc
  <2>3. \A u \in Threads \ {p} : /\ pc'[u] = pc[u] /\ pos'[u] = pos[u]
                                 /\ got'[u] = got[u]
                                 /\ u \in Producers => item'[u] = item[u]
    BY <1>3 DEF PushSequence, Reject, Goto
  <2>. QED
    BY <1>b, <2>1, <2>2, <2>3
<1>4. ASSUME NEW p \in Producers, PushClaim(p) PROVE RingAction \/ Still
  <2>a. CASE enqueue_pos_ = pos[p]
    BY <1>4, <2>a, SMTT(30) DEF RingAction
  <2>b. CASE enqueue_pos_ # pos[p]
    <3>1. UNCHANGED <<sequence, storage, enqueue_pos_, dequeue_pos_, log>>
      BY <1>4, <2>b DEF PushClaim, Goto
    <3>2. p \in Threads /\ pc[p] \notin OwnPc /\ pc'[p] \notin OwnPc
      BY <1>4, <2>b, <3>1 DEF PushClaim, Goto, OwnPc
    <3>3. \A u \in Threads \ {p} : /\ pc'[u] = pc[u] /\ pos'[u] = pos[u]
                                   /\ got'[u] = got[u]
                                   /\ u \in Producers => item'[u] = item[u]
      BY <1>4, <2>b DEF PushClaim, Goto
    <3>. QED
      BY <1>b, <3>1, <3>2, <3>3
  <2>. QED
    BY <2>a, <2>b
<1>5. ASSUME NEW p \in Producers, PushStore(p) PROVE RingAction \/ Still
  BY <1>5 DEF RingAction
<1>6. ASSUME NEW p \in Producers, PushPublish(p) PROVE RingAction \/ Still
  BY <1>6 DEF RingAction
<1>7. ASSUME NEW p \in Producers, NotifySkipped(p) PROVE RingAction \/ Still
  <2>1. UNCHANGED <<sequence, storage, enqueue_pos_, dequeue_pos_, log>>
    BY <1>7 DEF NotifySkipped, PushReturns, Goto
  <2>2. p \in Threads /\ pc[p] \notin OwnPc /\ pc'[p] \notin OwnPc
    BY <1>7, <2>1 DEF NotifySkipped, PushReturns, Goto, OwnPc
  <2>3. \A u \in Threads \ {p} : /\ pc'[u] = pc[u] /\ pos'[u] = pos[u]
                                 /\ got'[u] = got[u]
                                 /\ u \in Producers => item'[u] = item[u]
    BY <1>7 DEF NotifySkipped, PushReturns, Goto
  <2>. QED
    BY <1>b, <2>1, <2>2, <2>3
<1>8. ASSUME NEW p \in Producers, NotifyNeeded(p) PROVE RingAction \/ Still
  <2>1. UNCHANGED <<sequence, storage, enqueue_pos_, dequeue_pos_, log>>
    BY <1>8 DEF NotifyNeeded, Goto
  <2>2. p \in Threads /\ pc[p] \notin OwnPc /\ pc'[p] \notin OwnPc
    BY <1>8, <2>1 DEF NotifyNeeded, Goto, OwnPc
  <2>3. \A u \in Threads \ {p} : /\ pc'[u] = pc[u] /\ pos'[u] = pos[u]
                                 /\ got'[u] = got[u]
                                 /\ u \in Producers => item'[u] = item[u]
    BY <1>8 DEF NotifyNeeded, Goto
  <2>. QED
    BY <1>b, <2>1, <2>2, <2>3
<1>9. ASSUME NEW p \in Producers, NotifyOne(p) PROVE RingAction \/ Still
  <2>1. UNCHANGED <<sequence, storage, enqueue_pos_, dequeue_pos_, log>>
    BY <1>9 DEF NotifyOne, PushReturns, Goto
  <2>2. p \in Threads /\ pc[p] \notin OwnPc /\ pc'[p] \notin OwnPc
    BY <1>9, <2>1 DEF NotifyOne, PushReturns, Goto, OwnPc
  <2>3. \A u \in Threads \ {p} : /\ pc'[u] = pc[u] /\ pos'[u] = pos[u]
                                 /\ got'[u] = got[u]
                                 /\ u \in Producers => item'[u] = item[u]
    BY <1>9 DEF NotifyOne, PushReturns, Goto
  <2>. QED
    BY <1>b, <2>1, <2>2, <2>3
<1>10. ASSUME NEW t \in Threads, PopLoad(t) PROVE RingAction \/ Still
  <2>1. UNCHANGED <<sequence, storage, enqueue_pos_, dequeue_pos_, log>>
    BY <1>10 DEF PopLoad, Goto
  <2>2. t \in Threads /\ pc[t] \notin OwnPc /\ pc'[t] \notin OwnPc
    BY <1>10, <2>1 DEF PopLoad, Goto, OwnPc
  <2>3. \A u \in Threads \ {t} : /\ pc'[u] = pc[u] /\ pos'[u] = pos[u]
                                 /\ got'[u] = got[u]
                                 /\ u \in Producers => item'[u] = item[u]
    BY <1>10 DEF PopLoad, Goto
  <2>. QED
    BY <1>b, <2>1, <2>2, <2>3
<1>11. ASSUME NEW t \in Threads, PopSequence(t) PROVE RingAction \/ Still
  <2>1. UNCHANGED <<sequence, storage, enqueue_pos_, dequeue_pos_, log>>
    BY <1>11 DEF PopSequence, PopFoundNothing, Reject, Goto
  <2>2. t \in Threads /\ pc[t] \notin OwnPc /\ pc'[t] \notin OwnPc
    BY <1>11, <2>1 DEF PopSequence, PopFoundNothing, Reject, Goto, OwnPc
  <2>3. \A u \in Threads \ {t} : /\ pc'[u] = pc[u] /\ pos'[u] = pos[u]
                                 /\ got'[u] = got[u]
                                 /\ u \in Producers => item'[u] = item[u]
    BY <1>11 DEF PopSequence, PopFoundNothing, Reject, Goto
  <2>. QED
    BY <1>b, <2>1, <2>2, <2>3
<1>12. ASSUME NEW t \in Threads, PopClaim(t) PROVE RingAction \/ Still
  <2>a. CASE dequeue_pos_ = pos[t]
    BY <1>12, <2>a DEF RingAction
  <2>b. CASE dequeue_pos_ # pos[t]
    <3>1. UNCHANGED <<sequence, storage, enqueue_pos_, dequeue_pos_, log>>
      BY <1>12, <2>b DEF PopClaim, Goto
    <3>2. t \in Threads /\ pc[t] \notin OwnPc /\ pc'[t] \notin OwnPc
      BY <1>12, <2>b, <3>1 DEF PopClaim, Goto, OwnPc
    <3>3. \A u \in Threads \ {t} : /\ pc'[u] = pc[u] /\ pos'[u] = pos[u]
                                   /\ got'[u] = got[u]
                                   /\ u \in Producers => item'[u] = item[u]
      BY <1>12, <2>b DEF PopClaim, Goto
    <3>. QED
      BY <1>b, <3>1, <3>2, <3>3
  <2>. QED
    BY <2>a, <2>b
<1>13. ASSUME NEW t \in Threads, PopTake(t) PROVE RingAction \/ Still
  BY <1>13 DEF RingAction
<1>14. ASSUME NEW t \in Threads, PopRelease(t) PROVE RingAction \/ Still
  BY <1>14 DEF RingAction
<1>15. ASSUME NEW c \in Consumers, SpinFlag(c) PROVE RingAction \/ Still
  <2>1. UNCHANGED <<sequence, storage, enqueue_pos_, dequeue_pos_, log>>
    BY <1>15 DEF SpinFlag, Goto
  <2>2. c \in Threads /\ pc[c] \notin OwnPc /\ pc'[c] \notin OwnPc
    BY <1>15, <2>1 DEF SpinFlag, Goto, OwnPc
  <2>3. \A u \in Threads \ {c} : /\ pc'[u] = pc[u] /\ pos'[u] = pos[u]
                                 /\ got'[u] = got[u]
                                 /\ u \in Producers => item'[u] = item[u]
    BY <1>15 DEF SpinFlag, Goto
  <2>. QED
    BY <1>b, <2>1, <2>2, <2>3
<1>16. ASSUME NEW c \in Consumers, Register(c) PROVE RingAction \/ Still
  <2>1. UNCHANGED <<sequence, storage, enqueue_pos_, dequeue_pos_, log>>
    BY <1>16 DEF Register, Goto
  <2>2. c \in Threads /\ pc[c] \notin OwnPc /\ pc'[c] \notin OwnPc
    BY <1>16, <2>1 DEF Register, Goto, OwnPc
  <2>3. \A u \in Threads \ {c} : /\ pc'[u] = pc[u] /\ pos'[u] = pos[u]
                                 /\ got'[u] = got[u]
                                 /\ u \in Producers => item'[u] = item[u]
    BY <1>16 DEF Register, Goto
  <2>. QED
    BY <1>b, <2>1, <2>2, <2>3
<1>17. ASSUME NEW c \in Consumers, Decide(c) PROVE RingAction \/ Still
  <2>1. UNCHANGED <<sequence, storage, enqueue_pos_, dequeue_pos_, log>>
    BY <1>17 DEF Decide, PopReturns, Goto
  <2>2. c \in Threads /\ pc[c] \notin OwnPc /\ pc'[c] \notin OwnPc
    BY <1>17, <2>1 DEF Decide, PopReturns, Goto, OwnPc
  <2>3. \A u \in Threads \ {c} : /\ pc'[u] = pc[u] /\ pos'[u] = pos[u]
                                 /\ got'[u] = got[u]
                                 /\ u \in Producers => item'[u] = item[u]
    BY <1>17 DEF Decide, PopReturns, Goto
  <2>. QED
    BY <1>b, <2>1, <2>2, <2>3
<1>18. ASSUME NEW c \in Consumers, Wait(c) PROVE RingAction \/ Still
  <2>1. UNCHANGED <<sequence, storage, enqueue_pos_, dequeue_pos_, log>>
    BY <1>18 DEF Wait, Goto
  <2>2. c \in Threads /\ pc[c] \notin OwnPc /\ pc'[c] \notin OwnPc
    BY <1>18, <2>1 DEF Wait, Goto, OwnPc
  <2>3. \A u \in Threads \ {c} : /\ pc'[u] = pc[u] /\ pos'[u] = pos[u]
                                 /\ got'[u] = got[u]
                                 /\ u \in Producers => item'[u] = item[u]
    BY <1>18 DEF Wait, Goto
  <2>. QED
    BY <1>b, <2>1, <2>2, <2>3
<1>19. ASSUME NEW c \in Consumers, Wake(c) PROVE RingAction \/ Still
  <2>1. UNCHANGED <<sequence, storage, enqueue_pos_, dequeue_pos_, log>>
    BY <1>19 DEF Wake, Goto
  <2>2. c \in Threads /\ pc[c] \notin OwnPc /\ pc'[c] \notin OwnPc
    BY <1>19, <2>1 DEF Wake, Goto, OwnPc
  <2>3. \A u \in Threads \ {c} : /\ pc'[u] = pc[u] /\ pos'[u] = pos[u]
                                 /\ got'[u] = got[u]
                                 /\ u \in Producers => item'[u] = item[u]
    BY <1>19 DEF Wake, Goto
  <2>. QED
    BY <1>b, <2>1, <2>2, <2>3
<1>20. ASSUME NEW c \in Consumers, Spurious(c) PROVE RingAction \/ Still
  BY <1>20, <1>c DEF Spurious
<1>21. CASE SetShuttingDown
  BY <1>21, <1>c DEF SetShuttingDown
<1>22. CASE NotifyAll
  BY <1>22, <1>c DEF NotifyAll
<1>23. CASE Finished
  BY <1>23, <1>c DEF Finished, vars
<1>24. CASE UNCHANGED vars
  BY <1>24, <1>c DEF vars
<1>. HIDE DEF RingType
<1>. QED
  BY <1>1, <1>2, <1>3, <1>4, <1>5, <1>6, <1>7, <1>8, <1>9, <1>10, <1>11,
     <1>12, <1>13, <1>14, <1>15, <1>16, <1>17, <1>18, <1>19, <1>20, <1>21,
     <1>22, <1>23, <1>24, ThreadSets
     DEF Next, PushStep, PopStep, ConsumerStep

\* Steps that keep still keep the shape of the ring.
LEMMA StillStep ==
  ASSUME OwnShape, WindowShape, StorageShape, Still
  PROVE  OwnShape' /\ WindowShape' /\ StorageShape'
<1>1. OwnShape'
  BY DEF OwnShape, Still
<1>2. WindowShape'
  BY DEF WindowShape, Still
<1>3. StorageShape'
  BY DEF StorageShape, Still
<1>. QED
  BY <1>1, <1>2, <1>3

-----------------------------------------------------------------------------
(* The ring keeps its shape.                                               *)

\* The winner of a compare-and-swap is the only owner of its slot, and only
\* the owner changes the slot's sequence.
LEMMA OwnStep ==
  ASSUME RingType, ProducerShape, ConsumerShape, ReadShape, OwnShape,
         WindowShape, StorageShape, [Next]_vars
  PROVE  OwnShape'
<1>a. /\ \A t \in Threads : pos[t] \in Nat
      /\ Storing \cup Taking \subseteq Threads
      /\ enqueue_pos_ \in Nat /\ dequeue_pos_ \in Nat
      /\ sequence \in [0..Slots - 1 -> Nat]
  BY DEF RingType, Storing, Taking
<1>b. /\ \A u, v \in Storing : At(pos[u]) = At(pos[v]) => u = v
      /\ \A u, v \in Taking : At(pos[u]) = At(pos[v]) => u = v
      /\ \A u \in Storing, v \in Taking : At(pos[u]) # At(pos[v])
  BY Exclusive
<1>c. Slots \in Nat /\ \A n \in Nat : At(n) \in 0..Slots - 1
  BY AtLemma, SlotsLemma
<1>1. ASSUME NEW p \in Producers, PushClaim(p), enqueue_pos_ = pos[p]
      PROVE  OwnShape'
  <2>e. Claimed(p)
    BY <1>1, ClaimEffect
  <2>1. p \in Threads /\ sequence[At(pos[p])] = pos[p]
    BY <1>1, ThreadSets, <2>e DEF Claimed, ReadShape, Reads
  <2>. QED
    BY <1>1, <1>a, <2>1, <2>e DEF Claimed, OwnShape
<1>2. ASSUME NEW p \in Producers, PushStore(p) PROVE OwnShape'
  <2>e. Stored(p)
    BY <1>2, StoreEffect
  <2>. QED
    BY <1>2, <2>e DEF Stored, OwnShape
<1>3. ASSUME NEW p \in Producers, PushPublish(p) PROVE OwnShape'
  <2>e. Published(p)
    BY <1>3, PublishEffect
  <2>1. ASSUME NEW u \in Storing' \cup Taking'
        PROVE  sequence'[At(pos[u])] = sequence[At(pos[u])]
    BY <1>3, <1>a, <1>b, <1>c, <2>e, Zenon DEF Published
  <2>. QED
    BY <1>3, <2>1, <2>e DEF Published, OwnShape
<1>4. ASSUME NEW t \in Threads, PopClaim(t), dequeue_pos_ = pos[t]
      PROVE  OwnShape'
  <2>e. PopClaimed(t)
    BY <1>4, PopClaimEffect
  <2>1. sequence[At(pos[t])] = pos[t] + 1
    BY <1>4, <2>e DEF PopClaimed, ReadShape, Reads
  <2>. QED
    BY <1>4, <1>a, <2>1, <2>e DEF PopClaimed, OwnShape
<1>5. ASSUME NEW t \in Threads, PopTake(t) PROVE OwnShape'
  <2>e. Taken(t)
    BY <1>5, TakeEffect, SMTT(30)
  <2>. QED
    BY <1>5, <2>e DEF Taken, OwnShape
<1>6. ASSUME NEW t \in Threads, PopRelease(t) PROVE OwnShape'
  <2>e. Released(t)
    BY <1>6, ReleaseEffect
  <2>1. ASSUME NEW u \in Storing' \cup Taking'
        PROVE  sequence'[At(pos[u])] = sequence[At(pos[u])]
    BY <1>6, <1>a, <1>b, <1>c, <2>e, Zenon DEF Released
  <2>. QED
    BY <1>6, <2>1, <2>e DEF Released, OwnShape
<1>. QED
  BY Moves, StillStep, <1>1, <1>2, <1>3, <1>4, <1>5, <1>6 DEF RingAction

\* What lies between the cursors stays published or about to be, and a slot's
\* sequence only grows.
LEMMA WindowStep ==
  ASSUME RingType, ProducerShape, ConsumerShape, ReadShape, OwnShape,
         WindowShape, StorageShape, [Next]_vars
  PROVE  WindowShape'
<1>a. /\ \A t \in Threads : pos[t] \in Nat
      /\ Storing \cup Taking \subseteq Threads
      /\ enqueue_pos_ \in Nat /\ dequeue_pos_ \in Nat
      /\ sequence \in [0..Slots - 1 -> Nat]
  BY DEF RingType, Storing, Taking
<1>b. /\ \A u, v \in Storing : At(pos[u]) = At(pos[v]) => u = v
      /\ \A u, v \in Taking : At(pos[u]) = At(pos[v]) => u = v
      /\ \A u \in Storing, v \in Taking : At(pos[u]) # At(pos[v])
  BY Exclusive
<1>c. Slots \in Nat /\ \A n \in Nat : At(n) \in 0..Slots - 1
  BY AtLemma, SlotsLemma
<1>1. ASSUME NEW p \in Producers, PushClaim(p), enqueue_pos_ = pos[p]
      PROVE  WindowShape'
  <2>e. Claimed(p)
    BY <1>1, ClaimEffect
  <2>1. p \in Threads /\ sequence[At(pos[p])] = pos[p]
    BY <1>1, ThreadSets, <2>e DEF Claimed, ReadShape, Reads
  <2>2. ASSUME NEW n \in Nat, dequeue_pos_ <= n, n < enqueue_pos_ + 1
        PROVE  \/ sequence[At(n)] = n + 1
               \/ sequence[At(n)] = n /\ \E u \in Storing' : pos[u] = n
    <3>1. CASE n = enqueue_pos_
      BY <1>1, <2>1, <3>1, <2>e DEF Claimed
    <3>2. CASE n < enqueue_pos_
      BY <1>1, <2>2, <3>2, <2>e DEF Claimed, WindowShape
    <3>. QED
      BY <1>a, <2>2, <3>1, <3>2
  <2>. QED
    BY <1>1, <2>2, <2>e, SMTT(30) DEF Claimed, WindowShape
<1>2. ASSUME NEW p \in Producers, PushStore(p) PROVE WindowShape'
  <2>e. Stored(p)
    BY <1>2, StoreEffect
  <2>. QED
    BY <1>2, <2>e, SMTT(30) DEF Stored, WindowShape
<1>3. ASSUME NEW p \in Producers, PushPublish(p) PROVE WindowShape'
  <2>e. Published(p)
    BY <1>3, PublishEffect
  <2>1. /\ p \in Threads /\ sequence[At(pos[p])] = pos[p]
        /\ \A n \in Nat : sequence'[At(n)] =
             IF At(n) = At(pos[p]) THEN pos[p] + 1 ELSE sequence[At(n)]
    BY <1>3, <1>a, <1>c, ThreadSets, <2>e, Zenon DEF Published, OwnShape
  <2>2. ASSUME NEW n \in Nat, dequeue_pos_ <= n, n < enqueue_pos_
        PROVE  \/ sequence'[At(n)] = n + 1
               \/ sequence'[At(n)] = n /\ \E u \in Storing' : pos[u] = n
    <3>1. CASE At(n) = At(pos[p])
      <4>1. pos[p] = n + 1 \/ pos[p] = n
        BY <2>1, <2>2, <3>1 DEF WindowShape
      <4>2. At(n + 1) # At(n)
        BY AtLemma
      <4>3. pos[p] = n
        BY <3>1, <4>1, <4>2
      <4>. QED
        BY <2>1, <4>3
    <3>2. CASE At(n) # At(pos[p])
      BY <1>3, <2>1, <2>2, <3>2, <2>e, SMTT(30) DEF Published, WindowShape
    <3>. QED
      BY <3>1, <3>2
  <2>3. ASSUME NEW n \in Nat, n < dequeue_pos_
        PROVE  sequence'[At(n)] >= n + 1
    <3>1. sequence[At(n)] >= n + 1 /\ pos[p] \in Nat
      BY <1>a, <2>1, <2>3 DEF WindowShape
    <3>. QED
      BY <2>1, <3>1
  <2>. QED
    BY <1>3, <2>2, <2>3, <2>e DEF Published, WindowShape
<1>4. ASSUME NEW t \in Threads, PopClaim(t), dequeue_pos_ = pos[t]
      PROVE  WindowShape'
  <2>e. PopClaimed(t)
    BY <1>4, PopClaimEffect
  <2>1. sequence[At(pos[t])] = pos[t] + 1
    BY <1>4, <2>e DEF PopClaimed, ReadShape, Reads
  <2>2. ASSUME NEW n \in Nat, n < dequeue_pos_ + 1
        PROVE  sequence[At(n)] >= n + 1
    <3>1. CASE n = dequeue_pos_
      BY <1>a, <1>4, <2>1, <3>1, SMTT(30)
    <3>2. CASE n < dequeue_pos_
      BY <3>2 DEF WindowShape
    <3>. QED
      BY <1>a, <2>2, <3>1, <3>2
  <2>3. ASSUME NEW n \in Nat, dequeue_pos_ + 1 <= n, n < enqueue_pos_
        PROVE  \/ sequence[At(n)] = n + 1
               \/ sequence[At(n)] = n /\ \E u \in Storing : pos[u] = n
    <3>1. dequeue_pos_ <= n
      BY <1>a, <2>3
    <3>. QED
      BY <2>3, <3>1 DEF WindowShape
  <2>. QED
    BY <1>4, <2>2, <2>3, <2>e, SMTT(30) DEF PopClaimed, WindowShape
<1>5. ASSUME NEW t \in Threads, PopTake(t) PROVE WindowShape'
  <2>e. Taken(t)
    BY <1>5, TakeEffect
  <2>. QED
    BY <1>5, <2>e, SMTT(30) DEF Taken, WindowShape
<1>6. ASSUME NEW t \in Threads, PopRelease(t) PROVE WindowShape'
  <2>e. Released(t)
    BY <1>6, ReleaseEffect
  <2>1. /\ sequence[At(pos[t])] = pos[t] + 1 /\ pos[t] < dequeue_pos_
        /\ \A n \in Nat : sequence'[At(n)] =
             IF At(n) = At(pos[t]) THEN pos[t] + Slots ELSE sequence[At(n)]
    BY <1>6, <1>a, <1>c, <2>e, Zenon DEF Released, OwnShape
  <2>2. ASSUME NEW n \in Nat, dequeue_pos_ <= n, n < enqueue_pos_
        PROVE  At(n) # At(pos[t])
    <3>. SUFFICES ASSUME At(n) = At(pos[t]) PROVE FALSE
      OBVIOUS
    <3>1. pos[t] + 1 = n + 1 \/ pos[t] + 1 = n
      BY <2>1, <2>2 DEF WindowShape
    <3>2. At(pos[t] + 1) # At(pos[t]) /\ pos[t] \in Nat
      BY <1>a, AtLemma, Zenon
    <3>3. pos[t] = n
      BY <3>1, <3>2
    <3>. QED
      BY <1>a, <2>1, <2>2, <3>3
  <2>3. ASSUME NEW n \in Nat, n < dequeue_pos_
        PROVE  sequence'[At(n)] >= n + 1
    <3>1. sequence[At(n)] >= n + 1 /\ pos[t] \in Nat
      BY <1>a, <2>3 DEF WindowShape
    <3>. QED
      BY <2>1, <3>1, SlotsLemma
  <2>. QED
    BY <1>6, <2>1, <2>2, <2>3, <2>e, SMTT(30) DEF Released, WindowShape
<1>. QED
  BY Moves, StillStep, <1>1, <1>2, <1>3, <1>4, <1>5, <1>6, SMTT(30) DEF
     RingAction

\* An item stays in its slot, as logged, from the store that puts it there to
\* the move that takes it out.
LEMMA StorageStep ==
  ASSUME RingType, ProducerShape, ConsumerShape, ReadShape, OwnShape,
         WindowShape, StorageShape, [Next]_vars
  PROVE  StorageShape'
<1>a. /\ \A t \in Threads : pos[t] \in Nat
      /\ Storing \cup Taking \subseteq Threads
      /\ enqueue_pos_ \in Nat /\ dequeue_pos_ \in Nat
      /\ sequence \in [0..Slots - 1 -> Nat]
  BY DEF RingType, Storing, Taking
<1>b. /\ \A u, v \in Storing : At(pos[u]) = At(pos[v]) => u = v
      /\ \A u, v \in Taking : At(pos[u]) = At(pos[v]) => u = v
      /\ \A u \in Storing, v \in Taking : At(pos[u]) # At(pos[v])
  BY Exclusive
<1>c. Slots \in Nat /\ \A n \in Nat : At(n) \in 0..Slots - 1
  BY AtLemma, SlotsLemma
<1>1. ASSUME NEW p \in Producers, PushClaim(p), enqueue_pos_ = pos[p]
      PROVE  StorageShape'
  <2>e. Claimed(p)
    BY <1>1, ClaimEffect
  <2>1. item[p] \in Item /\ p \in Threads
    BY <1>1, ThreadSets, <2>e, SMTT(30) DEF Claimed, ProducerShape
  <2>2. /\ Len(log') = enqueue_pos_ + 1
        /\ log'[pos[p] + 1] = item[p]
        /\ \A n \in Nat : n < enqueue_pos_ => log'[n + 1] = log[n + 1]
    BY <1>1, <1>a, <2>1, AppendProperties, <2>e, SMTT(30) DEF Claimed,
       StorageShape, RingType
  <2>3. \A u \in Storing \cup Taking : pos[u] \in Nat /\ pos[u] < enqueue_pos_
    BY <1>a DEF OwnShape, RingType
  <2>4. \A u \in Storing \cup Taking : pc'[u] = pc[u] /\ u # p
    BY <1>1, <2>e DEF Claimed, RingType, Storing, Taking
  <2>5. pc'[p] = "push_store"
    BY <1>1, <2>1, <2>e, SMTT(30) DEF Claimed, RingType
  <2>. QED
    BY <1>1, <1>a, <2>2, <2>3, <2>4, <2>5, <2>e, SMTT(30) DEF Claimed,
       StorageShape
<1>2. ASSUME NEW p \in Producers, PushStore(p) PROVE StorageShape'
  <2>e. Stored(p)
    BY <1>2, StoreEffect
  <2>1. /\ \A n \in Nat : storage'[At(n)] =
             IF At(n) = At(pos[p]) THEN item[p] ELSE storage[At(n)]
        /\ \A u \in (Storing \cup Taking) \ {p} : pc'[u] = pc[u]
        /\ p \in Storing /\ p \notin Taking
    BY <1>2, <1>a, <1>c, <2>e, Zenon DEF Stored, RingType, Taking
  <2>2. ASSUME NEW n \in Nat, sequence[At(n)] = n + 1
        PROVE  At(n) # At(pos[p])
    <3>. SUFFICES ASSUME At(n) = At(pos[p]) PROVE FALSE
      OBVIOUS
    <3>1. pos[p] = n + 1
      BY <2>1, <2>2 DEF OwnShape
    <3>. QED
      BY <3>1, AtLemma
  <2>3. ASSUME NEW u \in Storing, pc'[u] = "push_publish"
        PROVE  storage'[At(pos[u])] = log[pos[u] + 1]
    <3>1. CASE u = p
      BY <1>a, <2>1, <3>1, SMTT(30) DEF StorageShape
    <3>2. CASE u # p
      BY <1>a, <1>b, <2>1, <2>3, <3>2, ZenonT(30) DEF StorageShape
    <3>. QED
      BY <3>1, <3>2, SMTT(30)
  <2>4. \A u \in Taking : pc'[u] = pc[u]
    BY <2>1, SMTT(30)
  <2>. QED
    BY <2>1, <2>2, <2>3, <2>4, <2>e, SMTT(30) DEF Stored, StorageShape
<1>3. ASSUME NEW p \in Producers, PushPublish(p) PROVE StorageShape'
  <2>e. Published(p)
    BY <1>3, PublishEffect
  <2>1. /\ \A n \in Nat : sequence'[At(n)] =
             IF At(n) = At(pos[p]) THEN pos[p] + 1 ELSE sequence[At(n)]
        /\ \A u \in Storing' \cup Taking : pc'[u] = pc[u]
        /\ p \in Storing /\ p \notin Taking /\ pos[p] \in Nat
        /\ pc[p] = "push_publish" /\ pos[p] < enqueue_pos_
    BY <1>3, <1>a, <1>c, <2>e, Zenon DEF Published, RingType, Taking, OwnShape
  <2>2. ASSUME NEW n \in Nat, sequence'[At(n)] = n + 1
        PROVE  /\ n < enqueue_pos_
               /\ \/ storage[At(n)] = log[n + 1]
                  \/ \E u \in Taking : pc[u] = "pop_release" /\ pos[u] = n
    <3>1. CASE At(n) = At(pos[p])
      <4>1. pos[p] = n
        BY <2>1, <2>2, <3>1, SMTT(30)
      <4>. QED
        BY <2>1, <4>1, Zenon DEF StorageShape
    <3>2. CASE At(n) # At(pos[p])
      BY <2>1, <2>2, <3>2, SMTT(30) DEF StorageShape
    <3>. QED
      BY <3>1, <3>2, SMTT(30)
  <2>. QED
    BY <1>3, <2>1, <2>2, <2>e, SMTT(30) DEF Published, StorageShape
<1>4. ASSUME NEW t \in Threads, PopClaim(t), dequeue_pos_ = pos[t]
      PROVE  StorageShape'
  <2>e. PopClaimed(t)
    BY <1>4, PopClaimEffect
  <2>1. /\ \A u \in Storing \cup Taking : pc'[u] = pc[u]
        /\ pc'[t] = "pop_take"
    BY <1>4, <2>e, SMTT(30) DEF PopClaimed, RingType, Storing, Taking
  <2>. QED
    BY <1>4, <2>1, <2>e, SMTT(30) DEF PopClaimed, StorageShape
<1>5. ASSUME NEW t \in Threads, PopTake(t) PROVE StorageShape'
  <2>e. Taken(t)
    BY <1>5, TakeEffect
  <2>1. /\ \A n \in Nat : storage'[At(n)] =
             IF At(n) = At(pos[t]) THEN None ELSE storage[At(n)]
        /\ \A u \in (Storing \cup Taking) \ {t} :
             pc'[u] = pc[u] /\ got'[u] = got[u]
        /\ t \in Taking /\ t \notin Storing /\ pos[t] \in Nat
        /\ got'[t] = storage[At(pos[t])] /\ pc'[t] = "pop_release"
    BY <1>5, <1>a, <1>c, <2>e, Zenon DEF Taken, RingType, Storing
  <2>2. sequence[At(pos[t])] = pos[t] + 1
    BY <2>1 DEF OwnShape
  <2>3. ~ \E u \in Taking : pc[u] = "pop_release" /\ pos[u] = pos[t]
    BY <1>5, <2>1, <2>e, SMTT(30) DEF Taken, OwnShape
  <2>4. got'[t] = log[pos[t] + 1]
    BY <2>1, <2>2, <2>3, ZenonT(30) DEF StorageShape
  <2>5. ASSUME NEW n \in Nat, sequence[At(n)] = n + 1
        PROVE  \/ storage'[At(n)] = log[n + 1]
               \/ \E u \in Taking : pc'[u] = "pop_release" /\ pos[u] = n
    <3>1. CASE At(n) = At(pos[t])
      <4>1. n = pos[t]
        BY <2>1, <2>2, <2>5, <3>1, SMTT(30)
      <4>. QED
        BY <2>1, <4>1
    <3>2. CASE At(n) # At(pos[t])
      <4>1. ASSUME NEW u \in Taking, pc[u] = "pop_release", pos[u] = n
            PROVE  pc'[u] = "pop_release"
        BY <2>1, <4>1, SMTT(30)
      <4>. QED
        BY <2>1, <2>5, <3>2, <4>1, SMTT(30) DEF StorageShape
    <3>. QED
      BY <3>1, <3>2, SMTT(30)
  <2>6. \A u \in Storing : storage'[At(pos[u])] = storage[At(pos[u])]
    BY <1>a, <1>b, <2>1, SMTT(30)
  <2>. QED
    <3>1. \A u \in Taking : pc'[u] = "pop_release" => got'[u] = log[pos[u] + 1]
      BY <2>1, <2>4, Zenon DEF StorageShape
    <3>2. \A u \in Storing :
            pc'[u] = "push_publish" => storage'[At(pos[u])] = log[pos[u] + 1]
      BY <2>1, <2>6 DEF StorageShape
    <3>. QED
      BY <2>5, <2>e, <3>1, <3>2 DEF Taken, StorageShape
<1>6. ASSUME NEW t \in Threads, PopRelease(t) PROVE StorageShape'
  <2>e. Released(t)
    BY <1>6, ReleaseEffect
  <2>1. /\ \A n \in Nat : sequence'[At(n)] =
             IF At(n) = At(pos[t]) THEN pos[t] + Slots ELSE sequence[At(n)]
        /\ \A u \in Storing \cup Taking' : pc'[u] = pc[u] /\ got'[u] = got[u]
        /\ t \in Taking /\ pos[t] \in Nat
    BY <1>6, <1>a, <1>c, <2>e, Zenon DEF Released, Storing, Taking
  <2>2. ASSUME NEW n \in Nat, sequence'[At(n)] = n + 1
        PROVE  At(n) # At(pos[t])
    <3>. SUFFICES ASSUME At(n) = At(pos[t]) PROVE FALSE
      OBVIOUS
    <3>1. pos[t] + Slots = n + 1
      BY <2>1, <2>2, SMTT(30)
    <3>2. At(pos[t] + Slots) = At(pos[t])
      BY <2>1, AtLemma
    <3>3. At(n + 1) # At(n)
      BY AtLemma, SMTT(30)
    <3>. QED
      BY <3>1, <3>2, <3>3, SMTT(30)
  <2>3. ASSUME NEW n \in Nat, sequence'[At(n)] = n + 1
        PROVE  /\ n < enqueue_pos_
               /\ \/ storage[At(n)] = log[n + 1]
                  \/ \E u \in Taking' : pc'[u] = "pop_release" /\ pos[u] = n
    <3>1. sequence[At(n)] = n + 1 /\ At(n) # At(pos[t])
      BY <2>1, <2>2, <2>3, SMTT(30)
    <3>2. ASSUME NEW u \in Taking, pc[u] = "pop_release", pos[u] = n
          PROVE  u \in Taking' /\ pc'[u] = "pop_release"
      BY <1>6, <2>1, <3>1, <3>2, <2>e, ZenonT(30) DEF Released
    <3>. QED
      BY <3>1, <3>2, ZenonT(30) DEF StorageShape
  <2>. QED
    BY <1>6, <2>1, <2>3, <2>e DEF Released, StorageShape
<1>. QED
  BY Moves, StillStep, <1>1, <1>2, <1>3, <1>4, <1>5, <1>6, SMTT(30) DEF
     RingAction

\* A sequence that was read stays true until the cursor moves: only an owner of
\* the slot could change it, and there is none.
LEMMA ReadStep ==
  ASSUME RingType, ProducerShape, ConsumerShape, ReadShape, OwnShape,
         [Next]_vars
  PROVE  ReadShape'
<1>. USE ThreadSets DEF RingType, ring, parking, locals, history, closing
<1>a. ASSUME UNCHANGED <<sequence, enqueue_pos_, dequeue_pos_>>,
             NEW s \in Threads,
             \A u \in Threads \ {s} : pc'[u] = pc[u] /\ pos'[u] = pos[u]
      PROVE  /\ \A u \in Threads \ {s} : Reads(u)'
             /\ pc'[s] \notin ReadPc => Reads(s)'
  BY <1>a DEF ReadShape, Reads, ReadPc
<1>b. ASSUME UNCHANGED <<sequence, enqueue_pos_, dequeue_pos_, pc, pos>>
      PROVE  ReadShape'
  BY <1>b, SMTT(30) DEF ReadShape, Reads
<1>1. ASSUME NEW p \in Producers, PushCall(p) PROVE ReadShape'
  <2>1. UNCHANGED <<sequence, enqueue_pos_, dequeue_pos_>> /\ p \in Threads
    BY <1>1 DEF PushCall, Goto
  <2>2. \A u \in Threads \ {p} : pc'[u] = pc[u] /\ pos'[u] = pos[u]
    BY <1>1 DEF PushCall, Goto
  <2>3. pc'[p] \notin ReadPc
    BY <1>1, <2>1 DEF PushCall, Goto, ReadPc
  <2>. QED
    BY <1>a, <2>1, <2>2, <2>3, SMTT(30) DEF ReadShape
<1>2. ASSUME NEW p \in Producers, PushLoad(p) PROVE ReadShape'
  <2>1. UNCHANGED <<sequence, enqueue_pos_, dequeue_pos_>> /\ p \in Threads
    BY <1>2 DEF PushLoad, Goto
  <2>2. \A u \in Threads \ {p} : pc'[u] = pc[u] /\ pos'[u] = pos[u]
    BY <1>2 DEF PushLoad, Goto
  <2>3. pc'[p] = "push_seq" /\ pos'[p] = enqueue_pos_
    BY <1>2, <2>1, SMTT(30) DEF PushLoad, Goto
  <2>4. Reads(p)'
    BY <2>1, <2>3, SMTT(30) DEF Reads
  <2>. QED
    BY <1>a, <2>1, <2>2, <2>4, Zenon DEF ReadShape
<1>3. ASSUME NEW p \in Producers, PushSequence(p) PROVE ReadShape'
  <2>1. UNCHANGED <<sequence, enqueue_pos_, dequeue_pos_>> /\ p \in Threads
    BY <1>3 DEF PushSequence, Reject, Goto
  <2>2. \A u \in Threads \ {p} : pc'[u] = pc[u] /\ pos'[u] = pos[u]
    BY <1>3 DEF PushSequence, Reject, Goto
  <2>a. pos[p] \in Nat
    BY <2>1
  <2>b. At(pos[p]) \in 0..Slots - 1
    BY <2>a, AtLemma, Zenon
  <2>3. sequence[At(pos[p])] \in Nat
    BY <2>b, SlotsLemma, SMTT(30)
  <2>4. /\ pc[p] = "push_seq" /\ pos'[p] = pos[p]
        /\ \/ pc'[p] \notin ReadPc
           \/ pc'[p] = "push_cas" /\ sequence[At(pos[p])] = pos[p]
    BY <1>3, <2>1, <2>a, <2>3, SMTT(30) DEF PushSequence, Reject, Goto, Slot,
       At, ReadPc
  <2>5. Reads(p)'
    BY <2>1, <2>4 DEF Reads, ReadShape, ReadPc
  <2>. QED
    BY <1>a, <2>1, <2>2, <2>5, Zenon DEF ReadShape
<1>4. ASSUME NEW p \in Producers, PushClaim(p) PROVE ReadShape'
  <2>1. CASE enqueue_pos_ = pos[p]
    <3>1. Claimed(p)
      BY <1>4, <2>1, ClaimEffect
    <3>2. \A u \in Threads \ {p} : pc'[u] = pc[u]
      BY <3>1 DEF Claimed
    <3>3. p \in Threads /\ pc'[p] \notin ReadPc
      BY <3>1 DEF Claimed, ReadPc
    <3>4. \A n \in Nat :
            n <= enqueue_pos_ => n <= enqueue_pos_ + 1 /\ n # enqueue_pos_ + 1
      BY SMTT(30)
    <3>. QED
      BY <3>1, <3>2, <3>3, <3>4, SMTT(30) DEF Claimed, ReadShape, Reads,
         ReadPc
  <2>2. CASE enqueue_pos_ # pos[p]
    <3>1. UNCHANGED <<sequence, enqueue_pos_, dequeue_pos_>> /\ p \in Threads
      BY <1>4, <2>2 DEF PushClaim, Goto
    <3>2. \A u \in Threads \ {p} : pc'[u] = pc[u] /\ pos'[u] = pos[u]
      BY <1>4, <2>2 DEF PushClaim, Goto
    <3>3. pc'[p] = "push_seq" /\ pos'[p] = enqueue_pos_
      BY <1>4, <2>2, <3>1, SMTT(30) DEF PushClaim, Goto
    <3>4. Reads(p)'
      BY <3>1, <3>3 DEF Reads
    <3>. QED
      BY <1>a, <3>1, <3>2, <3>4, Zenon DEF ReadShape
  <2>. QED
    BY <2>1, <2>2, SMTT(30)
<1>5. ASSUME NEW p \in Producers, PushStore(p) PROVE ReadShape'
  <2>1. UNCHANGED <<sequence, enqueue_pos_, dequeue_pos_>> /\ p \in Threads
    BY <1>5 DEF PushStore, Goto
  <2>2. \A u \in Threads \ {p} : pc'[u] = pc[u] /\ pos'[u] = pos[u]
    BY <1>5 DEF PushStore, Goto
  <2>3. pc'[p] \notin ReadPc
    BY <1>5, <2>1, SMTT(30) DEF PushStore, Goto, ReadPc
  <2>. QED
    BY <1>a, <2>1, <2>2, <2>3 DEF ReadShape
<1>6. ASSUME NEW p \in Producers, PushPublish(p) PROVE ReadShape'
  <2>1. Published(p) /\ p \in Threads
    BY <1>6, PublishEffect, SMTT(30)
  <2>2. /\ \A u \in Threads \ {p} : pc'[u] = pc[u]
        /\ pc'[p] \notin ReadPc
        /\ pos[p] \in Nat /\ At(pos[p] + 1) # At(pos[p])
    BY <2>1, AtLemma, SMTT(30) DEF Published, ReadPc
  <2>3. \A n \in Nat : At(n) # At(pos[p]) => sequence'[At(n)] = sequence[At(n)]
    BY <2>1, AtLemma, SlotsLemma DEF Published
  <2>4. ASSUME sequence[At(enqueue_pos_)] = enqueue_pos_
        PROVE  sequence'[At(enqueue_pos_)] = enqueue_pos_
    <3>1. At(enqueue_pos_) # At(pos[p])
      BY <2>1, <2>2, <2>4, SMTT(30) DEF Published, OwnShape
    <3>. QED
      BY <2>3, <2>4, <3>1, SMTT(30)
  <2>5. ASSUME sequence[At(dequeue_pos_)] = dequeue_pos_ + 1
        PROVE  sequence'[At(dequeue_pos_)] = dequeue_pos_ + 1
    <3>1. At(dequeue_pos_) # At(pos[p])
      <4>. SUFFICES ASSUME At(dequeue_pos_) = At(pos[p]) PROVE FALSE
        OBVIOUS
      <4>1. pos[p] = dequeue_pos_ + 1
        BY <2>1, <2>5, SMTT(30) DEF Published, OwnShape
      <4>. QED
        BY <4>1, AtLemma
    <3>. QED
      BY <2>3, <2>5, <3>1, SMTT(30)
  <2>. QED
    BY <2>1, <2>2, <2>4, <2>5, SMTT(30) DEF Published, ReadShape, Reads,
       ReadPc
<1>7. ASSUME NEW p \in Producers, NotifySkipped(p) PROVE ReadShape'
  <2>1. UNCHANGED <<sequence, enqueue_pos_, dequeue_pos_>> /\ p \in Threads
    BY <1>7 DEF NotifySkipped, PushReturns, Goto
  <2>2. \A u \in Threads \ {p} : pc'[u] = pc[u] /\ pos'[u] = pos[u]
    BY <1>7 DEF NotifySkipped, PushReturns, Goto
  <2>3. pc'[p] \notin ReadPc
    BY <1>7, <2>1, SMTT(30) DEF NotifySkipped, PushReturns, Goto, ReadPc
  <2>. QED
    BY <1>a, <2>1, <2>2, <2>3 DEF ReadShape
<1>8. ASSUME NEW p \in Producers, NotifyNeeded(p) PROVE ReadShape'
  <2>1. UNCHANGED <<sequence, enqueue_pos_, dequeue_pos_>> /\ p \in Threads
    BY <1>8 DEF NotifyNeeded, Goto
  <2>2. \A u \in Threads \ {p} : pc'[u] = pc[u] /\ pos'[u] = pos[u]
    BY <1>8 DEF NotifyNeeded, Goto
  <2>3. pc'[p] \notin ReadPc
    BY <1>8, <2>1, SMTT(30) DEF NotifyNeeded, Goto, ReadPc
  <2>. QED
    BY <1>a, <2>1, <2>2, <2>3 DEF ReadShape
<1>9. ASSUME NEW p \in Producers, NotifyOne(p) PROVE ReadShape'
  <2>1. UNCHANGED <<sequence, enqueue_pos_, dequeue_pos_>> /\ p \in Threads
    BY <1>9 DEF NotifyOne, PushReturns, Goto
  <2>2. \A u \in Threads \ {p} : pc'[u] = pc[u] /\ pos'[u] = pos[u]
    BY <1>9 DEF NotifyOne, PushReturns, Goto
  <2>3. pc'[p] \notin ReadPc
    BY <1>9, <2>1, SMTT(30) DEF NotifyOne, PushReturns, Goto, ReadPc
  <2>. QED
    BY <1>a, <2>1, <2>2, <2>3 DEF ReadShape
<1>10. ASSUME NEW t \in Threads, PopLoad(t) PROVE ReadShape'
  <2>1. UNCHANGED <<sequence, enqueue_pos_, dequeue_pos_>> /\ t \in Threads
    BY <1>10 DEF PopLoad, Goto
  <2>2. \A u \in Threads \ {t} : pc'[u] = pc[u] /\ pos'[u] = pos[u]
    BY <1>10 DEF PopLoad, Goto
  <2>3. pc'[t] = "pop_seq" /\ pos'[t] = dequeue_pos_
    BY <1>10, <2>1, SMTT(30) DEF PopLoad, Goto
  <2>4. Reads(t)'
    BY <2>1, <2>3, SMTT(30) DEF Reads
  <2>. QED
    BY <1>a, <2>1, <2>2, <2>4, ZenonT(30) DEF ReadShape
<1>11. ASSUME NEW t \in Threads, PopSequence(t) PROVE ReadShape'
  <2>1. UNCHANGED <<sequence, enqueue_pos_, dequeue_pos_>> /\ t \in Threads
    BY <1>11, SMTT(30) DEF PopSequence, PopFoundNothing, Reject, Goto
  <2>2. \A u \in Threads \ {t} : pc'[u] = pc[u] /\ pos'[u] = pos[u]
    BY <1>11, ZenonT(30) DEF PopSequence, PopFoundNothing, Reject, Goto
  <2>a. pos[t] \in Nat
    BY <2>1
  <2>b. At(pos[t]) \in 0..Slots - 1
    BY <2>a, AtLemma
  <2>3. sequence[At(pos[t])] \in Nat
    BY <2>b, SlotsLemma, SMTT(30)
  <2>4. /\ pc[t] = "pop_seq" /\ pos'[t] = pos[t]
        /\ \/ pc'[t] \notin ReadPc
           \/ pc'[t] = "pop_cas" /\ sequence[At(pos[t])] = pos[t] + 1
    BY <1>11, <2>1, <2>a, <2>3, SMTT(30) DEF PopSequence, PopFoundNothing,
       Reject, Goto, Slot, At, ReadPc
  <2>5. Reads(t)'
    BY <2>1, <2>4, ZenonT(30) DEF Reads, ReadShape, ReadPc
  <2>. QED
    BY <1>a, <2>1, <2>2, <2>5 DEF ReadShape
<1>12. ASSUME NEW t \in Threads, PopClaim(t) PROVE ReadShape'
  <2>1. CASE dequeue_pos_ = pos[t]
    <3>1. PopClaimed(t)
      BY <1>12, <2>1, PopClaimEffect
    <3>2. \A u \in Threads \ {t} : pc'[u] = pc[u]
      BY <3>1 DEF PopClaimed
    <3>3. t \in Threads /\ pc'[t] \notin ReadPc
      BY <3>1 DEF PopClaimed, ReadPc
    <3>4. \A n \in Nat :
            n <= dequeue_pos_ => n <= dequeue_pos_ + 1 /\ n # dequeue_pos_ + 1
      BY SMTT(30)
    <3>. QED
      BY <3>1, <3>2, <3>3, <3>4, SMTT(30) DEF PopClaimed, ReadShape, Reads,
         ReadPc
  <2>2. CASE dequeue_pos_ # pos[t]
    <3>1. UNCHANGED <<sequence, enqueue_pos_, dequeue_pos_>> /\ t \in Threads
      BY <1>12, <2>2, SMTT(30) DEF PopClaim, Goto
    <3>2. \A u \in Threads \ {t} : pc'[u] = pc[u] /\ pos'[u] = pos[u]
      BY <1>12, <2>2 DEF PopClaim, Goto
    <3>3. pc'[t] = "pop_seq" /\ pos'[t] = dequeue_pos_
      BY <1>12, <2>2, <3>1, SMTT(30) DEF PopClaim, Goto
    <3>4. Reads(t)'
      BY <3>1, <3>3 DEF Reads
    <3>. QED
      BY <1>a, <3>1, <3>2, <3>4 DEF ReadShape
  <2>. QED
    BY <2>1, <2>2, SMTT(30)
<1>13. ASSUME NEW t \in Threads, PopTake(t) PROVE ReadShape'
  <2>1. UNCHANGED <<sequence, enqueue_pos_, dequeue_pos_>> /\ t \in Threads
    BY <1>13 DEF PopTake, Goto
  <2>2. \A u \in Threads \ {t} : pc'[u] = pc[u] /\ pos'[u] = pos[u]
    BY <1>13 DEF PopTake, Goto
  <2>3. pc'[t] \notin ReadPc
    BY <1>13, <2>1, SMTT(30) DEF PopTake, Goto, ReadPc
  <2>. QED
    BY <1>a, <2>1, <2>2, <2>3, SMTT(30) DEF ReadShape
<1>14. ASSUME NEW t \in Threads, PopRelease(t) PROVE ReadShape'
  <2>1. Released(t) /\ t \in Threads
    BY <1>14, ReleaseEffect
  <2>2. /\ \A u \in Threads \ {t} : pc'[u] = pc[u]
        /\ pc'[t] \notin ReadPc
        /\ pos[t] \in Nat /\ At(pos[t] + 1) # At(pos[t])
    BY <2>1, AtLemma, Zenon DEF Released, ReadPc
  <2>3. \A n \in Nat : At(n) # At(pos[t]) => sequence'[At(n)] = sequence[At(n)]
    BY <2>1, AtLemma, SlotsLemma DEF Released
  <2>4. ASSUME sequence[At(enqueue_pos_)] = enqueue_pos_
        PROVE  sequence'[At(enqueue_pos_)] = enqueue_pos_
    <3>1. At(enqueue_pos_) # At(pos[t])
      <4>. SUFFICES ASSUME At(enqueue_pos_) = At(pos[t]) PROVE FALSE
        BY SMTT(30)
      <4>1. enqueue_pos_ = pos[t] + 1
        BY <2>1, <2>4 DEF Released, OwnShape
      <4>. QED
        BY <2>2, <4>1
    <3>. QED
      BY <2>3, <2>4, <3>1, SMTT(30)
  <2>5. ASSUME sequence[At(dequeue_pos_)] = dequeue_pos_ + 1
        PROVE  sequence'[At(dequeue_pos_)] = dequeue_pos_ + 1
    <3>1. At(dequeue_pos_) # At(pos[t])
      <4>. SUFFICES ASSUME At(dequeue_pos_) = At(pos[t]) PROVE FALSE
        BY SMTT(30)
      <4>1. dequeue_pos_ + 1 = pos[t] + 1 /\ pos[t] < dequeue_pos_
        BY <2>1, <2>5 DEF Released, OwnShape
      <4>. QED
        BY <2>2, <4>1
    <3>. QED
      BY <2>3, <2>5, <3>1, SMTT(30)
  <2>. QED
    BY <2>1, <2>2, <2>4, <2>5, ZenonT(30)
       DEF Released, ReadShape, Reads, ReadPc
<1>15. ASSUME NEW c \in Consumers, SpinFlag(c) PROVE ReadShape'
  <2>1. UNCHANGED <<sequence, enqueue_pos_, dequeue_pos_>> /\ c \in Threads
    BY <1>15 DEF SpinFlag, Goto
  <2>2. \A u \in Threads \ {c} : pc'[u] = pc[u] /\ pos'[u] = pos[u]
    BY <1>15 DEF SpinFlag, Goto
  <2>3. pc'[c] \notin ReadPc
    BY <1>15, <2>1, SMTT(30) DEF SpinFlag, Goto, ReadPc
  <2>. QED
    BY <1>a, <2>1, <2>2, <2>3, Zenon DEF ReadShape
<1>16. ASSUME NEW c \in Consumers, Register(c) PROVE ReadShape'
  <2>1. UNCHANGED <<sequence, enqueue_pos_, dequeue_pos_>> /\ c \in Threads
    BY <1>16 DEF Register, Goto
  <2>2. \A u \in Threads \ {c} : pc'[u] = pc[u] /\ pos'[u] = pos[u]
    BY <1>16 DEF Register, Goto
  <2>3. pc'[c] \notin ReadPc
    BY <1>16, <2>1, SMTT(30) DEF Register, Goto, ReadPc
  <2>. QED
    BY <1>a, <2>1, <2>2, <2>3, Zenon DEF ReadShape
<1>17. ASSUME NEW c \in Consumers, Decide(c) PROVE ReadShape'
  <2>1. UNCHANGED <<sequence, enqueue_pos_, dequeue_pos_>> /\ c \in Threads
    BY <1>17, SMTT(30) DEF Decide, PopReturns, Goto
  <2>2. \A u \in Threads \ {c} : pc'[u] = pc[u] /\ pos'[u] = pos[u]
    BY <1>17, SMTT(30) DEF Decide, PopReturns, Goto
  <2>3. pc'[c] \notin ReadPc
    BY <1>17, <2>1, SMTT(30) DEF Decide, PopReturns, Goto, ReadPc
  <2>. QED
    BY <1>a, <2>1, <2>2, <2>3, Zenon DEF ReadShape
<1>18. ASSUME NEW c \in Consumers, Wait(c) PROVE ReadShape'
  <2>1. UNCHANGED <<sequence, enqueue_pos_, dequeue_pos_>> /\ c \in Threads
    BY <1>18 DEF Wait, Goto
  <2>2. \A u \in Threads \ {c} : pc'[u] = pc[u] /\ pos'[u] = pos[u]
    BY <1>18 DEF Wait, Goto
  <2>3. pc'[c] \notin ReadPc
    BY <1>18, <2>1, SMTT(30) DEF Wait, Goto, ReadPc
  <2>. QED
    BY <1>a, <2>1, <2>2, <2>3, Zenon DEF ReadShape
<1>19. ASSUME NEW c \in Consumers, Wake(c) PROVE ReadShape'
  <2>1. UNCHANGED <<sequence, enqueue_pos_, dequeue_pos_>> /\ c \in Threads
    BY <1>19 DEF Wake, Goto
  <2>2. \A u \in Threads \ {c} : pc'[u] = pc[u] /\ pos'[u] = pos[u]
    BY <1>19, SMTT(30) DEF Wake, Goto
  <2>3. pc'[c] \notin ReadPc
    BY <1>19, <2>1, SMTT(30) DEF Wake, Goto, ReadPc
  <2>. QED
    BY <1>a, <2>1, <2>2, <2>3, Zenon DEF ReadShape
<1>20. ASSUME NEW c \in Consumers, Spurious(c) PROVE ReadShape'
  BY <1>20, <1>b DEF Spurious
<1>21. CASE SetShuttingDown
  BY <1>21, <1>b, SMTT(30) DEF SetShuttingDown
<1>22. CASE NotifyAll
  BY <1>22, <1>b, SMTT(30) DEF NotifyAll
<1>23. CASE Finished
  BY <1>23, <1>b DEF Finished, vars
<1>24. CASE UNCHANGED vars
  BY <1>24, <1>b DEF vars
<1>. QED
  BY <1>1, <1>2, <1>3, <1>4, <1>5, <1>6, <1>7, <1>8, <1>9, <1>10, <1>11,
     <1>12, <1>13, <1>14, <1>15, <1>16, <1>17, <1>18, <1>19, <1>20, <1>21,
     <1>22, <1>23, <1>24, ThreadSets, SMTT(30) DEF Next, PushStep, PopStep,
     ConsumerStep
=============================================================================
