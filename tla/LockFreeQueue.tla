--------------------------- MODULE LockFreeQueue ---------------------------
(***************************************************************************)
(* core/include/edgeflow/lock_free_bounded_queue.hpp, the event queue of   *)
(* edgeflow-gateway-lockfree: a ring of slots with sequence numbers, two   *)
(* cursors advanced by compare-and-swap, and a mutex and a condition       *)
(* variable that only an idle consumer and whoever wakes it touch.         *)
(*                                                                         *)
(* Each access to an atomic or to a slot's storage is a step of its own.   *)
(* Memory is sequentially consistent: the slots are handed over by         *)
(* release/acquire pairs on `sequence', and the two seq_cst fences order   *)
(* publication against `waiters_'.  A spurious failure of                  *)
(* compare_exchange_weak re-reads the same position and is left out.       *)
(* Positions do not wrap (kMaxCapacity keeps them far from it).            *)
(*                                                                         *)
(* Main calls shutdown() as the gateway does, when no push is under way    *)
(* and none will follow.                                                   *)
(***************************************************************************)
EXTENDS Integers, Sequences, FiniteSets, QueueTypes

CONSTANTS Producers, Consumers,
          RequestedCapacity,  \* the constructor's argument
          kSpinAttempts,
          MaxItems,           \* bound on the calls of push()
          None

ASSUME LockFreeAssumption ==
  /\ RequestedCapacity \in 1..(2^30)
  /\ kSpinAttempts \in Nat \ {0}
  /\ MaxItems \in Nat
  /\ Producers \cap Consumers = {}
  /\ IsFiniteSet(Consumers) /\ Consumers # {}
  /\ None \notin Producers \cup Consumers \cup Nat

Threads == Producers \cup Consumers

\* Mutant: no floor of two slots.
validated_capacity_NoFloor(capacity) ==
  CHOOSE rounded \in {2^i : i \in 0..30} :
    rounded >= capacity /\ rounded < 2 * capacity

\* The least power of two that is at least `capacity', and at least 2.
validated_capacity(capacity) ==
  LET rounded == CHOOSE r \in {2^i : i \in 0..30} :
                   r >= capacity /\ r < 2 * capacity
  IN IF rounded < 2 THEN 2 ELSE rounded

Slots == validated_capacity(RequestedCapacity)

VARIABLES policy_,
          sequence, storage,  \* buffer_
          enqueue_pos_, dequeue_pos_, shutting_down_, waiters_,
          wait_mutex_,        \* the thread that holds it, or None
          asleep,             \* consumers waiting on not_empty_
          notified,           \* consumers woken that want wait_mutex_ back
          pc,                 \* per thread: its next access
          phase,              \* per thread: which call of try_push/try_pop
          pos,                \* per thread: `pos'
          item,               \* per producer: the argument of push()
          got,                \* per thread: the value try_pop() moved out
          attempt,            \* per consumer: passes of the spin loop
          offered,            \* calls of push() so far
          log,                \* history: items by claimed enqueue position
          rejected,           \* history: a push returned RejectedBackpressure
          main                \* where the caller of shutdown() stands

ring == <<sequence, storage, enqueue_pos_, dequeue_pos_>>
parking == <<waiters_, wait_mutex_, asleep, notified>>
locals == <<pc, phase, pos, item, got, attempt>>
history == <<offered, log, rejected>>
closing == <<shutting_down_, main>>
vars == <<policy_, ring, closing, parking, locals, history>>

Init ==
  /\ policy_ \in {Block, DropOldest}  \* DropNewest runs the code of Block
  /\ sequence = [i \in 0..Slots - 1 |-> i]
  /\ storage = [i \in 0..Slots - 1 |-> None]
  /\ enqueue_pos_ = 0
  /\ dequeue_pos_ = 0
  /\ shutting_down_ = FALSE
  /\ waiters_ = 0
  /\ wait_mutex_ = None
  /\ asleep = {}
  /\ notified = {}
  /\ pc = [t \in Threads |-> IF t \in Producers THEN "idle" ELSE "pop_load"]
  /\ phase = [t \in Threads |-> IF t \in Producers THEN "first" ELSE "spin"]
  /\ pos = [t \in Threads |-> 0]
  /\ item = [p \in Producers |-> None]
  /\ got = [t \in Threads |-> None]
  /\ attempt = [c \in Consumers |-> 0]
  /\ offered = 0
  /\ log = <<>>
  /\ rejected = FALSE
  /\ main = "running"

Goto(t, where) == pc' = [pc EXCEPT ![t] = where]

Slot(t) == pos[t] % Slots

-----------------------------------------------------------------------------
(* push().                                                                 *)

PushCall(p) ==
  /\ pc[p] = "idle"
  /\ ~shutting_down_
  /\ offered < MaxItems
  /\ offered' = offered + 1
  /\ item' = [item EXCEPT ![p] = offered + 1]
  /\ phase' = [phase EXCEPT ![p] = "first"]
  /\ Goto(p, "push_load")
  /\ UNCHANGED <<policy_, ring, closing, parking, pos, got, attempt,
                 log, rejected>>

\* push() returns RejectedBackpressure.
Reject(p) ==
  /\ Goto(p, "idle")
  /\ item' = [item EXCEPT ![p] = None]
  /\ rejected' = TRUE
  /\ UNCHANGED phase

\* try_push: read the cursor.
PushLoad(p) ==
  /\ pc[p] = "push_load"
  /\ pos' = [pos EXCEPT ![p] = enqueue_pos_]
  /\ Goto(p, "push_seq")
  /\ UNCHANGED <<policy_, ring, closing, parking, phase, item, got,
                 attempt, history>>

\* try_push: read the slot's sequence and compare it with the position.
PushSequence(p) ==
  LET diff == sequence[Slot(p)] - pos[p]
  IN /\ pc[p] = "push_seq"
     /\ \/ /\ diff >= 0
           /\ Goto(p, IF diff = 0 THEN "push_cas" ELSE "push_load")
           /\ UNCHANGED <<phase, item, rejected>>
        \/ /\ diff < 0  \* full
           /\ IF phase[p] = "first" /\ policy_ = DropOldest
              THEN /\ Goto(p, "pop_load")
                   /\ phase' = [phase EXCEPT ![p] = "discard"]
                   /\ UNCHANGED <<item, rejected>>
              ELSE Reject(p)
     /\ UNCHANGED <<policy_, ring, closing, parking, pos, got, attempt,
                    offered, log>>

\* try_push: claim the position, or learn the new one.
PushClaim(p) ==
  /\ pc[p] = "push_cas"
  /\ IF enqueue_pos_ = pos[p]
     THEN /\ enqueue_pos_' = enqueue_pos_ + 1
          /\ log' = Append(log, item[p])
          /\ Goto(p, "push_store")
          /\ UNCHANGED pos
     ELSE /\ pos' = [pos EXCEPT ![p] = enqueue_pos_]
          /\ Goto(p, "push_seq")
          /\ UNCHANGED <<enqueue_pos_, log>>
  /\ UNCHANGED <<policy_, sequence, storage, dequeue_pos_, closing,
                 parking, phase, item, got, attempt, offered, rejected>>

\* Mutant: the slot is published before its value is stored.
PushStore_PublishesFirst(p) ==
  /\ pc[p] = "push_store"
  /\ sequence' = [sequence EXCEPT ![Slot(p)] = pos[p] + 1]
  /\ Goto(p, "push_publish")
  /\ UNCHANGED <<policy_, storage, enqueue_pos_, dequeue_pos_, closing,
                 parking, phase, pos, item, got, attempt, history>>

PushStore(p) ==
  /\ pc[p] = "push_store"
  /\ storage' = [storage EXCEPT ![Slot(p)] = item[p]]
  /\ Goto(p, "push_publish")
  /\ UNCHANGED <<policy_, sequence, enqueue_pos_, dequeue_pos_, closing,
                 parking, phase, pos, item, got, attempt, history>>

PushPublish(p) ==
  /\ pc[p] = "push_publish"
  /\ sequence' = [sequence EXCEPT ![Slot(p)] = pos[p] + 1]
  /\ Goto(p, "notify")
  /\ UNCHANGED <<policy_, storage, enqueue_pos_, dequeue_pos_, closing,
                 parking, phase, pos, item, got, attempt, history>>

\* push() returns Accepted, or DroppedOldest after a discard.
PushReturns(p) ==
  /\ Goto(p, "idle")
  /\ item' = [item EXCEPT ![p] = None]

\* notify_one_waiter: nobody is registered.
NotifySkipped(p) ==
  /\ pc[p] = "notify"
  /\ waiters_ = 0
  /\ PushReturns(p)
  /\ UNCHANGED <<policy_, ring, closing, parking, phase, pos, got,
                 attempt, history>>

NotifyNeeded(p) ==
  /\ pc[p] = "notify"
  /\ waiters_ # 0
  /\ Goto(p, "notify_lock")
  /\ UNCHANGED <<policy_, ring, closing, parking, phase, pos, item, got,
                 attempt, history>>

\* notify_one() with wait_mutex_ held.
NotifyOne(p) ==
  /\ pc[p] = "notify_lock"
  /\ wait_mutex_ = None
  /\ \/ asleep = {} /\ UNCHANGED <<asleep, notified>>
     \/ \E c \in asleep :
          asleep' = asleep \ {c} /\ notified' = notified \cup {c}
  /\ PushReturns(p)
  /\ UNCHANGED <<policy_, ring, closing, waiters_, wait_mutex_, phase,
                 pos, got, attempt, history>>

-----------------------------------------------------------------------------
(* try_pop(), called by consumers and by a producer that makes room.       *)

\* What the caller does next when try_pop() returned std::nullopt.
PopFoundNothing(t) ==
  \/ /\ phase[t] = "discard"
     /\ Reject(t)
     /\ UNCHANGED wait_mutex_
  \/ /\ phase[t] = "last"
     /\ Goto(t, "exited")
     /\ wait_mutex_' = IF wait_mutex_ = t THEN None ELSE wait_mutex_
     /\ UNCHANGED <<phase, item, rejected>>
  \/ /\ phase[t] \in {"spin", "recheck"}
     /\ Goto(t, IF phase[t] = "spin" THEN "flag" ELSE "decide")
     /\ UNCHANGED <<phase, item, rejected, wait_mutex_>>

PopLoad(t) ==
  /\ pc[t] = "pop_load"
  /\ pos' = [pos EXCEPT ![t] = dequeue_pos_]
  /\ Goto(t, "pop_seq")
  /\ UNCHANGED <<policy_, ring, closing, parking, phase, item, got,
                 attempt, history>>

\* Mutant: the cursor is not read again when another thread has moved it.
PopSequence_NoReload(t) ==
  LET diff == sequence[Slot(t)] - (pos[t] + 1)
  IN /\ pc[t] = "pop_seq"
     /\ \/ /\ diff >= 0
           /\ Goto(t, IF diff = 0 THEN "pop_cas" ELSE "pop_seq")
           /\ UNCHANGED <<phase, item, rejected, wait_mutex_>>
        \/ diff < 0 /\ PopFoundNothing(t)
     /\ UNCHANGED <<policy_, ring, closing, waiters_, asleep, notified, pos,
                    got, attempt, offered, log>>

PopSequence(t) ==
  LET diff == sequence[Slot(t)] - (pos[t] + 1)
  IN /\ pc[t] = "pop_seq"
     /\ \/ /\ diff >= 0
           /\ Goto(t, IF diff = 0 THEN "pop_cas" ELSE "pop_load")
           /\ UNCHANGED <<phase, item, rejected, wait_mutex_>>
        \/ diff < 0 /\ PopFoundNothing(t)
     /\ UNCHANGED <<policy_, ring, closing, waiters_, asleep, notified,
                    pos, got, attempt, offered, log>>

\* Mutant: the cursor is stored without comparing it first.
PopClaim_NoCompare(t) ==
  /\ pc[t] = "pop_cas"
  /\ dequeue_pos_' = pos[t] + 1
  /\ Goto(t, "pop_take")
  /\ UNCHANGED <<policy_, sequence, storage, enqueue_pos_, closing,
                 parking, phase, pos, item, got, attempt, offered, log,
                 rejected>>

PopClaim(t) ==
  /\ pc[t] = "pop_cas"
  /\ IF dequeue_pos_ = pos[t]
     THEN /\ dequeue_pos_' = dequeue_pos_ + 1
          /\ Goto(t, "pop_take")
          /\ UNCHANGED pos
     ELSE /\ pos' = [pos EXCEPT ![t] = dequeue_pos_]
          /\ Goto(t, "pop_seq")
          /\ UNCHANGED dequeue_pos_
  /\ UNCHANGED <<policy_, sequence, storage, enqueue_pos_, closing,
                 parking, phase, item, got, attempt, offered, log, rejected>>

\* The value is moved out of the slot.
PopTake(t) ==
  /\ pc[t] = "pop_take"
  /\ got' = [got EXCEPT ![t] = storage[Slot(t)]]
  /\ storage' = [storage EXCEPT ![Slot(t)] = None]
  /\ Goto(t, "pop_release")
  /\ UNCHANGED <<policy_, sequence, enqueue_pos_, dequeue_pos_, closing,
                 parking, phase, pos, item, attempt, history>>

\* pop() returns an item to WorkerPool, which calls pop() again.
PopReturns(t) ==
  /\ Goto(t, "pop_load")
  /\ phase' = [phase EXCEPT ![t] = "spin"]
  /\ attempt' = [attempt EXCEPT ![t] = 0]
  /\ got' = [got EXCEPT ![t] = None]
  /\ wait_mutex_' = IF wait_mutex_ = t THEN None ELSE wait_mutex_

\* The slot goes to the producer one lap ahead, and the caller goes on.
PopRelease(t) ==
  /\ pc[t] = "pop_release"
  /\ sequence' = [sequence EXCEPT ![Slot(t)] = pos[t] + Slots]
  /\ CASE phase[t] = "discard" ->
            /\ Goto(t, "push_load")
            /\ phase' = [phase EXCEPT ![t] = "second"]
            /\ got' = [got EXCEPT ![t] = None]
            /\ UNCHANGED <<attempt, wait_mutex_>>
       [] phase[t] = "recheck" ->
            Goto(t, "decide") /\ UNCHANGED <<phase, got, attempt, wait_mutex_>>
       [] phase[t] \in {"spin", "last"} -> PopReturns(t)
  /\ UNCHANGED <<policy_, storage, enqueue_pos_, dequeue_pos_, closing,
                 waiters_, asleep, notified, pos, item, history>>

-----------------------------------------------------------------------------
(* The rest of pop().                                                      *)

\* The spin loop, after an empty try_pop().
SpinFlag(c) ==
  /\ pc[c] = "flag"
  /\ \/ /\ shutting_down_
        /\ Goto(c, "pop_load")
        /\ phase' = [phase EXCEPT ![c] = "last"]
        /\ UNCHANGED attempt
     \/ /\ ~shutting_down_
        /\ attempt' = [attempt EXCEPT ![c] = @ + 1]
        /\ Goto(c, IF attempt[c] + 1 < kSpinAttempts
                   THEN "pop_load" ELSE "lock")
        /\ UNCHANGED phase
  /\ UNCHANGED <<policy_, ring, closing, parking, pos, item, got,
                 history>>

\* Mutant: the consumer sleeps without looking at the ring again.
Register_NoRecheck(c) ==
  /\ \/ pc[c] = "lock" /\ wait_mutex_ = None
     \/ pc[c] = "register" /\ wait_mutex_ = c
  /\ wait_mutex_' = c
  /\ waiters_' = waiters_ + 1
  /\ Goto(c, "decide")
  /\ UNCHANGED <<policy_, ring, closing, asleep, notified, phase, pos, item,
                 got, attempt, history>>

\* Take wait_mutex_ unless it is held already, register, look again.
Register(c) ==
  /\ \/ pc[c] = "lock" /\ wait_mutex_ = None
     \/ pc[c] = "register" /\ wait_mutex_ = c
  /\ wait_mutex_' = c
  /\ waiters_' = waiters_ + 1
  /\ Goto(c, "pop_load")
  /\ phase' = [phase EXCEPT ![c] = "recheck"]
  /\ UNCHANGED <<policy_, ring, closing, asleep, notified, pos, item,
                 got, attempt, history>>

\* Read the flag and choose: sleep, return the item, or look one last time.
Decide(c) ==
  /\ pc[c] = "decide"
  /\ \/ /\ got[c] = None /\ ~shutting_down_
        /\ Goto(c, "wait")
        /\ UNCHANGED <<waiters_, wait_mutex_, phase, got, attempt>>
     \/ /\ got[c] # None
        /\ waiters_' = waiters_ - 1
        /\ PopReturns(c)
     \/ /\ got[c] = None /\ shutting_down_
        /\ waiters_' = waiters_ - 1
        /\ Goto(c, "pop_load")
        /\ phase' = [phase EXCEPT ![c] = "last"]
        /\ UNCHANGED <<wait_mutex_, got, attempt>>
  /\ UNCHANGED <<policy_, ring, closing, asleep, notified, pos, item,
                 history>>

\* not_empty_.wait releases wait_mutex_ and sleeps, in one step; the flag was
\* read in an earlier one.
Wait(c) ==
  /\ pc[c] = "wait"
  /\ wait_mutex_' = None
  /\ asleep' = asleep \cup {c}
  /\ Goto(c, "asleep")
  /\ UNCHANGED <<policy_, ring, closing, waiters_, notified, phase, pos,
                 item, got, attempt, history>>

\* Mutant: the consumer stays registered.
Wake_StaysRegistered(c) ==
  /\ pc[c] = "asleep"
  /\ c \in notified
  /\ wait_mutex_ = None
  /\ wait_mutex_' = c
  /\ notified' = notified \ {c}
  /\ Goto(c, "register")
  /\ UNCHANGED <<policy_, ring, closing, waiters_, asleep, phase, pos, item,
                 got, attempt, history>>

\* wait() returns, signalled or spuriously, with wait_mutex_ held again.
Wake(c) ==
  /\ pc[c] = "asleep"
  /\ c \in notified
  /\ wait_mutex_ = None
  /\ wait_mutex_' = c
  /\ notified' = notified \ {c}
  /\ waiters_' = waiters_ - 1
  /\ Goto(c, "register")
  /\ UNCHANGED <<policy_, ring, closing, asleep, phase, pos, item, got,
                 attempt, history>>

Spurious(c) ==
  /\ c \in asleep
  /\ asleep' = asleep \ {c}
  /\ notified' = notified \cup {c}
  /\ UNCHANGED <<policy_, ring, closing, waiters_, wait_mutex_, locals,
                 history>>

-----------------------------------------------------------------------------
(* shutdown().                                                             *)

SetShuttingDown ==
  /\ main = "running"
  /\ \A p \in Producers : pc[p] = "idle"
  /\ shutting_down_' = TRUE
  /\ main' = "notify"
  /\ UNCHANGED <<policy_, ring, parking, locals, history>>

\* notify_all() with wait_mutex_ held.
NotifyAll ==
  /\ main = "notify"
  /\ wait_mutex_ = None
  /\ asleep' = {}
  /\ notified' = notified \cup asleep
  /\ main' = "done"
  /\ UNCHANGED <<policy_, ring, shutting_down_, waiters_, wait_mutex_, locals,
                 history>>

\* shutdown() has returned and the workers have left.
Finished ==
  /\ main = "done"
  /\ \A c \in Consumers : pc[c] = "exited"
  /\ UNCHANGED vars

-----------------------------------------------------------------------------

PopStep(t) ==
  PopLoad(t) \/ PopSequence(t) \/ PopClaim(t) \/ PopTake(t) \/ PopRelease(t)

PushStep(p) ==
  \/ PushLoad(p) \/ PushSequence(p) \/ PushClaim(p) \/ PushStore(p)
  \/ PushPublish(p) \/ NotifySkipped(p) \/ NotifyNeeded(p) \/ NotifyOne(p)
  \/ PopStep(p)

ConsumerStep(c) ==
  \/ PopStep(c) \/ SpinFlag(c) \/ Register(c) \/ Decide(c) \/ Wait(c)
  \/ Wake(c)

Next ==
  \/ \E p \in Producers : PushCall(p) \/ PushStep(p)
  \/ \E c \in Consumers : ConsumerStep(c) \/ Spurious(c)
  \/ SetShuttingDown \/ NotifyAll
  \/ Finished

\* Threads are scheduled and finish the calls they are in; calling push() or
\* shutdown() is nobody's duty.  wait_mutex_ does not starve whoever waits for
\* it while the consumers, woken spuriously over and over, take it in turns.
Fairness ==
  /\ \A p \in Producers : WF_vars(PushStep(p)) /\ SF_vars(NotifyOne(p))
  /\ \A c \in Consumers : WF_vars(ConsumerStep(c))
                            /\ SF_vars(Register(c) \/ Wake(c))
  /\ SF_vars(NotifyAll)

Spec == Init /\ [][Next]_vars /\ Fairness

-----------------------------------------------------------------------------
(* Properties.                                                             *)

Item == 1..MaxItems

Pc == {"idle", "push_load", "push_seq", "push_cas", "push_store",
       "push_publish", "notify", "notify_lock", "pop_load", "pop_seq",
       "pop_cas", "pop_take", "pop_release", "flag", "lock", "register",
       "decide", "wait", "asleep", "exited"}

\* Every variable has its type, and waiters_, an unsigned counter maintained
\* outside any lock by the producers that read it, counts exactly the consumers
\* that are registered: it never wraps below zero.  The ring never holds more
\* than capacity() items.
TypeOK ==
  /\ policy_ \in BackpressurePolicy
  /\ sequence \in [0..Slots - 1 -> Nat]
  /\ storage \in [0..Slots - 1 -> Item \cup {None}]
  /\ enqueue_pos_ \in Nat
  /\ dequeue_pos_ \in Nat
  /\ enqueue_pos_ - dequeue_pos_ \in 0..Slots
  /\ shutting_down_ \in BOOLEAN
  /\ main \in {"running", "notify", "done"}
  /\ waiters_ \in 0..Cardinality(Consumers)
  /\ wait_mutex_ \in Consumers \cup {None}
  /\ asleep \subseteq Consumers
  /\ notified \subseteq Consumers
  /\ pc \in [Threads -> Pc]
  /\ phase \in [Threads -> {"first", "second", "discard", "spin", "recheck",
                            "last"}]
  /\ pos \in [Threads -> Nat]
  /\ item \in [Producers -> Item \cup {None}]
  /\ got \in [Threads -> Item \cup {None}]
  /\ attempt \in [Consumers -> 0..kSpinAttempts]
  /\ offered \in 0..MaxItems
  /\ log \in Seq(Item)
  /\ rejected \in BOOLEAN

\* The threads that own a slot: they have claimed its position and have not
\* yet handed it on by storing its sequence.
Owning == {t \in Threads : pc[t] \in {"push_store", "push_publish", "pop_take",
                                     "pop_release"}}

\* Two threads never own the same slot, so its storage, which is not atomic,
\* is never accessed by two threads at once.
SlotExclusive ==
  \A t, u \in Owning : t # u => Slot(t) # Slot(u)

\* Whoever claims the n-th dequeue position moves out the very item that was
\* pushed at the n-th enqueue position: nothing is overtaken, read twice, read
\* before it was stored, or overwritten before it was read.
TakesWhatWasPut ==
  \A t \in Threads : pc[t] = "pop_release" => got[t] = log[pos[t] + 1]

\* The claims of the two cursors are the moments of push and pop.
Contract ==
  INSTANCE EventQueue WITH
    Consumer <- Consumers, Bound <- Slots,
    queue <- SubSeq(log, dequeue_pos_ + 1, enqueue_pos_),
    closed <- shutting_down_,
    delivered <- SubSeq(log, 1, dequeue_pos_),
    finished <- {c \in Consumers : pc[c] = "exited"}

\* The ring implements the contract of queue_concept.hpp: FIFO, each item to
\* one thread, std::nullopt only from an empty queue that was shut down, and no
\* wakeup lost, so that no item stays behind while every consumer sleeps.
ImplementsContract == Contract!Spec

\* A push always returns: neither the retries of try_push nor the wait for
\* wait_mutex_ holds the reactor thread up for ever.
PushTerminates ==
  \A p \in Producers : (pc[p] # "idle") ~> (pc[p] = "idle")

\* The class comment on DropOldest: "With a single producer [...] the
\* discard-then-retry always succeeds and behaviour matches BoundedQueue
\* exactly".  BoundedQueue never rejects a push under DropOldest.
DropOldestNeverRejects == policy_ = DropOldest => ~rejected
=============================================================================
