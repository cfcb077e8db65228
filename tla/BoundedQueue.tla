---------------------------- MODULE BoundedQueue ----------------------------
(***************************************************************************)
(* The mutex-guarded queue of core/include/edgeflow/bounded_queue.hpp, as  *)
(* an object: its state and what each call does to it.  The module has no  *)
(* Init/Next of its own closed system; Gateway and HttpSink instantiate it *)
(* with the threads that call it.                                          *)
(*                                                                         *)
(* Every call holds mutex_ from its first access to its last, except that  *)
(* not_empty_.wait releases it while the caller sleeps.  A call is thus    *)
(* one step, and a pop() that sleeps is one step up to the wait and one    *)
(* step for each wake-up.  The condition variable is the pair of sets      *)
(*   waiting   consumers asleep in not_empty_.wait, not yet signalled;     *)
(*   notified  consumers signalled that have not re-acquired mutex_ yet.   *)
(* A consumer in notified competes for the mutex with every other caller,  *)
(* so another consumer may take the item it was signalled for.             *)
(***************************************************************************)
EXTENDS Naturals, Sequences, QueueTypes

CONSTANTS Consumers,   \* the threads that call pop()
          Capacity     \* capacity_, which the constructor requires to be > 0

VARIABLES policy_,     \* fixed by the constructor
          items_, shutting_down_, waiting, notified

queueVars == <<policy_, items_, shutting_down_, waiting, notified>>

\* The constructor, and the member initialisers.
QueueInit ==
  /\ policy_ \in BackpressurePolicy
  /\ items_ = <<>>
  /\ shutting_down_ = FALSE
  /\ waiting = {}
  /\ notified = {}

\* not_empty_.notify_one(): one sleeping consumer, chosen by the system, is
\* signalled; with no sleeper the signal is lost.
NotifyOne ==
  \/ /\ waiting = {}
     /\ UNCHANGED <<waiting, notified>>
  \/ \E c \in waiting :
       /\ waiting' = waiting \ {c}
       /\ notified' = notified \cup {c}

\* not_empty_.notify_all().
NotifyAll ==
  /\ waiting' = {}
  /\ notified' = notified \cup waiting

\* Mutant: an off-by-one in the capacity test.
PushAccepted_OffByOne(item) ==
  /\ Len(items_) <= Capacity
  /\ items_' = Append(items_, item)
  /\ NotifyOne
  /\ UNCHANGED <<policy_, shutting_down_>>

\* push(item) returning Accepted.
PushAccepted(item) ==
  /\ Len(items_) < Capacity
  /\ items_' = Append(items_, item)
  /\ NotifyOne
  /\ UNCHANGED <<policy_, shutting_down_>>

\* push(item) returning DroppedOldest: the head makes room.
PushDroppedOldest(item) ==
  /\ Len(items_) >= Capacity
  /\ policy_ = DropOldest
  /\ items_' = Append(Tail(items_), item)
  /\ NotifyOne
  /\ UNCHANGED <<policy_, shutting_down_>>

\* push(item) returning RejectedBackpressure.  It never waits, whatever the
\* policy: under Block the caller is expected to retry.
PushRejected ==
  /\ Len(items_) >= Capacity
  /\ policy_ # DropOldest
  /\ UNCHANGED queueVars

\* The consumer is not asleep: it is entering pop() or has been signalled.
Running(c) == c \notin waiting

\* Mutant: the head is returned and left in place.
PopItem_Copies(c) ==
  /\ Running(c)
  /\ items_ # <<>>
  /\ notified' = notified \ {c}
  /\ UNCHANGED <<policy_, items_, shutting_down_, waiting>>

\* pop() returning the head.
PopItem(c) ==
  /\ Running(c)
  /\ items_ # <<>>
  /\ items_' = Tail(items_)
  /\ notified' = notified \ {c}
  /\ UNCHANGED <<policy_, shutting_down_, waiting>>

\* Mutant: the flag is tested before the items, so nothing is drained.
PopNullopt_NoDrain(c) ==
  /\ Running(c)
  /\ shutting_down_
  /\ notified' = notified \ {c}
  /\ UNCHANGED <<policy_, items_, shutting_down_, waiting>>

\* pop() returning std::nullopt.
PopNullopt(c) ==
  /\ Running(c)
  /\ items_ = <<>>
  /\ shutting_down_
  /\ notified' = notified \ {c}
  /\ UNCHANGED <<policy_, items_, shutting_down_, waiting>>

\* pop() finding the predicate false and going (back) to sleep.
PopWait(c) ==
  /\ Running(c)
  /\ items_ = <<>>
  /\ ~shutting_down_
  /\ waiting' = waiting \cup {c}
  /\ notified' = notified \ {c}
  /\ UNCHANGED <<policy_, items_, shutting_down_>>

\* A condition variable may wake without a signal; the predicate loop of
\* wait(lock, pred) is there for this.
SpuriousWakeup(c) ==
  /\ c \in waiting
  /\ waiting' = waiting \ {c}
  /\ notified' = notified \cup {c}
  /\ UNCHANGED <<policy_, items_, shutting_down_>>

\* Mutant: shutdown() wakes a single consumer.
shutdown_NotifyOne ==
  /\ shutting_down_' = TRUE
  /\ NotifyOne
  /\ UNCHANGED <<policy_, items_>>

shutdown ==
  /\ shutting_down_' = TRUE
  /\ NotifyAll
  /\ UNCHANGED <<policy_, items_>>

\* The queue's state is well-formed and never over capacity.
QueueTypeOK(Item) ==
  /\ policy_ \in BackpressurePolicy
  /\ items_ \in Seq(Item)
  /\ Len(items_) <= Capacity
  /\ shutting_down_ \in BOOLEAN
  /\ waiting \subseteq Consumers
  /\ notified \subseteq Consumers
=============================================================================
