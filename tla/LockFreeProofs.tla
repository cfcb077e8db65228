--------------------------- MODULE LockFreeProofs ---------------------------
(***************************************************************************)
(* Proofs about LockFreeQueue for any number of producers and consumers    *)
(* and any capacity the constructor accepts: the rest of the invariant,    *)
(* and the theorems.                                                       *)
(***************************************************************************)
EXTENDS LockFreeRingProofs

-----------------------------------------------------------------------------
(* The threads and the counter keep theirs.                                *)

\* push() moves from try_push to try_pop and back, with its item in hand.
LEMMA ProducerStep ==
  ASSUME TypeOK, ProducerShape, ConsumerShape, [Next]_vars
  PROVE  ProducerShape'
<1>. USE ThreadSets
     DEF ProducerShape, PushPc, PopPc, ring, parking, locals, history, closing
<1>a. /\ pc \in [Threads -> Pc]
      /\ DOMAIN phase = Threads
      /\ item \in [Producers -> Item \cup {None}]
      /\ offered \in 0..MaxItems
      /\ shutting_down_ \in BOOLEAN
  BY DEF TypeOK
<1>1. ASSUME NEW p \in Producers, PushCall(p) PROVE ProducerShape'
  BY <1>1, <1>a, LockFreeAssumption DEF PushCall, Goto, Item
<1>2. ASSUME NEW p \in Producers, PushLoad(p) PROVE ProducerShape'
  BY <1>2, <1>a DEF PushLoad, Goto
<1>3. ASSUME NEW p \in Producers, PushSequence(p) PROVE ProducerShape'
  BY <1>3, <1>a DEF PushSequence, Reject, Goto
<1>4. ASSUME NEW p \in Producers, PushClaim(p) PROVE ProducerShape'
  BY <1>4, <1>a DEF PushClaim, Goto
<1>5. ASSUME NEW p \in Producers, PushStore(p) PROVE ProducerShape'
  BY <1>5, <1>a DEF PushStore, Goto
<1>6. ASSUME NEW p \in Producers, PushPublish(p) PROVE ProducerShape'
  BY <1>6, <1>a DEF PushPublish, Goto
<1>7. ASSUME NEW p \in Producers, NotifySkipped(p) PROVE ProducerShape'
  BY <1>7, <1>a DEF NotifySkipped, PushReturns, Goto
<1>8. ASSUME NEW p \in Producers, NotifyNeeded(p) PROVE ProducerShape'
  BY <1>8, <1>a DEF NotifyNeeded, Goto
<1>9. ASSUME NEW p \in Producers, NotifyOne(p) PROVE ProducerShape'
  BY <1>9, <1>a DEF NotifyOne, PushReturns, Goto
<1>10. ASSUME NEW t \in Threads, PopLoad(t) PROVE ProducerShape'
  BY <1>10, <1>a DEF PopLoad, Goto
<1>11. ASSUME NEW t \in Threads, PopSequence(t) PROVE ProducerShape'
  BY <1>11, <1>a, Zenon DEF PopSequence, PopFoundNothing, Reject, Goto,
     ConsumerShape
<1>12. ASSUME NEW t \in Threads, PopClaim(t) PROVE ProducerShape'
  BY <1>12, <1>a DEF PopClaim, Goto
<1>13. ASSUME NEW t \in Threads, PopTake(t) PROVE ProducerShape'
  BY <1>13, <1>a DEF PopTake, Goto
<1>14. ASSUME NEW t \in Threads, PopRelease(t) PROVE ProducerShape'
  BY <1>14, <1>a, Zenon DEF PopRelease, PopReturns, Goto, ConsumerShape
<1>15. ASSUME NEW c \in Consumers, SpinFlag(c) PROVE ProducerShape'
  BY <1>15, <1>a DEF SpinFlag, Goto
<1>16. ASSUME NEW c \in Consumers, Register(c) PROVE ProducerShape'
  BY <1>16, <1>a DEF Register, Goto
<1>17. ASSUME NEW c \in Consumers, Decide(c) PROVE ProducerShape'
  BY <1>17, <1>a DEF Decide, PopReturns, Goto
<1>18. ASSUME NEW c \in Consumers, Wait(c) PROVE ProducerShape'
  BY <1>18, <1>a DEF Wait, Goto
<1>19. ASSUME NEW c \in Consumers, Wake(c) PROVE ProducerShape'
  BY <1>19, <1>a DEF Wake, Goto
<1>20. ASSUME NEW c \in Consumers, Spurious(c) PROVE ProducerShape'
  BY <1>20, <1>a DEF Spurious
<1>21. CASE SetShuttingDown
  BY <1>21, <1>a DEF SetShuttingDown
<1>22. CASE NotifyAll
  BY <1>22, <1>a DEF NotifyAll
<1>23. CASE Finished
  BY <1>23, <1>a DEF Finished, vars
<1>24. CASE UNCHANGED vars
  BY <1>24, <1>a DEF vars
<1>. HIDE DEF ProducerShape, PushPc, PopPc
<1>. QED
  BY <1>1, <1>2, <1>3, <1>4, <1>5, <1>6, <1>7, <1>8, <1>9, <1>10, <1>11,
     <1>12, <1>13, <1>14, <1>15, <1>16, <1>17, <1>18, <1>19, <1>20, <1>21,
     <1>22, <1>23, <1>24, ThreadSets
     DEF Next, PushStep, PopStep, ConsumerStep

\* pop() moves from the spin loop to the wait and back.
LEMMA ConsumerShapeStep ==
  ASSUME TypeOK, ProducerShape, ConsumerShape, [Next]_vars
  PROVE  ConsumerShape'
<1>. USE ThreadSets
     DEF ConsumerShape, PushPc, PopPc, ring, parking, locals, history, closing
<1>a. /\ pc \in [Threads -> Pc]
      /\ DOMAIN phase = Threads
      /\ attempt \in [Consumers -> 0..kSpinAttempts]
      /\ shutting_down_ \in BOOLEAN
      /\ kSpinAttempts \in Nat \ {0}
  BY LockFreeAssumption DEF TypeOK
<1>1. ASSUME NEW p \in Producers, PushCall(p) PROVE ConsumerShape'
  BY <1>1, <1>a DEF PushCall, Goto
<1>2. ASSUME NEW p \in Producers, PushLoad(p) PROVE ConsumerShape'
  BY <1>2, <1>a DEF PushLoad, Goto
<1>3. ASSUME NEW p \in Producers, PushSequence(p) PROVE ConsumerShape'
  BY <1>3, <1>a, Zenon DEF PushSequence, Reject, Goto
<1>4. ASSUME NEW p \in Producers, PushClaim(p) PROVE ConsumerShape'
  BY <1>4, <1>a DEF PushClaim, Goto
<1>5. ASSUME NEW p \in Producers, PushStore(p) PROVE ConsumerShape'
  BY <1>5, <1>a DEF PushStore, Goto
<1>6. ASSUME NEW p \in Producers, PushPublish(p) PROVE ConsumerShape'
  BY <1>6, <1>a DEF PushPublish, Goto
<1>7. ASSUME NEW p \in Producers, NotifySkipped(p) PROVE ConsumerShape'
  BY <1>7, <1>a DEF NotifySkipped, PushReturns, Goto
<1>8. ASSUME NEW p \in Producers, NotifyNeeded(p) PROVE ConsumerShape'
  BY <1>8, <1>a DEF NotifyNeeded, Goto
<1>9. ASSUME NEW p \in Producers, NotifyOne(p) PROVE ConsumerShape'
  BY <1>9, <1>a DEF NotifyOne, PushReturns, Goto
<1>10. ASSUME NEW t \in Threads, PopLoad(t) PROVE ConsumerShape'
  BY <1>10, <1>a DEF PopLoad, Goto
<1>11. ASSUME NEW t \in Threads, PopSequence(t) PROVE ConsumerShape'
  BY <1>11, <1>a, Zenon DEF PopSequence, PopFoundNothing, Reject, Goto,
     ProducerShape
<1>12. ASSUME NEW t \in Threads, PopClaim(t) PROVE ConsumerShape'
  BY <1>12, <1>a DEF PopClaim, Goto
<1>13. ASSUME NEW t \in Threads, PopTake(t) PROVE ConsumerShape'
  BY <1>13, <1>a DEF PopTake, Goto
<1>14. ASSUME NEW t \in Threads, PopRelease(t) PROVE ConsumerShape'
  <2>1. pc[t] = "pop_release" /\ shutting_down_' = shutting_down_
    BY <1>14 DEF PopRelease
  <2>2. CASE phase[t] = "discard"
    <3>1. t \notin Consumers /\ UNCHANGED attempt
      BY <1>14, <2>2 DEF PopRelease
    <3>2. \A c \in Consumers : pc'[c] = pc[c] /\ phase'[c] = phase[c]
      BY <1>14, <1>a, <2>2, <3>1 DEF PopRelease, Goto
    <3>. QED
      BY <2>1, <3>1, <3>2
  <2>3. CASE phase[t] = "recheck"
    <3>1. /\ UNCHANGED <<attempt, phase>>
          /\ pc' = [pc EXCEPT ![t] = "decide"]
      BY <1>14, <2>3 DEF PopRelease, Goto
    <3>. QED
      BY <1>a, <2>1, <2>3, <3>1
  <2>4. CASE phase[t] \in {"spin", "last"}
    <3>1. t \in Consumers
      BY <2>4 DEF ProducerShape
    <3>2. /\ pc' = [pc EXCEPT ![t] = "pop_load"]
          /\ phase' = [phase EXCEPT ![t] = "spin"]
          /\ attempt' = [attempt EXCEPT ![t] = 0]
      BY <1>14, <2>4, Zenon DEF PopRelease, PopReturns, Goto
    <3>3. attempt'[t] < kSpinAttempts
      BY <1>a, <3>1, <3>2
    <3>4. /\ \A c \in Consumers \ {t} : /\ pc'[c] = pc[c]
                                        /\ phase'[c] = phase[c]
                                        /\ attempt'[c] = attempt[c]
          /\ pc'[t] = "pop_load" /\ phase'[t] = "spin"
      BY <1>a, <3>1, <3>2
    <3>. QED
      BY <2>1, <3>3, <3>4
  <2>. QED
    BY <2>1, <2>2, <2>3, <2>4, Zenon DEF ProducerShape
<1>15. ASSUME NEW c \in Consumers, SpinFlag(c) PROVE ConsumerShape'
  BY <1>15, <1>a DEF SpinFlag, Goto
<1>16. ASSUME NEW c \in Consumers, Register(c) PROVE ConsumerShape'
  BY <1>16, <1>a DEF Register, Goto
<1>17. ASSUME NEW c \in Consumers, Decide(c) PROVE ConsumerShape'
  BY <1>17, <1>a DEF Decide, PopReturns, Goto
<1>18. ASSUME NEW c \in Consumers, Wait(c) PROVE ConsumerShape'
  BY <1>18, <1>a DEF Wait, Goto
<1>19. ASSUME NEW c \in Consumers, Wake(c) PROVE ConsumerShape'
  BY <1>19, <1>a DEF Wake, Goto
<1>20. ASSUME NEW c \in Consumers, Spurious(c) PROVE ConsumerShape'
  BY <1>20, <1>a DEF Spurious
<1>21. CASE SetShuttingDown
  BY <1>21, <1>a DEF SetShuttingDown
<1>22. CASE NotifyAll
  BY <1>22, <1>a DEF NotifyAll
<1>23. CASE Finished
  BY <1>23, <1>a DEF Finished, vars
<1>24. CASE UNCHANGED vars
  BY <1>24, <1>a DEF vars
<1>. HIDE DEF ConsumerShape, PushPc, PopPc
<1>. QED
  BY <1>1, <1>2, <1>3, <1>4, <1>5, <1>6, <1>7, <1>8, <1>9, <1>10, <1>11,
     <1>12, <1>13, <1>14, <1>15, <1>16, <1>17, <1>18, <1>19, <1>20, <1>21,
     <1>22, <1>23, <1>24, ThreadSets
     DEF Next, PushStep, PopStep, ConsumerStep

\* A consumer adds itself to waiters_ once and takes itself off once.
LEMMA WaitersStep ==
  ASSUME TypeOK, ProducerShape, ConsumerShape, WaitersCounted, [Next]_vars
  PROVE  WaitersCounted'
<1>. USE ThreadSets DEF ring, parking, locals, history, closing
<1>a. /\ pc \in [Threads -> Pc]
      /\ DOMAIN phase = Threads
      /\ ProducerShape
      /\ ConsumerShape
      /\ IsFiniteSet(Registered)
  BY LockFreeAssumption, FS_Subset, SMTT(30) DEF TypeOK, Registered
<1>1. ASSUME NEW p \in Producers, PushCall(p) PROVE WaitersCounted'
  <2>1. Registered' = Registered
    BY <1>1, <1>a DEF PushCall, Goto, Registered
  <2>. QED
    BY <1>1, <2>1 DEF PushCall, WaitersCounted
<1>2. ASSUME NEW p \in Producers, PushLoad(p) PROVE WaitersCounted'
  <2>1. Registered' = Registered
    BY <1>2, <1>a DEF PushLoad, Goto, Registered
  <2>. QED
    BY <1>2, <2>1 DEF PushLoad, WaitersCounted
<1>3. ASSUME NEW p \in Producers, PushSequence(p) PROVE WaitersCounted'
  <2>1. Registered' = Registered
    BY <1>3, <1>a DEF PushSequence, Reject, Goto, Registered
  <2>. QED
    BY <1>3, <2>1, Zenon DEF PushSequence, WaitersCounted
<1>4. ASSUME NEW p \in Producers, PushClaim(p) PROVE WaitersCounted'
  <2>1. Registered' = Registered
    BY <1>4, <1>a DEF PushClaim, Goto, Registered
  <2>. QED
    BY <1>4, <2>1 DEF PushClaim, WaitersCounted
<1>5. ASSUME NEW p \in Producers, PushStore(p) PROVE WaitersCounted'
  <2>1. Registered' = Registered
    BY <1>5, <1>a DEF PushStore, Goto, Registered
  <2>. QED
    BY <1>5, <2>1 DEF PushStore, WaitersCounted
<1>6. ASSUME NEW p \in Producers, PushPublish(p) PROVE WaitersCounted'
  <2>1. Registered' = Registered
    BY <1>6, <1>a DEF PushPublish, Goto, Registered
  <2>. QED
    BY <1>6, <2>1 DEF PushPublish, WaitersCounted
<1>7. ASSUME NEW p \in Producers, NotifySkipped(p) PROVE WaitersCounted'
  <2>1. Registered' = Registered
    BY <1>7, <1>a DEF NotifySkipped, PushReturns, Goto, Registered
  <2>. QED
    BY <1>7, <2>1, Zenon DEF NotifySkipped, WaitersCounted
<1>8. ASSUME NEW p \in Producers, NotifyNeeded(p) PROVE WaitersCounted'
  <2>1. Registered' = Registered
    BY <1>8, <1>a DEF NotifyNeeded, Goto, Registered
  <2>. QED
    BY <1>8, <2>1 DEF NotifyNeeded, WaitersCounted
<1>9. ASSUME NEW p \in Producers, NotifyOne(p) PROVE WaitersCounted'
  <2>1. Registered' = Registered
    BY <1>9, <1>a DEF NotifyOne, PushReturns, Goto, Registered
  <2>. QED
    BY <1>9, <2>1 DEF NotifyOne, WaitersCounted
<1>10. ASSUME NEW t \in Threads, PopLoad(t) PROVE WaitersCounted'
  <2>1. Registered' = Registered
    BY <1>10, <1>a DEF PopLoad, Goto, Registered
  <2>. QED
    BY <1>10, <2>1 DEF PopLoad, WaitersCounted
<1>11. ASSUME NEW t \in Threads, PopSequence(t) PROVE WaitersCounted'
  <2>1. Registered' = Registered
    BY <1>11, <1>a, Zenon DEF PopSequence, PopFoundNothing, Reject, Goto,
       Registered, ProducerShape, ConsumerShape, PushPc, PopPc
  <2>. QED
    BY <1>11, <2>1 DEF PopSequence, WaitersCounted
<1>12. ASSUME NEW t \in Threads, PopClaim(t) PROVE WaitersCounted'
  <2>1. Registered' = Registered
    BY <1>12, <1>a DEF PopClaim, Goto, Registered
  <2>. QED
    BY <1>12, <2>1, Zenon DEF PopClaim, WaitersCounted
<1>13. ASSUME NEW t \in Threads, PopTake(t) PROVE WaitersCounted'
  <2>1. Registered' = Registered
    BY <1>13, <1>a DEF PopTake, Goto, Registered
  <2>. QED
    BY <1>13, <2>1 DEF PopTake, WaitersCounted
<1>14. ASSUME NEW t \in Threads, PopRelease(t) PROVE WaitersCounted'
  <2>1. Registered' = Registered
    BY <1>14, <1>a, Zenon DEF PopRelease, PopReturns, Goto, Registered,
       ProducerShape, ConsumerShape, PushPc, PopPc
  <2>. QED
    BY <1>14, <2>1 DEF PopRelease, WaitersCounted
<1>15. ASSUME NEW c \in Consumers, SpinFlag(c) PROVE WaitersCounted'
  <2>1. Registered' = Registered
    BY <1>15, <1>a DEF SpinFlag, Goto, Registered, ConsumerShape, PopPc
  <2>. QED
    BY <1>15, <2>1 DEF SpinFlag, WaitersCounted
<1>16. ASSUME NEW c \in Consumers, Register(c) PROVE WaitersCounted'
  <2>1. waiters_' = waiters_ + 1
    BY <1>16 DEF Register
  <2>2. Registered' = Registered \cup {c} /\ c \notin Registered
    BY <1>16, <1>a, Zenon DEF Register, Goto, Registered, ConsumerShape, PopPc
  <2>. QED
    BY <1>a, <2>1, <2>2, FS_AddElement, Zenon DEF WaitersCounted
<1>17. ASSUME NEW c \in Consumers, Decide(c) PROVE WaitersCounted'
  <2>1. CASE got[c] = None /\ ~shutting_down_
    <3>1. waiters_' = waiters_ /\ pc' = [pc EXCEPT ![c] = "wait"]
          /\ phase' = phase /\ pc[c] = "decide"
      BY <1>17, <2>1, Zenon DEF Decide, Goto
    <3>2. Registered' = Registered
      BY <1>a, <3>1 DEF Registered
    <3>. QED
      BY <3>1, <3>2 DEF WaitersCounted
  <2>2. CASE ~(got[c] = None /\ ~shutting_down_)
    <3>1. waiters_' = waiters_ - 1 /\ pc[c] = "decide"
      BY <1>17, <2>2, Zenon DEF Decide
    <3>2. /\ pc' = [pc EXCEPT ![c] = "pop_load"]
          /\ \E ph \in {"spin", "last"} : phase' = [phase EXCEPT ![c] = ph]
      BY <1>17, <2>2 DEF Decide, PopReturns, Goto
    <3>3. Registered' = Registered \ {c} /\ c \in Registered
      BY <1>a, <3>1, <3>2, Zenon DEF Registered, ConsumerShape, PopPc
    <3>. QED
      BY <1>a, <3>1, <3>3, FS_RemoveElement, Zenon DEF WaitersCounted
  <2>. QED
    BY <2>1, <2>2
<1>18. ASSUME NEW c \in Consumers, Wait(c) PROVE WaitersCounted'
  <2>1. Registered' = Registered
    BY <1>18, <1>a, Zenon DEF Wait, Goto, Registered, ConsumerShape, PopPc
  <2>. QED
    BY <1>18, <2>1 DEF Wait, WaitersCounted
<1>19. ASSUME NEW c \in Consumers, Wake(c) PROVE WaitersCounted'
  <2>1. waiters_' = waiters_ - 1
    BY <1>19 DEF Wake
  <2>2. Registered' = Registered \ {c} /\ c \in Registered
    BY <1>19, <1>a, Zenon DEF Wake, Goto, Registered, ConsumerShape, PopPc
  <2>. QED
    BY <1>a, <2>1, <2>2, FS_RemoveElement, Zenon DEF WaitersCounted
<1>20. ASSUME NEW c \in Consumers, Spurious(c) PROVE WaitersCounted'
  BY <1>20, Zenon DEF Spurious, WaitersCounted, Registered
<1>21. CASE SetShuttingDown
  BY <1>21 DEF SetShuttingDown, WaitersCounted, Registered
<1>22. CASE NotifyAll
  BY <1>22 DEF NotifyAll, WaitersCounted, Registered
<1>23. CASE Finished
  BY <1>23 DEF Finished, vars, WaitersCounted, Registered
<1>24. CASE UNCHANGED vars
  BY <1>24 DEF vars, WaitersCounted, Registered
<1>. QED
  BY <1>1, <1>2, <1>3, <1>4, <1>5, <1>6, <1>7, <1>8, <1>9, <1>10, <1>11,
     <1>12, <1>13, <1>14, <1>15, <1>16, <1>17, <1>18, <1>19, <1>20, <1>21,
     <1>22, <1>23, <1>24, ThreadSets
     DEF Next, PushStep, PopStep, ConsumerStep

-----------------------------------------------------------------------------
(* The type invariant.                                                     *)

\* waiters_ counts consumers, so it cannot wrap.
LEMMA WaitersBound ==
  ASSUME NEW R \in SUBSET Consumers
  PROVE  Cardinality(R) \in 0..Cardinality(Consumers)
BY LockFreeAssumption, FS_Subset, FS_CardinalityType

\* The cursors are at most a lap apart: the slot of the oldest item is not
\* free, so the position a lap ahead of it cannot be claimed.
LEMMA ClaimDistance ==
  ASSUME TypeOK, ReadShape, WindowShape, NEW p \in Producers, PushClaim(p),
         enqueue_pos_ = pos[p]
  PROVE  enqueue_pos_ - dequeue_pos_ < Slots
<1>1. /\ pc[p] = "push_cas" /\ p \in Threads
      /\ sequence[At(enqueue_pos_)] = enqueue_pos_
  BY ThreadSets DEF PushClaim, ReadShape, Reads
<1>2. /\ enqueue_pos_ \in Nat /\ dequeue_pos_ \in Nat
      /\ enqueue_pos_ - dequeue_pos_ \in 0..Slots
      /\ Slots \in Nat /\ Slots >= 2
  BY SlotsLemma DEF TypeOK
<1>3. CASE enqueue_pos_ = dequeue_pos_ + Slots
  <2>1. At(dequeue_pos_ + Slots) = At(dequeue_pos_)
    BY <1>2, AtLemma
  <2>2. \/ sequence[At(dequeue_pos_)] = dequeue_pos_ + 1
        \/ sequence[At(dequeue_pos_)] = dequeue_pos_
    BY <1>2, <1>3 DEF WindowShape
  <2>. QED
    BY <1>1, <1>2, <1>3, <2>1, <2>2, SMTT(30)
<1>. QED
  BY <1>2, <1>3

\* A position that try_pop can claim has been published, so it is behind the
\* other cursor.
LEMMA PopClaimDistance ==
  ASSUME TypeOK, ReadShape, StorageShape, NEW t \in Threads, PopClaim(t),
         dequeue_pos_ = pos[t]
  PROVE  dequeue_pos_ < enqueue_pos_
<1>1. pc[t] = "pop_cas" /\ sequence[At(dequeue_pos_)] = dequeue_pos_ + 1
  BY DEF PopClaim, ReadShape, Reads
<1>. QED
  BY <1>1 DEF StorageShape, TypeOK

\* The spin counter stays in its range when pop() starts over.
LEMMA ExceptZero ==
  ASSUME NEW f \in [Consumers -> 0..kSpinAttempts], NEW x
  PROVE  [f EXCEPT ![x] = 0] \in [Consumers -> 0..kSpinAttempts]
<1>1. 0 \in 0..kSpinAttempts
  BY LockFreeAssumption
<1>. QED
  BY <1>1, Zenon

\* A counted attempt keeps it in its range: a consumer that counts one has not
\* used them up.
LEMMA ExceptNext ==
  ASSUME NEW f \in [Consumers -> 0..kSpinAttempts], NEW x \in Consumers,
         f[x] < kSpinAttempts
  PROVE  [f EXCEPT ![x] = f[x] + 1] \in [Consumers -> 0..kSpinAttempts]
<1>1. f[x] \in 0..kSpinAttempts /\ kSpinAttempts \in Nat
  BY LockFreeAssumption
<1>2. f[x] + 1 \in 0..kSpinAttempts
  BY <1>1
<1>. QED
  BY <1>2

\* No access leaves a variable outside its type: the cursors stay within a lap
\* of each other and waiters_ within the number of consumers.
LEMMA TypeStep ==
  ASSUME TypeOK, ProducerShape, ConsumerShape, WaitersCounted, ReadShape,
         WindowShape, StorageShape, [Next]_vars
  PROVE  TypeOK'
<1>. USE ThreadSets DEF ring, parking, locals, history, closing
<1>a. /\ Slots \in Nat
      /\ MaxItems \in Nat
      /\ kSpinAttempts \in Nat \ {0}
  BY SlotsLemma, LockFreeAssumption
<1>b. waiters_' \in 0..Cardinality(Consumers)
  <2>1. waiters_' = Cardinality(Registered')
    BY WaitersStep DEF WaitersCounted
  <2>2. Registered' \in SUBSET Consumers
    BY DEF Registered
  <2>. QED
    BY <2>1, <2>2, WaitersBound
<1>c. attempt \in [Consumers -> 0..kSpinAttempts]
  BY DEF TypeOK
<1>1. ASSUME NEW p \in Producers, PushCall(p) PROVE TypeOK'
  <2>1. offered + 1 \in Item /\ offered + 1 \in 0..MaxItems
    BY <1>1, <1>a DEF PushCall, TypeOK, Item
  <2>2. /\ offered' = offered + 1
        /\ item' = [item EXCEPT ![p] = offered + 1]
        /\ phase' = [phase EXCEPT ![p] = "first"]
        /\ pc' = [pc EXCEPT ![p] = "push_load"]
        /\ UNCHANGED <<policy_, ring, closing, parking, pos, got, attempt,
                       log, rejected>>
    BY <1>1 DEF PushCall, Goto
  <2>3. item' \in [Producers -> Item \cup {None}] /\ offered' \in 0..MaxItems
    BY <2>1, <2>2 DEF TypeOK
  <2>4. /\ pc' \in [Threads -> Pc]
        /\ phase' \in [Threads -> {"first", "second", "discard", "spin",
                                   "recheck", "last"}]
    BY <2>2, SMTT(30) DEF TypeOK, Pc
  <2>. QED
    BY <2>2, <2>3, <2>4, SMTT(30) DEF TypeOK
<1>2. ASSUME NEW p \in Producers, PushLoad(p) PROVE TypeOK'
  BY <1>2, <1>a, <1>b, ZenonT(30) DEF PushLoad, Goto, TypeOK, Pc
<1>3. ASSUME NEW p \in Producers, PushSequence(p) PROVE TypeOK'
  BY <1>3, <1>a, <1>b, Zenon DEF PushSequence, Reject, Goto, TypeOK, Pc
<1>4. ASSUME NEW p \in Producers, PushClaim(p) PROVE TypeOK'
  <2>1. /\ pc' \in [Threads -> Pc] /\ pos' \in [Threads -> Nat]
        /\ UNCHANGED <<policy_, sequence, storage, shutting_down_, main,
                       wait_mutex_, asleep, notified, phase, item, got,
                       attempt, offered, rejected>>
    <3>1. /\ pc \in [Threads -> Pc] /\ pos \in [Threads -> Nat]
          /\ enqueue_pos_ \in Nat /\ dequeue_pos_ \in Nat
      BY DEF TypeOK
    <3>2. {"push_store", "push_seq", "pop_take", "pop_seq"} \subseteq Pc
      BY DEF Pc
    <3>3. \/ pc' = [pc EXCEPT ![p] = "push_store"] /\ pos' = pos
          \/ /\ pc' = [pc EXCEPT ![p] = "push_seq"]
             /\ pos' = [pos EXCEPT ![p] = enqueue_pos_]
      BY <1>4 DEF PushClaim, Goto
    <3>. QED
      BY <1>4, <3>1, <3>2, <3>3, SMTT(30) DEF PushClaim
  <2>2. /\ enqueue_pos_' \in Nat /\ dequeue_pos_' \in Nat
        /\ enqueue_pos_' - dequeue_pos_' \in 0..Slots
        /\ log' \in Seq(Item)
    <3>1. CASE enqueue_pos_ = pos[p]
      <4>1. enqueue_pos_ - dequeue_pos_ < Slots
        BY <1>4, <3>1, ClaimDistance, SMTT(30)
      <4>2. item[p] \in Item /\ log \in Seq(Item)
        BY <1>4 DEF PushClaim, ProducerShape, TypeOK
      <4>3. Append(log, item[p]) \in Seq(Item)
        BY <4>2, AppendProperties
      <4>4. /\ enqueue_pos_' = enqueue_pos_ + 1
            /\ dequeue_pos_' = dequeue_pos_
            /\ log' = Append(log, item[p])
        BY <1>4, <3>1 DEF PushClaim
      <4>5. /\ enqueue_pos_ \in Nat /\ dequeue_pos_ \in Nat
            /\ enqueue_pos_ - dequeue_pos_ \in 0..Slots
        BY DEF TypeOK
      <4>. QED
        BY <1>a, <4>1, <4>3, <4>4, <4>5
    <3>2. CASE enqueue_pos_ # pos[p]
      BY <1>4, <3>2 DEF PushClaim, TypeOK
    <3>. QED
      BY <3>1, <3>2
  <2>. QED
    BY <1>b, <2>1, <2>2, Zenon DEF TypeOK
<1>5. ASSUME NEW p \in Producers, PushStore(p) PROVE TypeOK'
  <2>1. item[p] \in Item
    BY <1>5, Zenon DEF PushStore, ProducerShape
  <2>. QED
    BY <1>5, <1>b, <2>1, Zenon DEF PushStore, Goto, TypeOK, Pc
<1>6. ASSUME NEW p \in Producers, PushPublish(p) PROVE TypeOK'
  <2>1. pos[p] + 1 \in Nat
    BY DEF TypeOK
  <2>. QED
    BY <1>6, <1>b, <2>1, Zenon DEF PushPublish, Goto, TypeOK, Pc
<1>7. ASSUME NEW p \in Producers, NotifySkipped(p) PROVE TypeOK'
  BY <1>7, <1>a, <1>b, SMTT(30) DEF NotifySkipped, PushReturns, Goto, TypeOK,
     Pc
<1>8. ASSUME NEW p \in Producers, NotifyNeeded(p) PROVE TypeOK'
  BY <1>8, <1>a, <1>b, ZenonT(30) DEF NotifyNeeded, Goto, TypeOK, Pc
<1>9. ASSUME NEW p \in Producers, NotifyOne(p) PROVE TypeOK'
  BY <1>9, <1>a, <1>b, ZenonT(30) DEF NotifyOne, PushReturns, Goto, TypeOK, Pc
<1>10. ASSUME NEW t \in Threads, PopLoad(t) PROVE TypeOK'
  BY <1>10, <1>a, <1>b, ZenonT(30) DEF PopLoad, Goto, TypeOK, Pc
<1>11. ASSUME NEW t \in Threads, PopSequence(t) PROVE TypeOK'
  <2>1. /\ pc' \in [Threads -> Pc]
        /\ wait_mutex_' \in Consumers \cup {None}
    BY <1>11, Zenon DEF PopSequence, PopFoundNothing, Reject, Goto, TypeOK, Pc
  <2>2. item' \in [Producers -> Item \cup {None}] /\ rejected' \in BOOLEAN
    BY <1>11, Zenon DEF PopSequence, PopFoundNothing, Reject, TypeOK
  <2>3. UNCHANGED <<policy_, sequence, storage, enqueue_pos_, dequeue_pos_,
                    shutting_down_, main, waiters_, asleep, notified, phase,
                    pos, got, attempt, offered, log>>
    BY <1>11, Zenon DEF PopSequence, PopFoundNothing, Reject
  <2>. QED
    BY <2>1, <2>2, <2>3 DEF TypeOK
<1>12. ASSUME NEW t \in Threads, PopClaim(t) PROVE TypeOK'
  <2>1. /\ pc' \in [Threads -> Pc] /\ pos' \in [Threads -> Nat]
        /\ UNCHANGED <<policy_, sequence, storage, shutting_down_, main,
                       wait_mutex_, asleep, notified, phase, item, got,
                       attempt, offered, rejected>>
    <3>1. /\ pc \in [Threads -> Pc] /\ pos \in [Threads -> Nat]
          /\ enqueue_pos_ \in Nat /\ dequeue_pos_ \in Nat
      BY DEF TypeOK
    <3>2. {"push_store", "push_seq", "pop_take", "pop_seq"} \subseteq Pc
      BY DEF Pc
    <3>3. \/ pc' = [pc EXCEPT ![t] = "pop_take"] /\ pos' = pos
          \/ /\ pc' = [pc EXCEPT ![t] = "pop_seq"]
             /\ pos' = [pos EXCEPT ![t] = dequeue_pos_]
      BY <1>12 DEF PopClaim, Goto
    <3>. QED
      BY <1>12, <3>1, <3>2, <3>3, SMTT(30) DEF PopClaim
  <2>2. /\ enqueue_pos_' \in Nat /\ dequeue_pos_' \in Nat
        /\ enqueue_pos_' - dequeue_pos_' \in 0..Slots
        /\ log' \in Seq(Item)
    <3>1. CASE dequeue_pos_ = pos[t]
      <4>1. dequeue_pos_ < enqueue_pos_
        BY <1>12, <3>1, PopClaimDistance
      <4>2. /\ enqueue_pos_' = enqueue_pos_ /\ log' = log
            /\ dequeue_pos_' = dequeue_pos_ + 1
        BY <1>12, <3>1 DEF PopClaim
      <4>3. /\ enqueue_pos_ \in Nat /\ dequeue_pos_ \in Nat
            /\ enqueue_pos_ - dequeue_pos_ \in 0..Slots
            /\ log \in Seq(Item)
        BY DEF TypeOK
      <4>. QED
        BY <1>a, <4>1, <4>2, <4>3
    <3>2. CASE dequeue_pos_ # pos[t]
      BY <1>12, <3>2 DEF PopClaim, TypeOK
    <3>. QED
      BY <3>1, <3>2
  <2>. QED
    BY <1>b, <2>1, <2>2, Zenon DEF TypeOK
<1>13. ASSUME NEW t \in Threads, PopTake(t) PROVE TypeOK'
  <2>1. pos[t] \in Nat /\ Slot(t) = At(pos[t])
    BY DEF Slot, At, TypeOK
  <2>2. Slot(t) \in 0..Slots - 1
    BY <2>1, AtLemma
  <2>3. storage[Slot(t)] \in Item \cup {None}
    BY <2>2 DEF TypeOK
  <2>. QED
    BY <1>13, <1>b, <2>3, Zenon DEF PopTake, Goto, TypeOK, Pc
<1>14. ASSUME NEW t \in Threads, PopRelease(t) PROVE TypeOK'
  <2>1. \/ phase[t] \in {"discard", "recheck"}
        \/ phase[t] \in {"spin", "last"} /\ t \in Consumers
    <3>1. pc[t] = "pop_release"
      BY <1>14 DEF PopRelease
    <3>2. CASE t \in Producers
      <4>1. pc[t] \notin PushPc /\ pc[t] # "idle"
        BY <3>1 DEF PushPc
      <4>. QED
        BY <3>2, <4>1 DEF ProducerShape
    <3>3. CASE t \in Consumers
      BY <3>1, <3>3 DEF ConsumerShape
    <3>. QED
      BY <1>14, <3>2, <3>3
  <2>2. /\ sequence' \in [0..Slots - 1 -> Nat]
        /\ UNCHANGED <<policy_, storage, enqueue_pos_, dequeue_pos_,
                       shutting_down_, main, waiters_, asleep, notified, pos,
                       item, offered, log, rejected>>
    <3>1. pos[t] + Slots \in Nat
      BY <1>a DEF TypeOK
    <3>. QED
      BY <1>14, <3>1, Zenon DEF PopRelease, TypeOK
  <2>3. CASE phase[t] = "discard"
    BY <1>14, <2>2, <2>3, Zenon DEF PopRelease, Goto, TypeOK, Pc
  <2>4. CASE phase[t] = "recheck"
    BY <1>14, <2>2, <2>4, Zenon DEF PopRelease, Goto, TypeOK, Pc
  <2>5. CASE phase[t] \in {"spin", "last"} /\ t \in Consumers
    <3>1. PopReturns(t)
      BY <1>14, <2>5, Zenon DEF PopRelease
    <3>2. /\ pc' \in [Threads -> Pc]
          /\ phase' = [phase EXCEPT ![t] = "spin"]
          /\ attempt' = [attempt EXCEPT ![t] = 0]
          /\ got' \in [Threads -> Item \cup {None}]
          /\ wait_mutex_' \in Consumers \cup {None}
      BY <3>1 DEF PopReturns, Goto, TypeOK, Pc
    <3>3. attempt' \in [Consumers -> 0..kSpinAttempts]
      BY <1>c, <3>2, ExceptZero
    <3>. QED
      BY <2>2, <3>2, <3>3 DEF TypeOK
  <2>. QED
    BY <2>1, <2>3, <2>4, <2>5
<1>15. ASSUME NEW c \in Consumers, SpinFlag(c) PROVE TypeOK'
  <2>1. /\ pc' \in [Threads -> Pc]
        /\ phase' = phase \/ phase' = [phase EXCEPT ![c] = "last"]
        /\ UNCHANGED <<policy_, ring, closing, parking, pos, item, got,
                       history>>
    BY <1>15, Zenon DEF SpinFlag, Goto, TypeOK, Pc
  <2>2. attempt' \in [Consumers -> 0..kSpinAttempts]
    <3>1. pc[c] = "flag"
      BY <1>15 DEF SpinFlag
    <3>2. phase[c] = "spin"
      BY <1>15, <3>1 DEF ConsumerShape, PopPc
    <3>3. attempt[c] < kSpinAttempts
      BY <1>15, <3>1, <3>2 DEF ConsumerShape
    <3>4. \/ attempt' = attempt
          \/ attempt' = [attempt EXCEPT ![c] = attempt[c] + 1]
      BY <1>15, SMTT(30) DEF SpinFlag
    <3>. QED
      BY <1>15, <1>c, <3>3, <3>4, ExceptNext, SMTT(30)
  <2>. QED
    BY <2>1, <2>2, Zenon DEF TypeOK
<1>16. ASSUME NEW c \in Consumers, Register(c) PROVE TypeOK'
  BY <1>16, <1>a, <1>b, ZenonT(30) DEF Register, Goto, TypeOK, Pc
<1>17. ASSUME NEW c \in Consumers, Decide(c) PROVE TypeOK'
  <2>1. /\ pc' \in [Threads -> Pc]
        /\ \/ phase' = phase
           \/ phase' = [phase EXCEPT ![c] = "last"]
           \/ phase' = [phase EXCEPT ![c] = "spin"]
        /\ got' \in [Threads -> Item \cup {None}]
        /\ wait_mutex_' \in Consumers \cup {None}
        /\ UNCHANGED <<policy_, ring, closing, asleep, notified, pos, item,
                       history>>
    BY <1>17, Zenon DEF Decide, PopReturns, Goto, TypeOK, Pc
  <2>2. attempt' \in [Consumers -> 0..kSpinAttempts]
    <3>1. attempt' = attempt \/ attempt' = [attempt EXCEPT ![c] = 0]
      BY <1>17, SMTT(30) DEF Decide, PopReturns
    <3>. QED
      BY <1>c, <3>1, ExceptZero
  <2>. QED
    BY <1>b, <2>1, <2>2, Zenon DEF TypeOK
<1>18. ASSUME NEW c \in Consumers, Wait(c) PROVE TypeOK'
  BY <1>18, <1>a, <1>b, ZenonT(30) DEF Wait, Goto, TypeOK, Pc
<1>19. ASSUME NEW c \in Consumers, Wake(c) PROVE TypeOK'
  BY <1>19, <1>a, <1>b, ZenonT(30) DEF Wake, Goto, TypeOK, Pc
<1>20. ASSUME NEW c \in Consumers, Spurious(c) PROVE TypeOK'
  BY <1>20, <1>a, <1>b, ZenonT(30) DEF Spurious, TypeOK, Pc
<1>21. CASE SetShuttingDown
  BY <1>21, <1>a, <1>b, SMTT(30) DEF SetShuttingDown, TypeOK, Pc
<1>22. CASE NotifyAll
  BY <1>22, <1>a, <1>b, SMTT(30) DEF NotifyAll, TypeOK, Pc
<1>23. CASE Finished
  BY <1>23, <1>a, <1>b, SMTT(30) DEF Finished, vars, TypeOK, Pc
<1>24. CASE UNCHANGED vars
  BY <1>24, <1>a, <1>b, ZenonT(30) DEF vars, TypeOK, Pc
<1>. QED
  BY <1>1, <1>2, <1>3, <1>4, <1>5, <1>6, <1>7, <1>8, <1>9, <1>10, <1>11,
     <1>12, <1>13, <1>14, <1>15, <1>16, <1>17, <1>18, <1>19, <1>20, <1>21,
     <1>22, <1>23, <1>24, ThreadSets
     DEF Next, PushStep, PopStep, ConsumerStep

-----------------------------------------------------------------------------
(* The invariant holds.                                                    *)

\* A slot's index is not above the position.
LEMMA AtBelow == \A n \in Nat : At(n) <= n
<1>. TAKE n \in Nat
<1>. DEFINE q == n \div Slots
<1>1. q \in Int /\ n % Slots \in 0..Slots - 1 /\ n = (Slots * q) + (n % Slots)
  BY Division
<1>2. Slots \in Nat /\ Slots >= 2
  BY SlotsLemma
<1>. HIDE DEF q
<1>3. Slots * q > -Slots
  BY <1>1, <1>2
<1>4. q >= 0
  BY <1>1, <1>2, <1>3
<1>5. Slots * q >= 0
  BY <1>1, <1>2, <1>4
<1>. QED
  BY <1>1, <1>2, <1>5 DEF At

\* The queue is built empty, each slot carrying its own index as its sequence.
LEMMA InitInv == Init => Inv
<1>. SUFFICES ASSUME Init PROVE Inv
  OBVIOUS
<1>. USE ThreadSets
<1>a. Slots \in Nat /\ Slots >= 2 /\ 0..Slots - 1 \subseteq Nat
  BY SlotsLemma
<1>b. /\ Cardinality(Consumers) \in Nat
      /\ kSpinAttempts \in Nat \ {0} /\ MaxItems \in Nat
  BY LockFreeAssumption, FS_CardinalityType
<1>c. /\ \A p \in Producers : pc[p] = "idle" /\ phase[p] = "first"
      /\ \A c \in Consumers : /\ pc[c] = "pop_load" /\ phase[c] = "spin"
                              /\ attempt[c] = 0
      /\ \A t \in Threads : pc[t] \in {"idle", "pop_load"}
  BY DEF Init
<1>1. TypeOK
  <2>1. /\ pc \in [Threads -> Pc]
        /\ phase \in [Threads -> {"first", "second", "discard", "spin",
                                  "recheck", "last"}]
    BY DEF Init, Pc
  <2>2. /\ sequence \in [0..Slots - 1 -> Nat]
        /\ storage \in [0..Slots - 1 -> Item \cup {None}]
        /\ enqueue_pos_ \in Nat /\ dequeue_pos_ \in Nat
        /\ enqueue_pos_ - dequeue_pos_ \in 0..Slots
    BY <1>a DEF Init
  <2>3. /\ pos \in [Threads -> Nat]
        /\ item \in [Producers -> Item \cup {None}]
        /\ got \in [Threads -> Item \cup {None}]
        /\ attempt \in [Consumers -> 0..kSpinAttempts]
    BY <1>b DEF Init
  <2>4. policy_ \in BackpressurePolicy
    BY DEF Init, BackpressurePolicy
  <2>5. log \in Seq(Item)
    BY DEF Init
  <2>6. shutting_down_ \in BOOLEAN /\ rejected \in BOOLEAN
    BY Zenon DEF Init
  <2>7. /\ main \in {"running", "notify", "done"}
        /\ wait_mutex_ \in Consumers \cup {None}
        /\ asleep \subseteq Consumers /\ notified \subseteq Consumers
    BY DEF Init
  <2>8. waiters_ \in 0..Cardinality(Consumers) /\ offered \in 0..MaxItems
    BY <1>b DEF Init
  <2>. QED
    BY <2>1, <2>2, <2>3, <2>4, <2>5, <2>6, <2>7, <2>8, SMTT(30) DEF TypeOK
<1>2. ProducerShape
  BY <1>c DEF ProducerShape
<1>3. ConsumerShape
  BY <1>b, <1>c DEF ConsumerShape, PopPc
<1>4. WaitersCounted
  <2>1. Registered = {}
    BY <1>c DEF Registered
  <2>. QED
    BY <2>1, FS_EmptySet DEF WaitersCounted, Init
<1>5. ReadShape
  BY <1>c DEF ReadShape, Reads
<1>6. Storing = {} /\ Taking = {}
  BY <1>c DEF Storing, Taking
<1>7. OwnShape
  BY <1>6 DEF OwnShape
<1>8. WindowShape
  BY DEF WindowShape, Init
<1>9. StorageShape
  <2>1. \A n \in Nat : sequence[At(n)] # n + 1
    <3>. TAKE n \in Nat
    <3>1. At(n) \in 0..Slots - 1 /\ At(n) <= n
      BY AtLemma, AtBelow
    <3>2. sequence[At(n)] = At(n)
      BY <3>1 DEF Init
    <3>. QED
      BY <1>a, <3>1, <3>2
  <2>. QED
    BY <1>6, <2>1 DEF StorageShape, Init
<1>. QED
  BY <1>1, <1>2, <1>3, <1>4, <1>5, <1>7, <1>8, <1>9, SMTT(30) DEF Inv

\* Every access preserves every part of the invariant.
LEMMA InvStep == Inv /\ [Next]_vars => Inv'
<1>. SUFFICES ASSUME Inv, [Next]_vars PROVE Inv'
  OBVIOUS
<1>1. /\ TypeOK /\ ProducerShape /\ ConsumerShape /\ WaitersCounted
      /\ ReadShape /\ OwnShape /\ WindowShape /\ StorageShape
  BY DEF Inv
<1>2. RingType
  BY <1>1, TypeRing
<1>3. TypeOK'
  BY <1>1, TypeStep
<1>4. ProducerShape' /\ ConsumerShape' /\ WaitersCounted'
  BY <1>1, ProducerStep, ConsumerShapeStep, WaitersStep
<1>5. ReadShape' /\ OwnShape'
  BY <1>1, <1>2, ReadStep, OwnStep
<1>6. WindowShape' /\ StorageShape'
  BY <1>1, <1>2, WindowStep, StorageStep
<1>. QED
  BY <1>3, <1>4, <1>5, <1>6 DEF Inv

\* The invariant holds in every reachable state.
LEMMA Invariance == Spec => []Inv
BY InitInv, InvStep, PTL DEF Spec

-----------------------------------------------------------------------------
(* The theorems.                                                           *)

\* The cursors of the ring stay within a lap of each other, and waiters_, which
\* producers read outside any lock, counts registered consumers and never
\* wraps below zero.
THEOREM TypeCorrect == Spec => []TypeOK
<1>1. Inv => TypeOK
  BY DEF Inv
<1>. QED
  BY <1>1, Invariance, PTL

\* No two threads ever own the same slot, so its storage, which is not atomic,
\* is accessed by one thread at a time, whatever the interleaving of try_push
\* and try_pop.
THEOREM SlotsExclusive == Spec => []SlotExclusive
<1>1. Inv => SlotExclusive
  <2>. SUFFICES ASSUME Inv, NEW t \in Owning, NEW u \in Owning,
                       Slot(t) = Slot(u)
                PROVE  t = u
    BY DEF SlotExclusive
  <2>1. RingType /\ OwnShape
    BY TypeRing DEF Inv
  <2>2. At(pos[t]) = At(pos[u])
    BY DEF Slot, At
  <2>3. Owning = Storing \cup Taking
    BY DEF Owning, Storing, Taking
  <2>4. /\ \A v, w \in Storing : At(pos[v]) = At(pos[w]) => v = w
        /\ \A v, w \in Taking : At(pos[v]) = At(pos[w]) => v = w
        /\ \A v \in Storing, w \in Taking : At(pos[v]) # At(pos[w])
    BY <2>1, Exclusive, SMTT(30)
  <2>. QED
    BY <2>2, <2>3, <2>4
<1>. QED
  BY <1>1, Invariance, PTL

\* Whoever claims the n-th dequeue position moves out the item pushed at the
\* n-th enqueue position: nothing is overtaken, read twice, read before it was
\* stored or overwritten before it was read.
THEOREM TakenWasPut == Spec => []TakesWhatWasPut
<1>1. Inv => TakesWhatWasPut
  BY DEF Inv, StorageShape, TakesWhatWasPut, Taking
<1>. QED
  BY <1>1, Invariance, PTL

-----------------------------------------------------------------------------
(* The safety part of the contract of queue_concept.hpp.                   *)

\* The consumers whose pop() has returned std::nullopt for good.
Exited == {c \in Consumers : pc[c] = "exited"}

\* A consumer's last try_pop() finds nothing and pop() returns.
Leaves(c) ==
  /\ PopSequence(c)
  /\ phase[c] = "last"
  /\ sequence[Slot(c)] - (pos[c] + 1) < 0
  /\ pc' = [pc EXCEPT ![c] = "exited"]

\* What the contract talks about stays as it is.
Quiet ==
  /\ UNCHANGED <<enqueue_pos_, dequeue_pos_, log, shutting_down_>>
  /\ Exited' = Exited

\* The moments the contract sees: the two successful compare-and-swaps, the
\* store of shutting_down_, and the return of std::nullopt.
Visible ==
  \/ \E p \in Producers : PushClaim(p) /\ enqueue_pos_ = pos[p]
  \/ \E t \in Threads : PopClaim(t) /\ dequeue_pos_ = pos[t]
  \/ SetShuttingDown
  \/ \E c \in Consumers : Leaves(c)

\* Between those moments the contract sees nothing.
LEMMA OnlyVisible ==
  ASSUME TypeOK, ProducerShape, ConsumerShape, [Next]_vars
  PROVE  Visible \/ Quiet
<1>. USE ThreadSets DEF ring, parking, locals, history, closing
<1>a. pc \in [Threads -> Pc]
  BY DEF TypeOK
<1>b. ASSUME UNCHANGED <<enqueue_pos_, dequeue_pos_, log, shutting_down_>>,
             NEW s \in Threads, NEW w, w # "exited", pc[s] # "exited",
             pc' = [pc EXCEPT ![s] = w]
      PROVE  Visible \/ Quiet
  BY <1>a, <1>b DEF Quiet, Exited
<1>c. ASSUME UNCHANGED <<enqueue_pos_, dequeue_pos_, log, shutting_down_, pc>>
      PROVE  Visible \/ Quiet
  BY <1>c DEF Quiet, Exited
<1>1. ASSUME NEW p \in Producers, PushCall(p) PROVE Visible \/ Quiet
  <2>1. /\ pc[p] # "exited"
        /\ \E w \in Pc \ {"exited"} : pc' = [pc EXCEPT ![p] = w]
        /\ UNCHANGED <<enqueue_pos_, dequeue_pos_, log, shutting_down_>>
    BY <1>1, Zenon DEF PushCall, Goto, Pc
  <2>. QED
    BY <1>1, <1>b, <2>1, Zenon
<1>2. ASSUME NEW p \in Producers, PushLoad(p) PROVE Visible \/ Quiet
  <2>1. /\ pc[p] # "exited"
        /\ \E w \in Pc \ {"exited"} : pc' = [pc EXCEPT ![p] = w]
        /\ UNCHANGED <<enqueue_pos_, dequeue_pos_, log, shutting_down_>>
    BY <1>2, Zenon DEF PushLoad, Goto, Pc
  <2>. QED
    BY <1>2, <1>b, <2>1, Zenon
<1>3. ASSUME NEW p \in Producers, PushSequence(p) PROVE Visible \/ Quiet
  <2>1. /\ pc[p] # "exited"
        /\ \E w \in Pc \ {"exited"} : pc' = [pc EXCEPT ![p] = w]
        /\ UNCHANGED <<enqueue_pos_, dequeue_pos_, log, shutting_down_>>
    BY <1>3 DEF PushSequence, Reject, Goto, Pc
  <2>. QED
    BY <1>3, <1>b, <2>1, Zenon
<1>4. ASSUME NEW p \in Producers, PushClaim(p) PROVE Visible \/ Quiet
  <2>1. CASE enqueue_pos_ = pos[p]
    BY <1>4, <2>1 DEF Visible
  <2>2. CASE enqueue_pos_ # pos[p]
    <3>1. /\ pc' = [pc EXCEPT ![p] = "push_seq"] /\ pc[p] # "exited"
          /\ UNCHANGED <<enqueue_pos_, dequeue_pos_, log, shutting_down_>>
      BY <1>4, <2>2 DEF PushClaim, Goto
    <3>. QED
      BY <1>4, <1>b, <3>1, Zenon
  <2>. QED
    BY <2>1, <2>2
<1>5. ASSUME NEW p \in Producers, PushStore(p) PROVE Visible \/ Quiet
  <2>1. /\ pc[p] # "exited"
        /\ \E w \in Pc \ {"exited"} : pc' = [pc EXCEPT ![p] = w]
        /\ UNCHANGED <<enqueue_pos_, dequeue_pos_, log, shutting_down_>>
    BY <1>5, Zenon DEF PushStore, Goto, Pc
  <2>. QED
    BY <1>5, <1>b, <2>1, Zenon
<1>6. ASSUME NEW p \in Producers, PushPublish(p) PROVE Visible \/ Quiet
  <2>1. /\ pc[p] # "exited"
        /\ \E w \in Pc \ {"exited"} : pc' = [pc EXCEPT ![p] = w]
        /\ UNCHANGED <<enqueue_pos_, dequeue_pos_, log, shutting_down_>>
    BY <1>6, Zenon DEF PushPublish, Goto, Pc
  <2>. QED
    BY <1>6, <1>b, <2>1, Zenon
<1>7. ASSUME NEW p \in Producers, NotifySkipped(p) PROVE Visible \/ Quiet
  <2>1. /\ pc[p] # "exited"
        /\ \E w \in Pc \ {"exited"} : pc' = [pc EXCEPT ![p] = w]
        /\ UNCHANGED <<enqueue_pos_, dequeue_pos_, log, shutting_down_>>
    BY <1>7, Zenon DEF NotifySkipped, PushReturns, Goto, Pc
  <2>. QED
    BY <1>7, <1>b, <2>1, Zenon
<1>8. ASSUME NEW p \in Producers, NotifyNeeded(p) PROVE Visible \/ Quiet
  <2>1. /\ pc[p] # "exited"
        /\ \E w \in Pc \ {"exited"} : pc' = [pc EXCEPT ![p] = w]
        /\ UNCHANGED <<enqueue_pos_, dequeue_pos_, log, shutting_down_>>
    BY <1>8, Zenon DEF NotifyNeeded, Goto, Pc
  <2>. QED
    BY <1>8, <1>b, <2>1, Zenon
<1>9. ASSUME NEW p \in Producers, NotifyOne(p) PROVE Visible \/ Quiet
  <2>1. /\ pc[p] # "exited"
        /\ \E w \in Pc \ {"exited"} : pc' = [pc EXCEPT ![p] = w]
        /\ UNCHANGED <<enqueue_pos_, dequeue_pos_, log, shutting_down_>>
    BY <1>9, Zenon DEF NotifyOne, PushReturns, Goto, Pc
  <2>. QED
    BY <1>9, <1>b, <2>1, Zenon
<1>10. ASSUME NEW t \in Threads, PopLoad(t) PROVE Visible \/ Quiet
  <2>1. /\ pc[t] # "exited"
        /\ \E w \in Pc \ {"exited"} : pc' = [pc EXCEPT ![t] = w]
        /\ UNCHANGED <<enqueue_pos_, dequeue_pos_, log, shutting_down_>>
    BY <1>10, Zenon DEF PopLoad, Goto, Pc
  <2>. QED
    BY <1>10, <1>b, <2>1, Zenon
<1>11. ASSUME NEW t \in Threads, PopSequence(t) PROVE Visible \/ Quiet
  <2>1. /\ pc[t] # "exited"
        /\ UNCHANGED <<enqueue_pos_, dequeue_pos_, log, shutting_down_>>
    BY <1>11 DEF PopSequence
  <2>2. CASE \E w \in {"pop_cas", "pop_load", "idle", "flag", "decide"} :
               pc' = [pc EXCEPT ![t] = w]
    BY <1>11, <1>b, <2>1, <2>2, Zenon
  <2>3. CASE ~ \E w \in {"pop_cas", "pop_load", "idle", "flag", "decide"} :
                 pc' = [pc EXCEPT ![t] = w]
    <3>1. /\ phase[t] = "last" /\ pc' = [pc EXCEPT ![t] = "exited"]
          /\ sequence[Slot(t)] - (pos[t] + 1) < 0
      BY <1>11, <2>3, Zenon DEF PopSequence, PopFoundNothing, Reject, Goto
    <3>2. t \in Consumers
      BY <1>11, <3>1, Zenon DEF ProducerShape
    <3>. QED
      BY <1>11, <3>1, <3>2, Zenon DEF Visible, Leaves
  <2>. QED
    BY <2>2, <2>3
<1>12. ASSUME NEW t \in Threads, PopClaim(t) PROVE Visible \/ Quiet
  <2>1. CASE dequeue_pos_ = pos[t]
    BY <1>12, <2>1 DEF Visible
  <2>2. CASE dequeue_pos_ # pos[t]
    <3>1. /\ pc' = [pc EXCEPT ![t] = "pop_seq"] /\ pc[t] # "exited"
          /\ UNCHANGED <<enqueue_pos_, dequeue_pos_, log, shutting_down_>>
      BY <1>12, <2>2 DEF PopClaim, Goto
    <3>. QED
      BY <1>12, <1>b, <3>1, Zenon
  <2>. QED
    BY <2>1, <2>2
<1>13. ASSUME NEW t \in Threads, PopTake(t) PROVE Visible \/ Quiet
  <2>1. /\ pc[t] # "exited"
        /\ \E w \in Pc \ {"exited"} : pc' = [pc EXCEPT ![t] = w]
        /\ UNCHANGED <<enqueue_pos_, dequeue_pos_, log, shutting_down_>>
    BY <1>13, Zenon DEF PopTake, Goto, Pc
  <2>. QED
    BY <1>13, <1>b, <2>1, Zenon
<1>14. ASSUME NEW t \in Threads, PopRelease(t) PROVE Visible \/ Quiet
  <2>1. phase[t] \in {"discard", "recheck", "spin", "last"}
    <3>1. pc[t] = "pop_release"
      BY <1>14, SMTT(30) DEF PopRelease
    <3>2. CASE t \in Producers
      BY <3>1, <3>2 DEF ProducerShape, PushPc
    <3>3. CASE t \in Consumers
      BY <3>1, <3>3 DEF ConsumerShape
    <3>. QED
      BY <1>14, <3>2, <3>3
  <2>2. /\ pc[t] # "exited"
        /\ \E w \in {"push_load", "decide", "pop_load"} :
             pc' = [pc EXCEPT ![t] = w]
        /\ UNCHANGED <<enqueue_pos_, dequeue_pos_, log, shutting_down_>>
    BY <1>14, <2>1, Zenon DEF PopRelease, PopReturns, Goto
  <2>. QED
    BY <1>14, <1>b, <2>2, Zenon
<1>15. ASSUME NEW c \in Consumers, SpinFlag(c) PROVE Visible \/ Quiet
  <2>1. /\ pc[c] # "exited"
        /\ \E w \in Pc \ {"exited"} : pc' = [pc EXCEPT ![c] = w]
        /\ UNCHANGED <<enqueue_pos_, dequeue_pos_, log, shutting_down_>>
    BY <1>15, SMTT(30) DEF SpinFlag, Goto, Pc
  <2>. QED
    BY <1>15, <1>b, <2>1, Zenon
<1>16. ASSUME NEW c \in Consumers, Register(c) PROVE Visible \/ Quiet
  <2>1. /\ pc[c] # "exited"
        /\ \E w \in Pc \ {"exited"} : pc' = [pc EXCEPT ![c] = w]
        /\ UNCHANGED <<enqueue_pos_, dequeue_pos_, log, shutting_down_>>
    BY <1>16, Zenon DEF Register, Goto, Pc
  <2>. QED
    BY <1>16, <1>b, <2>1, Zenon
<1>17. ASSUME NEW c \in Consumers, Decide(c) PROVE Visible \/ Quiet
  <2>1. /\ pc[c] # "exited"
        /\ \E w \in Pc \ {"exited"} : pc' = [pc EXCEPT ![c] = w]
        /\ UNCHANGED <<enqueue_pos_, dequeue_pos_, log, shutting_down_>>
    BY <1>17 DEF Decide, PopReturns, Goto, Pc
  <2>. QED
    BY <1>17, <1>b, <2>1, Zenon
<1>18. ASSUME NEW c \in Consumers, Wait(c) PROVE Visible \/ Quiet
  <2>1. /\ pc[c] # "exited"
        /\ \E w \in Pc \ {"exited"} : pc' = [pc EXCEPT ![c] = w]
        /\ UNCHANGED <<enqueue_pos_, dequeue_pos_, log, shutting_down_>>
    BY <1>18, Zenon DEF Wait, Goto, Pc
  <2>. QED
    BY <1>18, <1>b, <2>1, Zenon
<1>19. ASSUME NEW c \in Consumers, Wake(c) PROVE Visible \/ Quiet
  <2>1. /\ pc[c] # "exited"
        /\ \E w \in Pc \ {"exited"} : pc' = [pc EXCEPT ![c] = w]
        /\ UNCHANGED <<enqueue_pos_, dequeue_pos_, log, shutting_down_>>
    BY <1>19, Zenon DEF Wake, Goto, Pc
  <2>. QED
    BY <1>19, <1>b, <2>1, Zenon
<1>20. ASSUME NEW c \in Consumers, Spurious(c) PROVE Visible \/ Quiet
  BY <1>20, <1>c DEF Spurious
<1>21. CASE SetShuttingDown
  BY <1>21 DEF Visible
<1>22. CASE NotifyAll
  BY <1>22, <1>c, SMTT(30) DEF NotifyAll
<1>23. CASE Finished
  BY <1>23, <1>c, SMTT(30) DEF Finished, vars
<1>24. CASE UNCHANGED vars
  BY <1>24, <1>c DEF vars
<1>. QED
  BY <1>1, <1>2, <1>3, <1>4, <1>5, <1>6, <1>7, <1>8, <1>9, <1>10, <1>11,
     <1>12, <1>13, <1>14, <1>15, <1>16, <1>17, <1>18, <1>19, <1>20, <1>21,
     <1>22, <1>23, <1>24, ThreadSets
     DEF Next, PushStep, PopStep, ConsumerStep

\* The queue of the contract is what lies between the cursors.
LEMMA WindowOf ==
  ASSUME NEW s \in Seq(Item), NEW d \in 0..Len(s)
  PROVE  /\ SubSeq(s, d + 1, Len(s)) \in Seq(Item)
         /\ Len(SubSeq(s, d + 1, Len(s))) = Len(s) - d
<1>1. d \in Nat /\ Len(s) \in Nat
  BY LenProperties
<1>2. \A i \in (d + 1)..Len(s) : s[i] \in Item
  BY <1>1, ElementOfSeq
<1>3. d + 1 \in Int /\ Len(s) \in Int
  BY <1>1
<1>4. /\ SubSeq(s, d + 1, Len(s)) \in Seq(Item)
      /\ Len(SubSeq(s, d + 1, Len(s))) =
           IF d + 1 <= Len(s) THEN Len(s) - (d + 1) + 1 ELSE 0
  BY <1>2, <1>3, SubSeqProperties
<1>. QED
  BY <1>1, <1>4

\* A claimed enqueue position appends its item to the contract's queue and
\* leaves what was delivered alone.
LEMMA WindowAppend ==
  ASSUME NEW s \in Seq(Item), NEW d \in 0..Len(s), NEW x \in Item
  PROVE  /\ SubSeq(Append(s, x), d + 1, Len(s) + 1) =
              Append(SubSeq(s, d + 1, Len(s)), x)
         /\ SubSeq(Append(s, x), 1, d) = SubSeq(s, 1, d)
<1>1. d \in Nat /\ Len(s) \in Nat
  BY LenProperties
<1>2. /\ Append(s, x) \in Seq(Item)
      /\ Len(Append(s, x)) = Len(s) + 1
      /\ \A i \in 1..Len(s) : Append(s, x)[i] = s[i]
      /\ Append(s, x)[Len(s) + 1] = x
  BY <1>1, AppendProperties
<1>3. \A i \in 1..Len(s) : s[i] \in Item
  BY ElementOfSeq
<1>. DEFINE a == Append(s, x)
<1>. HIDE DEF a
<1>4. ASSUME NEW m \in 1..(Len(s) + 1), NEW n \in 0..Len(s)
      PROVE  SubSeq(a, m, n) = SubSeq(s, m, n)
  <2>1. m \in Int /\ n \in Int
    BY <1>1, SMTT(30)
  <2>2. \A i \in m..n : s[i] \in Item /\ a[i] = s[i] /\ a[i] \in Item
    BY <1>1, <1>2, <1>3, SMTT(30) DEF a
  <2>3. /\ SubSeq(s, m, n) \in Seq(Item) /\ SubSeq(a, m, n) \in Seq(Item)
        /\ Len(SubSeq(s, m, n)) = Len(SubSeq(a, m, n))
        /\ Len(SubSeq(s, m, n)) = IF m <= n THEN n - m + 1 ELSE 0
        /\ \A i \in 1..(n - m + 1) : SubSeq(s, m, n)[i] = s[m + i - 1]
        /\ \A i \in 1..(n - m + 1) : SubSeq(a, m, n)[i] = a[m + i - 1]
    BY <2>1, <2>2, SubSeqProperties, SMTT(30)
  <2>4. \A i \in 1..(n - m + 1) : m + i - 1 \in m..n
    BY <1>1, SMTT(30)
  <2>5. \A i \in 1..Len(SubSeq(s, m, n)) :
          SubSeq(s, m, n)[i] = SubSeq(a, m, n)[i]
    BY <1>1, <2>2, <2>3, <2>4, SMTT(30)
  <2>. QED
    BY <2>3, <2>5, SeqEqual, Zenon
<1>5. SubSeq(a, 1, d) = SubSeq(s, 1, d)
  BY <1>1, <1>4
<1>6. SubSeq(a, d + 1, Len(s)) = SubSeq(s, d + 1, Len(s))
  BY <1>1, <1>4
<1>7. SubSeq(a, d + 1, Len(s) + 1) = SubSeq(a, d + 1, Len(s)) \o <<x>>
  <2>. DEFINE m == d + 1
              n == Len(s) + 1
  <2>1. /\ m \in 1..Len(a) /\ n \in m..Len(a) /\ n - 1 = Len(s)
        /\ a \in Seq(Item) /\ a[n] = x
    BY <1>1, <1>2, SMTT(30) DEF a
  <2>. HIDE DEF m, n
  <2>2. SubSeq(a, m, n) = SubSeq(a, m, n - 1) \o <<a[n]>>
    BY <2>1, SubSeqRecursiveSecond, SMTT(30)
  <2>3. SubSeq(a, m, n) = SubSeq(a, m, Len(s)) \o <<x>>
    BY <2>1, <2>2, SMTT(30)
  <2>. QED
    BY <2>3, Zenon DEF m, n
<1>8. SubSeq(s, d + 1, Len(s)) \in Seq(Item)
  BY WindowOf
<1>9. SubSeq(s, d + 1, Len(s)) \o <<x>> =
        Append(SubSeq(s, d + 1, Len(s)), x)
  BY <1>8, AppendIsConcat, Zenon
<1>. QED
  BY <1>5, <1>6, <1>7, <1>9, Zenon DEF a

\* A claimed dequeue position moves the head of the contract's queue to what
\* was delivered.
LEMMA WindowTail ==
  ASSUME NEW s \in Seq(Item), NEW d \in Nat, d < Len(s)
  PROVE  /\ SubSeq(s, d + 1, Len(s)) # <<>>
         /\ SubSeq(s, d + 1 + 1, Len(s)) = Tail(SubSeq(s, d + 1, Len(s)))
         /\ SubSeq(s, 1, d + 1) =
              Append(SubSeq(s, 1, d), Head(SubSeq(s, d + 1, Len(s))))
<1>1. Len(s) \in Nat /\ d \in 0..Len(s)
  BY LenProperties
<1>2. Len(SubSeq(s, d + 1, Len(s))) = Len(s) - d
  BY <1>1, WindowOf
<1>3. SubSeq(s, d + 1, Len(s)) # <<>>
  <2>1. Len(<<>>) = 0
    OBVIOUS
  <2>2. Len(SubSeq(s, d + 1, Len(s))) # 0
    BY <1>1, <1>2
  <2>. QED
    BY <2>1, <2>2, Zenon
<1>4. d + 1 \in 1..Len(s) /\ Len(s) \in (d + 1)..Len(s)
  BY <1>1
<1>5. /\ Head(SubSeq(s, d + 1, Len(s))) = s[d + 1]
      /\ Tail(SubSeq(s, d + 1, Len(s))) = SubSeq(s, d + 1 + 1, Len(s))
  BY <1>4, HeadTailOfSubSeq
<1>6. 1 \in 1..Len(s) /\ d + 1 \in 1..Len(s) /\ d + 1 - 1 = d
  BY <1>1
<1>7. SubSeq(s, 1, d + 1) = SubSeq(s, 1, d) \o <<s[d + 1]>>
  <2>1. SubSeq(s, 1, d + 1) = SubSeq(s, 1, d + 1 - 1) \o <<s[d + 1]>>
    BY <1>6, SubSeqRecursiveSecond, SMTT(30)
  <2>. QED
    BY <1>6, <2>1, SMTT(30)
<1>8. SubSeq(s, 1, d) \in Seq(Item) /\ s[d + 1] \in Item
  <2>1. \A i \in 1..d : s[i] \in Item
    BY <1>1, ElementOfSeq, SMTT(30)
  <2>. QED
    BY <1>6, <2>1, SubSeqProperties, ElementOfSeq, SMTT(30)
<1>9. SubSeq(s, 1, d) \o <<s[d + 1]>> = Append(SubSeq(s, 1, d), s[d + 1])
  BY <1>8, AppendIsConcat, SMTT(30)
<1>. QED
  BY <1>3, <1>5, <1>7, <1>9, Zenon

\* pop() gives up only on an empty ring: after shutdown no push is under way,
\* so the slot at the dequeue cursor is published if there is anything left,
\* and a slot behind the cursor has moved on.
LEMMA LeavesEmpty ==
  ASSUME Inv, NEW c \in Consumers, Leaves(c)
  PROVE  dequeue_pos_ = enqueue_pos_ /\ shutting_down_
<1>1. /\ TypeOK /\ ProducerShape /\ ConsumerShape /\ ReadShape /\ WindowShape
      /\ c \in Threads /\ RingType
  BY ThreadSets, TypeRing, SMTT(30) DEF Inv
<1>2. shutting_down_
  BY <1>1 DEF ConsumerShape, Leaves
<1>3. Storing = {}
  <2>1. \A p \in Producers : pc[p] = "idle"
    BY <1>1, <1>2, SMTT(30) DEF ProducerShape
  <2>2. \A t \in Consumers : pc[t] \notin {"push_store", "push_publish"}
    BY <1>1, SMTT(30) DEF ConsumerShape, PopPc
  <2>. QED
    BY <2>1, <2>2, ThreadSets, SMTT(30) DEF Storing
<1>4. pc[c] = "pop_seq" /\ sequence[At(pos[c])] - (pos[c] + 1) < 0
  BY DEF Leaves, PopSequence, Slot, At
<1>5. pos[c] \in Nat /\ dequeue_pos_ \in Nat /\ enqueue_pos_ \in Nat
      /\ dequeue_pos_ <= enqueue_pos_
  BY <1>1, SMTT(30) DEF RingType
<1>6. pos[c] <= dequeue_pos_
  BY <1>1, <1>4, ZenonT(30) DEF ReadShape, Reads
<1>7. sequence[At(pos[c])] \in Nat
  <2>1. At(pos[c]) \in 0..Slots - 1
    BY <1>5, AtLemma, SMTT(30)
  <2>. QED
    BY <1>1, <2>1 DEF RingType
<1>8. /\ sequence[At(pos[c])] # pos[c] + 1
      /\ ~(sequence[At(pos[c])] >= pos[c] + 1)
  BY <1>4, <1>5, <1>7, SMTT(30)
<1>9. ~(pos[c] < dequeue_pos_)
  BY <1>1, <1>5, <1>8, SMTT(30) DEF WindowShape
<1>10. pos[c] = dequeue_pos_
  BY <1>5, <1>6, <1>9, SMTT(30)
<1>11. ~(dequeue_pos_ < enqueue_pos_)
  BY <1>1, <1>3, <1>5, <1>8, <1>10, SMTT(30) DEF WindowShape
<1>. QED
  BY <1>2, <1>5, <1>11

\* Whoever claims a dequeue position has not been sent home, so a consumer is
\* left: it is a consumer inside pop(), or a producer, and then shutdown() has
\* not been called.
LEMMA TakerLeft ==
  ASSUME Inv, NEW t \in Threads, PopClaim(t)
  PROVE  Exited # Consumers
<1>1. pc[t] = "pop_cas" /\ ProducerShape /\ ConsumerShape
  BY DEF PopClaim, Inv
<1>2. CASE t \in Consumers
  BY <1>1, <1>2 DEF Exited
<1>3. CASE t \in Producers
  <2>1. ~shutting_down_
    BY <1>1, <1>3, SMTT(30) DEF ProducerShape
  <2>2. \A c \in Consumers : pc[c] # "exited"
    BY <1>1, <2>1 DEF ConsumerShape, PopPc
  <2>3. PICK c \in Consumers : TRUE
    BY LockFreeAssumption
  <2>. QED
    BY <2>2, <2>3, SMTT(30) DEF Exited
<1>. QED
  BY <1>2, <1>3, ThreadSets, SMTT(30)

\* Each of those moments is a step of the contract.
LEMMA ContractStep ==
  ASSUME Inv, [Next]_vars
  PROVE  [Contract!Next]_(Contract!abstractVars)
<1>. USE DEF Exited
<1>a. /\ TypeOK /\ ProducerShape /\ ConsumerShape /\ ReadShape /\ WindowShape
      /\ StorageShape
  BY DEF Inv
<1>b. /\ log \in Seq(Item) /\ Len(log) = enqueue_pos_
      /\ dequeue_pos_ \in 0..Len(log)
      /\ dequeue_pos_ \in Nat /\ enqueue_pos_ \in Nat
  <2>1. RingType
    BY <1>a, TypeRing, SMTT(30)
  <2>2. log \in Seq(Item)
    BY <1>a, SMTT(30) DEF TypeOK
  <2>3. Len(log) = enqueue_pos_
    BY <1>a DEF StorageShape
  <2>4. /\ dequeue_pos_ \in Nat /\ enqueue_pos_ \in Nat
        /\ dequeue_pos_ <= enqueue_pos_
    BY <2>1 DEF RingType
  <2>. QED
    BY <2>2, <2>3, <2>4
<1>1. ASSUME NEW p \in Producers, PushClaim(p), enqueue_pos_ = pos[p]
      PROVE  Contract!Next
  <2>1. item[p] \in Item
    BY <1>1, <1>a, SMTT(30) DEF PushClaim, ProducerShape
  <2>2. /\ log' = Append(log, item[p]) /\ enqueue_pos_' = enqueue_pos_ + 1
        /\ pc' = [pc EXCEPT ![p] = "push_store"]
        /\ UNCHANGED <<dequeue_pos_, shutting_down_>>
    BY <1>1, SMTT(30) DEF PushClaim, Goto, closing
  <2>3. Exited' = Exited
    BY <1>1, <1>a, <2>2, ThreadSets, SMTT(30) DEF TypeOK
  <2>4. enqueue_pos_ - dequeue_pos_ < Slots
    BY <1>1, <1>a, ClaimDistance
  <2>5. Len(SubSeq(log, dequeue_pos_ + 1, enqueue_pos_)) < Slots
    BY <1>b, <2>4, WindowOf
  <2>6. /\ SubSeq(log', dequeue_pos_' + 1, enqueue_pos_') =
             Append(SubSeq(log, dequeue_pos_ + 1, enqueue_pos_), item[p])
        /\ SubSeq(log', 1, dequeue_pos_') = SubSeq(log, 1, dequeue_pos_)
    BY <1>b, <2>1, <2>2, WindowAppend
  <2>7. Contract!Put(item[p])
    BY <2>2, <2>3, <2>5, <2>6, Zenon DEF Contract!Put
  <2>. QED
    BY <2>1, <2>7, SMTT(30) DEF Contract!Next
<1>2. ASSUME NEW t \in Threads, PopClaim(t), dequeue_pos_ = pos[t]
      PROVE  Contract!Next
  <2>1. /\ dequeue_pos_' = dequeue_pos_ + 1
        /\ pc' = [pc EXCEPT ![t] = "pop_take"] /\ pc[t] # "exited"
        /\ UNCHANGED <<enqueue_pos_, log, shutting_down_>>
    BY <1>2, SMTT(30) DEF PopClaim, Goto, closing
  <2>2. Exited' = Exited
    BY <1>2, <1>a, <2>1, ThreadSets, SMTT(30) DEF TypeOK
  <2>3. dequeue_pos_ < Len(log)
    BY <1>2, <1>a, <1>b, PopClaimDistance, SMTT(30)
  <2>4. Exited # Consumers
    BY <1>2, TakerLeft
  <2>5. /\ SubSeq(log, dequeue_pos_ + 1, enqueue_pos_) # <<>>
        /\ SubSeq(log', dequeue_pos_' + 1, enqueue_pos_') =
             Tail(SubSeq(log, dequeue_pos_ + 1, enqueue_pos_))
        /\ SubSeq(log', 1, dequeue_pos_') =
             Append(SubSeq(log, 1, dequeue_pos_),
                    Head(SubSeq(log, dequeue_pos_ + 1, enqueue_pos_)))
    BY <1>b, <2>1, <2>3, WindowTail, Zenon
  <2>6. Contract!Take
    BY <2>1, <2>2, <2>4, <2>5, Zenon DEF Contract!Take
  <2>. QED
    BY <2>6 DEF Contract!Next
<1>3. CASE SetShuttingDown
  <2>1. Contract!Close
    BY <1>3 DEF SetShuttingDown, ring, locals, history, Contract!Close
  <2>. QED
    BY <2>1 DEF Contract!Next
<1>4. ASSUME NEW c \in Consumers, Leaves(c) PROVE Contract!Next
  <2>1. dequeue_pos_ = enqueue_pos_ /\ shutting_down_
    BY <1>4, LeavesEmpty
  <2>2. SubSeq(log, dequeue_pos_ + 1, enqueue_pos_) = <<>>
    BY <1>b, <2>1, SubSeqEmpty
  <2>3. /\ pc[c] # "exited" /\ pc' = [pc EXCEPT ![c] = "exited"]
        /\ UNCHANGED <<enqueue_pos_, dequeue_pos_, log, shutting_down_>>
    BY <1>4, Zenon DEF Leaves, PopSequence, ring, closing
  <2>4. c \notin Exited /\ Exited' = Exited \cup {c}
    BY <1>4, <1>a, <2>3, ThreadSets, SMTT(30) DEF TypeOK
  <2>5. Contract!Finish(c)
    BY <2>1, <2>2, <2>3, <2>4 DEF Contract!Finish
  <2>. QED
    BY <2>5 DEF Contract!Next
<1>5. CASE Quiet
  BY <1>5, Zenon DEF Quiet, Contract!abstractVars
<1>6. Visible \/ Quiet
  BY <1>a, OnlyVisible
<1>. QED
  BY <1>1, <1>2, <1>3, <1>4, <1>5, <1>6, SMTT(30) DEF Visible

\* The ring is a correct EventQueue: items come out in the order they went in,
\* each to one thread, never more than capacity() of them are inside, and a
\* consumer is sent home only by an empty queue that was shut down.
THEOREM ContractSafety == Spec => Contract!Safety
<1>1. Init => Contract!Init
  <2>. SUFFICES ASSUME Init PROVE Contract!Init
    OBVIOUS
  <2>1. SubSeq(log, dequeue_pos_ + 1, enqueue_pos_) = <<>>
        /\ SubSeq(log, 1, dequeue_pos_) = <<>>
    BY SubSeqEmpty DEF Init
  <2>2. {c \in Consumers : pc[c] = "exited"} = {}
    BY ThreadSets DEF Init
  <2>. QED
    BY <2>1, <2>2, SMTT(30) DEF Init, Contract!Init
<1>2. Inv /\ [Next]_vars => [Contract!Next]_(Contract!abstractVars)
  BY ContractStep
<1>. QED
  BY <1>1, <1>2, Invariance, PTL DEF Spec, Contract!Safety
=============================================================================
