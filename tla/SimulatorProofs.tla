--------------------------- MODULE SimulatorProofs ---------------------------
(***************************************************************************)
(* Proofs about Simulator for any number of threads, of devices, of        *)
(* devices added by the spike and of events per device.                    *)
(***************************************************************************)
EXTENDS Simulator, FiniteSetTheorems, TLAPS

-----------------------------------------------------------------------------
(* The inductive invariant.                                                *)

\* main() starts the threads once the initial fleet is complete, and joins
\* them before the sum; a context with a handler in hand is running; until
\* the spike the fleet has DeviceCount clients, and it comes before the stop.
MainShape ==
  /\ main = "build" => clients <= DeviceCount /\ context[0] = "idle"
  /\ main \in {"sum", "done"} => \A i \in Threads : context[i] = "finished"
  /\ \A i \in Threads :
       /\ context[i] # "idle" => clients >= DeviceCount
       /\ hand[i] # Free => context[i] = "running"
  /\ spike_timer # "none" => SpikeCount > 0
  /\ spike_timer = "waiting" =>
       clients <= DeviceCount /\ stop_timer = "waiting"

\* A completion handler runs on the thread that owns its client, which is in
\* the fleet; the spike runs on context 0, before the stop timer, and works on
\* the client it is about to append; sweeps run after the stop timer.
HandShape ==
  \A i \in Threads :
    /\ hand[i].at \in Operations
         => hand[i].on \in Fleet /\ Owner(hand[i].on) = i
    /\ hand[i].at = "spike" =>
         /\ i = 0
         /\ hand[i].on = clients
         /\ clients < DeviceCount + SpikeCount
         /\ spike_timer = "fired"
         /\ stop_timer = "waiting"
    /\ hand[i].at = "sweep" \/ i \in sweep => stop_timer = "fired"

\* Nothing is pending for a client that has not been made.
PendingShape ==
  \A d \in Devices, op \in Operations : pending[d][op] > 0 => d \in Fleet

\* Client d's handler for a delayed send, or for the end of its write, is in
\* hand.
InHand(d, ops) == hand[Owner(d)].at \in ops /\ hand[Owner(d)].on = d

\* SendsUnderWay, without the cardinality.
WriteShape ==
  \A d \in Devices :
    pending[d]["latency"] + pending[d]["write"]
      + (IF InHand(d, {"latency", "write"}) THEN 1 ELSE 0)
      = IF write_in_flight_[d] THEN 1 ELSE 0

\* An event is delayed only while there is room for it.
RoomForDelayed ==
  \A d \in Devices :
    pending[d]["latency"] > 0 \/ InHand(d, {"latency"})
      => events_sent_[d] < MaxEvents

\* A context is halted by its sweep, which has stopped its slice; the slice
\* cannot grow after that.
HaltedShape ==
  \A i \in Threads :
    halted[i] => /\ context[i] # "idle"
                 /\ stop_timer = "fired"
                 /\ \A d \in Slice(i) : stopped_[d]

Inv ==
  /\ TypeOK
  /\ MainShape
  /\ HandShape
  /\ PendingShape
  /\ WriteShape
  /\ RoomForDelayed
  /\ HaltedShape

-----------------------------------------------------------------------------
(* Threads, devices and the counters of pending operations.                *)

\* make_client's choice of context is one of the contexts; there is a
\* context 0; a client index below DeviceCount + SpikeCount is a device.
LEMMA Indices ==
  /\ 0 \in Threads
  /\ \A d \in Devices : d \in Nat /\ Owner(d) \in Threads
  /\ \A n \in Nat : n < DeviceCount + SpikeCount <=> n \in Devices
<1>. USE SimulatorAssumption
<1>1. 0 \in Threads
  BY DEF Threads
<1>2. \A n \in Nat : n < DeviceCount + SpikeCount <=> n \in Devices
  BY DEF Devices
<1>3. ASSUME NEW d \in Devices PROVE d \in Nat /\ Owner(d) \in Threads
  <2>1. d \in Nat
    BY DEF Devices
  <2>. QED
    BY <2>1 DEF Owner, Threads
<1>. QED
  BY <1>1, <1>2, <1>3

\* Starting an operation of a client counts one more of them.
LEMMA PendingMore ==
  ASSUME pending \in [Devices -> [Operations -> Nat]],
         NEW d \in Devices, NEW op \in Operations,
         pending' = [pending EXCEPT ![d][op] = @ + 1]
  PROVE  /\ pending' \in [Devices -> [Operations -> Nat]]
         /\ pending'[d][op] = pending[d][op] + 1
         /\ \A e \in Devices, o \in Operations :
              e # d \/ o # op => pending'[e][o] = pending[e][o]
OBVIOUS

\* Taking a completion counts one less.
LEMMA PendingLess ==
  ASSUME pending \in [Devices -> [Operations -> Nat]],
         NEW d \in Devices, NEW op \in Operations,
         pending[d][op] > 0,
         pending' = [pending EXCEPT ![d][op] = @ - 1]
  PROVE  /\ pending' \in [Devices -> [Operations -> Nat]]
         /\ pending'[d][op] = pending[d][op] - 1
         /\ \A e \in Devices, o \in Operations :
              e # d \/ o # op => pending'[e][o] = pending[e][o]
OBVIOUS

\* do_send() and the timer it arms again count one more of each.
LEMMA PendingTwo ==
  ASSUME pending \in [Devices -> [Operations -> Nat]],
         NEW d \in Devices, NEW op \in {"latency", "write"},
         pending' = [pending EXCEPT ![d][op] = @ + 1, ![d]["timer"] = @ + 1]
  PROVE  /\ pending' \in [Devices -> [Operations -> Nat]]
         /\ pending'[d][op] = pending[d][op] + 1
         /\ pending'[d]["timer"] = pending[d]["timer"] + 1
         /\ \A e \in Devices, o \in Operations :
              e # d \/ o \notin {op, "timer"} => pending'[e][o] = pending[e][o]
BY DEF Operations

\* What a thread takes in hand and what it is left with are handlers.
LEMMA HandType ==
  ASSUME TypeOK, NEW i \in Threads
  PROVE  /\ Return(i) => hand' \in [Threads -> Handler]
         /\ \A at \in Operations \cup {"run", "spike", "sweep"}, on \in Nat :
              Take(i, at, on) => hand' \in [Threads -> Handler]
<1>1. Return(i) => hand' \in [Threads -> Handler]
  <2>1. Free \in Handler
    BY DEF Free, Handler
  <2>. QED
    BY <2>1 DEF TypeOK, Return
<1>2. ASSUME NEW at \in Operations \cup {"run", "spike", "sweep"},
             NEW on \in Nat, Take(i, at, on)
      PROVE  hand' \in [Threads -> Handler]
  <2>1. [at |-> at, on |-> on] \in Handler
    BY SMTT(30) DEF Handler
  <2>. QED
    BY <1>2, <2>1 DEF TypeOK, Take
<1>. QED
  BY <1>1, <1>2

-----------------------------------------------------------------------------
(* Every step preserves the invariant, conjunct by conjunct.               *)

\* No step leaves a variable outside its type; in particular a device never
\* has an operation completed that was not pending.
LEMMA TypeStep ==
  ASSUME TypeOK, MainShape, HandShape, RoomForDelayed, [Next]_vars
  PROVE  TypeOK'
<1>. USE SimulatorAssumption, Indices DEF TypeOK, control, device
<1>1. CASE BuildClient
  <2>1. clients \in Devices /\ clients + 1 \in 0..(DeviceCount + SpikeCount)
    BY <1>1 DEF BuildClient
  <2>2. pending' \in [Devices -> [Operations -> Nat]]
    BY <1>1, <2>1, PendingMore DEF BuildClient, MakeClient, Operations
  <2>. QED
    BY <1>1, <2>1, <2>2 DEF BuildClient, MakeClient
<1>2. CASE BuildFails
  BY <1>2 DEF BuildFails
<1>3. ASSUME NEW i \in Threads, SpawnThread(i) PROVE TypeOK'
  BY <1>3 DEF SpawnThread
<1>4. CASE SpawnFails
  BY <1>4 DEF SpawnFails, Unwind
<1>5. CASE Join
  BY <1>5 DEF Join
<1>6. CASE Done
  BY <1>6 DEF Done
<1>7. ASSUME NEW d \in Devices, Connected(d) PROVE TypeOK'
  <2>1. hand' \in [Threads -> Handler]
    BY <1>7, HandType DEF Connected, Executes
  <2>2. pending' \in [Devices -> [Operations -> Nat]]
    BY <1>7, PendingMore DEF Connected, Arm, Operations
  <2>. QED
    BY <1>7, <2>1, <2>2 DEF Connected
<1>8. ASSUME NEW d \in Devices, ConnectFails(d) PROVE TypeOK'
  <2>1. hand' \in [Threads -> Handler]
    BY <1>8, HandType DEF ConnectFails, Executes
  <2>. QED
    BY <1>8, <2>1 DEF ConnectFails
<1>9. ASSUME NEW d \in Devices, SendTimer(d) PROVE TypeOK'
  <2>1. hand' \in [Threads -> Handler]
    BY <1>9, HandType DEF SendTimer, Executes
  <2>2. pending' \in [Devices -> [Operations -> Nat]]
    BY <1>9, PendingTwo, Zenon DEF SendTimer, SendEvent
  <2>3. events_sent_' \in [Devices -> 0..MaxEvents]
    BY <1>9 DEF SendTimer, SendEvent
  <2>. QED
    BY <1>9, <2>1, <2>2, <2>3 DEF SendTimer, SendEvent
<1>10. ASSUME NEW d \in Devices, SkipTimer(d) PROVE TypeOK'
  <2>1. hand' \in [Threads -> Handler]
    BY <1>10, HandType DEF SkipTimer, Executes
  <2>2. pending' \in [Devices -> [Operations -> Nat]]
    BY <1>10, PendingMore DEF SkipTimer, Arm, Operations
  <2>. QED
    BY <1>10, <2>1, <2>2 DEF SkipTimer
<1>11. ASSUME NEW d \in Devices, DelayedSend(d) PROVE TypeOK'
  <2>1. hand' \in [Threads -> Handler]
    BY <1>11, HandType DEF DelayedSend, Executes
  <2>2. pending' \in [Devices -> [Operations -> Nat]]
    BY <1>11, PendingMore DEF DelayedSend, Arm, Operations
  <2>3. events_sent_[d] < MaxEvents
    BY <1>11 DEF DelayedSend, Executes, RoomForDelayed, InHand
  <2>4. events_sent_' \in [Devices -> 0..MaxEvents]
    BY <1>11, <2>3 DEF DelayedSend
  <2>. QED
    BY <1>11, <2>1, <2>2, <2>4 DEF DelayedSend
<1>12. ASSUME NEW d \in Devices, Written(d) PROVE TypeOK'
  <2>1. hand' \in [Threads -> Handler]
    BY <1>12, HandType DEF Written, Executes
  <2>. QED
    BY <1>12, <2>1 DEF Written
<1>13. ASSUME NEW d \in Devices, NEW op \in Operations, Dispatch(d, op) PROVE
   TypeOK'
  <2>1. hand' \in [Threads -> Handler]
    BY <1>13, HandType DEF Dispatch
  <2>2. pending' \in [Devices -> [Operations -> Nat]]
    BY <1>13, PendingLess DEF Dispatch
  <2>. QED
    BY <1>13, <2>1, <2>2 DEF Dispatch
<1>14. ASSUME NEW i \in Threads, RunReturns(i) PROVE TypeOK'
  BY <1>14 DEF RunReturns
<1>15. ASSUME NEW i \in Threads, TakeSweep(i) PROVE TypeOK'
  <2>1. hand' \in [Threads -> Handler]
    <3>1. Take(i, "sweep", i) /\ i \in Nat
      BY <1>15 DEF TakeSweep, Threads
    <3>. QED
      BY <3>1, HandType, Zenon
  <2>. QED
    BY <1>15, <2>1 DEF TakeSweep
<1>16. ASSUME NEW i \in Threads, Sweep(i) PROVE TypeOK'
  <2>1. hand' \in [Threads -> Handler]
    BY <1>16, HandType DEF Sweep
  <2>2. stopped_' \in [Devices -> BOOLEAN]
    BY <1>16 DEF Sweep
  <2>. QED
    BY <1>16, <2>1, <2>2, Zenon DEF Sweep
<1>17. CASE SpikeTimer
  <2>1. hand' \in [Threads -> Handler]
    <3>1. Take(0, "spike", clients) /\ clients \in Nat
      BY <1>17 DEF SpikeTimer
    <3>. QED
      BY <3>1, HandType, Zenon
  <2>. QED
    BY <1>17, <2>1 DEF SpikeTimer
<1>18. CASE SpikeClient
  <2>1. clients \in Devices /\ clients + 1 \in 0..(DeviceCount + SpikeCount)
    BY <1>18 DEF SpikeClient, HandShape
  <2>2. pending' \in [Devices -> [Operations -> Nat]]
    BY <1>18, <2>1, PendingMore DEF SpikeClient, MakeClient, Operations
  <2>3. hand' \in [Threads -> Handler]
    <3>1. Return(0) \/ Take(0, "spike", clients + 1)
      BY <1>18 DEF SpikeClient
    <3>2. clients + 1 \in Nat
      OBVIOUS
    <3>. QED
      BY <3>1, <3>2, HandType, Zenon
  <2>. QED
    BY <1>18, <2>1, <2>2, <2>3 DEF SpikeClient, MakeClient
<1>19. CASE SpikeFails
  BY <1>19 DEF SpikeFails, Unwind
<1>20. CASE StopTimer
  BY <1>20 DEF StopTimer, Ready
<1>21. CASE Exited
  BY <1>21 DEF Exited, vars
<1>22. CASE UNCHANGED vars
  BY <1>22, SMTT(30) DEF vars
<1>. HIDE DEF TypeOK
<1>. QED
  BY <1>1, <1>2, <1>3, <1>4, <1>5, <1>6, <1>7, <1>8, <1>9, <1>10, <1>11,
     <1>12, <1>13, <1>14, <1>15, <1>16, <1>17, <1>18, <1>19, <1>20, <1>21,
     <1>22
     DEF Next, MainStep, DeviceStep, SpikeStep

\* main() builds the fleet, then starts the threads, then joins them.
LEMMA MainStepShape ==
  ASSUME TypeOK, MainShape, HandShape, [Next]_vars
  PROVE  MainShape'
<1>. USE SimulatorAssumption, Indices DEF TypeOK, MainShape, control, device
<1>1. CASE BuildClient
  BY <1>1 DEF BuildClient, MakeClient
<1>2. CASE BuildFails
  BY <1>2 DEF BuildFails
<1>3. ASSUME NEW i \in Threads, SpawnThread(i) PROVE MainShape'
  BY <1>3 DEF SpawnThread
<1>4. CASE SpawnFails
  BY <1>4 DEF SpawnFails, Unwind
<1>5. CASE Join
  BY <1>5 DEF Join
<1>6. CASE Done
  BY <1>6 DEF Done
<1>7. ASSUME NEW d \in Devices, Connected(d) PROVE MainShape'
  BY <1>7 DEF Connected, Executes, Return, Arm
<1>8. ASSUME NEW d \in Devices, ConnectFails(d) PROVE MainShape'
  BY <1>8 DEF ConnectFails, Executes, Return
<1>9. ASSUME NEW d \in Devices, SendTimer(d) PROVE MainShape'
  BY <1>9 DEF SendTimer, Executes, Return, SendEvent
<1>10. ASSUME NEW d \in Devices, SkipTimer(d) PROVE MainShape'
  BY <1>10 DEF SkipTimer, Executes, Return, Arm
<1>11. ASSUME NEW d \in Devices, DelayedSend(d) PROVE MainShape'
  BY <1>11 DEF DelayedSend, Executes, Return, Arm
<1>12. ASSUME NEW d \in Devices, Written(d) PROVE MainShape'
  BY <1>12 DEF Written, Executes, Return
<1>13. ASSUME NEW d \in Devices, NEW op \in Operations, Dispatch(d, op) PROVE
   MainShape'
  BY <1>13 DEF Dispatch, Ready, Take
<1>14. ASSUME NEW i \in Threads, RunReturns(i) PROVE MainShape'
  BY <1>14 DEF RunReturns
<1>15. ASSUME NEW i \in Threads, TakeSweep(i) PROVE MainShape'
  BY <1>15 DEF TakeSweep, Ready, Take
<1>16. ASSUME NEW i \in Threads, Sweep(i) PROVE MainShape'
  BY <1>16 DEF Sweep, Return
<1>17. CASE SpikeTimer
  BY <1>17 DEF SpikeTimer, Ready, Take
<1>18. CASE SpikeClient
  <2>1. /\ hand[0] # Free
        /\ spike_timer = "fired"
    BY <1>18 DEF SpikeClient, HandShape, Free
  <2>2. /\ context[0] = "running"
        /\ clients' = clients + 1
        /\ UNCHANGED control
    BY <1>18, <2>1 DEF SpikeClient, MakeClient
  <2>3. \A i \in Threads : i # 0 => hand'[i] = hand[i]
    BY <1>18 DEF SpikeClient, Take, Return
  <2>. QED
    BY <2>1, <2>2, <2>3
<1>19. CASE SpikeFails
  BY <1>19 DEF SpikeFails, Unwind
<1>20. CASE StopTimer
  BY <1>20 DEF StopTimer, Ready
<1>21. CASE Exited
  BY <1>21 DEF Exited, vars
<1>22. CASE UNCHANGED vars
  BY <1>22, SMTT(30) DEF vars
<1>. HIDE DEF TypeOK, MainShape
<1>. QED
  BY <1>1, <1>2, <1>3, <1>4, <1>5, <1>6, <1>7, <1>8, <1>9, <1>10, <1>11,
     <1>12, <1>13, <1>14, <1>15, <1>16, <1>17, <1>18, <1>19, <1>20, <1>21,
     <1>22
     DEF Next, MainStep, DeviceStep, SpikeStep

\* Handlers are dispatched to the owner of their client, and the stop timer
\* waits for a spike in hand to return.
LEMMA HandStep ==
  ASSUME TypeOK, MainShape, HandShape, PendingShape, [Next]_vars
  PROVE  HandShape'
<1>. USE SimulatorAssumption, Indices DEF TypeOK, MainShape, HandShape,
         Operations, Fleet, Free, control, device
<1>1. CASE BuildClient
  BY <1>1 DEF BuildClient, MakeClient
<1>2. CASE BuildFails
  BY <1>2 DEF BuildFails
<1>3. ASSUME NEW i \in Threads, SpawnThread(i) PROVE HandShape'
  BY <1>3 DEF SpawnThread
<1>4. CASE SpawnFails
  BY <1>4 DEF SpawnFails, Unwind
<1>5. CASE Join
  BY <1>5 DEF Join
<1>6. CASE Done
  BY <1>6 DEF Done
<1>7. ASSUME NEW d \in Devices, Connected(d) PROVE HandShape'
  BY <1>7 DEF Connected, Executes, Return, Arm
<1>8. ASSUME NEW d \in Devices, ConnectFails(d) PROVE HandShape'
  BY <1>8 DEF ConnectFails, Executes, Return
<1>9. ASSUME NEW d \in Devices, SendTimer(d) PROVE HandShape'
  BY <1>9 DEF SendTimer, Executes, Return, SendEvent
<1>10. ASSUME NEW d \in Devices, SkipTimer(d) PROVE HandShape'
  BY <1>10 DEF SkipTimer, Executes, Return, Arm
<1>11. ASSUME NEW d \in Devices, DelayedSend(d) PROVE HandShape'
  BY <1>11 DEF DelayedSend, Executes, Return, Arm
<1>12. ASSUME NEW d \in Devices, Written(d) PROVE HandShape'
  BY <1>12 DEF Written, Executes, Return
<1>13. ASSUME NEW d \in Devices, NEW op \in Operations, Dispatch(d, op) PROVE
   HandShape'
  <2>1. d \in Fleet
    BY <1>13 DEF Dispatch, PendingShape
  <2>2. /\ hand' = [hand EXCEPT ![Owner(d)] = [at |-> op, on |-> d]]
        /\ UNCHANGED <<clients, control>>
    BY <1>13 DEF Dispatch, Take
  <2>. QED
    BY <2>1, <2>2
<1>14. ASSUME NEW i \in Threads, RunReturns(i) PROVE HandShape'
  BY <1>14 DEF RunReturns
<1>15. ASSUME NEW i \in Threads, TakeSweep(i) PROVE HandShape'
  BY <1>15 DEF TakeSweep, Ready, Take
<1>16. ASSUME NEW i \in Threads, Sweep(i) PROVE HandShape'
  BY <1>16 DEF Sweep, Return
<1>17. CASE SpikeTimer
  <2>1. clients = DeviceCount /\ SpikeCount > 0
    BY <1>17 DEF SpikeTimer, Ready
  <2>2. stop_timer = "waiting"
    BY <1>17 DEF SpikeTimer, Ready
  <2>3. /\ hand' = [hand EXCEPT ![0] = [at |-> "spike", on |-> clients]]
        /\ spike_timer' = "fired"
        /\ UNCHANGED <<clients, stop_timer, sweep>>
    BY <1>17 DEF SpikeTimer, Take
  <2>. QED
    BY <2>1, <2>2, <2>3
<1>18. CASE SpikeClient
  BY <1>18 DEF SpikeClient, MakeClient, Take, Return
<1>19. CASE SpikeFails
  BY <1>19 DEF SpikeFails, Unwind
<1>20. CASE StopTimer
  BY <1>20 DEF StopTimer, Ready
<1>21. CASE Exited
  BY <1>21 DEF Exited, vars
<1>22. CASE UNCHANGED vars
  BY <1>22, SMTT(30) DEF vars
<1>. HIDE DEF HandShape, TypeOK
<1>. QED
  BY <1>1, <1>2, <1>3, <1>4, <1>5, <1>6, <1>7, <1>8, <1>9, <1>10, <1>11,
     <1>12, <1>13, <1>14, <1>15, <1>16, <1>17, <1>18, <1>19, <1>20, <1>21,
     <1>22
     DEF Next, MainStep, DeviceStep, SpikeStep

\* An operation is started by its client's own handlers, or by make_client.
LEMMA PendingStep ==
  ASSUME TypeOK, HandShape, PendingShape, [Next]_vars
  PROVE  PendingShape'
<1>. USE SimulatorAssumption, Indices DEF TypeOK, PendingShape, Fleet, control,
         device
<1>a. ASSUME UNCHANGED <<clients, pending>> PROVE PendingShape'
  BY <1>a
<1>b. ASSUME NEW d \in Devices, NEW op \in Operations, Executes(d, op)
      PROVE  d \in Fleet
  BY <1>b, SMTT(30) DEF Executes, HandShape
<1>1. CASE BuildClient
  <2>1. clients \in Devices /\ clients' = clients + 1
    BY <1>1 DEF BuildClient, MakeClient, HandShape
  <2>2. \A e \in Devices, o \in Operations :
          e # clients => pending'[e][o] = pending[e][o]
    BY <1>1, <2>1, PendingMore DEF BuildClient, MakeClient, Operations
  <2>. QED
    BY <2>1, <2>2, SMTT(30)
<1>2. CASE BuildFails
  BY <1>2, <1>a DEF BuildFails
<1>3. ASSUME NEW i \in Threads, SpawnThread(i) PROVE PendingShape'
  BY <1>3, <1>a DEF SpawnThread
<1>4. CASE SpawnFails
  BY <1>4, <1>a DEF SpawnFails
<1>5. CASE Join
  BY <1>5, <1>a DEF Join
<1>6. CASE Done
  BY <1>6, <1>a DEF Done
<1>7. ASSUME NEW d \in Devices, Connected(d) PROVE PendingShape'
  <2>1. d \in Fleet
    BY <1>7, <1>b, SMTT(30) DEF Connected, Operations
  <2>2. \A e \in Devices, o \in Operations :
          e # d => pending'[e][o] = pending[e][o]
    BY <1>7, PendingMore DEF Connected, Arm, Operations
  <2>. QED
    BY <1>7, <2>1, <2>2, Zenon DEF Connected
<1>8. ASSUME NEW d \in Devices, ConnectFails(d) PROVE PendingShape'
  BY <1>8, <1>a DEF ConnectFails
<1>9. ASSUME NEW d \in Devices, SendTimer(d) PROVE PendingShape'
  <2>1. d \in Fleet
    BY <1>9, <1>b DEF SendTimer, Operations
  <2>2. \A e \in Devices, o \in Operations :
          e # d => pending'[e][o] = pending[e][o]
    BY <1>9, PendingTwo DEF SendTimer, SendEvent
  <2>. QED
    BY <1>9, <2>1, <2>2, Zenon DEF SendTimer
<1>10. ASSUME NEW d \in Devices, SkipTimer(d) PROVE PendingShape'
  <2>1. d \in Fleet
    BY <1>10, <1>b DEF SkipTimer, Operations
  <2>2. \A e \in Devices, o \in Operations :
          e # d => pending'[e][o] = pending[e][o]
    BY <1>10, PendingMore DEF SkipTimer, Arm, Operations
  <2>. QED
    BY <1>10, <2>1, <2>2, SMTT(30) DEF SkipTimer
<1>11. ASSUME NEW d \in Devices, DelayedSend(d) PROVE PendingShape'
  <2>1. d \in Fleet
    BY <1>11, <1>b, SMTT(30) DEF DelayedSend, Operations
  <2>2. \A e \in Devices, o \in Operations :
          e # d => pending'[e][o] = pending[e][o]
    BY <1>11, PendingMore DEF DelayedSend, Arm, Operations
  <2>. QED
    BY <1>11, <2>1, <2>2, Zenon DEF DelayedSend
<1>12. ASSUME NEW d \in Devices, Written(d) PROVE PendingShape'
  BY <1>12, <1>a DEF Written
<1>13. ASSUME NEW d \in Devices, NEW op \in Operations, Dispatch(d, op) PROVE
   PendingShape'
  <2>1. \A e \in Devices, o \in Operations : pending'[e][o] <= pending[e][o]
    BY <1>13, PendingLess DEF Dispatch
  <2>2. pending' \in [Devices -> [Operations -> Nat]]
    BY <1>13, PendingLess DEF Dispatch
  <2>. QED
    BY <1>13, <2>1, <2>2 DEF Dispatch
<1>14. ASSUME NEW i \in Threads, RunReturns(i) PROVE PendingShape'
  BY <1>14, <1>a DEF RunReturns
<1>15. ASSUME NEW i \in Threads, TakeSweep(i) PROVE PendingShape'
  BY <1>15, <1>a DEF TakeSweep
<1>16. ASSUME NEW i \in Threads, Sweep(i) PROVE PendingShape'
  BY <1>16, <1>a DEF Sweep
<1>17. CASE SpikeTimer
  BY <1>17, <1>a DEF SpikeTimer
<1>18. CASE SpikeClient
  <2>1. clients \in Devices /\ clients' = clients + 1
    BY <1>18, SMTT(30) DEF SpikeClient, MakeClient, HandShape
  <2>2. \A e \in Devices, o \in Operations :
          e # clients => pending'[e][o] = pending[e][o]
    BY <1>18, <2>1, PendingMore DEF SpikeClient, MakeClient, Operations
  <2>. QED
    BY <2>1, <2>2
<1>19. CASE SpikeFails
  BY <1>19, <1>a DEF SpikeFails
<1>20. CASE StopTimer
  BY <1>20, <1>a DEF StopTimer
<1>21. CASE Exited
  BY <1>21, <1>a DEF Exited, vars
<1>22. CASE UNCHANGED vars
  BY <1>22, <1>a, SMTT(30) DEF vars
<1>. HIDE DEF PendingShape, TypeOK
<1>. QED
  BY <1>1, <1>2, <1>3, <1>4, <1>5, <1>6, <1>7, <1>8, <1>9, <1>10, <1>11,
     <1>12, <1>13, <1>14, <1>15, <1>16, <1>17, <1>18, <1>19, <1>20, <1>21,
     <1>22
     DEF Next, MainStep, DeviceStep, SpikeStep

\* A sweep stops all of its slice before it stops its context, and no client
\* is added after the stop timer.
LEMMA HaltedStep ==
  ASSUME TypeOK, MainShape, HandShape, HaltedShape, [Next]_vars
  PROVE  HaltedShape'
<1>. USE SimulatorAssumption, Indices DEF TypeOK, HaltedShape, control, device
<1>a. ASSUME UNCHANGED <<clients, context, halted, stop_timer, stopped_>>
      PROVE  HaltedShape'
  BY <1>a DEF Slice, Fleet
<1>b. ASSUME \A i \in Threads : ~halted'[i] PROVE HaltedShape'
  BY <1>b
<1>1. CASE BuildClient
  <2>1. \A i \in Threads : ~halted[i]
    BY <1>1 DEF BuildClient, MainShape
  <2>. QED
    BY <1>1, <1>b, <2>1 DEF BuildClient
<1>2. CASE BuildFails
  BY <1>2, <1>a DEF BuildFails
<1>3. ASSUME NEW i \in Threads, SpawnThread(i) PROVE HaltedShape'
  BY <1>3 DEF SpawnThread, Slice, Fleet
<1>4. CASE SpawnFails
  BY <1>4, <1>a DEF SpawnFails
<1>5. CASE Join
  BY <1>5, <1>a DEF Join
<1>6. CASE Done
  BY <1>6, <1>a DEF Done
<1>7. ASSUME NEW d \in Devices, Connected(d) PROVE HaltedShape'
  BY <1>7, <1>a DEF Connected
<1>8. ASSUME NEW d \in Devices, ConnectFails(d) PROVE HaltedShape'
  BY <1>8, <1>a DEF ConnectFails
<1>9. ASSUME NEW d \in Devices, SendTimer(d) PROVE HaltedShape'
  BY <1>9, <1>a, SMTT(30) DEF SendTimer
<1>10. ASSUME NEW d \in Devices, SkipTimer(d) PROVE HaltedShape'
  BY <1>10, <1>a DEF SkipTimer
<1>11. ASSUME NEW d \in Devices, DelayedSend(d) PROVE HaltedShape'
  BY <1>11, <1>a DEF DelayedSend
<1>12. ASSUME NEW d \in Devices, Written(d) PROVE HaltedShape'
  BY <1>12, <1>a DEF Written
<1>13. ASSUME NEW d \in Devices, NEW op \in Operations, Dispatch(d, op) PROVE
   HaltedShape'
  BY <1>13, <1>a DEF Dispatch
<1>14. ASSUME NEW i \in Threads, RunReturns(i) PROVE HaltedShape'
  BY <1>14 DEF RunReturns, Slice, Fleet
<1>15. ASSUME NEW i \in Threads, TakeSweep(i) PROVE HaltedShape'
  BY <1>15, <1>a DEF TakeSweep
<1>16. ASSUME NEW i \in Threads, Sweep(i) PROVE HaltedShape'
  <2>1. context[i] # "idle" /\ stop_timer = "fired"
    BY <1>16 DEF Sweep, MainShape, HandShape, Free
  <2>2. /\ stopped_' = [d \in Devices |-> stopped_[d] \/ d \in Slice(i)]
        /\ halted' = [halted EXCEPT ![i] = TRUE]
        /\ UNCHANGED <<clients, context, stop_timer>>
    BY <1>16 DEF Sweep
  <2>3. \A k \in Threads : Slice(k)' = Slice(k) /\ Slice(k) \subseteq Devices
    BY <2>2 DEF Slice, Fleet
  <2>4. ASSUME NEW k \in Threads, halted'[k], NEW d \in Slice(k)
        PROVE  stopped_'[d]
    <3>1. CASE k = i
      BY <2>2, <2>3, <3>1, Zenon
    <3>2. CASE k # i
      <4>1. halted[k]
        BY <2>2, <2>4, <3>2
      <4>2. stopped_[d]
        BY <4>1
      <4>. QED
        BY <2>2, <2>3, <4>2
    <3>. QED
      BY <3>1, <3>2
  <2>5. ASSUME NEW k \in Threads, halted'[k]
        PROVE  context'[k] # "idle" /\ stop_timer' = "fired"
    BY <2>1, <2>2, <2>5
  <2>6. ASSUME NEW k \in Threads, halted'[k]
        PROVE  \A d \in Slice(k)' : stopped_'[d]
    BY <2>3, <2>4, <2>6
  <2>. QED
    BY <2>5, <2>6
<1>17. CASE SpikeTimer
  BY <1>17, <1>a DEF SpikeTimer
<1>18. CASE SpikeClient
  <2>1. \A i \in Threads : ~halted[i]
    BY <1>18 DEF SpikeClient, HandShape
  <2>. QED
    BY <1>18, <1>b, <2>1 DEF SpikeClient
<1>19. CASE SpikeFails
  BY <1>19, <1>a DEF SpikeFails
<1>20. CASE StopTimer
  BY <1>20 DEF StopTimer, Slice, Fleet
<1>21. CASE Exited
  BY <1>21, <1>a DEF Exited, vars
<1>22. CASE UNCHANGED vars
  BY <1>22, <1>a DEF vars
<1>. HIDE DEF TypeOK, HaltedShape
<1>. QED
  BY <1>1, <1>2, <1>3, <1>4, <1>5, <1>6, <1>7, <1>8, <1>9, <1>10, <1>11,
     <1>12, <1>13, <1>14, <1>15, <1>16, <1>17, <1>18, <1>19, <1>20, <1>21,
     <1>22
     DEF Next, MainStep, DeviceStep, SpikeStep

Sends == {"latency", "write"}

\* write_in_flight_ is set when a send begins and cleared when its write ends,
\* and the send is pending or in hand all the time between.
LEMMA WriteStep ==
  ASSUME TypeOK, HandShape, WriteShape, [Next]_vars
  PROVE  WriteShape'
<1>. USE SimulatorAssumption, Indices DEF TypeOK, control, device
<1>a. ASSUME UNCHANGED <<pending, hand, write_in_flight_>> PROVE WriteShape'
  BY <1>a DEF WriteShape, InHand
<1>b. ASSUME NEW i \in Threads,
             hand[i].at \notin Sends, hand'[i].at \notin Sends,
             \A k \in Threads : k # i => hand'[k] = hand[k],
             \A e \in Devices, o \in Sends : pending'[e][o] = pending[e][o],
             UNCHANGED write_in_flight_
      PROVE  WriteShape'
  <2>1. \A e \in Devices : InHand(e, Sends)' <=> InHand(e, Sends)
    BY <1>b DEF InHand
  <2>. QED
    BY <1>b, <2>1 DEF WriteShape, Sends
<1>c. ASSUME NEW d \in Devices, NEW op \in Operations, Executes(d, op)
      PROVE  /\ hand[Owner(d)].at = op /\ hand[Owner(d)].on = d
             /\ hand'[Owner(d)].at = "run"
             /\ \A k \in Threads : k # Owner(d) => hand'[k] = hand[k]
  BY <1>c DEF Executes, Return, Free
<1>d. \A e \in Devices :
        /\ pending[e]["latency"] \in Nat
        /\ pending[e]["write"] \in Nat
        /\ pending[e]["latency"] + pending[e]["write"]
             + (IF InHand(e, Sends) THEN 1 ELSE 0)
             = IF write_in_flight_[e] THEN 1 ELSE 0
  BY DEF WriteShape, Operations, Sends
<1>e. ASSUME \A e \in Devices :
               pending'[e]["latency"] + pending'[e]["write"]
                 + (IF InHand(e, Sends)' THEN 1 ELSE 0)
                 = IF write_in_flight_'[e] THEN 1 ELSE 0
      PROVE  WriteShape'
  BY <1>e DEF WriteShape, Sends
<1>1. CASE BuildClient
  <2>1. clients \in Devices
    BY <1>1, SMTT(30) DEF BuildClient
  <2>2. \A e \in Devices, o \in Sends : pending'[e][o] = pending[e][o]
    BY <1>1, <2>1, PendingMore DEF BuildClient, MakeClient, Operations, Sends
  <2>. QED
    BY <1>1, <1>d, <1>e, <2>2 DEF BuildClient, InHand, Sends
<1>2. CASE BuildFails
  BY <1>2, <1>a DEF BuildFails
<1>3. ASSUME NEW i \in Threads, SpawnThread(i) PROVE WriteShape'
  BY <1>3, <1>a DEF SpawnThread
<1>4. CASE SpawnFails
  BY <1>4, <1>a DEF SpawnFails
<1>5. CASE Join
  BY <1>5, <1>a DEF Join
<1>6. CASE Done
  BY <1>6, <1>a DEF Done
<1>7. ASSUME NEW d \in Devices, Connected(d) PROVE WriteShape'
  <2>1. \A e \in Devices, o \in Sends : pending'[e][o] = pending[e][o]
    BY <1>7, PendingMore DEF Connected, Arm, Operations, Sends
  <2>2. Executes(d, "connect")
    BY <1>7 DEF Connected
  <2>. QED
    BY <1>7, <1>b, <1>c, <2>1, <2>2, SMTT(30) DEF Connected, Operations, Sends
<1>8. ASSUME NEW d \in Devices, ConnectFails(d) PROVE WriteShape'
  <2>1. Executes(d, "connect")
    BY <1>8 DEF ConnectFails
  <2>. QED
    BY <1>8, <1>b, <1>c, <2>1 DEF ConnectFails, Operations, Sends
<1>9. ASSUME NEW d \in Devices, SendTimer(d) PROVE WriteShape'
  <2>1. Executes(d, "timer")
    BY <1>9 DEF SendTimer
  <2>2. /\ \A e \in Devices : InHand(e, Sends)' <=> InHand(e, Sends)
        /\ ~InHand(d, Sends)
    BY <1>c, <2>1 DEF InHand, Operations, Sends
  <2>3. PICK op \in Sends :
          pending' = [pending EXCEPT ![d][op] = @ + 1, ![d]["timer"] = @ + 1]
    BY <1>9, ZenonT(30) DEF SendTimer, SendEvent, Sends
  <2>4. /\ pending'[d][op] = pending[d][op] + 1
        /\ \A e \in Devices, o \in Sends :
             e # d \/ o # op => pending'[e][o] = pending[e][o]
    BY <2>3, PendingTwo DEF Operations, Sends
  <2>5. /\ write_in_flight_' = [write_in_flight_ EXCEPT ![d] = TRUE]
        /\ ~write_in_flight_[d]
    BY <1>9, SMTT(30) DEF SendTimer, SendEvent
  <2>6. ASSUME NEW e \in Devices
        PROVE  pending'[e]["latency"] + pending'[e]["write"]
                 + (IF InHand(e, Sends)' THEN 1 ELSE 0)
                 = IF write_in_flight_'[e] THEN 1 ELSE 0
    <3>1. CASE e = d
      BY <1>d, <2>2, <2>4, <2>5, <3>1, SMTT(30) DEF Sends
    <3>2. CASE e # d
      BY <1>d, <2>2, <2>4, <2>5, <3>2, SMTT(30) DEF Sends
    <3>. QED
      BY <3>1, <3>2
  <2>. QED
    BY <1>e, <2>6
<1>10. ASSUME NEW d \in Devices, SkipTimer(d) PROVE WriteShape'
  <2>1. \A e \in Devices, o \in Sends : pending'[e][o] = pending[e][o]
    BY <1>10, PendingMore DEF SkipTimer, Arm, Operations, Sends
  <2>2. Executes(d, "timer")
    BY <1>10, SMTT(30) DEF SkipTimer
  <2>. QED
    BY <1>10, <1>b, <1>c, <2>1, <2>2, SMTT(30) DEF SkipTimer, Operations,
       Sends
<1>11. ASSUME NEW d \in Devices, DelayedSend(d) PROVE WriteShape'
  <2>1. Executes(d, "latency")
    BY <1>11, SMTT(30) DEF DelayedSend
  <2>2. /\ InHand(d, Sends) /\ ~InHand(d, Sends)'
        /\ \A e \in Devices : e # d => (InHand(e, Sends)' <=> InHand(e, Sends))
    BY <1>c, <2>1, SMTT(30) DEF InHand, Operations, Sends
  <2>3. /\ pending'[d]["write"] = pending[d]["write"] + 1
        /\ pending'[d]["latency"] = pending[d]["latency"]
        /\ \A e \in Devices, o \in Sends :
             e # d => pending'[e][o] = pending[e][o]
    BY <1>11, PendingMore DEF DelayedSend, Arm, Operations, Sends
  <2>4. UNCHANGED write_in_flight_
    BY <1>11 DEF DelayedSend
  <2>5. ASSUME NEW e \in Devices
        PROVE  pending'[e]["latency"] + pending'[e]["write"]
                 + (IF InHand(e, Sends)' THEN 1 ELSE 0)
                 = IF write_in_flight_'[e] THEN 1 ELSE 0
    <3>1. CASE e = d
      BY <1>d, <2>2, <2>3, <2>4, <3>1 DEF Sends
    <3>2. CASE e # d
      BY <1>d, <2>2, <2>3, <2>4, <3>2 DEF Sends
    <3>. QED
      BY <3>1, <3>2
  <2>. QED
    BY <1>e, <2>5
<1>12. ASSUME NEW d \in Devices, Written(d) PROVE WriteShape'
  <2>1. Executes(d, "write")
    BY <1>12 DEF Written
  <2>2. /\ InHand(d, Sends) /\ ~InHand(d, Sends)'
        /\ \A e \in Devices : e # d => (InHand(e, Sends)' <=> InHand(e, Sends))
    BY <1>c, <2>1, SMTT(30) DEF InHand, Operations, Sends
  <2>3. /\ write_in_flight_' = [write_in_flight_ EXCEPT ![d] = FALSE]
        /\ UNCHANGED pending
    BY <1>12 DEF Written
  <2>. QED
    BY <1>d, <1>e, <2>2, <2>3
<1>13. ASSUME NEW d \in Devices, NEW op \in Operations, Dispatch(d, op) PROVE
   WriteShape'
  <2>1. /\ hand[Owner(d)].at = "run"
        /\ hand'[Owner(d)].at = op /\ hand'[Owner(d)].on = d
        /\ \A k \in Threads : k # Owner(d) => hand'[k] = hand[k]
        /\ UNCHANGED write_in_flight_
    BY <1>13 DEF Dispatch, Ready, Take, Free
  <2>2. /\ pending'[d][op] = pending[d][op] - 1
        /\ \A e \in Devices, o \in Operations :
             e # d \/ o # op => pending'[e][o] = pending[e][o]
    BY <1>13, PendingLess, SMTT(30) DEF Dispatch
  <2>3. CASE op \in Sends
    <3>1. /\ ~InHand(d, Sends) /\ InHand(d, Sends)'
          /\ \A e \in Devices :
               e # d => (InHand(e, Sends)' <=> InHand(e, Sends))
      BY <2>1, <2>3, SMTT(30) DEF InHand, Sends
    <3>2. ASSUME NEW e \in Devices
          PROVE  pending'[e]["latency"] + pending'[e]["write"]
                   + (IF InHand(e, Sends)' THEN 1 ELSE 0)
                   = IF write_in_flight_'[e] THEN 1 ELSE 0
      <4>1. CASE e = d
        BY <1>d, <2>1, <2>2, <2>3, <3>1, <4>1, SMTT(30) DEF Operations, Sends
      <4>2. CASE e # d
        BY <1>d, <2>1, <2>2, <3>1, <4>2, SMTT(30) DEF Operations, Sends
      <4>. QED
        BY <4>1, <4>2, SMTT(30)
    <3>. QED
      BY <1>e, <3>2, SMTT(30)
  <2>4. CASE op \notin Sends
    BY <1>b, <2>1, <2>2, <2>4, ZenonT(30) DEF Operations, Sends
  <2>. QED
    BY <2>3, <2>4
<1>14. ASSUME NEW i \in Threads, RunReturns(i) PROVE WriteShape'
  BY <1>14, <1>a DEF RunReturns
<1>15. ASSUME NEW i \in Threads, TakeSweep(i) PROVE WriteShape'
  <2>1. hand[i].at \notin Sends /\ hand'[i].at \notin Sends
    BY <1>15 DEF TakeSweep, Ready, Take, Free, Sends
  <2>. QED
    BY <1>15, <1>b, <2>1 DEF TakeSweep, Take
<1>16. ASSUME NEW i \in Threads, Sweep(i) PROVE WriteShape'
  <2>1. hand[i].at \notin Sends /\ hand'[i].at \notin Sends
    BY <1>16 DEF Sweep, Return, Free, Sends
  <2>. QED
    BY <1>16, <1>b, <2>1 DEF Sweep, Return
<1>17. CASE SpikeTimer
  <2>1. hand[0].at \notin Sends /\ hand'[0].at \notin Sends
    BY <1>17 DEF SpikeTimer, Ready, Take, Free, Sends
  <2>. QED
    BY <1>17, <1>b, <2>1 DEF SpikeTimer, Take
<1>18. CASE SpikeClient
  <2>1. clients \in Devices
    BY <1>18, SMTT(30) DEF SpikeClient, HandShape
  <2>2. \A e \in Devices, o \in Sends : pending'[e][o] = pending[e][o]
    BY <1>18, <2>1, PendingMore, SMTT(30) DEF SpikeClient, MakeClient,
       Operations, Sends
  <2>3. hand[0].at \notin Sends /\ hand'[0].at \notin Sends
    BY <1>18 DEF SpikeClient, Take, Return, Free, Sends
  <2>. QED
    BY <1>18, <1>b, <2>2, <2>3 DEF SpikeClient, Take, Return
<1>19. CASE SpikeFails
  BY <1>19, <1>a DEF SpikeFails
<1>20. CASE StopTimer
  BY <1>20, <1>a DEF StopTimer
<1>21. CASE Exited
  BY <1>21, <1>a DEF Exited, vars
<1>22. CASE UNCHANGED vars
  BY <1>22, <1>a DEF vars
<1>. HIDE DEF TypeOK
<1>. QED
  BY <1>1, <1>2, <1>3, <1>4, <1>5, <1>6, <1>7, <1>8, <1>9, <1>10, <1>11,
     <1>12, <1>13, <1>14, <1>15, <1>16, <1>17, <1>18, <1>19, <1>20, <1>21,
     <1>22
     DEF Next, MainStep, DeviceStep, SpikeStep

\* A device with no write in flight has no send pending, and one whose send is
\* in hand has no other.
LEMMA OneSend ==
  ASSUME pending \in [Devices -> [Operations -> Nat]], WriteShape,
         NEW d \in Devices, ~write_in_flight_[d] \/ InHand(d, Sends)
  PROVE  pending[d]["latency"] = 0
<1>. DEFINE lat == pending[d]["latency"]
            wri == pending[d]["write"]
<1>1. lat \in Nat /\ wri \in Nat
  BY DEF Operations
<1>2. lat + wri + (IF InHand(d, Sends) THEN 1 ELSE 0)
        = IF write_in_flight_[d] THEN 1 ELSE 0
  BY DEF WriteShape, Sends
<1>. HIDE DEF lat, wri
<1>3. CASE ~write_in_flight_[d]
  BY <1>1, <1>2, <1>3 DEF lat
<1>4. CASE InHand(d, Sends)
  <2>1. lat + wri + 1 <= 1
    BY <1>2, <1>4, SMTT(30)
  <2>. QED
    BY <1>1, <2>1 DEF lat
<1>. QED
  BY <1>3, <1>4 DEF lat

\* With chaos_latency_ an event is counted when its delayed write begins; as
\* sends do not overlap, it is the only one the device can add until then.
LEMMA RoomStep ==
  ASSUME TypeOK, HandShape, WriteShape, RoomForDelayed, [Next]_vars
  PROVE  RoomForDelayed'
<1>. DEFINE Delayed(e) == InHand(e, {"latency"})
<1>. USE SimulatorAssumption, Indices DEF TypeOK, control, device
<1>a. ASSUME \A e \in Devices :
               /\ pending'[e]["latency"] = pending[e]["latency"]
               /\ Delayed(e)' => Delayed(e),
             UNCHANGED events_sent_
      PROVE  RoomForDelayed'
  BY <1>a DEF RoomForDelayed
<1>b. ASSUME UNCHANGED <<hand, pending, events_sent_>> PROVE RoomForDelayed'
  BY <1>b DEF RoomForDelayed, InHand
<1>c. ASSUME NEW d \in Devices, NEW op \in Operations, Executes(d, op)
      PROVE  /\ hand[Owner(d)] = [at |-> op, on |-> d]
             /\ ~Delayed(d)'
             /\ \A e \in Devices : Delayed(e)' => Delayed(e)
  BY <1>c DEF Executes, Return, Free, InHand
<1>d. ASSUME NEW d \in Devices, ~write_in_flight_[d] \/ Delayed(d)
      PROVE  pending[d]["latency"] = 0
  BY <1>d, OneSend, SMTT(30) DEF InHand, Sends
<1>. HIDE DEF Delayed
<1>1. CASE BuildClient
  <2>1. clients \in Devices
    BY <1>1, SMTT(30) DEF BuildClient, HandShape
  <2>2. \A e \in Devices : pending'[e]["latency"] = pending[e]["latency"]
    BY <1>1, <2>1, PendingMore DEF BuildClient, MakeClient, Operations
  <2>3. \A e \in Devices : Delayed(e)' => Delayed(e)
    BY <1>1 DEF BuildClient, Take, Return, Free, Delayed, InHand
  <2>. QED
    BY <1>1, <1>a, <2>2, <2>3 DEF BuildClient
<1>2. CASE BuildFails
  BY <1>2, <1>b DEF BuildFails
<1>3. ASSUME NEW i \in Threads, SpawnThread(i) PROVE RoomForDelayed'
  BY <1>3, <1>b DEF SpawnThread
<1>4. CASE SpawnFails
  BY <1>4, <1>b DEF SpawnFails
<1>5. CASE Join
  BY <1>5, <1>b DEF Join
<1>6. CASE Done
  BY <1>6, <1>b, SMTT(30) DEF Done
<1>7. ASSUME NEW d \in Devices, Connected(d) PROVE RoomForDelayed'
  <2>1. \A e \in Devices : pending'[e]["latency"] = pending[e]["latency"]
    BY <1>7, PendingMore DEF Connected, Arm, Operations
  <2>2. Executes(d, "connect")
    BY <1>7 DEF Connected
  <2>. QED
    BY <1>7, <1>a, <1>c, <2>1, <2>2, Zenon DEF Connected, Operations
<1>8. ASSUME NEW d \in Devices, ConnectFails(d) PROVE RoomForDelayed'
  <2>1. Executes(d, "connect")
    BY <1>8 DEF ConnectFails
  <2>. QED
    BY <1>8, <1>a, <1>c, <2>1, Zenon DEF ConnectFails, Operations
<1>9. ASSUME NEW d \in Devices, SendTimer(d) PROVE RoomForDelayed'
  <2>1. Executes(d, "timer") /\ ~write_in_flight_[d]
    BY <1>9 DEF SendTimer
  <2>2. ~Delayed(d)' /\ \A e \in Devices : Delayed(e)' => Delayed(e)
    BY <1>c, <2>1, Zenon DEF Operations
  <2>3. pending[d]["latency"] = 0
    BY <1>d, <2>1, SMTT(30)
  <2>4. CASE chaos.latency
    <3>1. \A e \in Devices :
            e # d => pending'[e]["latency"] = pending[e]["latency"]
      BY <1>9, <2>4, PendingTwo, SMTT(30) DEF SendTimer, SendEvent, Operations
    <3>2. UNCHANGED events_sent_ /\ events_sent_[d] < MaxEvents
      BY <1>9, <2>4, SMTT(30) DEF SendTimer, SendEvent
    <3>. QED
      BY <2>2, <3>1, <3>2, ZenonT(30) DEF RoomForDelayed, Delayed
  <2>5. CASE ~chaos.latency
    <3>1. \A e \in Devices : pending'[e]["latency"] = pending[e]["latency"]
      BY <1>9, <2>5, PendingTwo, SMTT(30) DEF SendTimer, SendEvent, Operations
    <3>2. \A e \in Devices : e # d => events_sent_'[e] = events_sent_[e]
      BY <1>9, <2>5 DEF SendTimer, SendEvent
    <3>. QED
      BY <2>2, <2>3, <3>1, <3>2, SMTT(30) DEF RoomForDelayed, Delayed
  <2>. QED
    BY <2>4, <2>5
<1>10. ASSUME NEW d \in Devices, SkipTimer(d) PROVE RoomForDelayed'
  <2>1. \A e \in Devices : pending'[e]["latency"] = pending[e]["latency"]
    BY <1>10, PendingMore DEF SkipTimer, Arm, Operations
  <2>2. Executes(d, "timer")
    BY <1>10 DEF SkipTimer
  <2>. QED
    BY <1>10, <1>a, <1>c, <2>1, <2>2, ZenonT(30) DEF SkipTimer, Operations
<1>11. ASSUME NEW d \in Devices, DelayedSend(d) PROVE RoomForDelayed'
  <2>1. Executes(d, "latency")
    BY <1>11 DEF DelayedSend
  <2>2. /\ Delayed(d) /\ ~Delayed(d)'
        /\ \A e \in Devices : Delayed(e)' => Delayed(e)
    <3>1. hand[Owner(d)] = [at |-> "latency", on |-> d]
      BY <1>c, <2>1, ZenonT(30) DEF Operations
    <3>2. Delayed(d)
      BY <3>1 DEF Delayed, InHand
    <3>. QED
      BY <1>c, <2>1, <3>2, Zenon DEF Operations
  <2>3. pending[d]["latency"] = 0
    BY <1>d, <2>2, SMTT(30)
  <2>4. \A e \in Devices : pending'[e]["latency"] = pending[e]["latency"]
    BY <1>11, PendingMore DEF DelayedSend, Arm, Operations
  <2>5. \A e \in Devices : e # d => events_sent_'[e] = events_sent_[e]
    BY <1>11 DEF DelayedSend
  <2>. QED
    BY <2>2, <2>3, <2>4, <2>5 DEF RoomForDelayed, Delayed
<1>12. ASSUME NEW d \in Devices, Written(d) PROVE RoomForDelayed'
  <2>1. Executes(d, "write")
    BY <1>12 DEF Written
  <2>. QED
    BY <1>12, <1>a, <1>c, <2>1, Zenon DEF Written, Operations
<1>13. ASSUME NEW d \in Devices, NEW op \in Operations, Dispatch(d, op) PROVE
   RoomForDelayed'
  <2>1. \A e \in Devices :
          /\ pending'[e]["latency"] <= pending[e]["latency"]
          /\ pending'[e]["latency"] \in Nat /\ pending[e]["latency"] \in Nat
    <3>1. /\ pending \in [Devices -> [Operations -> Nat]]
          /\ pending[d][op] > 0
          /\ pending' = [pending EXCEPT ![d][op] = @ - 1]
      BY <1>13, SMTT(30) DEF Dispatch
    <3>2. /\ pending' \in [Devices -> [Operations -> Nat]]
          /\ pending'[d][op] = pending[d][op] - 1
          /\ \A e \in Devices, o \in Operations :
               e # d \/ o # op => pending'[e][o] = pending[e][o]
      BY <3>1, PendingLess
    <3>3. "latency" \in Operations
      BY DEF Operations
    <3>. QED
      BY <3>1, <3>2, <3>3
  <2>2. ASSUME NEW e \in Devices, Delayed(e)'
        PROVE  Delayed(e) \/ pending[e]["latency"] > 0
    BY <1>13, <2>2 DEF Dispatch, Take, Delayed, InHand
  <2>3. UNCHANGED events_sent_
    BY <1>13 DEF Dispatch
  <2>. QED
    BY <2>1, <2>2, <2>3 DEF RoomForDelayed, Delayed
<1>14. ASSUME NEW i \in Threads, RunReturns(i) PROVE RoomForDelayed'
  BY <1>14, <1>b DEF RunReturns
<1>15. ASSUME NEW i \in Threads, TakeSweep(i) PROVE RoomForDelayed'
  <2>1. \A e \in Devices : Delayed(e)' => Delayed(e)
    BY <1>15 DEF TakeSweep, Take, Free, Delayed, InHand
  <2>. QED
    BY <1>15, <1>a, <2>1 DEF TakeSweep
<1>16. ASSUME NEW i \in Threads, Sweep(i) PROVE RoomForDelayed'
  <2>1. \A e \in Devices : Delayed(e)' => Delayed(e)
    BY <1>16 DEF Sweep, Return, Free, Delayed, InHand
  <2>. QED
    BY <1>16, <1>a, <2>1 DEF Sweep
<1>17. CASE SpikeTimer
  <2>1. \A e \in Devices : Delayed(e)' => Delayed(e)
    BY <1>17 DEF SpikeTimer, Take, Free, Delayed, InHand
  <2>. QED
    BY <1>17, <1>a, <2>1, SMTT(30) DEF SpikeTimer
<1>18. CASE SpikeClient
  <2>1. clients \in Devices
    BY <1>18, SMTT(30) DEF SpikeClient, HandShape
  <2>2. \A e \in Devices : pending'[e]["latency"] = pending[e]["latency"]
    BY <1>18, <2>1, PendingMore DEF SpikeClient, MakeClient, Operations
  <2>3. \A e \in Devices : Delayed(e)' => Delayed(e)
    <3>1. /\ hand'[0].at # "latency"
          /\ \A k \in Threads : k # 0 => hand'[k] = hand[k]
      BY <1>18 DEF SpikeClient, Take, Return, Free
    <3>. QED
      BY <3>1, Zenon DEF Delayed, InHand
  <2>. QED
    BY <1>18, <1>a, <2>2, <2>3 DEF SpikeClient
<1>19. CASE SpikeFails
  BY <1>19, <1>b DEF SpikeFails
<1>20. CASE StopTimer
  BY <1>20, <1>b DEF StopTimer
<1>21. CASE Exited
  BY <1>21, <1>b DEF Exited, vars
<1>22. CASE UNCHANGED vars
  BY <1>22, <1>b DEF vars
<1>. HIDE DEF TypeOK
<1>. QED
  BY <1>1, <1>2, <1>3, <1>4, <1>5, <1>6, <1>7, <1>8, <1>9, <1>10, <1>11,
     <1>12, <1>13, <1>14, <1>15, <1>16, <1>17, <1>18, <1>19, <1>20, <1>21,
     <1>22
     DEF Next, MainStep, DeviceStep, SpikeStep

\* main() starts with the invariant true.
LEMMA InitInv == Init => Inv
<1>. SUFFICES ASSUME Init PROVE Inv
  OBVIOUS
<1>. USE SimulatorAssumption, Indices DEF Init
<1>1. TypeOK
  <2>1. hand \in [Threads -> Handler]
    BY DEF Free, Handler
  <2>2. pending \in [Devices -> [Operations -> Nat]]
    OBVIOUS
  <2>3. /\ write_in_flight_ \in [Devices -> BOOLEAN]
        /\ stopped_ \in [Devices -> BOOLEAN]
        /\ events_sent_ \in [Devices -> 0..MaxEvents]
    OBVIOUS
  <2>. QED
    BY <2>1, <2>2, <2>3 DEF TypeOK
<1>2. MainShape /\ HandShape
  BY DEF MainShape, HandShape, Free, Operations
<1>3. PendingShape /\ HaltedShape
  BY DEF PendingShape, HaltedShape
<1>4. \A d \in Devices : hand[Owner(d)].at = "run"
  BY DEF Free
<1>5. WriteShape /\ RoomForDelayed
  BY <1>4 DEF WriteShape, RoomForDelayed, InHand, Operations
<1>. QED
  BY <1>1, <1>2, <1>3, <1>5 DEF Inv

\* No step of main() or of a context breaks it.
LEMMA InvStep == Inv /\ [Next]_vars => Inv'
BY TypeStep, MainStepShape, HandStep, PendingStep, WriteStep, RoomStep,
   HaltedStep DEF Inv

\* So it holds throughout every run of the simulator.
LEMMA Invariance == Spec => []Inv
BY InitInv, InvStep, PTL DEF Spec

-----------------------------------------------------------------------------
(* What it gives.                                                          *)

\* Every variable of the simulator keeps its type; no device sends more than
\* the events there is room for, delayed ones included.
THEOREM TypeCorrect == Spec => []TypeOK
<1>1. Inv => TypeOK
  BY DEF Inv
<1>. QED
  BY <1>1, Invariance, PTL

\* What a thread touches is its own clients, the client the spike is about to
\* append, or, after the join, everything.
LEMMA TouchedLemma ==
  ASSUME Inv, NEW i \in Threads, NEW d \in Touched(i)
  PROVE  \/ d \in Fleet /\ Owner(d) = i /\ hand[i] # Free
         \/ d = clients /\ i = 0 /\ hand[i].at = "spike" /\ hand[i] # Free
         \/ i = 0 /\ main = "sum"
<1>1. CASE hand[i].at \in Operations
  <2>1. Touched(i) = {hand[i].on}
    BY <1>1, SMTT(30) DEF Touched, Operations, Inv, MainShape, Free
  <2>. QED
    BY <1>1, <2>1 DEF Inv, HandShape, Operations, Free
<1>2. CASE hand[i].at = "spike"
  <2>1. Touched(i) = {hand[i].on}
    BY <1>2, SMTT(30) DEF Touched, Operations, Inv, MainShape, Free
  <2>. QED
    BY <1>2, <2>1 DEF Inv, HandShape, Free
<1>3. CASE hand[i].at = "sweep"
  <2>1. Touched(i) = Slice(i)
    BY <1>3 DEF Touched, Operations, Inv, MainShape, Free
  <2>. QED
    BY <1>3, <2>1 DEF Slice, Free
<1>4. CASE hand[i].at = "run"
  BY <1>4 DEF Touched, Operations
<1>. QED
  BY <1>1, <1>2, <1>3, <1>4, SMTT(30) DEF Inv, TypeOK, Handler

\* No DeviceClient is ever in the hands of two threads, and no sweep walks the
\* vector of clients while the spike appends to it.
THEOREM DataRaceFree == Spec => []NoDataRace
<1>1. Inv => NoDataRace
  <2>. SUFFICES ASSUME Inv, NEW i \in Threads, NEW k \in Threads, i # k
                PROVE  /\ Touched(i) \cap Touched(k) = {}
                       /\ ~(hand[i].at = "spike" /\ hand[k].at = "sweep")
    BY DEF NoDataRace
  <2>1. ~(hand[i].at = "spike" /\ hand[k].at = "sweep")
    BY DEF Inv, HandShape
  <2>2. ASSUME NEW d, d \in Touched(i), d \in Touched(k) PROVE FALSE
    <3>1. main = "sum" => hand[i] = Free /\ hand[k] = Free
      BY DEF Inv, MainShape
    <3>2. ~(d \in Fleet /\ d = clients)
      BY SimulatorAssumption DEF Fleet, Devices
    <3>. QED
      BY <2>2, <3>1, <3>2, TouchedLemma
  <2>. QED
    BY <2>1, <2>2
<1>. QED
  BY <1>1, Invariance, PTL

\* write_in_flight_ and the writes agree: no two writes of a device overlap and
\* the flag is never stale.
THEOREM WritesDoNotOverlap == Spec => []OneWriteInFlight
<1>1. Inv => OneWriteInFlight
  <2>. SUFFICES ASSUME Inv, NEW d \in Devices
                PROVE  SendsUnderWay(d) = IF write_in_flight_[d] THEN 1 ELSE 0
    BY DEF OneWriteInFlight
  <2>. DEFINE Hands == {i \in Threads : /\ hand[i].at \in {"latency", "write"}
                                        /\ hand[i].on = d}
  <2>1. \A i \in Hands : i = Owner(d)
    BY DEF Inv, HandShape, Operations
  <2>2. Hands = IF InHand(d, Sends) THEN {Owner(d)} ELSE {}
    BY <2>1, Indices DEF InHand, Sends
  <2>. HIDE DEF Hands
  <2>3. Cardinality(Hands) = IF InHand(d, Sends) THEN 1 ELSE 0
    <3>1. CASE InHand(d, Sends)
      BY <2>2, <3>1, FS_Singleton, Zenon
    <3>2. CASE ~InHand(d, Sends)
      BY <2>2, <3>2, FS_EmptySet
    <3>. QED
      BY <3>1, <3>2
  <2>4. SendsUnderWay(d) = pending[d]["latency"] + pending[d]["write"]
                             + Cardinality(Hands)
    BY DEF SendsUnderWay, Hands
  <2>. QED
    BY <2>3, <2>4 DEF Inv, WriteShape, Sends
<1>. QED
  BY <1>1, Invariance, PTL

\* The stop sweeps leave no device of a halted context unstopped, those the
\* spike added included.
THEOREM EveryDeviceStopped == Spec => []FleetStopped
<1>1. Inv => FleetStopped
  BY Indices DEF Inv, HaltedShape, FleetStopped, Slice, Fleet
<1>. QED
  BY <1>1, Invariance, PTL
=============================================================================
