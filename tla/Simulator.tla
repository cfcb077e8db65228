----------------------------- MODULE Simulator ------------------------------
(***************************************************************************)
(* The device simulator: simulator/src/main.cpp shards a fleet of          *)
(* DeviceClients (simulator/src/device_client.cpp) over one io_context per *)
(* thread; timers on context 0 add devices and end the run.                *)
(*                                                                         *)
(* A context runs one handler at a time on its thread.  A handler is two   *)
(* steps, taken from the queue and finished, so that what two threads have *)
(* in hand at the same moment is visible.  Contexts are thread numbers and *)
(* clients are their indices in `clients'.  Boost.Asio is external: an     *)
(* operation completes at any time, successfully or not.                   *)
(***************************************************************************)
EXTENDS Naturals, FiniteSets

CONSTANTS ThreadCount,  \* config.thread_count
          DeviceCount,  \* config.device_count
          SpikeCount,   \* config.chaos_device_spike_count
          MaxEvents     \* bound on the events one device sends

ASSUME SimulatorAssumption ==
  /\ ThreadCount \in Nat \ {0}
  /\ DeviceCount \in Nat \ {0}
  /\ SpikeCount \in Nat
  /\ MaxEvents \in Nat

Threads == 0..(ThreadCount - 1)
Devices == 0..(DeviceCount + SpikeCount - 1)
Operations == {"connect", "timer", "latency", "write"}

\* make_client: contexts[index % config.thread_count].
Owner(d) == d % ThreadCount

VARIABLES main,         \* where main() stands
          clients,      \* clients.size()
          context,      \* per context: "idle", "running" or "finished"
          halted,       \* per context: stop() was called on it
          hand,         \* per thread: the handler it is executing
          spike_timer,  \* "none", "waiting" or "fired"
          stop_timer,
          sweep,        \* the contexts a stop sweep is posted to
          chaos,        \* config.chaos_latency and the packet loss are on
          pending,      \* per client and operation: how many are under way
          write_in_flight_, stopped_, events_sent_

control == <<main, context, halted, spike_timer, stop_timer, sweep, chaos>>
device == <<write_in_flight_, stopped_, events_sent_>>
vars == <<control, clients, hand, pending, device>>

Free == [at |-> "run", on |-> 0]

Init ==
  /\ main = "build"
  /\ clients = 0
  /\ context = [i \in Threads |-> "idle"]
  /\ halted = [i \in Threads |-> FALSE]
  /\ hand = [i \in Threads |-> Free]
  /\ spike_timer = IF SpikeCount > 0 THEN "waiting" ELSE "none"
  /\ stop_timer = "waiting"
  /\ sweep = {}
  /\ chaos \in [latency : BOOLEAN, loss : BOOLEAN]
  /\ pending = [d \in Devices |-> [op \in Operations |-> 0]]
  /\ write_in_flight_ = [d \in Devices |-> FALSE]
  /\ stopped_ = [d \in Devices |-> FALSE]
  /\ events_sent_ = [d \in Devices |-> 0]

-----------------------------------------------------------------------------
(* main(), before and after contexts[0]->run().                            *)

\* make_client: push_back, then start(), which resolves and connects.
MakeClient ==
  /\ clients' = clients + 1
  /\ pending' = [pending EXCEPT ![clients]["connect"] = @ + 1]

BuildClient ==
  /\ main = "build"
  /\ clients < DeviceCount
  /\ MakeClient
  /\ UNCHANGED <<control, hand, device>>

\* The synchronous resolve() throws.
BuildFails ==
  /\ main = "build"
  /\ clients < DeviceCount
  /\ main' = "failed"
  /\ UNCHANGED <<clients, context, halted, spike_timer, stop_timer, sweep,
                 chaos, hand, pending, device>>

\* The next thread enters its run(); the main thread takes context 0 last.
SpawnThread(i) ==
  /\ main = "build"
  /\ clients = DeviceCount
  /\ context[i] = "idle"
  /\ i = 0 => \A k \in Threads \ {0} : context[k] # "idle"
  /\ context' = [context EXCEPT ![i] = "running"]
  /\ main' = IF i = 0 THEN "run" ELSE main
  /\ UNCHANGED <<clients, halted, spike_timer, stop_timer, sweep, chaos, hand,
                 pending, device>>

\* The exception unwinds a vector of std::threads: if one of them has been
\* started it is still joinable, and its destructor ends the process.
Unwind ==
  main' = IF \E i \in Threads \ {0} : context[i] # "idle" THEN "terminated"
                                                          ELSE "failed"

\* std::thread's constructor throws.
SpawnFails ==
  /\ main = "build"
  /\ clients = DeviceCount
  /\ \E i \in Threads \ {0} : context[i] = "idle"
  /\ Unwind
  /\ UNCHANGED <<clients, context, halted, spike_timer, stop_timer, sweep,
                 chaos, hand, pending, device>>

Join ==
  /\ main = "run"
  /\ \A i \in Threads : context[i] = "finished"
  /\ main' = "sum"
  /\ UNCHANGED <<clients, context, halted, spike_timer, stop_timer, sweep,
                 chaos, hand, pending, device>>

\* The sum of events_sent() is printed.
Done ==
  /\ main = "sum"
  /\ main' = "done"
  /\ UNCHANGED <<clients, context, halted, spike_timer, stop_timer, sweep,
                 chaos, hand, pending, device>>

Ended == main \in {"done", "failed", "terminated"}

Exited == Ended /\ UNCHANGED vars

-----------------------------------------------------------------------------
(* io_context::run() on each thread.                                       *)

Ready(i) ==
  /\ ~Ended
  /\ context[i] = "running"
  /\ hand[i] = Free
  /\ ~halted[i]

Take(i, at, on) == hand' = [hand EXCEPT ![i] = [at |-> at, on |-> on]]

Return(i) == hand' = [hand EXCEPT ![i] = Free]

\* The completion of an operation of client d is next.
Dispatch(d, op) ==
  /\ Ready(Owner(d))
  /\ pending[d][op] > 0
  /\ pending' = [pending EXCEPT ![d][op] = @ - 1]
  /\ Take(Owner(d), op, d)
  /\ UNCHANGED <<control, clients, device>>

\* run() returns when the context was stopped or is out of work; work that
\* arrives later does not bring it back.
OutOfWork(i) ==
  /\ \A d \in Devices, op \in Operations :
       Owner(d) = i => pending[d][op] = 0
  /\ i \notin sweep
  /\ i = 0 => stop_timer = "fired"

RunReturns(i) ==
  /\ ~Ended
  /\ context[i] = "running"
  /\ hand[i] = Free
  /\ halted[i] \/ OutOfWork(i)
  /\ context' = [context EXCEPT ![i] = "finished"]
  /\ UNCHANGED <<main, clients, halted, spike_timer, stop_timer, sweep, chaos,
                 hand, pending, device>>

-----------------------------------------------------------------------------
(* DeviceClient's completion handlers.                                     *)

Executes(d, op) ==
  /\ ~Ended
  /\ hand[Owner(d)] = [at |-> op, on |-> d]
  /\ Return(Owner(d))

Arm(d, op) == pending' = [pending EXCEPT ![d][op] = @ + 1]

\* connect(): schedule_next_send().
Connected(d) ==
  /\ Executes(d, "connect")
  /\ ~stopped_[d]
  /\ Arm(d, "timer")
  /\ UNCHANGED <<control, clients, device>>

\* The device stays silent for the rest of the run.
ConnectFails(d) ==
  /\ Executes(d, "connect")
  /\ UNCHANGED <<control, clients, pending, device>>

\* do_send() counts the event and writes it; with chaos_latency_ the write is
\* put off.  Either way timer_ is armed again.
SendEvent(d) ==
  /\ write_in_flight_' = [write_in_flight_ EXCEPT ![d] = TRUE]
  /\ IF chaos.latency
     THEN /\ pending' = [pending EXCEPT ![d]["latency"] = @ + 1,
                                        ![d]["timer"] = @ + 1]
          /\ UNCHANGED events_sent_
     ELSE /\ pending' = [pending EXCEPT ![d]["write"] = @ + 1,
                                        ![d]["timer"] = @ + 1]
          /\ events_sent_' = [events_sent_ EXCEPT ![d] = @ + 1]

\* Mutant: the flag is not looked at.
SendTimer_NoGuard(d) ==
  /\ Executes(d, "timer")
  /\ ~stopped_[d]
  /\ events_sent_[d] < MaxEvents
  /\ SendEvent(d)
  /\ UNCHANGED <<control, clients, stopped_>>

SendTimer(d) ==
  /\ Executes(d, "timer")
  /\ ~stopped_[d]
  /\ ~write_in_flight_[d]
  /\ events_sent_[d] < MaxEvents
  /\ SendEvent(d)
  /\ UNCHANGED <<control, clients, stopped_>>

\* The previous write is not through, or should_drop_for_chaos() says so.
SkipTimer(d) ==
  /\ Executes(d, "timer")
  /\ ~stopped_[d]
  /\ write_in_flight_[d] \/ chaos.loss \/ events_sent_[d] = MaxEvents
  /\ Arm(d, "timer")
  /\ UNCHANGED <<control, clients, device>>

\* The other branch, after stop(), is never taken: see Sweep.
DelayedSend(d) ==
  /\ Executes(d, "latency")
  /\ ~stopped_[d]
  /\ Arm(d, "write")
  /\ events_sent_' = [events_sent_ EXCEPT ![d] = @ + 1]
  /\ UNCHANGED <<control, clients, write_in_flight_, stopped_>>

\* The write's error code is not looked at.
Written(d) ==
  /\ Executes(d, "write")
  /\ write_in_flight_' = [write_in_flight_ EXCEPT ![d] = FALSE]
  /\ UNCHANGED <<control, clients, pending, stopped_, events_sent_>>

-----------------------------------------------------------------------------
(* The two timers of context 0 and the stop sweeps.                        *)

SpikeTimer ==
  /\ Ready(0)
  /\ spike_timer = "waiting"
  /\ spike_timer' = "fired"
  /\ Take(0, "spike", clients)
  /\ UNCHANGED <<main, context, halted, stop_timer, sweep, chaos, clients,
                 pending, device>>

\* Mutant: the loop goes one client too far.
SpikeClient_OffByOne ==
  /\ ~Ended
  /\ hand[0].at = "spike"
  /\ MakeClient
  /\ IF clients > DeviceCount + SpikeCount - 1
     THEN Return(0) ELSE Take(0, "spike", clients + 1)
  /\ UNCHANGED <<control, device>>

\* One turn of the handler's loop.  The client may belong to another context.
SpikeClient ==
  /\ ~Ended
  /\ hand[0].at = "spike"
  /\ MakeClient
  /\ IF clients + 1 = DeviceCount + SpikeCount
     THEN Return(0) ELSE Take(0, "spike", clients + 1)
  /\ UNCHANGED <<control, device>>

\* resolve() throws in the handler, through contexts[0]->run().
SpikeFails ==
  /\ ~Ended
  /\ hand[0].at = "spike"
  /\ Unwind
  /\ UNCHANGED <<clients, context, halted, spike_timer, stop_timer, sweep,
                 chaos, hand, pending, device>>

\* Mutant: parse_args accepts a spike at or after the end of the run.
StopTimer_LateSpike ==
  /\ Ready(0)
  /\ stop_timer = "waiting"
  /\ stop_timer' = "fired"
  /\ sweep' = Threads
  /\ UNCHANGED <<main, context, halted, spike_timer, chaos, clients, hand,
                 pending, device>>

\* Mutant: the loop that posts the sweeps begins at 1, like the threads' one.
StopTimer_SkipsFirst ==
  /\ Ready(0)
  /\ stop_timer = "waiting"
  /\ spike_timer # "waiting"
  /\ stop_timer' = "fired"
  /\ sweep' = Threads \ {0}
  /\ UNCHANGED <<main, context, halted, spike_timer, chaos, clients, hand,
                 pending, device>>

\* parse_args refuses a spike that is not before the end of the run, and the
\* timers of a context fire in the order of their expiry.
StopTimer ==
  /\ Ready(0)
  /\ stop_timer = "waiting"
  /\ spike_timer # "waiting"
  /\ stop_timer' = "fired"
  /\ sweep' = Threads
  /\ UNCHANGED <<main, context, halted, spike_timer, chaos, clients, hand,
                 pending, device>>

TakeSweep(i) ==
  /\ Ready(i)
  /\ i \in sweep
  /\ sweep' = sweep \ {i}
  /\ Take(i, "sweep", i)
  /\ UNCHANGED <<main, context, halted, spike_timer, stop_timer, chaos,
                 clients, pending, device>>

\* for (j = i; j < clients.size(); j += thread_count)
Fleet == {d \in Devices : d < clients}
Slice(i) == {d \in Fleet : Owner(d) = i}

\* Mutant: the sweep knows only the devices of the start.
Sweep_InitialOnly(i) ==
  /\ ~Ended
  /\ hand[i].at = "sweep"
  /\ stopped_' = [d \in Devices |->
                    stopped_[d] \/ (d \in Slice(i) /\ d < DeviceCount)]
  /\ halted' = [halted EXCEPT ![i] = TRUE]
  /\ Return(i)
  /\ UNCHANGED <<main, context, spike_timer, stop_timer, sweep, chaos, clients,
                 pending, write_in_flight_, events_sent_>>

\* stop() of every client of the slice, then of the context.  Closing the
\* socket and cancelling the timers completes what is pending with an error,
\* but a stopped context runs no handler any more.
Sweep(i) ==
  /\ ~Ended
  /\ hand[i].at = "sweep"
  /\ stopped_' = [d \in Devices |-> stopped_[d] \/ d \in Slice(i)]
  /\ halted' = [halted EXCEPT ![i] = TRUE]
  /\ Return(i)
  /\ UNCHANGED <<main, context, spike_timer, stop_timer, sweep, chaos, clients,
                 pending, write_in_flight_, events_sent_>>

-----------------------------------------------------------------------------

MainStep ==
  \/ BuildClient \/ BuildFails
  \/ \E i \in Threads : SpawnThread(i)
  \/ SpawnFails \/ Join \/ Done

DeviceStep(d) ==
  \/ Connected(d) \/ ConnectFails(d)
  \/ SendTimer(d) \/ SkipTimer(d) \/ DelayedSend(d) \/ Written(d)

SpikeStep == SpikeClient \/ SpikeFails

Next ==
  \/ MainStep
  \/ \E d \in Devices : DeviceStep(d) \/ \E op \in Operations : Dispatch(d, op)
  \/ \E i \in Threads : RunReturns(i) \/ TakeSweep(i) \/ Sweep(i)
  \/ SpikeTimer \/ SpikeStep \/ StopTimer
  \/ Exited

\* Threads are scheduled and a handler that is begun ends.  A timer expires,
\* and io_context takes its ready handlers in order, so that devices with ever
\* new events do not keep a timer's handler or a posted one waiting.
Fairness ==
  /\ WF_vars(MainStep)
  /\ WF_vars(SpikeStep)
  /\ \A d \in Devices : WF_vars(DeviceStep(d))
  /\ \A i \in Threads :
       WF_vars(RunReturns(i)) /\ WF_vars(Sweep(i)) /\ SF_vars(TakeSweep(i))
  /\ SF_vars(SpikeTimer)
  /\ SF_vars(StopTimer)

Spec == Init /\ [][Next]_vars /\ Fairness

-----------------------------------------------------------------------------
(* Properties.                                                             *)

\* What a thread has in hand: a completion handler and its client, the spike
\* and the client it appends, a stop sweep, or nothing (Free).
Handler == [at : Operations \cup {"run", "spike", "sweep"}, on : Nat]

\* Every variable has its type.
TypeOK ==
  /\ main \in {"build", "run", "sum", "done", "failed", "terminated"}
  /\ clients \in 0..(DeviceCount + SpikeCount)
  /\ context \in [Threads -> {"idle", "running", "finished"}]
  /\ halted \in [Threads -> BOOLEAN]
  /\ hand \in [Threads -> Handler]
  /\ spike_timer \in {"none", "waiting", "fired"}
  /\ stop_timer \in {"waiting", "fired"}
  /\ sweep \subseteq Threads
  /\ chaos \in [latency : BOOLEAN, loss : BOOLEAN]
  /\ pending \in [Devices -> [Operations -> Nat]]
  /\ write_in_flight_ \in [Devices -> BOOLEAN]
  /\ stopped_ \in [Devices -> BOOLEAN]
  /\ events_sent_ \in [Devices -> 0..MaxEvents]

\* The clients whose members thread i is reading or writing.
Touched(i) ==
  CASE hand[i].at \in Operations \cup {"spike"} -> {hand[i].on}
    [] hand[i].at = "sweep" -> Slice(i)
    [] i = 0 /\ main = "sum" -> Fleet
    [] OTHER -> {}

\* main.cpp: no DeviceClient is in the hands of two threads at once, the spike
\* that starts clients of other contexts, the sweeps and the final sum
\* included; and no thread walks `clients' while the spike appends to it.
NoDataRace ==
  \A i, k \in Threads :
    i # k => /\ Touched(i) \cap Touched(k) = {}
             /\ ~(hand[i].at = "spike" /\ hand[k].at = "sweep")

\* The send that client d has begun, delayed or on the socket.
SendsUnderWay(d) ==
  pending[d]["latency"] + pending[d]["write"]
    + Cardinality({i \in Threads : /\ hand[i].at \in {"latency", "write"}
                                   /\ hand[i].on = d})

\* write_in_flight_ says exactly whether a send is under way, so two writes
\* never interleave on a socket and the flag is never left set behind a send
\* that has ended, whatever the chaos options delay or skip.
OneWriteInFlight ==
  \A d \in Devices :
    SendsUnderWay(d) = IF write_in_flight_[d] THEN 1 ELSE 0

\* When the run is over every device has been stopped, those of the spike too,
\* unless its context had run out of work before the sweep reached it.
FleetStopped ==
  main \in {"sum", "done"} => \A d \in Fleet : stopped_[d] \/ ~halted[Owner(d)]

\* The run ends: no context goes on with its devices' timers for ever.
RunEnds == (main = "run") ~> Ended
=============================================================================
