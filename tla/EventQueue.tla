----------------------------- MODULE EventQueue -----------------------------
(***************************************************************************)
(* The contract of core/include/edgeflow/queue_concept.hpp: what           *)
(* WorkerPool and HttpSink may rely on, with no threads, locks or          *)
(* condition variables in it.  Items come out in the order they went in,   *)
(* each to one consumer; pop() yields nullopt only once the queue is empty *)
(* and shut down; nothing that is in the queue stays there forever, and    *)
(* after shutdown every consumer is told to finish.                        *)
(***************************************************************************)
EXTENDS Naturals, Sequences, FiniteSets

CONSTANTS Item, Consumer, Bound

VARIABLES queue,      \* the items in the queue, oldest first
          closed,     \* shutdown() has been called
          delivered,  \* the items pop() has returned, in that order
          finished    \* the consumers whose pop() returned nullopt

abstractVars == <<queue, closed, delivered, finished>>

Init ==
  /\ queue = <<>>
  /\ closed = FALSE
  /\ delivered = <<>>
  /\ finished = {}

Put(x) ==
  /\ Len(queue) < Bound
  /\ queue' = Append(queue, x)
  /\ UNCHANGED <<closed, delivered, finished>>

\* A full queue gives up its oldest item for the new one.
Replace(x) ==
  /\ Len(queue) = Bound
  /\ queue' = Append(Tail(queue), x)
  /\ UNCHANGED <<closed, delivered, finished>>

Take ==
  /\ queue # <<>>
  /\ finished # Consumer
  /\ delivered' = Append(delivered, Head(queue))
  /\ queue' = Tail(queue)
  /\ UNCHANGED <<closed, finished>>

Close ==
  /\ closed' = TRUE
  /\ UNCHANGED <<queue, delivered, finished>>

Finish(c) ==
  /\ c \notin finished
  /\ closed
  /\ queue = <<>>
  /\ finished' = finished \cup {c}
  /\ UNCHANGED <<queue, closed, delivered>>

Next ==
  \/ \E x \in Item : Put(x) \/ Replace(x)
  \/ Take
  \/ Close
  \/ \E c \in Consumer : Finish(c)

Fairness ==
  /\ WF_abstractVars(Take)
  /\ \A c \in Consumer : WF_abstractVars(Finish(c))

Safety == Init /\ [][Next]_abstractVars

Spec == Safety /\ Fairness
=============================================================================
