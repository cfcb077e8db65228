----------------------------- MODULE QueueTypes -----------------------------
(***************************************************************************)
(* The two enumerations every queue of the gateway shares                  *)
(* (core/include/edgeflow/queue_types.hpp).                                *)
(***************************************************************************)

Block == "Block"
DropOldest == "DropOldest"
DropNewest == "DropNewest"

\* What a queue does when push() arrives and the queue is full.
BackpressurePolicy == {Block, DropOldest, DropNewest}

Accepted == "Accepted"
DroppedOldest == "DroppedOldest"
RejectedBackpressure == "RejectedBackpressure"

\* The outcome of a push().
PushResult == {Accepted, DroppedOldest, RejectedBackpressure}
=============================================================================
