----------------------------- MODULE MCDelivery -----------------------------
(* Delivery for TLC.  No action and no property here reads Ingest's history*)
(* variable `fault', so states that differ in nothing else are the same.   *)
EXTENDS Delivery

View == <<sink, pc, batch, keyed, claimed, response, redis, client, txn,
          staged, rows, metrics, restarts, network>>
=============================================================================
