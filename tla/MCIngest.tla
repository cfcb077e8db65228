------------------------------ MODULE MCIngest ------------------------------
(* Overlapping attempts at the same batches.  Requests are interchangeable,*)
(* which a run that checks only safety may use.                            *)
EXTENDS Ingest, TLC

Symmetry == Permutations(Requests)

\* Bound: batches share nothing but the Redis client and the counters, so the
\* attempts at a large batch, which take the most steps, are by themselves.
LargeAlone ==
  \A q, r \in Requests :
    batch[q] \in Large => batch[r] \in {batch[q], None}
=============================================================================
