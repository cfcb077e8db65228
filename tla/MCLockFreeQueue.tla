-------------------------- MODULE MCLockFreeQueue --------------------------
(* Producers and consumers are interchangeable, which a run that checks    *)
(* only safety may use.                                                    *)
EXTENDS LockFreeQueue, TLC

Symmetry == Permutations(Producers) \cup Permutations(Consumers)
=============================================================================
