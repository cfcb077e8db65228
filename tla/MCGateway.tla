----------------------------- MODULE MCGateway -----------------------------
(* Connections and workers are interchangeable, which a run that checks    *)
(* only safety may use.                                                    *)
EXTENDS Gateway, TLC

Symmetry == Permutations(Connections) \cup Permutations(Workers)
=============================================================================
