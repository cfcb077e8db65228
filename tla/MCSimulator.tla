---------------------------- MODULE MCSimulator -----------------------------
(* Instance of Simulator for TLC. *)
EXTENDS Simulator
=============================================================================
