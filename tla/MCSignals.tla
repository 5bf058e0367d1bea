----------------------------- MODULE MCSignals ------------------------------
(* Signals with two processes and one handler; the bounds are in the cfg. *)
EXTENDS Signals
=============================================================================
