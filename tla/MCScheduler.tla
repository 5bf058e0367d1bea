---------------------------- MODULE MCScheduler -----------------------------
(* Scheduler on a small context table; the bounds are in the cfg file. *)
EXTENDS Scheduler

\* Behaviours are followed up to the first misled exit, after which dead
\* contexts may run and the properties say nothing.
UpToMisled == ~misled
=============================================================================
