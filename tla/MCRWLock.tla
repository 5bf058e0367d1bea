------------------------------ MODULE MCRWLock ------------------------------
(* RWLock on a small instance; the bounds are in the cfg file. *)
EXTENDS RWLock
=============================================================================
