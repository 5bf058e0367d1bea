---------------------------- MODULE MCCowMemory -----------------------------
(* CowMemory on a few pages and frames; the bounds are in the cfg files. *)
EXTENDS CowMemory

Symmetry == Permutations(Frames) \cup Permutations(Values)
=============================================================================
