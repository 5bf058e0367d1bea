---------------------------- MODULE MCFileTable -----------------------------
(* FileTable with a few pages, processes and descriptors: the pages are       *)
(* interchangeable.                                                           *)
EXTENDS FileTable, TLC

PageSymmetry == Permutations(Objects) \cup Permutations(Pipes)
=============================================================================
