------------------------------ MODULE MCVmArea ------------------------------
(* VmArea on a small mmap area; the bounds are in the cfg files. *)
EXTENDS VmArea

\* What a call does depends on the list alone: the states are the lists, and
\* every call is still made, and compared with AddressSpace, in each of them.
ListView == list
=============================================================================
