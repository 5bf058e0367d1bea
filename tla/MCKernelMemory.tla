--------------------------- MODULE MCKernelMemory ---------------------------
(***************************************************************************)
(* The two users of kernel memory, PageTables and ObjectAllocator, on small *)
(* regions.  They take their pages from different regions and share no      *)
(* state, so a behaviour exercises one of them and leaves the other alone.  *)
(***************************************************************************)
EXTENDS PageTables, ObjectAllocator

VARIABLE part

MCSegPages == [s \in Segs |-> CASE s = "code" -> 1 [] s = "rodata" -> 1
                                [] s = "data" -> 2 [] s = "stack" -> 3]

MCInit == Init /\ ObjInit /\ part \in {"tables", "objects"}

MCNext == /\ UNCHANGED part
          /\ \/ part = "tables" /\ Next /\ UNCHANGED <<objVars, objCalls>>
             \/ part = "objects" /\ ObjNext /\ UNCHANGED vars

MCSpec == MCInit /\ [][MCNext]_<<vars, objVars, objCalls, part>>
=============================================================================
