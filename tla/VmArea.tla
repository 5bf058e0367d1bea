------------------------------- MODULE VmArea -------------------------------
(***************************************************************************)
(* A process that calls mmap, munmap and mprotect in any order, with any    *)
(* arguments from small sets, and its list of vm_areas.  The page tables    *)
(* are in CowMemory.                                                        *)
(***************************************************************************)
EXTENDS VmAreas

VARIABLES list,       \* current->vm_area
          call, ret   \* the last call with its arguments, and what it returned

areaVars == <<list, call, ret>>

\* 0 (no hint), a page below, inside, at the end of and above the mmap area.
Addresses == {0, START - 1} \cup Pages \cup {END, END + 1}

AreaInit == list = <<>> /\ call = <<"none">> /\ ret = 0

\* A call leaves the areas and returns the value of a result.
Returns(c, result) == list' = result.areas /\ call' = c /\ ret' = result.ret

Mmap(addr, length, prot, fixed) ==
  Returns(<<"mmap", addr, length, prot, fixed>>, vm_area_map(list, addr, length, prot, fixed))
Munmap(addr, length) ==
  Returns(<<"munmap", addr, length>>, vm_area_unmap(list, addr, length))
Mprotect(addr, length, prot) ==
  Returns(<<"mprotect", addr, length, prot>>, vm_area_mprotect(list, addr, length, prot))

AreaNext ==
  \/ \E addr \in Addresses, length \in Lengths, prot \in Prots, fixed \in BOOLEAN :
       Mmap(addr, length, prot, fixed)
  \/ \E addr \in Addresses, length \in UnmapLengths : Munmap(addr, length)
  \/ \E addr \in Addresses \ {0}, length \in ProtLengths, prot \in Prots :
       Mprotect(addr, length, prot)

AreaSpec == AreaInit /\ [][AreaNext]_areaVars

-----------------------------------------------------------------------------
(***************************************************************************)
(* Properties.  Those about one call quantify over every call that can be   *)
(* made in a reachable state.                                               *)
(***************************************************************************)
AreaTypeOK == list \in Seq(vm_area)

\* The list is well typed and stays sorted, its areas non-empty, disjoint and
\* inside the mmap area, through every sequence of splits, extensions and merges.  Every loop
\* in mmap.c relies on it.
WellFormed ==
  /\ AreaTypeOK
  /\ \A i \in DOMAIN list : list[i].start < list[i].end
  /\ \A i \in 1 .. Len(list) - 1 : list[i].end <= list[i + 1].start

\* Neighbours that touch differ in their flags: no caller ever sees two areas
\* where the merging rules of vm_area_map and vm_area_mprotect ask for one.
FullyMerged ==
  \A i \in 1 .. Len(list) - 1 :
     list[i].end = list[i + 1].start => list[i].access_flags # list[i + 1].access_flags

FreeRun(at, n) == Run(at, n) \subseteq Pages /\ \A p \in Run(at, n) : ProtOf(list, p) = 0

Fits(n) == {a \in Pages : FreeRun(a, n)}

\* mmap without a hint takes the lowest run of free pages that is long enough,
\* and fails only if there is none or no vm_area may be added.
LowestFit ==
  \A length \in Lengths, prot \in Prots :
    LET r == vm_area_map(list, 0, length, prot, FALSE)
        fits == Fits(PagesOf(length))
    IN  IF r.ret = -1 THEN fits = {} \/ Len(list) >= MaxAreas
        ELSE fits # {} /\ r.ret = Min(fits)

\* mmap with a valid hint and without MAP_FIXED fails only if no run of free
\* pages is long enough or no vm_area may be added: the three searches
\* (forward, after the last area, from the start) leave out no gap.
HintSearchComplete ==
  \A addr \in START .. END, length \in Lengths, prot \in Prots :
    vm_area_map(list, addr, length, prot, FALSE).ret = -1 =>
      Fits(PagesOf(length)) = {} \/ Len(list) >= MaxAreas

\* mmap with MAP_FIXED maps exactly the pages asked for if they are free (and
\* a vm_area may be added), and otherwise changes nothing.
FixedPlacement ==
  \A addr \in START .. END, length \in Lengths, prot \in Prots :
    LET r == vm_area_map(list, addr, length, prot, TRUE)
        n == PagesOf(length)
    IN  IF r.ret = -1
        THEN r.areas = list /\ (FreeRun(addr, n) => Len(list) >= MaxAreas)
        ELSE FreeRun(addr, n) /\ \A p \in Run(addr, n) : ProtOf(r.areas, p) = prot

\* The hint is the end of the last area, which has the flags: mmap extends that
\* area and returns its start, not the start of the new pages.
ExtendsLast(addr, prot) ==
  list # <<>> /\ addr = Last(list).end /\ Last(list).access_flags = prot

\* "On success, mmap() returns a pointer to the mapped area": the pages from
\* the returned address on were free before and carry the flags now, in every
\* case but that of ExtendsLast.
ReturnsMapping ==
  \A addr \in Addresses, length \in Lengths, prot \in Prots, fixed \in BOOLEAN :
    LET r == vm_area_map(list, addr, length, prot, fixed)
        n == PagesOf(length)
    IN  r.ret # -1 /\ ~ExtendsLast(addr, prot) =>
          FreeRun(r.ret, n) /\ \A p \in Run(r.ret, n) : ProtOf(r.areas, p) = prot

\* The limit of 128 areas holds across mmap and munmap: at the limit mmap only
\* extends areas and munmap splits none.  (The prediction that mprotect makes
\* can be one short.)
LimitKept ==
  Len(list) <= MaxAreas =>
    /\ \A addr \in Addresses, length \in Lengths, prot \in Prots, fixed \in BOOLEAN :
         Len(vm_area_map(list, addr, length, prot, fixed).areas) <= MaxAreas
    /\ \A addr \in Addresses, length \in UnmapLengths :
         Len(vm_area_unmap(list, addr, length).areas) <= MaxAreas

\* The list as every loop of mmap.c finds it, after any sequence of calls.
ListSound == WellFormed /\ FullyMerged /\ LimitKept

\* Where mmap puts a mapping, what it returns, and that it refuses none it
\* could place, for every hint, length and flag.
PlacesRight == LowestFit /\ HintSearchComplete /\ FixedPlacement /\ ReturnsMapping

\* mprotect never succeeds across a hole: every page of an accepted range is
\* mapped, up to the end of the last area (behind which it does not look).
ProtectsNoHole ==
  \A addr \in Addresses \ {0}, length \in ProtLengths, prot \in Prots :
    vm_area_mprotect(list, addr, length, prot).ret = 0 =>
      \A p \in Run(addr, PagesOf(length)) :
         p < Last(list).end => ProtOf(list, p) # 0

PageProt == [p \in Pages |-> ProtOf(list, p)]

\* Call by call and page by page the list is the address space promised to
\* the process: a munmap or mprotect that succeeds changes the pages of its
\* own arguments, all of them and no other, mmap adds the pages it was asked for
\* where nothing was mapped, and a call that fails changes nothing.
Abs == INSTANCE AddressSpace WITH
         Page <- Pages, Prot <- Prots, Address <- Addresses,
         Length <- Lengths \cup UnmapLengths \cup ProtLengths,
         prot <- PageProt

Refinement == Abs!Spec
=============================================================================
