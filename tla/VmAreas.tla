------------------------------ MODULE VmAreas -------------------------------
(***************************************************************************)
(* What vm_area_map, vm_area_unmap and vm_area_mprotect of gemOS            *)
(* (Assignment3/Ass3/src/mmap.c) compute on a process's list of vm_areas,   *)
(* as operators from a list to a result [areas, ret].  The singly linked    *)
(* list is a sequence of records; addresses are page numbers, because every *)
(* address a caller may pass is page aligned; lengths are in bytes and are  *)
(* rounded as the code rounds them.  VmArea and CowMemory are the state     *)
(* machines built on these operators.                                       *)
(***************************************************************************)
EXTENDS Integers, Sequences, SequencesExt, FiniteSetsExt

CONSTANTS START,      \* MMAP_AREA_START, a page number
          END,        \* MMAP_AREA_END: the first page after the mmap area
          PageSize,   \* bytes per page
          MaxAreas,   \* 128, the most vm_areas a process may have
          Prots,      \* values of access_flags: 1 read, 2 write, 3 both
          Lengths,        \* mmap lengths in bytes; 0 is outside its contract
          UnmapLengths,   \* munmap lengths in bytes
          ProtLengths     \* mprotect lengths in bytes

ASSUME AreaAssumption == /\ START \in Nat \ {0} /\ END \in Nat /\ START < END
                         /\ PageSize \in Nat \ {0} /\ MaxAreas \in Nat \ {0}
ASSUME ProtsAssumption == Prots \subseteq {1, 2, 3}

Pages == START .. END - 1

vm_area == [start : Pages, end : START + 1 .. END, access_flags : Prots]

Result(s, r) == [areas |-> s, ret |-> r]
Fail(s) == Result(s, -1)

\* (length>>12)<<12 != length ? ((length>>12) + 1)<<12 : length, in pages.
PagesOf(length) == LET whole == length \div PageSize
                   IN  IF whole * PageSize # length THEN whole + 1 ELSE whole

\* mmap is specified for positive lengths, and a length never reaches from
\* address 0 to the mmap area (an int of bytes against MMAP_START).
ASSUME LengthsAssumption ==
  /\ Lengths \subseteq Nat \ {0} /\ UnmapLengths \subseteq Nat /\ ProtLengths \subseteq Nat
  /\ \A l \in Lengths \cup UnmapLengths \cup ProtLengths : PagesOf(l) <= START

Run(at, n) == at .. at + n - 1     \* the n pages from at on

\* addr+length<=MMAP_AREA_END, before the length is rounded.
EndsInside(addr, length) == addr * PageSize + length <= END * PageSize

\* The areas that contain a page, at most one when the list is well formed.
Owners(s, page) == {i \in DOMAIN s : s[i].start <= page /\ page < s[i].end}

\* The protection of each page: 0 where nothing is mapped.
ProtOf(s, page) == IF Owners(s, page) = {} THEN 0
                   ELSE s[Min(Owners(s, page))].access_flags

Writable(prot) == prot \in {2, 3}      \* access_flags & 0x2

-----------------------------------------------------------------------------
(***************************************************************************)
(* mmap                                                                     *)
(***************************************************************************)

\* Put [at, at+n) between the i-th area and its successor: extend the left
\* neighbour, the right one, or both into one area when they touch and have
\* the same flags; otherwise allocate a vm_area if there may be one more.
\* The code repeats this block for every place where it creates a mapping.
Place(s, i, at, n, prot) ==
  LET left  == i >= 1 /\ s[i].end = at /\ s[i].access_flags = prot
      right == i < Len(s) /\ s[i + 1].start = at + n /\ s[i + 1].access_flags = prot
      area  == [start |-> IF left THEN s[i].start ELSE at,
                end   |-> IF right THEN s[i + 1].end ELSE at + n,
                access_flags |-> prot]
  IN  IF ~left /\ ~right /\ Len(s) >= MaxAreas
      THEN Fail(s)
      ELSE Result(SubSeq(s, 1, IF left THEN i - 1 ELSE i) \o <<area>>
                    \o SubSeq(s, IF right THEN i + 2 ELSE i + 1, Len(s)), at)

PlaceAfter(s, i, n, prot) == Place(s, i, s[i].end, n, prot)

\* Areas whose gap to the successor holds n pages.
Gaps(s, n) == {i \in 1 .. Len(s) - 1 : s[i].end + n <= s[i + 1].start}

\* No hint address: the first gap from MMAP_AREA_START on.
MapNoHint(s, n, prot) ==
  CASE s = <<>> -> IF START + n > END THEN Fail(s) ELSE Place(s, 0, START, n, prot)
    [] s # <<>> /\ s[1].start >= START + n -> Place(s, 0, START, n, prot)
    [] OTHER -> IF Gaps(s, n) # {} THEN PlaceAfter(s, Min(Gaps(s, n)), n, prot)
                ELSE IF Last(s).end + n > END THEN Fail(s)
                ELSE PlaceAfter(s, Len(s), n, prot)

\* The hint cannot be used and the search after it found nothing: from the
\* beginning of the area, up to the hint.
SearchFromStart(s, addr, n, prot) ==
  LET before == {i \in Gaps(s, n) : s[i].end < addr}
  IN  CASE s[1].start >= START + n -> Place(s, 0, START, n, prot)
        [] s[1].start < START + n /\ before # {} -> PlaceAfter(s, Min(before), n, prot)
        [] OTHER -> IF /\ \A i \in 1 .. Len(s) - 1 : s[i].end < addr
                       /\ Last(s).end + n <= END
                    THEN PlaceAfter(s, Len(s), n, prot)
                    ELSE Fail(s)

\* Mutant: the search does not start again at the beginning of the area.
SearchForward_only(s, c, addr, n, prot) ==
  LET after == {i \in Gaps(s, n) : c # 0 /\ i >= c}
  IN  CASE after # {} -> PlaceAfter(s, Min(after), n, prot)
        [] after = {} /\ c # 0 /\ Last(s).end + n <= END -> PlaceAfter(s, Len(s), n, prot)
        [] OTHER -> Fail(s)

\* The hint cannot be used: the first gap from area c on (c = 0 when the loop
\* over the list has run off its end), then after the last area.
SearchForward(s, c, addr, n, prot) ==
  LET after == {i \in Gaps(s, n) : c # 0 /\ i >= c}
  IN  CASE after # {} -> PlaceAfter(s, Min(after), n, prot)
        [] after = {} /\ c # 0 /\ Last(s).end + n <= END -> PlaceAfter(s, Len(s), n, prot)
        [] OTHER -> SearchFromStart(s, addr, n, prot)

\* The hint overlaps the mapping of area c, or runs out of the mmap area.
HintTaken(s, c, addr, n, prot, fixed) ==
  IF fixed THEN Fail(s) ELSE SearchForward(s, c, addr, n, prot)

\* The hint lies after the start of the last area: inside it, directly at its
\* end or beyond.  Extending the last area returns that area's start.
MapAfterLast(s, addr, n, prot, fixed) ==
  LET last == Len(s)
  IN  CASE addr + n > END -> HintTaken(s, 0, addr, n, prot, fixed)
        [] addr + n <= END /\ addr < s[last].end -> HintTaken(s, last, addr, n, prot, fixed)
        [] addr + n <= END /\ addr = s[last].end /\ s[last].access_flags = prot ->
             Result(Place(s, last, addr, n, prot).areas, s[last].start)
        [] OTHER -> Place(s, last, addr, n, prot)

\* The hint lies between the starts of two areas; i is the one where the loop
\* over the list stops.
MapBetween(s, i, addr, n, prot, fixed) ==
  CASE addr < s[i].end -> HintTaken(s, i, addr, n, prot, fixed)
    [] addr >= s[i].end /\ addr + n <= s[i + 1].start -> Place(s, i, addr, n, prot)
    [] OTHER -> HintTaken(s, IF addr = s[i].end THEN i ELSE i + 1, addr, n, prot, fixed)

\* A hint address is given.
MapHint(s, addr, n, prot, fixed) ==
  LET stops == {i \in 1 .. Len(s) - 1 : addr <= s[i].end \/ addr < s[i + 1].start}
      at    == IF addr + n > END THEN START ELSE addr
  IN  CASE s = <<>> -> IF at + n > END THEN Fail(s) ELSE Place(s, 0, at, n, prot)
        [] s # <<>> /\ addr < s[1].start ->
             IF addr + n <= s[1].start THEN Place(s, 0, addr, n, prot)
             ELSE HintTaken(s, 1, addr, n, prot, fixed)
        [] OTHER -> IF stops # {} THEN MapBetween(s, Min(stops), addr, n, prot, fixed)
                    ELSE MapAfterLast(s, addr, n, prot, fixed)

\* addr = 0 means no hint.
vm_area_map(s, addr, length, prot, fixed) ==
  CASE addr # 0 /\ ~(START <= addr /\ addr <= END) -> Fail(s)
    [] addr \in START .. END /\ fixed /\ ~EndsInside(addr, length) -> Fail(s)
    [] addr = 0 -> MapNoHint(s, PagesOf(length), prot)
    [] OTHER -> MapHint(s, addr, PagesOf(length), prot, fixed)

-----------------------------------------------------------------------------
(***************************************************************************)
(* munmap                                                                   *)
(***************************************************************************)

\* What is left of an area when [from, to) is cut out of it.
Remainder(a, from, to) ==
     (IF a.start < from
        THEN << [a EXCEPT !.end = Min({a.end, from})] >> ELSE <<>>)
  \o (IF a.end > to
        THEN << [a EXCEPT !.start = Max({a.start, to})] >> ELSE <<>>)

\* munmap splits an area when the range lies strictly inside it.
Splits(s, from, to) == \E i \in DOMAIN s : s[i].start < from /\ to < s[i].end /\ from < s[i].end

\* Mutant: the length is cut to whole pages instead of rounded up.
vm_area_unmap_cut(s, addr, length) ==
  LET to == addr + length \div PageSize
  IN  CASE addr # 0 /\ ~(START <= addr /\ EndsInside(addr, length)) -> Fail(s)
        [] addr = 0 \/ (START <= addr /\ EndsInside(addr, length)) ->
             IF Splits(s, addr, to) /\ Len(s) = MaxAreas
             THEN Fail(s)
             ELSE Result(FlattenSeq([i \in DOMAIN s |-> Remainder(s[i], addr, to)]), 0)

vm_area_unmap(s, addr, length) ==
  LET to == addr + PagesOf(length)
  IN  CASE addr # 0 /\ ~(START <= addr /\ EndsInside(addr, length)) -> Fail(s)
        [] addr = 0 \/ (START <= addr /\ EndsInside(addr, length)) ->
             IF Splits(s, addr, to) /\ Len(s) = MaxAreas
             THEN Fail(s)
             ELSE Result(FlattenSeq([i \in DOMAIN s |-> Remainder(s[i], addr, to)]), 0)

-----------------------------------------------------------------------------
(***************************************************************************)
(* mprotect                                                                 *)
(***************************************************************************)
Touched(s, from, to) == {i \in DOMAIN s : s[i].start < to /\ from < s[i].end}

\* Mutant: areas are not required to touch.
RangeAccepted_holes(s, from, to) ==
  \E f \in Owners(s, from) : f = Len(s) \/ \E k \in f .. Len(s) : to <= s[k].end

\* The check that [from, to) is mapped without a hole.  The loop tests the
\* end of the range only from the second area on, so a range that starts in
\* the last area is accepted whatever its end.
RangeAccepted(s, from, to) ==
  \E f \in Owners(s, from) :
     \/ f = Len(s)
     \/ \E k \in f .. Len(s) : /\ to <= s[k].end
                               /\ \A j \in f + 1 .. k : s[j].start = s[j - 1].end

\* The check for the 128-area limit, before anything is changed.
TooManyAreas(s, from, to, prot) ==
  LET f    == Min(Owners(s, from))
      span == Cardinality(Touched(s, from, to))
      same(i) == i \in DOMAIN s /\ s[i].access_flags = prot
  IN  \/ /\ span = 1
         /\ ~same(f)
         /\ \/ /\ from = s[f].start /\ to # s[f].end
               /\ ~same(f - 1) /\ Len(s) >= MaxAreas
            \/ /\ from > s[f].start /\ to = s[f].end
               /\ ~same(f + 1) /\ Len(s) >= MaxAreas
            \/ /\ from > s[f].start /\ to # s[f].end
               /\ Len(s) >= MaxAreas - 1
      \/ /\ span = 2
         /\ from > s[f].start /\ to # s[f + 1].end
         /\ ~same(f) /\ ~same(f + 1)
         /\ Len(s) >= MaxAreas

\* The range gets its own areas, without merging.
Reprotect(a, from, to, prot) ==
  IF a.access_flags = prot \/ a.end <= from \/ to <= a.start THEN <<a>>
  ELSE (IF a.start < from THEN << [a EXCEPT !.end = from] >> ELSE <<>>)
       \o << [start |-> Max({a.start, from}), end |-> Min({a.end, to}),
              access_flags |-> prot] >>
       \o (IF to < a.end THEN << [a EXCEPT !.start = to] >> ELSE <<>>)

\* Mutant: no merging pass.
MergeAll_skipped(s) == s

\* An area at the end of a list, joined with the last one if that touches it
\* and has the same flags.
Joined(t, a) ==
  IF t # <<>> /\ Last(t).end = a.start /\ Last(t).access_flags = a.access_flags
  THEN [t EXCEPT ![Len(t)].end = a.end]
  ELSE Append(t, a)

\* The pass that merges every pair of neighbours with equal flags.
MergeAll(s) ==
  LET merged[i \in 0 .. Len(s)] == IF i = 0 THEN <<>> ELSE Joined(merged[i - 1], s[i])
  IN  merged[Len(s)]

vm_area_mprotect(s, addr, length, prot) ==
  LET to == addr + PagesOf(length)
  IN  CASE ~(START <= addr /\ EndsInside(addr, length)) -> Fail(s)
        [] START <= addr /\ EndsInside(addr, length) /\ length = 0 -> Result(s, 0)
        [] OTHER -> IF ~RangeAccepted(s, addr, to) \/ TooManyAreas(s, addr, to, prot)
                    THEN Fail(s)
                    ELSE Result(MergeAll(FlattenSeq([i \in DOMAIN s |->
                                  Reprotect(s[i], addr, to, prot)])), 0)
=============================================================================
