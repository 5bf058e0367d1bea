----------------------------- MODULE CowMemory ------------------------------
(***************************************************************************)
(* The memory of gemOS processes (Assignment3/Ass3/src: mmap.c, cfork.c,    *)
(* page.c, and the memory system calls and do_page_fault of entry.c):       *)
(* leaf page table entries, user frames with reference counts and contents, *)
(* mmap with MAP_POPULATE, munmap, mprotect, expand, shrink, cfork with     *)
(* copy-on-write, vfork, exit, and the loads and stores of the programs.    *)
(*                                                                          *)
(* Kernel code runs with interrupts off, so a handler is one step; between  *)
(* the fault of an access and its retry other processes may run.  Pages of  *)
(* the data segment and the mmap area are modelled.  Left out: code and rodata,   *)
(* which cfork shares by the same loop and no program can write, and the    *)
(* stack, which cfork and vfork copy at once to frames nobody else maps.    *)
(*                                                                          *)
(* Processes are made by cfork and vfork.  Left out are the other two calls *)
(* that fill a slot: fork, whose child has a page table of its own but by   *)
(* `*new_ctx = *ctx' the vm_area nodes of its parent, so that a munmap of   *)
(* one removes areas under the entries of the other and frees nodes it      *)
(* still points to; and clone, whose thread has the page table of its maker *)
(* and the vm_area list its slot had last.  What is claimed here is claimed *)
(* as long as no process calls either.                                      *)
(***************************************************************************)
EXTENDS VmAreas, FiniteSets

CONSTANTS MAX_PROCESSES,  \* slots of the context table; slot 0 is the swapper
          Frames, NoFrame, \* user frames; what needs more of them is not done
          Values, NoValue, \* contents of a page, and none
          DataEnd,        \* pages the data segment can grow to
          Hints,          \* page numbers passed to mmap, 0 for none
          RefLimit,       \* cfork is not called when a count has reached this
          ShrinkShared    \* may programs shrink over frames others map?

ASSUME CowAssumption ==
  /\ MAX_PROCESSES \in Nat \ {0, 1} /\ IsFiniteSet(Frames) /\ NoFrame \notin Frames /\ DataEnd \in 0 .. START - 1
  /\ NoValue \notin Values /\ Hints \subseteq {0} \cup Pages /\ RefLimit \in Nat /\ ShrinkShared \in BOOLEAN

VARIABLES state, ppid, pgd,   \* of every context slot
          areas,              \* ctx->vm_area
          next_free,          \* ctx->mms[MM_SEG_DATA]: the pages below it are usable
          pte,                \* the leaf entries of every page table
          bitmap, refcount,   \* of the user frames
          mem                 \* contents of the frames some process can read

ctx    == <<state, ppid, pgd, areas, next_free>>
frames == <<bitmap, refcount>>
vars   == <<ctx, pte, frames, mem>>

Slots     == 1 .. MAX_PROCESSES - 1
Spaces    == Slots                      \* page tables by identity
DataPages == 1 .. DataEnd
AllPages  == DataPages \cup Pages

Absent     == [pfn |-> NoFrame, rw |-> FALSE]
EmptyTable == [page \in AllPages |-> Absent]
Live       == {p \in Slots : state[p] # "UNUSED"}
Running    == {p \in Slots : state[p] = "READY"}

Entries(p) == pte[pgd[p]]
Present(p) == {page \in AllPages : Entries(p)[page] # Absent}
Free       == Frames \ bitmap

\* The entries of live page tables that name a frame.
Sharers(f) == {e \in {pgd[p] : p \in Live} \X AllPages : pte[e[1]][e[2]].pfn = f}

U8(n) == n % 256                   \* u8 refcount

\* The contents after a step.  Those of a frame that no process can read any
\* more are dropped: whoever gets it next finds an arbitrary value in it.
Contents(m) == mem' = [f \in Frames |-> IF Sharers(f)' = {} THEN NoValue ELSE m[f]]

Init == /\ state = [p \in Slots |-> IF p = 1 THEN "READY" ELSE "UNUSED"]
        /\ ppid = [p \in Slots |-> 0]
        /\ pgd = [p \in Slots |-> IF p = 1 THEN 1 ELSE 0]
        /\ areas = [p \in Slots |-> <<>>]
        /\ next_free = [p \in Slots |-> 1]
        /\ pte = [s \in Spaces |-> EmptyTable]
        /\ bitmap = {}
        /\ refcount = [f \in Frames |-> 0]
        /\ mem = [f \in Frames |-> NoValue]

-----------------------------------------------------------------------------
(***************************************************************************)
(* Frames                                                                   *)
(***************************************************************************)

\* os_pfn_alloc(USER_REG): the frames become used with refcount 1; they are
\* not cleared.
os_pfn_alloc(new) == /\ bitmap' = bitmap \cup new
                     /\ refcount' = [f \in Frames |-> IF f \in new THEN 1 ELSE refcount[f]]

\* os_pfn_free(USER_REG): whatever the refcount was.
os_pfn_free(freed) == /\ bitmap' = bitmap \ freed
                      /\ refcount' = [f \in Frames |-> IF f \in freed THEN 0 ELSE refcount[f]]

\* Each page of a set gets a new frame, whatever its entry was.
Install(p, pages, rw) ==
  \E new \in Injection(pages, Free), v \in [pages -> Values] :
     /\ os_pfn_alloc(Range(new))
     /\ pte' = [pte EXCEPT ![pgd[p]] = [q \in AllPages |->
                  IF q \in pages THEN [pfn |-> new[q], rw |-> rw] ELSE @[q]]]
     /\ Contents([f \in Frames |-> IF f \in Range(new) THEN v[CHOOSE q \in pages : new[q] = f]
                                                       ELSE mem[f]])

\* Mutant: the frames stay mapped.
pfn_unmap_skipped(p, pages) == UNCHANGED <<pte, frames, mem>>

\* pfn_unmap on every present page of a set: the last sharer frees the frame.
pfn_unmap(p, pages) ==
  LET gone == {Entries(p)[page].pfn : page \in pages \cap Present(p)}
  IN  /\ bitmap' = bitmap \ {f \in gone : refcount[f] = 1}
      /\ refcount' = [f \in Frames |-> IF f \in gone THEN U8(refcount[f] - 1) ELSE refcount[f]]
      /\ pte' = [pte EXCEPT ![pgd[p]] = [q \in AllPages |-> IF q \in pages THEN Absent ELSE @[q]]]
      /\ Contents(mem)

-----------------------------------------------------------------------------
(***************************************************************************)
(* System calls                                                             *)
(***************************************************************************)
mmap(p, addr, length, prot, fixed, populate) ==
  LET r == vm_area_map(areas[p], addr, length, prot, fixed)
  IN  /\ p \in Running
      /\ areas' = [areas EXCEPT ![p] = r.areas]
      /\ UNCHANGED <<state, ppid, pgd, next_free>>
      /\ IF r.ret # -1 /\ populate
         THEN Install(p, Run(r.ret, PagesOf(length)), Writable(prot))
         ELSE UNCHANGED <<pte, frames, mem>>

munmap(p, addr, length) ==
  LET r == vm_area_unmap(areas[p], addr, length)
  IN  /\ p \in Running
      /\ areas' = [areas EXCEPT ![p] = r.areas]
      /\ UNCHANGED <<state, ppid, pgd, next_free>>
      /\ IF r.ret = 0 /\ areas[p] # <<>>
         THEN pfn_unmap(p, Run(addr, PagesOf(length)))
         ELSE UNCHANGED <<pte, frames, mem>>

\* change_permissions on one page, if it is present and its frame not shared.
change_permissions(p, page, prot) ==
  pte' = IF page \in Present(p) /\ refcount[Entries(p)[page].pfn] = 1
         THEN [pte EXCEPT ![pgd[p]][page].rw = Writable(prot)]
         ELSE pte

\* The loop at the end of vm_area_mprotect runs once per page of the range,
\* each time on addr.
mprotect(p, addr, length, prot) ==
  LET r == vm_area_mprotect(areas[p], addr, length, prot)
  IN  /\ p \in Running
      /\ areas' = [areas EXCEPT ![p] = r.areas]
      /\ IF r.ret = 0 /\ length # 0 THEN change_permissions(p, addr, prot) ELSE UNCHANGED pte
      /\ UNCHANGED <<state, ppid, pgd, next_free, frames, mem>>

do_expand(p, size) ==
  /\ p \in Running
  /\ next_free[p] + size <= DataEnd + 1
  /\ next_free' = [next_free EXCEPT ![p] = @ + size]
  /\ UNCHANGED <<state, ppid, pgd, areas, pte, frames, mem>>

\* The pages a shrink gives up.
LastPages(p, size) == Run(next_free[p] - size, size)

\* The frames of a set of pages are freed without a look at their refcounts.
do_unmap_user(p, pages) ==
  /\ os_pfn_free({Entries(p)[page].pfn : page \in pages})
  /\ pte' = [pte EXCEPT ![pgd[p]] = [q \in AllPages |-> IF q \in pages THEN Absent ELSE @[q]]]

do_shrink(p, size) ==
  /\ p \in Running
  /\ next_free[p] - size >= 1
  /\ next_free' = [next_free EXCEPT ![p] = @ - size]
  /\ do_unmap_user(p, LastPages(p, size))
  /\ UNCHANGED <<state, ppid, pgd, areas>>
  /\ Contents(mem)

-----------------------------------------------------------------------------
(***************************************************************************)
(* cfork, vfork and exit                                                    *)
(***************************************************************************)
Unused == Slots \ Live
NewCtx == Min(Unused)

\* A page table no other context names: an exit frees none while a process is
\* left, and pages are given out in order.
NewPgd == Min({g \in Spaces : \A q \in Slots \ {NewCtx} : pgd[q] # g})

Covered(p, page) == (page \in DataPages /\ page < next_free[p]) \/ ProtOf(areas[p], page) # 0

\* *new_ctx = *ctx, except pid, ppid, the page table and the state.
CopyContext(p, g) ==
  /\ ppid' = [ppid EXCEPT ![NewCtx] = p]
  /\ pgd' = [pgd EXCEPT ![NewCtx] = g]
  /\ areas' = [areas EXCEPT ![NewCtx] = areas[p]]
  /\ next_free' = [next_free EXCEPT ![NewCtx] = next_free[p]]

Shared(p) == {page \in Present(p) : Covered(p, page)}

\* Mutant: the child is not counted.
Counted_parent_only(p) == refcount

\* Every shared entry is one sharer more of its frame.
Counted(p) ==
  [f \in Frames |-> U8(refcount[f] + Cardinality({page \in Shared(p) : Entries(p)[page].pfn = f}))]

\* Mutant: the loop over the vm_areas is missing.
install_ptable_segments(table, p) ==
  [page \in AllPages |-> IF page \in Shared(p) \cap DataPages THEN [Entries(p)[page] EXCEPT !.rw = FALSE]
                                                             ELSE table[page]]

\* The entries shared, without write permission, entered in a table.
install_ptable(table, p) ==
  [page \in AllPages |-> IF page \in Shared(p) THEN [Entries(p)[page] EXCEPT !.rw = FALSE]
                                               ELSE table[page]]

\* Every present page of the segments and areas becomes read-only in the
\* parent's table and is entered in the child's.
cfork_copy_mm(p, g) ==
  /\ pte' = [pte EXCEPT ![pgd[p]] = install_ptable(@, p), ![g] = install_ptable(EmptyTable, p)]
  /\ refcount' = Counted(p)

\* With no slot left the callers use the NULL of get_new_ctx: see Scheduler.
do_cfork(p) ==
  /\ p \in Running /\ Unused # {}
  /\ \A page \in Present(p) : refcount[Entries(p)[page].pfn] < RefLimit
  /\ CopyContext(p, NewPgd)
  /\ cfork_copy_mm(p, NewPgd)
  /\ state' = [state EXCEPT ![NewCtx] = "READY"]
  /\ UNCHANGED <<bitmap, mem>>

\* vfork_copy_mm: the child works on the parent's page table, and the parent waits.
do_vfork(p) ==
  /\ p \in Running /\ Unused # {}
  /\ CopyContext(p, pgd[p])
  /\ state' = [state EXCEPT ![p] = "WAITING", ![NewCtx] = "READY"]
  /\ UNCHANGED <<pte, frames, mem>>

\* vfork_exit_handle: the context in slot ppid goes on with the areas and the
\* data segment of the exiting one, if it has the same page table (and even
\* if it has exited).
VforkParent(p) == {q \in Slots : q = ppid[p] /\ pgd[q] = pgd[p]}

\* Every user frame in the table is freed, whatever its refcount.
pt_cleanup(p) == os_pfn_free({Entries(p)[page].pfn : page \in Present(p)})

\* No frame is freed and no count changed unless this is the last process.  What
\* nothing can read any more, the table of a space without processes and the
\* data segment and areas of an unused slot, is reset; the areas of slot 1
\* stay, for the next init.
Exit(p) ==
  LET s == [q \in Slots |-> IF q = p THEN "UNUSED" ELSE IF q \in VforkParent(p) THEN "READY" ELSE state[q]]
  IN  /\ state' = s
      /\ areas' = [q \in Slots |-> CASE q = p /\ q # 1 -> <<>>
                                     [] q # p /\ q \in VforkParent(p) -> areas[p]
                                     [] OTHER -> areas[q]]
      /\ next_free' = [q \in Slots |-> IF q = p THEN 1 ELSE IF q \in VforkParent(p) THEN next_free[p] ELSE next_free[q]]
      /\ pte' = IF \E q \in Slots : s[q] # "UNUSED" /\ pgd[q] = pgd[p]
                THEN pte ELSE [pte EXCEPT ![pgd[p]] = EmptyTable]
      /\ IF \A q \in Slots : s[q] = "UNUSED" THEN pt_cleanup(p) ELSE UNCHANGED frames
      /\ UNCHANGED <<ppid, pgd>>
      /\ Contents(mem)

do_exit(p) == p \in Running /\ Exit(p)

\* The shell starts init again with a new table and data segment; the list of
\* areas of the slot is the one its last owner left.
exec_init ==
  /\ Live = {}
  /\ state' = [state EXCEPT ![NewCtx] = "READY"]
  /\ pgd' = [pgd EXCEPT ![NewCtx] = NewPgd]
  /\ pte' = [pte EXCEPT ![NewPgd] = EmptyTable]
  /\ next_free' = [next_free EXCEPT ![NewCtx] = 1]
  /\ UNCHANGED <<ppid, areas, frames, mem>>

-----------------------------------------------------------------------------
(***************************************************************************)
(* Loads, stores and page faults.  A load that does not fault changes       *)
(* nothing.                                                                 *)
(***************************************************************************)
Permits(entry, write) == entry # Absent /\ (write => entry.rw)

store(p, page, v) ==
  /\ p \in Running
  /\ Permits(Entries(p)[page], TRUE)
  /\ mem' = [mem EXCEPT ![Entries(p)[page].pfn] = v]
  /\ UNCHANGED <<ctx, pte, frames>>

\* SIGSEGV: a handler runs instead of the access, or the process exits.
sig_exit(p) == UNCHANGED vars \/ Exit(p)

\* The entry gets the access that faulted, not what the segment or the area
\* allows.
install_page_table(p, page, write) == UNCHANGED ctx /\ Install(p, {page}, write)

\* Data pages below next_free, and pages of an area with write permission.
CowAllowed(p, page) == IF page \in DataPages THEN page < next_free[p]
                                             ELSE Writable(ProtOf(areas[p], page))

\* memcpy of the page into the new frame.
CopyOf(old, f) == [mem EXCEPT ![f] = mem[old]]

\* The only sharer gets write permission, any other a copy in a new frame.
handle_cow_fault(p, page) ==
  LET old == Entries(p)[page].pfn
  IN  \/ ~CowAllowed(p, page) /\ sig_exit(p)
      \/ /\ CowAllowed(p, page) /\ refcount[old] = 1
         /\ pte' = [pte EXCEPT ![pgd[p]][page].rw = TRUE]
         /\ UNCHANGED <<ctx, frames, mem>>
      \/ /\ CowAllowed(p, page) /\ refcount[old] # 1
         /\ UNCHANGED ctx
         /\ \E f \in Free :
              /\ bitmap' = bitmap \cup {f}
              /\ refcount' = [refcount EXCEPT ![old] = U8(@ - 1), ![f] = 1]
              /\ pte' = [pte EXCEPT ![pgd[p]][page] = [pfn |-> f, rw |-> TRUE]]
              /\ Contents(CopyOf(old, f))

data_fault(p, page, write) ==
  IF page < next_free[p] THEN install_page_table(p, page, write) ELSE sig_exit(p)

vm_area_pagefault(p, page, write) ==
  LET prot == ProtOf(areas[p], page)
  IN  IF prot = 0 \/ (write /\ ~Writable(prot)) THEN sig_exit(p)
                                                ELSE install_page_table(p, page, write)

\* Error code 0x7 is a store to a present page, 0x4 and 0x6 are a load and a
\* store to one that is not present.
do_page_fault(p, page, write) ==
  /\ p \in Running
  /\ ~Permits(Entries(p)[page], write)
  /\ IF Entries(p)[page] # Absent THEN handle_cow_fault(p, page)
     ELSE IF page \in DataPages THEN data_fault(p, page, write)
     ELSE vm_area_pagefault(p, page, write)

\* Unless ShrinkShared, programs shrink over frames that nobody else maps.
MayShrink(p, size) ==
  /\ p \in Running /\ size < next_free[p]
  /\ \A page \in LastPages(p, size) \cap Present(p) :
       ShrinkShared \/ Cardinality(Sharers(Entries(p)[page].pfn)) = 1

\* The memory calls, cfork, vfork and exit, without SYSCALL_FORK and
\* SYSCALL_CLONE: see above.
Next ==
  \/ exec_init
  \/ \E p \in Slots :
       \/ \E addr \in Hints, length \in Lengths, prot \in Prots, fixed, populate \in BOOLEAN :
            mmap(p, addr, length, prot, fixed, populate)
       \/ \E addr \in Pages, length \in UnmapLengths : munmap(p, addr, length)
       \/ \E addr \in Pages, length \in ProtLengths, prot \in Prots : mprotect(p, addr, length, prot)
       \/ \E size \in 1 .. DataEnd : do_expand(p, size)
       \/ \E size \in 1 .. DataEnd : MayShrink(p, size) /\ do_shrink(p, size)
       \/ do_cfork(p) \/ do_vfork(p) \/ do_exit(p)
       \/ \E page \in AllPages, v \in Values : store(p, page, v)
       \/ \E page \in AllPages, write \in BOOLEAN : do_page_fault(p, page, write)

Spec == Init /\ [][Next]_vars

-----------------------------------------------------------------------------
(***************************************************************************)
(* Properties                                                               *)
(***************************************************************************)
TypeOK ==
  /\ state \in [Slots -> {"UNUSED", "READY", "WAITING"}]
  /\ ppid \in [Slots -> 0 .. MAX_PROCESSES - 1] /\ pgd \in [Slots -> {0} \cup Spaces]
  /\ areas \in [Slots -> Seq(vm_area)] /\ next_free \in [Slots -> 1 .. DataEnd + 1]
  /\ pte \in [Spaces -> [AllPages -> [pfn : {NoFrame} \cup Frames, rw : BOOLEAN]]]
  /\ bitmap \subseteq Frames /\ refcount \in [Frames -> 0 .. 255]
  /\ mem \in [Frames -> Values \cup {NoValue}]

\* A page whose mapping is gone is not reachable any more: "Any access to
\* addresses within the deleted vm_area result in invalid memory references",
\* whatever munmap, shrink, MAP_POPULATE, cfork and a vfork child did before,
\* among processes made by cfork and vfork.  (It is false after do_fork, whose
\* child shares the vm_areas but not the entries.)
PresentOnlyMapped ==
  TypeOK /\ \A p \in Live : state[p] = "READY" => \A page \in Present(p) : Covered(p, page)

\* A store can succeed only where the segment or the vm_area allows it: the
\* entry never grants more than mprotect left in the area, although mprotect
\* does not touch the entries of shared frames.
WritableOnlyAllowed ==
  \A p \in Live, page \in AllPages :
     state[p] = "READY" /\ Entries(p)[page].rw => CowAllowed(p, page)

\* What the page table grants is never more than the segments and vm_areas do,
\* in processes made by cfork and vfork.
EntriesFollowAreas == PresentOnlyMapped /\ WritableOnlyAllowed

\* refcount "is used to maintain count of number of sharers for a physical
\* memory page": it is never less than the entries that name the frame, so no
\* frame in use is free, and a frame one entry can write has no other entry.
\* (It may be more: exit does not decrement.)
SharersCounted ==
  \A f \in Frames :
     /\ Cardinality(Sharers(f)) <= refcount[f]
     /\ refcount[f] > 0 => f \in bitmap
     /\ (\E e \in Sharers(f) : pte[e[1]][e[2]].rw) => Cardinality(Sharers(f)) = 1

\* The page tables that processes run on.
InUse == {pgd[p] : p \in Live}

\* What a process of each space reads in each page.
View == [s \in Spaces |-> [page \in AllPages |->
           IF s \in InUse /\ pte[s][page] # Absent THEN mem[pte[s][page].pfn] ELSE NoValue]]

Private == INSTANCE PrivateMemory WITH val <- View, used <- InUse

KeepsContents ==
  \A s \in Spaces, page \in AllPages : View[s][page] = NoValue \/ View'[s][page] \in {NoValue, View[s][page]}

\* "The child and the parent process run in separate memory spaces.  At the
\* time of cfork() both memory spaces have the same content": the space that a
\* cfork starts shows, page by page, what its parent's does; whatever cfork,
\* vfork, faults and exits share and copy, a process reads what it would read
\* in a private copy, and only its stores change it.
SeparateMemory ==
  /\ Private!Spec
  /\ [][(\E p \in Slots, page \in AllPages, v \in Values : store(p, page, v)) \/ KeepsContents]_vars
=============================================================================
