----------------------------- MODULE PageTables -----------------------------
(***************************************************************************)
(* Address spaces of gemOS (Assignment2, gemOS/src context.c, entry.c and   *)
(* apic.c): how init, fork, clone, page faults, expand, shrink and exit     *)
(* take pages from the allocator for the four levels of a page table, for   *)
(* kernel stacks and for user pages, and give them back.                    *)
(*                                                                          *)
(* The segments lie in different entries of the second level (PUD) of a     *)
(* table, so each has a third-level page (PMD) and a fourth-level page (PT) *)
(* of its own.  Pages of a segment are counted from its start, those of the *)
(* stack from its end downwards; next_free is the number of pages up to     *)
(* next_free.  A system call or fault runs with interrupts off: one step.   *)
(***************************************************************************)
EXTENDS PageAllocator, Functions, TLC

CONSTANTS MAX_PROCESSES,    \* 7; slot 0 is the swapper
          CODE_PAGES,       \* 8
          SegPages,         \* pages of each segment
          ShrinkShared,     \* whether programs shrink rodata another process maps
          MaxCalls,         \* bound: calls and faults in a behaviour
          PTSize, UserSize  \* sizes of OS_PT_REG and USER_REG in pages

Segs == {"code", "rodata", "data", "stack"}

ASSUME TablesAssumption == /\ MAX_PROCESSES \in Nat /\ MAX_PROCESSES > 1
                           /\ CODE_PAGES \in Nat \ {0}
                           /\ SegPages \in [Segs -> Nat \ {0}]
                           /\ CODE_PAGES <= SegPages["code"]
                           /\ PTSize \in Nat /\ UserSize \in Nat /\ MaxCalls \in Nat

VARIABLES pt, user,        \* the page lists of OS_PT_REG and USER_REG
          live,            \* slots whose process exists
          pgd, os_stack_pfn, next_free,      \* of every context
          table,           \* the tables by the page of their first level
          os_pmd_pfn,      \* the PMD install_os_pts allocated last
          lost_pt, lost,   \* pages in use that nothing refers to
          twice,           \* how often a page was freed twice
          clash,           \* a page in use was given out
          calls            \* calls and faults so far

ctxs  == <<live, pgd, os_stack_pfn, next_free>>
ghost == <<lost_pt, lost, twice, clash>>
vars  == <<pt, user, ctxs, table, os_pmd_pfn, ghost, calls>>

Procs == 1 .. MAX_PROCESSES - 1
Pages(s) == 0 .. SegPages[s] - 1

\* Writable segments by their access_flags.
Writable == {"data", "stack"}

NoEntry == [pfn |-> 0, w |-> FALSE]
Present(e) == e.pfn # 0

\* A table: its PUD page, per segment a PMD and a PT page, the last-level
\* entries, and the OS part.
NoTable == [pud |-> 0,
            pmd |-> [s \in Segs |-> 0],
            ptp |-> [s \in Segs |-> 0],
            pte |-> [s \in Segs |-> [i \in Pages(s) |-> NoEntry]],
            os  |-> <<0, 0>>,
            apic |-> 0]

\* get_user_pte: the pages of segment s below `upto' that are mapped for users.
get_user_pte(t, s, upto) == {i \in Pages(s) : i < upto /\ Present(t.pte[s][i])}

\* The user pages and the page-table pages of a table.
UserPages(t) == UNION {{t.pte[s][i].pfn : i \in get_user_pte(t, s, SegPages[s])} : s \in Segs}
TablePages(t) == ({t.pud, t.apic} \cup Range(t.os) \cup Range(t.pmd) \cup Range(t.ptp)) \ {0}

-----------------------------------------------------------------------------
\* install_ptable for segments without PMD and PT page yet, in the order of
\* `segs', with the pages `pfns' from index k on: entries 0x7 all the way.
InstallUpper(t, segs, pfns, k) ==
  [t EXCEPT !.pmd = [s \in Segs |-> IF \E j \in DOMAIN segs : segs[j] = s
                                    THEN pfns[k + 2 * (CHOOSE j \in DOMAIN segs : segs[j] = s) - 2]
                                    ELSE @[s]],
            !.ptp = [s \in Segs |-> IF \E j \in DOMAIN segs : segs[j] = s
                                    THEN pfns[k + 2 * (CHOOSE j \in DOMAIN segs : segs[j] = s) - 1]
                                    ELSE @[s]]]

\* The APIC's large page needs a PMD of its own; PGD entry and PUD are there.
install_apic_mapping(t, apic) == [t EXCEPT !.apic = apic]

\* Two PMDs for the 1024 large pages of the kernel, then the APIC.
install_os_pts(t, first, second, apic) ==
  install_apic_mapping([t EXCEPT !.os = <<first, second>>], apic)

\* copy_os_pts: the first four entries of the PUD.
copy_os_pts(src, dst) == [dst EXCEPT !.os = src.os, !.apic = src.apic]

\* The pages create_context and exec_init take, in their order: kernel stack,
\* PGD, PUD, PMD and PT of code, data and stack, two OS PMDs and the APIC's;
\* and user pages for the code, one page of data and one of stack.
INIT_PT   == 12
INIT_USER == CODE_PAGES + 2

ImageTable(p, u) ==
  LET base == [NoTable EXCEPT !.pud = p[3]]
      upper == InstallUpper(base, <<"code", "data", "stack">>, p, 4)
      pages == [upper EXCEPT
                  !.pte["code"]  = [i \in Pages("code") |->
                                      IF i < CODE_PAGES THEN [pfn |-> u[i + 1], w |-> FALSE] ELSE NoEntry],
                  !.pte["data"]  = [@ EXCEPT ![0] = [pfn |-> u[CODE_PAGES + 1], w |-> TRUE]],
                  !.pte["stack"] = [@ EXCEPT ![0] = [pfn |-> u[CODE_PAGES + 2], w |-> TRUE]]]
  IN  install_os_pts(pages, p[10], p[11], p[12])

ImageNextFree == [s \in Segs |-> CASE s = "code" -> CODE_PAGES
                                   [] s = "rodata" -> 0
                                   [] OTHER -> 1]

\* init_swapper has taken a page for the context table and one for the
\* swapper's kernel stack.
Init == /\ pt = os_pfn_allocs(init_pagelist(PTSize), 2).pgl
        /\ user = init_pagelist(UserSize)
        /\ live = {}
        /\ pgd = [p \in Procs |-> 0]
        /\ os_stack_pfn = [p \in Procs |-> 0]
        /\ next_free = [p \in Procs |-> [s \in Segs |-> 0]]
        /\ table = [g \in {} |-> NoTable]
        /\ os_pmd_pfn = 0
        /\ lost_pt = {} /\ lost = {} /\ twice = 0 /\ clash = FALSE
        /\ calls = 0

Runs(p) == p \in live /\ ~clash

\* The command init of the shell: create_context and exec_init.
exec_init ==
  /\ live = {} /\ ~clash
  /\ LET p == os_pfn_allocs(pt, INIT_PT)
         u == os_pfn_allocs(user, INIT_USER)
     IN  /\ pt' = p.pgl /\ user' = u.pgl
         /\ clash' = (p.clash \/ u.clash)
         /\ os_stack_pfn' = [os_stack_pfn EXCEPT ![1] = p.pfns[1]]
         /\ pgd' = [pgd EXCEPT ![1] = p.pfns[2]]
         /\ table' = (p.pfns[2] :> ImageTable(p.pfns, u.pfns))
         /\ os_pmd_pfn' = p.pfns[11]
  /\ next_free' = [next_free EXCEPT ![1] = ImageNextFree]
  /\ live' = {1}
  /\ UNCHANGED <<lost_pt, lost, twice>>

-----------------------------------------------------------------------------
\* get_new_ctx.  (What happens without a free slot is in Scheduler.)
NewCtx == Min(Procs \ live)

\* The segments, in the order of copy_mm, in which the parent has pages below
\* its next_free; and the pages of data and stack that are copied, in order.
CopiedSegs(p) ==
  SelectSeq(<<"code", "rodata", "data", "stack">>,
            LAMBDA s : get_user_pte(table[pgd[p]], s, next_free[p][s]) # {})

Copied(p, s) == get_user_pte(table[pgd[p]], s, next_free[p][s])
Rank(S, i) == Cardinality({j \in S : j <= i})

\* Mutant: the pages of the data segment are shared with the child.
copy_mm_shared(p, pfns, upfns) ==
  LET parent == table[pgd[p]]
      upper == InstallUpper([NoTable EXCEPT !.pud = pfns[2]], CopiedSegs(p), pfns, 3)
      entry(s, i) == IF i \notin Copied(p, s) THEN NoEntry
                     ELSE CASE s = "stack" -> [pfn |-> upfns[Cardinality(Copied(p, "data")) + Rank(Copied(p, s), i)], w |-> TRUE]
                            [] OTHER -> [pfn |-> parent.pte[s][i].pfn, w |-> s \in Writable]
      pages == [upper EXCEPT !.pte = [s \in Segs |-> [i \in Pages(s) |-> entry(s, i)]]]
  IN  copy_os_pts(parent, pages)

\* copy_mm: pages of code and rodata are shared, those of data and stack are
\* copied; what the parent has not mapped stays unmapped in the child.
copy_mm(p, pfns, upfns) ==
  LET parent == table[pgd[p]]
      upper == InstallUpper([NoTable EXCEPT !.pud = pfns[2]], CopiedSegs(p), pfns, 3)
      entry(s, i) ==
        IF i \notin Copied(p, s) THEN NoEntry
        ELSE CASE s = "data"  -> [pfn |-> upfns[Rank(Copied(p, s), i)], w |-> TRUE]
               [] s = "stack" -> [pfn |-> upfns[Cardinality(Copied(p, "data")) + Rank(Copied(p, s), i)], w |-> TRUE]
               [] OTHER       -> [pfn |-> parent.pte[s][i].pfn, w |-> FALSE]
      pages == [upper EXCEPT !.pte = [s \in Segs |-> [i \in Pages(s) |-> entry(s, i)]]]
  IN  copy_os_pts(parent, pages)

\* do_fork: copy_mm takes a PGD, a PUD and two pages per segment, then
\* setup_child_context a kernel stack.
do_fork(p) ==
  /\ Runs(p) /\ Procs # live
  /\ LET c == NewCtx
         n == 2 + 2 * Len(CopiedSegs(p)) + 1
         a == os_pfn_allocs(pt, n)
         u == os_pfn_allocs(user, Cardinality(Copied(p, "data")) + Cardinality(Copied(p, "stack")))
     IN  /\ pt' = a.pgl /\ user' = u.pgl
         /\ clash' = (a.clash \/ u.clash)
         /\ pgd' = [pgd EXCEPT ![c] = a.pfns[1]]
         /\ os_stack_pfn' = [os_stack_pfn EXCEPT ![c] = a.pfns[n]]
         /\ next_free' = [next_free EXCEPT ![c] = next_free[p]]
         /\ table' = (a.pfns[1] :> copy_mm(p, a.pfns, u.pfns)) @@ table
         /\ live' = live \cup {c}
  /\ UNCHANGED <<os_pmd_pfn, lost_pt, lost, twice>>

\* do_clone: a kernel stack, the caller's table and a copy of its segments.
do_clone(p) ==
  /\ Runs(p) /\ Procs # live
  /\ LET c == NewCtx
         a == os_pfn_alloc(pt)
     IN  /\ pt' = a.pgl
         /\ clash' = a.clash
         /\ pgd' = [pgd EXCEPT ![c] = pgd[p]]
         /\ os_stack_pfn' = [os_stack_pfn EXCEPT ![c] = a.pfn]
         /\ next_free' = [next_free EXCEPT ![c] = next_free[p]]
         /\ live' = live \cup {c}
  /\ UNCHANGED <<user, table, os_pmd_pfn, lost_pt, lost, twice>>

-----------------------------------------------------------------------------
\* install_page_table for the pages `order' (a sequence) of segment s: PMD and
\* PT page if they are missing, and a new user page per element whatever the
\* entry holds.  A fault for reading makes a page that cannot be written.
install_page_table(p, s, order, w) ==
  LET t == table[pgd[p]]
      fresh == t.pmd[s] = 0
      a == os_pfn_allocs(pt, IF fresh THEN 2 ELSE 0)
      u == os_pfn_allocs(user, Len(order))
      upper == IF fresh THEN [t EXCEPT !.pmd[s] = a.pfns[1], !.ptp[s] = a.pfns[2]] ELSE t
      last(i) == Max({k \in DOMAIN order : order[k] = i})
      new == [upper EXCEPT !.pte[s] = [i \in Pages(s) |->
                 IF \E k \in DOMAIN order : order[k] = i THEN [pfn |-> u.pfns[last(i)], w |-> w] ELSE @[i]]]
  IN  /\ pt' = a.pgl /\ user' = u.pgl
      /\ clash' = (a.clash \/ u.clash)
      /\ table' = [table EXCEPT ![pgd[p]] = new]
      /\ lost' = lost \cup ((UserPages(t) \cup Range(u.pfns)) \ UserPages(new))

\* The accesses that reach do_page_fault with the page not present.
Missing(p, s, i) == Runs(p) /\ i \in Pages(s) /\ ~Present(table[pgd[p]].pte[s][i])

data_fault(p, i, w) ==
  /\ Missing(p, "data", i)
  /\ i < next_free[p]["data"]
  /\ install_page_table(p, "data", <<i>>, w)
  /\ UNCHANGED <<ctxs, os_pmd_pfn, lost_pt, twice>>

\* Only for reads.
rodata_fault(p, i) ==
  /\ Missing(p, "rodata", i)
  /\ i < next_free[p]["rodata"]
  /\ install_page_table(p, "rodata", <<i>>, FALSE)
  /\ UNCHANGED <<ctxs, os_pmd_pfn, lost_pt, twice>>

\* The stack grows to page i: every page from next_free down to i is installed,
\* i a second time after the loop.
stack_fault(p, i, w) ==
  /\ Missing(p, "stack", i)
  /\ i >= next_free[p]["stack"]
  /\ LET n == next_free[p]["stack"]
         order == [k \in 1 .. i - n + 2 |-> IF k = i - n + 2 THEN i ELSE n + k - 1]
     IN  install_page_table(p, "stack", order, w)
  /\ next_free' = [next_free EXCEPT ![p]["stack"] = i + 1]
  /\ UNCHANGED <<live, pgd, os_stack_pfn, os_pmd_pfn, lost_pt, twice>>

-----------------------------------------------------------------------------
do_expand(p, s) ==
  /\ Runs(p)
  /\ next_free[p][s] < SegPages[s]
  /\ next_free' = [next_free EXCEPT ![p][s] = @ + 1]
  /\ UNCHANGED <<pt, user, live, pgd, os_stack_pfn, table, os_pmd_pfn, ghost>>

\* Mutant: the entry is cleared and the page is not freed.
do_unmap_user_kept(t, s, i) == [list |-> user, t |-> [t EXCEPT !.pte[s][i] = NoEntry]]

\* do_unmap_user: the page of the entry is freed and the entry cleared.
do_unmap_user(t, s, i) ==
  [list |-> IF Present(t.pte[s][i]) THEN os_page_free(user, t.pte[s][i].pfn) ELSE user,
   t    |-> [t EXCEPT !.pte[s][i] = NoEntry]]

\* Another table has the page that table g has at page i of s.
SharedPage(g, s, i) ==
  \E h \in DOMAIN table \ {g} : Present(table[h].pte[s][i]) /\ table[h].pte[s][i] = table[g].pte[s][i]

\* do_shrink by one page.
do_shrink(p, s) ==
  /\ Runs(p)
  /\ next_free[p][s] > 0
  /\ ShrinkShared \/ ~SharedPage(pgd[p], s, next_free[p][s] - 1)
  /\ LET i == next_free[p][s] - 1
         r == do_unmap_user(table[pgd[p]], s, i)
     IN  /\ next_free' = [next_free EXCEPT ![p][s] = i]
         /\ user' = r.list
         /\ table' = [table EXCEPT ![pgd[p]] = r.t]
  /\ UNCHANGED <<pt, live, pgd, os_stack_pfn, os_pmd_pfn, ghost>>

\* pt_cleanup: the user pages of a table, and its pages of all levels except the
\* PMDs in the first two entries of the PUD.
pt_cleanup(g) ==
  [user |-> os_pages_free(user, UserPages(table[g])),
   tables |-> (TablePages(table[g]) \ Range(table[g].os)) \cup {g}]

\* do_cleanup: the kernel stack once more, the table, and one of the OS PMDs.
do_cleanup(p, stackfreed) ==
  LET r == pt_cleanup(pgd[p])
      again == os_page_free(stackfreed, os_stack_pfn[p])
  IN  /\ pt' = os_page_free(os_pages_free(again, r.tables), os_pmd_pfn)
      /\ user' = r.user
      /\ twice' = twice + 1
      /\ lost_pt' = lost_pt \cup (Range(table[pgd[p]].os) \ {os_pmd_pfn})
      /\ table' = [g \in {} |-> NoTable]
      /\ UNCHANGED lost

\* Only the kernel stack is freed while another process exists; the table stays
\* allocated, and is lost unless a thread uses it.  (What the context of a dead
\* process holds is overwritten before it is read, and is 0 here.)
do_exit(p) ==
  /\ Runs(p)
  /\ live' = live \ {p}
  /\ LET stackfreed == os_page_free(pt, os_stack_pfn[p])
         g == pgd[p]
         others == DOMAIN table \ {g}
         rest == [h \in others |-> table[h]]
         reach(pages(_)) == UNION {pages(table[h]) : h \in others}
     IN  IF live = {p} THEN do_cleanup(p, stackfreed)
         ELSE /\ pt' = stackfreed
              /\ IF \E q \in live \ {p} : pgd[q] = g
                 THEN UNCHANGED <<table, lost_pt, lost>>
                 ELSE /\ table' = rest
                      /\ lost' = lost \cup (UserPages(table[g]) \ reach(UserPages))
                      /\ lost_pt' = lost_pt \cup ((TablePages(table[g]) \cup {g}) \ reach(TablePages))
              /\ UNCHANGED <<user, twice>>
  /\ pgd' = [pgd EXCEPT ![p] = 0]
  /\ os_stack_pfn' = [os_stack_pfn EXCEPT ![p] = 0]
  /\ next_free' = [next_free EXCEPT ![p] = [s \in Segs |-> 0]]
  /\ UNCHANGED <<os_pmd_pfn, clash>>

Counted == calls < MaxCalls /\ calls' = calls + 1

Next == /\ Counted
        /\ \/ exec_init
           \/ \E p \in Procs :
                \/ do_fork(p) \/ do_clone(p) \/ do_exit(p)
                \/ \E s \in {"rodata", "data"} : do_expand(p, s) \/ do_shrink(p, s)
                \/ \E i \in Pages("rodata") : rodata_fault(p, i)
                \/ \E w \in BOOLEAN : \/ \E i \in Pages("data") : data_fault(p, i, w)
                                      \/ \E i \in Pages("stack") : stack_fault(p, i, w)

Spec == Init /\ [][Next]_vars

-----------------------------------------------------------------------------
(***************************************************************************)
(* Properties                                                               *)
(***************************************************************************)
TypeOK == /\ pt \in PageLists(PTSize) /\ user \in PageLists(UserSize)
          /\ live \subseteq Procs
          /\ pgd \in [Procs -> 0 .. PTSize - 1]
          /\ os_stack_pfn \in [Procs -> 0 .. PTSize - 1]
          /\ \A p \in Procs : \A s \in Segs : next_free[p][s] \in 0 .. SegPages[s]
          /\ DOMAIN table = {pgd[p] : p \in live}
          /\ lost_pt \subseteq 0 .. PTSize - 1 /\ lost \subseteq 0 .. UserSize - 1
          /\ twice \in Nat /\ clash \in BOOLEAN
          /\ calls \in 0 .. MaxCalls

\* What kernel structures refer to a page of OS_PT_REG as theirs alone: kernel
\* stacks, and the levels of the tables.
PTNames ==
  LET per(g) == {<<"pgd", g>>, <<"pud", g>>}
                  \cup {<<"pmd", g, s>> : s \in {r \in Segs : table[g].pmd[r] # 0}}
                  \cup {<<"ptp", g, s>> : s \in {r \in Segs : table[g].ptp[r] # 0}}
  IN  {<<"stack", p>> : p \in live} \cup UNION {per(g) : g \in DOMAIN table}

PTPage(n) == CASE n[1] = "stack" -> os_stack_pfn[n[2]]
               [] n[1] = "pgd"   -> n[2]
               [] n[1] = "pud"   -> table[n[2]].pud
               [] n[1] = "pmd"   -> table[n[2]].pmd[n[3]]
               [] n[1] = "ptp"   -> table[n[2]].ptp[n[3]]

OSPages == UNION {Range(table[g].os) \cup {table[g].apic} : g \in DOMAIN table}

UserEntries ==
  UNION {{<<g, s, i>> : i \in get_user_pte(table[g], s, SegPages[s])} : g \in DOMAIN table, s \in Segs}
Entry(n) == table[n[1]].pte[n[2]][n[3]]

\* "Must be unique for every context", "CODE and RODATA are shared now!": a
\* page has one use.  Kernel stacks and page-table pages belong to one context
\* or one table, every page in a table is marked as used in its region, and a
\* user page is in two tables only if neither may write it.
PagesOwned ==
  /\ TypeOK
  /\ ~clash =>
       /\ \A m, n \in PTNames : PTPage(m) = PTPage(n) => m = n
       /\ \A n \in PTNames : PTPage(n) \in pt.used \ OSPages
       /\ OSPages \subseteq pt.used
       /\ \A e \in UserEntries : Entry(e).pfn \in user.used
       /\ \A e, f \in UserEntries :
            Entry(e).pfn = Entry(f).pfn => e = f \/ (~Entry(e).w /\ ~Entry(f).w)

\* The books of the allocator: the pages in use are the ones the kernel started
\* with, the ones a structure refers to, and the ones lost at the exit of a
\* process that is not the last, at a stack fault, and with the first OS PMD of
\* every init; free_pages is too high by one for every last exit, which frees
\* its kernel stack twice.
Reserved(size) == 0 .. BitmapPages(size) - 1
BootPages == {BitmapPages(PTSize), BitmapPages(PTSize) + 1}

PagesAccounted ==
  ~clash =>
    /\ pt.used = Reserved(PTSize) \cup BootPages \cup {PTPage(n) : n \in PTNames} \cup OSPages \cup lost_pt
    /\ user.used = Reserved(UserSize) \cup {Entry(e).pfn : e \in UserEntries} \cup lost
    /\ pt.free_pages = PTSize - Cardinality(pt.used) + twice
    /\ user.free_pages = UserSize - Cardinality(user.used)
=============================================================================
