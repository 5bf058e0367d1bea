--------------------------- MODULE PageAllocator ----------------------------
(***************************************************************************)
(* The page lists of gemOS (Assignment2, gemOS/src/memory.c): one bitmap    *)
(* per memory region, scanned a word at a time from the word in which the   *)
(* last free page was found.  A page list is a record; pages are numbered   *)
(* from the start of the region, whose first pages hold the bitmap itself.  *)
(***************************************************************************)
EXTENDS Integers, Sequences, FiniteSets, FiniteSetsExt

CONSTANTS WORD,        \* bits of a word of the bitmap (32)
          SCAN,        \* pages of a region per scanned word (256, from size >> 8)
          PAGE_SIZE    \* bytes of a page (4096)

ASSUME AllocatorAssumption == WORD \in Nat \ {0} /\ SCAN \in Nat \ {0} /\ PAGE_SIZE \in Nat \ {0}

\* The bitmap of a region has size >> 3 bytes, rounded up to whole pages.
BitmapPages(size) == (size \div 8 + PAGE_SIZE - 1) \div PAGE_SIZE

\* `used' are the pages whose bit is set.
init_pagelist(size) ==
  LET pages_to_reserve == BitmapPages(size)
  IN  [size |-> size,
       used |-> 0 .. pages_to_reserve - 1,
       free_pages |-> size - pages_to_reserve,
       last_free_pos |-> pages_to_reserve \div WORD]

WordPages(w) == w * WORD .. w * WORD + WORD - 1
Full(pgl, w) == WordPages(w) \subseteq pgl.used

\* The words from last_free_pos on are searched for one that is not full; only
\* one word in eight belongs to the part that is searched.  Behind its end the
\* search goes back to word 0, and takes what follows word 0 when that is full.
ScanWord(pgl) ==
  LET size_in_u32 == pgl.size \div SCAN
      candidates == {w \in pgl.last_free_pos .. size_in_u32 - 1 : ~Full(pgl, w)}
  IN  IF candidates = {} THEN 0 ELSE Min(candidates)

FirstClear(pgl, w) == Min({b \in 0 .. WORD - 1 : w * WORD + b \notin pgl.used} \cup {WORD})

\* The page, whether its bit was set already, and the list afterwards.
get_free_page(pgl) ==
  LET w == ScanWord(pgl)
      pfn == w * WORD + FirstClear(pgl, w)
  IN  [pfn |-> pfn, clash |-> pfn \in pgl.used,
       pgl |-> [pgl EXCEPT !.used = @ \cup {pfn}, !.free_pages = @ - 1, !.last_free_pos = w]]

\* Page 0 stands for the NULL of an empty region; no region gives out its page 0.
os_pfn_alloc(pgl) ==
  IF pgl.free_pages = 0 THEN [pfn |-> 0, clash |-> FALSE, pgl |-> pgl] ELSE get_free_page(pgl)

\* n calls of os_pfn_alloc, one after the other.
os_pfn_allocs(pgl, n) ==
  LET after[i \in 0 .. n] ==
        IF i = 0 THEN [pfns |-> <<>>, clash |-> FALSE, pgl |-> pgl]
        ELSE LET before == after[i - 1]
                 page == os_pfn_alloc(before.pgl)
             IN  [pfns |-> Append(before.pfns, page.pfn),
                  clash |-> before.clash \/ page.clash,
                  pgl |-> page.pgl]
  IN  after[n]

\* A free does not look at the bit it clears, only at the borders of the region.
os_page_free(pgl, pfn) ==
  IF pfn <= 0 \/ pfn >= pgl.size THEN pgl
  ELSE [pgl EXCEPT !.used = @ \ {pfn}, !.free_pages = @ + 1]

\* Freeing the pages of a set, each once.
os_pages_free(pgl, pfns) ==
  LET inside == {pfn \in pfns : pfn > 0 /\ pfn < pgl.size}
  IN  [pgl EXCEPT !.used = @ \ inside, !.free_pages = @ + Cardinality(inside)]

PageLists(size) == [size : {size}, used : SUBSET (0 .. size - 1), free_pages : 0 .. size,
                    last_free_pos : 0 .. size \div SCAN]
=============================================================================
