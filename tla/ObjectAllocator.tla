--------------------------- MODULE ObjectAllocator --------------------------
(***************************************************************************)
(* Kernel objects of gemOS (Assignment3/Ass3/src memory.c and the lists of  *)
(* lib.c): os_alloc hands out objects of a few size classes from pages of   *)
(* their own and reuses the ones os_free put into the free list of a class. *)
(* The nodes of the free lists come from a pool in which a node counts as   *)
(* free when its next pointer is NULL.  Areas of mmap are such objects.     *)
(*                                                                          *)
(* Page 0 holds the table of classes, then every class has a page, then     *)
(* come the pages of the node pool and the pages taken later.               *)
(***************************************************************************)
EXTENDS Integers, Sequences, FiniteSetsExt, Functions

CONSTANTS OBJ_PAGE,              \* bytes of a page (4096)
          MIN_SHIFT, MAX_SHIFT,  \* classes of 2^5 to 2^11 bytes
          Sizes,                 \* sizes the callers ask for
          Nodes,                 \* nodes of the pool (100 pages of 256)
          PageNodes,             \* nodes in a page
          MaxObjCalls            \* bound: calls in a behaviour

\* chunk_size of a class: 1 << shift.
ClassSize[i \in 0 .. MAX_SHIFT] == IF i = 0 THEN 1 ELSE 2 * ClassSize[i - 1]

ASSUME ObjectsAssumption ==
  /\ OBJ_PAGE \in Nat
  /\ MIN_SHIFT \in Nat /\ MAX_SHIFT \in Nat /\ MIN_SHIFT < MAX_SHIFT
  /\ Sizes \subseteq 1 .. ClassSize[MAX_SHIFT]
  /\ Nodes \in Nat /\ PageNodes \in 1 .. Nodes /\ MaxObjCalls \in Nat

VARIABLES ck,              \* free_position and current_pfn of every class
          freelist,        \* head, tail and size of every class
          node,            \* value and next of every node of the pool
          nodemem,         \* next_free and num_free of the pool
          handed,          \* nodes handed out so far: the history of node_alloc
          next_page,       \* the page OS_DS_REG gives next
          objects,         \* the objects in use
          freed,           \* per class the objects os_free got, in order
          broken           \* a node outside the pool or a node in use was taken

objVars == <<ck, freelist, node, nodemem, handed, next_page, objects, freed, broken>>

VARIABLE objCalls

Shifts == MIN_SHIFT .. MAX_SHIFT
NULL   == -1
NoItem == [page |-> 0, pos |-> 0, shift |-> 0, size |-> 0]
OutOfPool == Nodes              \* where the pool ends other data begin

\* An empty free list and a page for every class.
init_osalloc_chunks ==
  /\ ck = [i \in Shifts |-> [free_position |-> 0, current_pfn |-> 1 + i - MIN_SHIFT]]
  /\ freelist = [i \in Shifts |-> [head |-> NULL, tail |-> NULL, size |-> 0]]

\* num_free counts the pages of the pool but the first.
init_nodealloc_memory ==
  /\ node = [n \in 0 .. Nodes - 1 |-> [value |-> NoItem, next |-> NULL]]
  /\ nodemem = [next_free |-> 0, num_free |-> Nodes - PageNodes]
  /\ next_page = 2 + MAX_SHIFT - MIN_SHIFT + Nodes \div PageNodes

ObjInit ==
  /\ init_osalloc_chunks
  /\ init_nodealloc_memory
  /\ objects = {}
  /\ freed = [i \in Shifts |-> <<>>]
  /\ broken = FALSE
  /\ handed = 0
  /\ objCalls = 0

-----------------------------------------------------------------------------
\* The highest bit of size, at least the smallest class: the class os_free uses.
LowShift(size) == Max({i \in Shifts : ClassSize[i] <= size} \cup {MIN_SHIFT})

\* os_alloc goes one class up unless size is that power of two.
HighShift(size) == LowShift(size) + IF ClassSize[LowShift(size)] = size THEN 0 ELSE 1

\* The address of an object: its page, and its position times the class size.
Addr(o) == o.page * OBJ_PAGE + o.pos * ClassSize[o.shift]

\* The bytes of an object.
Extent(o) == Addr(o) .. Addr(o) + o.size - 1

\* The node may be handed out again; `ns' are the nodes after it was unlinked.
node_free(n, ns) == /\ node' = [ns EXCEPT ![n].next = NULL]
                    /\ nodemem' = [nodemem EXCEPT !.num_free = @ + 1]

dequeue_front(i) ==
  LET n == node[freelist[i].head].next
  IN  /\ freelist' = [freelist EXCEPT ![i].size = @ - 1]
      /\ node_free(n, [node EXCEPT ![freelist[i].head].next = node[n].next])

TakePosition(i, size) ==
  LET fresh == ck[i].free_position > OBJ_PAGE \div ClassSize[i]
      pfn == IF fresh THEN next_page ELSE ck[i].current_pfn
      pos == IF fresh THEN 0 ELSE ck[i].free_position
  IN  /\ ck' = [ck EXCEPT ![i] = [free_position |-> pos + 1, current_pfn |-> pfn]]
      /\ next_page' = IF fresh THEN next_page + 1 ELSE next_page
      /\ objects' = objects \cup {[page |-> pfn, pos |-> pos, shift |-> i, size |-> size]}

\* An object in the free list is taken first.
os_alloc(size) ==
  LET i == HighShift(size)
  IN  /\ ~broken
      /\ IF freelist[i].size > 0
         THEN LET n == node[freelist[i].head].next
                  old == node[n].value
              IN  /\ dequeue_front(i)
                  /\ objects' = objects \cup {[old EXCEPT !.size = size]}
                  /\ freed' = [freed EXCEPT ![i] = Tail(@)]
                  /\ UNCHANGED <<ck, next_page, handed, broken>>
         ELSE /\ TakePosition(i, size)
              /\ UNCHANGED <<freelist, node, nodemem, handed, freed, broken>>

-----------------------------------------------------------------------------
\* The first `size' nodes behind a head.
Walk(nodes, head, size) ==
  LET after(n) == IF n = NULL THEN NULL ELSE nodes[n].next
      walk[k \in 0 .. size] == IF k = 0 THEN head ELSE after(walk[k - 1])
  IN  [k \in 1 .. size |-> walk[k]]

\* The nodes of a free list, from its head on.
Chain(i) == Walk(node, freelist[i].head, freelist[i].size)

InLists == UNION {{freelist[i].head, freelist[i].tail} \cup Range(Chain(i)) : i \in Shifts}

\* node_alloc with the pool at k: the node at k, or the next one whose next
\* pointer is NULL, or after the end the first such one.  With k at the end of
\* the pool the first test reads what lies behind it, which may be NULL.
FreeFrom(k) == {n \in k .. Nodes - 1 : node[n].next = NULL}

node_alloc(k) ==
  LET wrapped == IF FreeFrom(0) = {} THEN OutOfPool ELSE Min(FreeFrom(0))
  IN  IF k >= Nodes THEN {OutOfPool, wrapped}
      ELSE {IF FreeFrom(k) = {} THEN wrapped ELSE Min(FreeFrom(k))}

\* The node for an item and, for a list used the first time, its sentinels.
NewNodes(first) ==
  LET one == {<<n>> : n \in node_alloc(nodemem.next_free)}
      more(S) == UNION {{Append(ns, n) : n \in node_alloc(ns[Len(ns)] + 1)} : ns \in S}
  IN  IF first THEN more(more(one)) ELSE one

\* The nodes are in the pool, different, and in no list; and there were enough.
Sound(ns) == /\ nodemem.num_free >= Len(ns)
             /\ IsInjective(ns)
             /\ Range(ns) \cap (InLists \cup {OutOfPool}) = {}

\* enqueue_tail.  next and prev of a node are the same word; the last node of a
\* list that had entries is left with a NULL next.
LinkOnly(i, n, h, t, item) ==
  /\ node' = [node EXCEPT ![n] = [value |-> item, next |-> t], ![h].next = n, ![t].next = n]
  /\ freelist' = [freelist EXCEPT ![i] = [head |-> h, tail |-> t, size |-> 1]]

LinkLast(i, n, item) ==
  LET tail == freelist[i].tail
  IN  /\ node' = [node EXCEPT ![n] = [value |-> item, next |-> NULL], ![node[tail].next].next = n, ![tail].next = n]
      /\ freelist' = [freelist EXCEPT ![i].size = @ + 1]

\* Mutant: the new node is not linked behind the last one.
Link_unlinked(i, ns, item) ==
  IF freelist[i].size > 0
  THEN /\ node' = [node EXCEPT ![ns[1]] = [value |-> item, next |-> NULL], ![freelist[i].tail].next = ns[1]]
       /\ freelist' = [freelist EXCEPT ![i].size = @ + 1]
  ELSE IF Len(ns) = 3 THEN LinkOnly(i, ns[1], ns[2], ns[3], item)
  ELSE LinkOnly(i, ns[1], freelist[i].head, freelist[i].tail, item)

Link(i, ns, item) ==
  IF freelist[i].size > 0 THEN LinkLast(i, ns[1], item)
  ELSE IF Len(ns) = 3 THEN LinkOnly(i, ns[1], ns[2], ns[3], item)
  ELSE LinkOnly(i, ns[1], freelist[i].head, freelist[i].tail, item)

enqueue_tail(i, item) ==
  \E ns \in NewNodes(freelist[i].head = NULL) :
    IF Sound(ns)
    THEN /\ Link(i, ns, item)
         /\ nodemem' = [next_free |-> ns[Len(ns)] + 1, num_free |-> nodemem.num_free - Len(ns)]
         /\ handed' = handed + Len(ns)
         /\ UNCHANGED broken
    ELSE /\ broken' = TRUE
         /\ UNCHANGED <<node, freelist, nodemem, handed>>

\* The object goes to the list of the class below its own when its size was not
\* a power of two.
os_free(o) ==
  LET i == LowShift(o.size)
  IN  /\ ~broken
      /\ o \in objects
      /\ objects' = objects \ {o}
      /\ freed' = [freed EXCEPT ![i] = Append(@, o)]
      /\ enqueue_tail(i, o)
      /\ UNCHANGED <<ck, next_page>>

ObjNext == /\ objCalls < MaxObjCalls /\ objCalls' = objCalls + 1
           /\ \/ \E size \in Sizes : os_alloc(size)
              \/ \E o \in objects : os_free(o)

ObjSpec == ObjInit /\ [][ObjNext]_<<objVars, objCalls>>

-----------------------------------------------------------------------------
(***************************************************************************)
(* Properties                                                               *)
(***************************************************************************)
\* An object whose position is the number of objects in a page lies in the next page.
Behind(o) == o.pos >= OBJ_PAGE \div ClassSize[o.shift]

\* No two kernel objects, in use or in a free list, share memory, through any
\* sequence of os_alloc and os_free and although the two choose the class of a
\* size differently; the exception is an object that lies behind its page.
ObjectsDisjoint ==
  LET all == objects \cup UNION {Range(freed[i]) : i \in Shifts}
  IN  \A o, p \in all : /\ o.size <= ClassSize[o.shift]
                        /\ o # p /\ ~Behind(o) /\ ~Behind(p) => Extent(o) \cap Extent(p) = {}

\* The free lists hold what os_free put into them, in that order, and nothing
\* goes wrong in the node pool before the pool was handed out once.
FreeListsKeep ==
  /\ ~broken => \A i \in Shifts :
                  /\ freelist[i].size = Len(freed[i])
                  /\ \A k \in 1 .. freelist[i].size :
                       Chain(i)[k] # NULL /\ node[Chain(i)[k]].value = freed[i][k]
  /\ broken => handed + 3 > Nodes \/ nodemem.num_free < 3

\* Kernel objects and the lists of free ones stay what os_alloc and os_free
\* made them, until the pool of list nodes runs out.
ObjectsSound == ObjectsDisjoint /\ FreeListsKeep
=============================================================================
