------------------------- MODULE KernelMemoryProofs -------------------------
(***************************************************************************)
(* Proofs about the memory of the kernel: the pages that the structures of  *)
(* the kernel and the user segments own (PageTables), for any number of     *)
(* processes and any sizes of segments and regions; and the objects of      *)
(* os_alloc (ObjectAllocator), for any classes, sizes of a page and of the  *)
(* node pool.                                                               *)
(***************************************************************************)
EXTENDS PageTables, ObjectAllocator, FiniteSetTheorems, SequenceTheorems, WellFoundedInduction, TLAPS

-----------------------------------------------------------------------------
(***************************************************************************)
(* Numbers, and definitions by recursion                                    *)
(***************************************************************************)
\* A non-empty set of naturals has the minimum that Min chooses.
LEMMA MinOf ==
  ASSUME NEW S \in SUBSET Nat, S # {}
  PROVE  Min(S) \in S /\ \A y \in S : Min(S) <= y
<1>1. PICK x \in S : \A y \in S : ~(<<y, x>> \in OpToRel(<, Nat))
  BY NatLessThanWellFounded, WFMin
<1>2. \A y \in S : ~(y < x)
  BY <1>1, Zenon DEF OpToRel
<1>3. \A y \in S : x <= y
  BY <1>2
<1> QED
  BY <1>3 DEF Min

\* Min and Max of two numbers.
LEMMA MinMax ==
  ASSUME NEW a \in Int, NEW b \in Int
  PROVE  /\ Min({a, b}) = IF a <= b THEN a ELSE b
         /\ Max({a, b}) = IF a >= b THEN a ELSE b
BY DEF Min, Max

\* Induction up to n, with a set for the property.
LEMMA Induct ==
  ASSUME NEW S, NEW n \in Nat, 0 \in S, \A i \in 1 .. n : i - 1 \in S => i \in S
  PROVE  \A i \in 0 .. n : i \in S
<1> DEFINE Bad == {i \in 0 .. n : i \notin S}
<1>1. SUFFICES ASSUME Bad # {} PROVE FALSE
  OBVIOUS
<1>2. Min(Bad) \in Bad /\ \A y \in Bad : Min(Bad) <= y
  BY <1>1, MinOf
<1>3. Min(Bad) \in 1 .. n
  BY <1>2
<1>4. Min(Bad) - 1 \in S
  BY <1>2, <1>3
<1> QED
  BY <1>2, <1>3, <1>4

\* f is defined by recursion up to n, from d by the steps g[i].
Follows(f, D, d, n, g) ==
  f \in [0 .. n -> D] /\ f[0] = d /\ \A i \in 1 .. n : f[i] = g[i][f[i - 1]]

\* A function defined by recursion up to n exists.
LEMMA Recursion ==
  ASSUME NEW D, NEW d \in D, NEW n \in Nat, NEW g \in [1 .. n -> [D -> D]]
  PROVE  \E f : Follows(f, D, d, n, g)
<1> DEFINE Upto(m, f) == f[0] = d /\ \A i \in 1 .. m : f[i] = g[i][f[i - 1]]
           S == {m \in 0 .. n : \E f \in [0 .. m -> D] : Upto(m, f)}
<1>1. 0 \in S
  <2>1. Upto(0, [i \in 0 .. 0 |-> d]) /\ [i \in 0 .. 0 |-> d] \in [0 .. 0 -> D]
    OBVIOUS
  <2> HIDE DEF Upto
  <2> QED BY <2>1
<1>2. ASSUME NEW m \in 1 .. n, m - 1 \in S PROVE m \in S
  <2>1. PICK f \in [0 .. m - 1 -> D] : Upto(m - 1, f)
    BY <1>2
  <2> DEFINE h == [i \in 0 .. m |-> IF i = m THEN g[m][f[m - 1]] ELSE f[i]]
  <2>2. h \in [0 .. m -> D]
    OBVIOUS
  <2>3. Upto(m, h)
    BY <2>1
  <2> HIDE DEF Upto, h
  <2> QED BY <2>2, <2>3
<1> HIDE DEF S
<1>3. \A i \in 0 .. n : i \in S
  BY <1>1, <1>2, Induct
<1>4. n \in S
  BY <1>3
<1> QED BY <1>4 DEF S, Follows

-----------------------------------------------------------------------------
(***************************************************************************)
(* Objects: classes and addresses                                           *)
(***************************************************************************)
\* The class sizes are powers of two.
LEMMA Powers ==
  /\ \A i \in 0 .. MAX_SHIFT : ClassSize[i] \in Nat \ {0}
  /\ \A i \in 1 .. MAX_SHIFT : ClassSize[i] = 2 * ClassSize[i - 1]
<1>0. MAX_SHIFT \in Nat
  BY ObjectsAssumption
<1> DEFINE M == MAX_SHIFT
           D == Nat \ {0}
           g == [i \in 1 .. M |-> [x \in D |-> 2 * x]]
           body(h) == [i \in 0 .. M |-> IF i = 0 THEN 1 ELSE 2 * h[i - 1]]
<1>1. PICK f : Follows(f, D, 1, M, g)
  <2>1. g \in [1 .. M -> [D -> D]] /\ 1 \in D
    OBVIOUS
  <2> HIDE DEF g, D, M
  <2> QED BY <1>0, <2>1, Recursion DEF M
<1>2. f \in [0 .. M -> D] /\ f[0] = 1 /\ \A i \in 1 .. M : f[i] = 2 * f[i - 1]
  <2>1. \A i \in 1 .. M, x \in D : g[i][x] = 2 * x
    OBVIOUS
  <2>2. f \in [0 .. M -> D] /\ f[0] = 1 /\ \A i \in 1 .. M : f[i] = g[i][f[i - 1]]
    BY <1>1 DEF Follows
  <2>3. \A i \in 1 .. M : f[i - 1] \in D
    BY <1>0, <2>2
  <2> HIDE DEF g, D
  <2> QED BY <2>1, <2>2, <2>3
<1>3. f = body(f)
  <2>1. \A i \in 0 .. M : f[i] = IF i = 0 THEN 1 ELSE 2 * f[i - 1]
    BY <1>0, <1>2
  <2>2. f = [i \in 0 .. M |-> f[i]]
    BY <1>2
  <2> QED BY <2>1, <2>2
<1>4. ASSUME NEW h, h = body(h) PROVE h = f
  <2> DEFINE S == {i \in 0 .. M : h[i] = f[i]}
  <2>0. \A i \in 0 .. M : h[i] = IF i = 0 THEN 1 ELSE 2 * h[i - 1]
    BY <1>4
  <2>1. 0 \in S
    BY <1>0, <1>2, <2>0
  <2>2. ASSUME NEW i \in 1 .. M, i - 1 \in S PROVE i \in S
    BY <1>0, <1>2, <2>0, <2>2
  <2> HIDE DEF S
  <2>3. \A i \in 0 .. M : i \in S
    BY <1>0, <2>1, <2>2, Induct DEF M
  <2>4. \A i \in 0 .. M : h[i] = f[i]
    BY <2>3 DEF S
  <2>5. h = [i \in 0 .. M |-> h[i]] /\ f = [i \in 0 .. M |-> f[i]]
    BY <1>2, <1>4
  <2> QED BY <2>4, <2>5
<1>5. ClassSize = CHOOSE h : h = body(h)
  BY DEF ClassSize
<1> HIDE DEF body
<1>6. ClassSize = f
  BY <1>3, <1>4, <1>5
<1> QED BY <1>0, <1>2, <1>6

\* A higher class has larger objects.
LEMMA Larger ==
  ASSUME NEW i \in 0 .. MAX_SHIFT, NEW j \in 0 .. MAX_SHIFT, i < j
  PROVE  ClassSize[i] < ClassSize[j]
<1> DEFINE S == {d \in 0 .. j - i - 1 : ClassSize[i] < ClassSize[i + 1 + d]}
<1>0. MAX_SHIFT \in Nat /\ j - i - 1 \in Nat /\ i + 1 \in 1 .. MAX_SHIFT
  BY ObjectsAssumption
<1>1. 0 \in S
  <2>1. ClassSize[i + 1] = 2 * ClassSize[(i + 1) - 1] /\ (i + 1) - 1 = i /\ i + 1 + 0 = i + 1
    BY <1>0, Powers
  <2>2. ClassSize[i] \in Nat \ {0}
    BY Powers
  <2> QED BY <1>0, <2>1, <2>2
<1>2. ASSUME NEW d \in 1 .. j - i - 1, d - 1 \in S PROVE d \in S
  <2> DEFINE k == i + 1 + d
  <2>1. k \in 1 .. MAX_SHIFT /\ k - 1 = i + 1 + (d - 1) /\ k - 1 \in 0 .. MAX_SHIFT
    BY <1>0
  <2>2. ClassSize[k] = 2 * ClassSize[k - 1] /\ ClassSize[k - 1] \in Nat \ {0} /\ ClassSize[i] \in Nat
    BY <2>1, Powers
  <2>3. ClassSize[i] < ClassSize[k - 1]
    BY <1>2, <2>1
  <2>4. ClassSize[i] < ClassSize[k]
    BY <2>2, <2>3
  <2> QED BY <1>0, <2>4
<1> HIDE DEF S
<1>3. \A d \in 0 .. j - i - 1 : d \in S
  BY <1>0, <1>1, <1>2, Induct
<1>4. j - i - 1 \in S
  BY <1>0, <1>3
<1>5. i + 1 + (j - i - 1) = j
  BY <1>0
<1> QED BY <1>4, <1>5 DEF S

\* A non-empty set of classes has the maximum that Max chooses.
LEMMA MaxOf ==
  ASSUME NEW S \in SUBSET Nat, S # {}, NEW m \in Nat, \A x \in S : x <= m
  PROVE  Max(S) \in S /\ \A y \in S : Max(S) >= y
<1> DEFINE T == {m - x : x \in S}
<1>1. T \in SUBSET Nat /\ T # {}
  <2>1. \A x \in S : m - x \in Nat
    OBVIOUS
  <2> QED BY <2>1
<1>2. Min(T) \in T /\ \A y \in T : Min(T) <= y
  BY <1>1, MinOf
<1>3. PICK z \in S : Min(T) = m - z
  BY <1>2
<1>4. \A y \in S : m - z <= m - y
  BY <1>2, <1>3
<1>5. \A y \in S : z >= y
  BY <1>4
<1> QED BY <1>5 DEF Max

\* The class of os_free, and the class of os_alloc, for a size.
LEMMA LowIs ==
  ASSUME NEW size \in Nat
  PROVE  /\ LowShift(size) \in Shifts
         /\ ClassSize[LowShift(size)] <= size \/ LowShift(size) = MIN_SHIFT
         /\ \A i \in Shifts : ClassSize[i] <= size => i <= LowShift(size)
<1> DEFINE S == {i \in Shifts : ClassSize[i] <= size} \cup {MIN_SHIFT}
<1>1. S \in SUBSET Nat /\ S # {} /\ MAX_SHIFT \in Nat /\ \A x \in S : x <= MAX_SHIFT /\ x \in Shifts
  BY ObjectsAssumption DEF Shifts
<1>2. LowShift(size) = Max(S)
  BY DEF LowShift
<1>3. Max(S) \in S /\ \A y \in S : Max(S) >= y
  <2> HIDE DEF S
  <2> QED BY <1>1, MaxOf
<1> QED BY <1>1, <1>2, <1>3

\* The class an object is taken from is large enough for it.
LEMMA HighIs ==
  ASSUME NEW size \in Sizes
  PROVE  HighShift(size) \in Shifts /\ size <= ClassSize[HighShift(size)] /\ size \in Nat
<1>0. /\ MIN_SHIFT \in Nat /\ MAX_SHIFT \in Nat /\ MIN_SHIFT < MAX_SHIFT
      /\ size \in 1 .. ClassSize[MAX_SHIFT] /\ size \in Nat
  BY ObjectsAssumption
<1>1. \A i \in Shifts : ClassSize[i] \in Nat
  BY <1>0, Powers DEF Shifts
<1> DEFINE low == LowShift(size)
<1>2. /\ low \in Shifts /\ low \in Nat
      /\ ClassSize[low] <= size \/ low = MIN_SHIFT
      /\ \A i \in Shifts : ClassSize[i] <= size => i <= low
  BY <1>0, LowIs DEF Shifts
<1>3. HighShift(size) = IF ClassSize[low] = size THEN low ELSE low + 1
  BY <1>2 DEF HighShift
<1> HIDE DEF low
<1>4. CASE ClassSize[low] = size
  BY <1>0, <1>1, <1>2, <1>3, <1>4
<1>5. CASE ClassSize[low] # size
  <2>1. MAX_SHIFT \in Shifts /\ ClassSize[MAX_SHIFT] \in Nat
    BY <1>0, <1>1 DEF Shifts
  <2>2. low # MAX_SHIFT
    BY <1>0, <1>2, <1>5, <2>1
  <2>3. low + 1 \in Shifts /\ ~(low + 1 <= low)
    BY <1>0, <1>2, <2>2 DEF Shifts
  <2>4. ~(ClassSize[low + 1] <= size) /\ ClassSize[low + 1] \in Nat
    BY <1>1, <1>2, <2>3
  <2> QED BY <1>0, <1>3, <1>5, <2>3, <2>4
<1> QED BY <1>4, <1>5

\* An object never goes to the list of a class above its own.
LEMMA LowFits ==
  ASSUME NEW size \in Nat, NEW shift \in Shifts, size <= ClassSize[shift]
  PROVE  LowShift(size) <= shift
<1> DEFINE low == LowShift(size)
<1>1. /\ low \in Shifts /\ (ClassSize[low] <= size \/ low = MIN_SHIFT)
      /\ MIN_SHIFT \in Nat /\ MAX_SHIFT \in Nat
  BY LowIs, ObjectsAssumption
<1> HIDE DEF low
<1>2. low \in 0 .. MAX_SHIFT /\ shift \in 0 .. MAX_SHIFT /\ MIN_SHIFT <= shift
  BY <1>1 DEF Shifts
<1>3. ClassSize[low] \in Nat /\ ClassSize[shift] \in Nat
  BY <1>2, Powers
<1>4. CASE low = MIN_SHIFT
  BY <1>2, <1>4 DEF low
<1>5. CASE ClassSize[low] <= size
  <2>1. ClassSize[low] <= ClassSize[shift]
    BY <1>3, <1>5
  <2>2. ~(shift < low)
    BY <1>2, <1>3, <2>1, Larger
  <2> QED BY <1>2, <2>2 DEF low
<1> QED BY <1>1, <1>4, <1>5

\* Products grow with their factors.
LEMMA Product ==
  ASSUME NEW a \in Nat, NEW b \in Nat, NEW c \in Nat, a < b
  PROVE  a * c + c <= b * c /\ a * c \in Nat /\ b * c \in Nat
<1>1. b = (a + 1) + (b - a - 1) /\ b - a - 1 \in Nat
  OBVIOUS
<1>2. b * c = (a + 1) * c + (b - a - 1) * c /\ (b - a - 1) * c \in Nat /\ (a + 1) * c = a * c + c
  BY <1>1
<1> QED BY <1>2

\* A quotient, taken times its divisor, does not exceed the number divided.
LEMMA Quotient ==
  ASSUME NEW a \in Nat, NEW c \in Nat \ {0}
  PROVE  a \div c \in Nat /\ (a \div c) * c <= a
<1>1. a \div c \in Int /\ a % c \in 0 .. c - 1 /\ a = c * (a \div c) + (a % c)
  OBVIOUS
<1> DEFINE q == a \div c
           r == a % c
<1> HIDE DEF q, r
<1>2. q \in Int /\ r \in 0 .. c - 1 /\ a = c * q + r
  BY <1>1 DEF q, r
<1>3. q >= 0
  <2> SUFFICES ASSUME q < 0 PROVE FALSE
    BY <1>2
  <2>1. -q - 1 \in Nat /\ c * (-q - 1) \in Nat /\ c * q = -(c * (-q - 1)) - c
    BY <1>2
  <2> QED BY <1>2, <2>1
<1>4. q * c = c * q
  BY <1>2
<1> QED BY <1>2, <1>3, <1>4 DEF q

-----------------------------------------------------------------------------
(***************************************************************************)
(* Objects: pages and positions                                             *)
(***************************************************************************)
Pool == 0 .. Nodes - 1

KernelObject == [page : Nat, pos : Nat, shift : Shifts, size : Nat]
NodeItem == [page : Nat, pos : Nat, shift : Nat, size : Nat]

\* The types of the variables of ObjectAllocator.
ObjTyped ==
  /\ ck \in [Shifts -> [free_position : Nat, current_pfn : Nat]]
  /\ next_page \in Nat
  /\ objects \in SUBSET KernelObject
  /\ freed \in [Shifts -> Seq(KernelObject)]

\* Every object, in use or in a free list.
Together(objs, lists) == objs \cup UNION {Range(lists[i]) : i \in Shifts}
AllObjects == Together(objects, freed)

\* Two objects at the same place.
SamePlace(o, p) == o.page = p.page /\ o.pos = p.pos

\* A page has objects of one class, the current pages of the classes differ and
\* have nothing at the positions still free, and later pages have nothing.
PagesKept ==
  /\ \A o \in AllObjects : o.page < next_page /\ o.size <= ClassSize[o.shift]
  /\ \A o \in AllObjects, i \in Shifts :
       o.page = ck[i].current_pfn => o.shift = i /\ o.pos < ck[i].free_position
  /\ \A o, p \in AllObjects : o.page = p.page => o.shift = p.shift
  /\ \A i \in Shifts : ck[i].current_pfn < next_page
  /\ \A i, j \in Shifts : ck[i].current_pfn = ck[j].current_pfn => i = j

\* A place has one object, and it is in use or once in one free list, that of
\* its class or of a smaller one.
OnePlace ==
  /\ \A o, p \in objects : SamePlace(o, p) => o = p
  /\ \A i, j \in Shifts : \A k \in 1 .. Len(freed[i]), l \in 1 .. Len(freed[j]) :
       SamePlace(freed[i][k], freed[j][l]) => i = j /\ k = l
  /\ \A o \in objects, i \in Shifts : \A k \in 1 .. Len(freed[i]) : ~SamePlace(o, freed[i][k])
  /\ \A i \in Shifts : \A k \in 1 .. Len(freed[i]) : i <= freed[i][k].shift

ObjInv == ObjTyped /\ PagesKept /\ OnePlace

\* The objects of the free lists.
LEMMA StoredIs ==
  ASSUME NEW objs \in SUBSET KernelObject, NEW lists \in [Shifts -> Seq(KernelObject)]
  PROVE  /\ \A i \in Shifts : Len(lists[i]) \in Nat /\ \A k \in 1 .. Len(lists[i]) : lists[i][k] \in Together(objs, lists)
         /\ \A o \in Together(objs, lists) : o \in KernelObject
         /\ \A o \in Together(objs, lists) : o \in objs \/ \E i \in Shifts : \E k \in 1 .. Len(lists[i]) : o = lists[i][k]
<1>1. \A i \in Shifts : lists[i] \in Seq(KernelObject)
  OBVIOUS
<1>2. \A i \in Shifts : /\ Len(lists[i]) \in Nat /\ DOMAIN lists[i] = 1 .. Len(lists[i])
                        /\ \A k \in 1 .. Len(lists[i]) : lists[i][k] \in KernelObject
  BY <1>1, LenProperties, ElementOfSeq
<1>3. \A i \in Shifts : \A k \in 1 .. Len(lists[i]) : lists[i][k] \in Range(lists[i])
  BY <1>2 DEF Range
<1>4. \A i \in Shifts : \A o \in Range(lists[i]) : \E k \in 1 .. Len(lists[i]) : o = lists[i][k]
  BY <1>2 DEF Range
<1>5. \A o \in Together(objs, lists) : o \in objs \/ \E i \in Shifts : \E k \in 1 .. Len(lists[i]) : o = lists[i][k]
  BY <1>4 DEF Together
<1>6. \A i \in Shifts : \A k \in 1 .. Len(lists[i]) : lists[i][k] \in Together(objs, lists)
  BY <1>3 DEF Together
<1>7. \A o \in objs : o \in KernelObject
  OBVIOUS
<1> QED BY <1>2, <1>5, <1>6, <1>7

\* The objects in use and in the free lists, as the state has them.
LEMMA StoredNow ==
  ASSUME ObjTyped
  PROVE  /\ \A i \in Shifts : Len(freed[i]) \in Nat /\ \A k \in 1 .. Len(freed[i]) : freed[i][k] \in AllObjects
         /\ \A o \in AllObjects : o \in KernelObject
         /\ \A o \in AllObjects : o \in objects \/ \E i \in Shifts : \E k \in 1 .. Len(freed[i]) : o = freed[i][k]
<1>1. objects \in SUBSET KernelObject /\ freed \in [Shifts -> Seq(KernelObject)]
  BY DEF ObjTyped
<1> QED BY <1>1, StoredIs DEF AllObjects

\* The same of the state a step leads to.
LEMMA StoredNext ==
  ASSUME ObjTyped'
  PROVE  \A o \in AllObjects' : o \in objects' \/ \E i \in Shifts : \E k \in 1 .. Len(freed'[i]) : o = freed'[i][k]
<1>1. objects' \in SUBSET KernelObject /\ freed' \in [Shifts -> Seq(KernelObject)]
  BY DEF ObjTyped
<1>2. AllObjects' = Together(objects', freed')
  BY DEF AllObjects, Together
<1> QED BY <1>1, <1>2, StoredIs

\* Two objects that are not at the same place share no byte, unless one lies
\* behind its page.
LEMMA Apart ==
  ASSUME NEW o \in KernelObject, NEW p \in KernelObject,
         o.size <= ClassSize[o.shift], p.size <= ClassSize[p.shift],
         o.page = p.page => o.shift = p.shift, ~SamePlace(o, p), ~Behind(o), ~Behind(p)
  PROVE  Extent(o) \cap Extent(p) = {}
<1>0. /\ OBJ_PAGE \in Nat
      /\ o.shift \in 0 .. MAX_SHIFT /\ p.shift \in 0 .. MAX_SHIFT
      /\ o.page \in Nat /\ p.page \in Nat /\ o.pos \in Nat /\ p.pos \in Nat /\ o.size \in Nat /\ p.size \in Nat
  BY ObjectsAssumption DEF KernelObject, Shifts
<1> DEFINE c == ClassSize[o.shift]
           d == ClassSize[p.shift]
<1>1. c \in Nat \ {0} /\ d \in Nat \ {0}
  BY <1>0, Powers
<1>2. /\ o.pos < OBJ_PAGE \div c /\ OBJ_PAGE \div c \in Nat /\ (OBJ_PAGE \div c) * c <= OBJ_PAGE
      /\ p.pos < OBJ_PAGE \div d /\ OBJ_PAGE \div d \in Nat /\ (OBJ_PAGE \div d) * d <= OBJ_PAGE
  <2>1. /\ ~(o.pos >= OBJ_PAGE \div c) /\ ~(p.pos >= OBJ_PAGE \div d)
    BY DEF Behind
  <2>2. /\ OBJ_PAGE \div c \in Nat /\ (OBJ_PAGE \div c) * c <= OBJ_PAGE
        /\ OBJ_PAGE \div d \in Nat /\ (OBJ_PAGE \div d) * d <= OBJ_PAGE
    BY <1>0, <1>1, Quotient
  <2> HIDE DEF c, d
  <2> QED BY <1>0, <2>1, <2>2
<1> DEFINE x == o.pos * c
           y == p.pos * d
           u == o.page * OBJ_PAGE
           v == p.page * OBJ_PAGE
<1>3. /\ Extent(o) = u + x .. u + x + o.size - 1 /\ Extent(p) = v + y .. v + y + p.size - 1
  BY DEF Extent, Addr
<1>4. o.size <= c /\ p.size <= d
  OBVIOUS
<1>5. x + c <= OBJ_PAGE /\ y + d <= OBJ_PAGE /\ x \in Nat /\ y \in Nat
  <2>1. /\ x + c <= (OBJ_PAGE \div c) * c /\ x \in Nat /\ (OBJ_PAGE \div c) * c \in Nat
        /\ y + d <= (OBJ_PAGE \div d) * d /\ y \in Nat /\ (OBJ_PAGE \div d) * d \in Nat
    <3> HIDE DEF c, d
    <3> QED BY <1>0, <1>1, <1>2, Product
  <2> HIDE DEF x, y, c, d
  <2> QED BY <1>0, <1>1, <1>2, <2>1
<1>6. u \in Nat /\ v \in Nat
  BY <1>0
<1>7. CASE o.page = p.page
  <2>0. o.pos # p.pos
    BY <1>7 DEF SamePlace
  <2>1. c = d /\ u = v
    BY <1>7
  <2>2. CASE o.pos < p.pos
    <3>1. x + c <= y
      <4> HIDE DEF c, d
      <4> QED BY <1>0, <1>1, <2>1, <2>2, Product
    <3> HIDE DEF x, y, u, v, c, d
    <3> QED BY <1>0, <1>1, <1>3, <1>4, <1>5, <1>6, <2>1, <3>1
  <2>3. CASE p.pos < o.pos
    <3>1. y + d <= x
      <4> HIDE DEF c, d
      <4> QED BY <1>0, <1>1, <2>1, <2>3, Product
    <3> HIDE DEF x, y, u, v, c, d
    <3> QED BY <1>0, <1>1, <1>3, <1>4, <1>5, <1>6, <2>1, <3>1
  <2>4. o.pos < p.pos \/ p.pos < o.pos
    BY <1>0, <2>0
  <2> QED BY <2>2, <2>3, <2>4
<1>8. CASE o.page < p.page
  <2>1. u + OBJ_PAGE <= v
    BY <1>0, <1>8, Product
  <2> HIDE DEF x, y, u, v, c, d
  <2> QED BY <1>0, <1>1, <1>3, <1>4, <1>5, <1>6, <2>1
<1>9. CASE p.page < o.page
  <2>1. v + OBJ_PAGE <= u
    BY <1>0, <1>9, Product
  <2> HIDE DEF x, y, u, v, c, d
  <2> QED BY <1>0, <1>1, <1>3, <1>4, <1>5, <1>6, <2>1
<1> QED BY <1>0, <1>7, <1>8, <1>9

\* Objects at different places are disjoint.
LEMMA KeptApart == ObjInv => ObjectsDisjoint
<1> SUFFICES ASSUME ObjInv PROVE ObjectsDisjoint
  OBVIOUS
<1>0. ObjTyped /\ PagesKept /\ OnePlace
  BY DEF ObjInv
<1>1. \A o \in AllObjects : o \in KernelObject /\ o.size <= ClassSize[o.shift]
  BY <1>0, StoredNow DEF PagesKept
<1>2. \A o, p \in AllObjects : o.page = p.page => o.shift = p.shift
  BY <1>0 DEF PagesKept
<1>3. ASSUME NEW o \in AllObjects, NEW p \in AllObjects, o # p PROVE ~SamePlace(o, p)
  <2>1. /\ o \in objects \/ \E i \in Shifts : \E k \in 1 .. Len(freed[i]) : o = freed[i][k]
        /\ p \in objects \/ \E i \in Shifts : \E k \in 1 .. Len(freed[i]) : p = freed[i][k]
    BY <1>0, StoredNow
  <2>2. \A q, r \in AllObjects : SamePlace(q, r) => SamePlace(r, q)
    BY DEF SamePlace
  <2>3. CASE o \in objects
    BY <1>0, <1>3, <2>1, <2>3 DEF OnePlace
  <2>4. CASE p \in objects
    BY <1>0, <1>3, <2>1, <2>2, <2>4 DEF OnePlace
  <2>5. ASSUME NEW i \in Shifts, NEW k \in 1 .. Len(freed[i]), o = freed[i][k],
               NEW j \in Shifts, NEW l \in 1 .. Len(freed[j]), p = freed[j][l]
        PROVE  ~SamePlace(o, p)
    BY <1>0, <1>3, <2>5 DEF OnePlace
  <2> QED BY <2>1, <2>3, <2>4, <2>5
<1>4. ASSUME NEW o \in AllObjects, NEW p \in AllObjects
      PROVE  /\ o.size <= ClassSize[o.shift]
             /\ o # p /\ ~Behind(o) /\ ~Behind(p) => Extent(o) \cap Extent(p) = {}
  BY <1>1, <1>2, <1>3, Apart
<1> QED BY <1>4 DEF ObjectsDisjoint, AllObjects, Together

\* A new position in the page of a class, or in a new page, is no other's.
LEMMA TakeKeeps ==
  ASSUME ObjInv, NEW i \in Shifts, NEW size \in Nat, size <= ClassSize[i],
         TakePosition(i, size), UNCHANGED freed
  PROVE  ObjInv'
<1> DEFINE fresh == ck[i].free_position > OBJ_PAGE \div ClassSize[i]
           pfn == IF fresh THEN next_page ELSE ck[i].current_pfn
           pos == IF fresh THEN 0 ELSE ck[i].free_position
           q == [page |-> pfn, pos |-> pos, shift |-> i, size |-> size]
<1>0. ObjTyped /\ PagesKept /\ OnePlace
  BY DEF ObjInv
<1>1. /\ ck' = [ck EXCEPT ![i] = [free_position |-> pos + 1, current_pfn |-> pfn]]
      /\ next_page' = IF fresh THEN next_page + 1 ELSE next_page
      /\ objects' = objects \cup {q}
      /\ freed' = freed
  BY DEF TakePosition
<1>2. /\ ck \in [Shifts -> [free_position : Nat, current_pfn : Nat]] /\ next_page \in Nat
      /\ ck[i].free_position \in Nat /\ ck[i].current_pfn \in Nat
  BY <1>0 DEF ObjTyped
<1>3. /\ fresh => pfn = next_page /\ pos = 0 /\ next_page' = next_page + 1
      /\ ~fresh => pfn = ck[i].current_pfn /\ pos = ck[i].free_position /\ next_page' = next_page
      /\ pfn \in Nat /\ pos \in Nat /\ next_page' \in Nat
      /\ q \in KernelObject
      /\ q.page = pfn /\ q.pos = pos /\ q.shift = i /\ q.size = size
  <2>1. /\ fresh => pfn = next_page /\ pos = 0 /\ next_page' = next_page + 1
        /\ ~fresh => pfn = ck[i].current_pfn /\ pos = ck[i].free_position /\ next_page' = next_page
    BY <1>1
  <2>2. pfn \in Nat /\ pos \in Nat /\ next_page' \in Nat
    <3> HIDE DEF fresh
    <3> QED BY <1>1, <1>2
  <2> HIDE DEF pfn, pos, fresh
  <2> QED BY <2>1, <2>2 DEF KernelObject
<1> HIDE DEF q, pfn, pos, fresh
<1>4. AllObjects' = AllObjects \cup {q}
  BY <1>1 DEF AllObjects, Together
<1>5. ObjTyped'
  <2>1. ck' \in [Shifts -> [free_position : Nat, current_pfn : Nat]]
    BY <1>1, <1>2, <1>3
  <2> QED BY <1>0, <1>1, <1>3, <2>1 DEF ObjTyped
<1>6. /\ ck'[i].current_pfn = pfn /\ ck'[i].free_position = pos + 1
      /\ \A j \in Shifts : j # i => ck'[j] = ck[j]
  BY <1>1, <1>2
<1>7. /\ \A o \in AllObjects : o \in KernelObject /\ o.page \in Nat /\ o.pos \in Nat
      /\ \A j \in Shifts : ck[j].current_pfn \in Nat /\ ck[j].current_pfn < next_page
      /\ \A j \in Shifts : ck[j].current_pfn = ck[i].current_pfn => i = j
      /\ \A o \in AllObjects : o.page < next_page
  BY <1>0, <1>2, StoredNow DEF PagesKept, KernelObject
<1>8. \A o \in AllObjects : o.page = pfn => ~fresh /\ o.shift = i /\ o.pos < pos
  <2> SUFFICES ASSUME NEW o \in AllObjects, o.page = pfn PROVE ~fresh /\ o.shift = i /\ o.pos < pos
    OBVIOUS
  <2>1. ~fresh
    BY <1>2, <1>3, <1>7
  <2>2. o.page = ck[i].current_pfn /\ pos = ck[i].free_position
    BY <1>3, <2>1
  <2>3. o.shift = i /\ o.pos < ck[i].free_position
    BY <1>0, <2>2 DEF PagesKept
  <2> QED BY <2>1, <2>2, <2>3
<1>9. PagesKept'
  <2>1. \A o \in AllObjects' : o.page < next_page' /\ o.size <= ClassSize[o.shift]
    <3>1. \A o \in AllObjects : o.page < next_page' /\ o.size <= ClassSize[o.shift]
      BY <1>0, <1>2, <1>3, <1>7 DEF PagesKept
    <3>2. q.page < next_page' /\ q.size <= ClassSize[q.shift]
      BY <1>2, <1>3, <1>7
    <3> QED BY <1>4, <3>1, <3>2
  <2>2. ASSUME NEW o \in AllObjects', NEW j \in Shifts, o.page = ck'[j].current_pfn
        PROVE  o.shift = j /\ o.pos < ck'[j].free_position
    <3>1. CASE j = i
      <4>1. o \in AllObjects => o.shift = i /\ o.pos < pos /\ o.pos \in Nat
        BY <1>6, <1>7, <1>8, <2>2, <3>1
      <4> QED BY <1>3, <1>4, <1>6, <3>1, <4>1
    <3>2. CASE j # i
      <4>0. ck'[j] = ck[j]
        BY <1>6, <3>2
      <4>1. CASE o \in AllObjects
        BY <1>0, <2>2, <4>0, <4>1 DEF PagesKept
      <4>2. CASE o = q
        <5>1. pfn = ck[j].current_pfn
          BY <1>3, <2>2, <4>0, <4>2
        <5>2. fresh
          BY <1>3, <1>7, <3>2, <5>1
        <5>3. ck[j].current_pfn = next_page
          BY <1>3, <5>1, <5>2
        <5> QED BY <1>2, <1>7, <5>3
      <4> QED BY <1>4, <4>1, <4>2
    <3> QED BY <3>1, <3>2
  <2>3. \A o, p \in AllObjects' : o.page = p.page => o.shift = p.shift
    <3>1. \A o, p \in AllObjects : o.page = p.page => o.shift = p.shift
      BY <1>0 DEF PagesKept
    <3> QED BY <1>3, <1>4, <1>8, <3>1
  <2>4. \A j \in Shifts : ck'[j].current_pfn < next_page'
    <3>1. \A j \in Shifts : ck[j].current_pfn < next_page'
      BY <1>2, <1>3, <1>7
    <3>2. pfn < next_page'
      BY <1>2, <1>3, <1>7
    <3> QED BY <1>6, <3>1, <3>2
  <2>5. ASSUME NEW j \in Shifts, NEW k \in Shifts, ck'[j].current_pfn = ck'[k].current_pfn PROVE j = k
    <3>1. ASSUME NEW l \in Shifts, l # i PROVE ck'[l].current_pfn # pfn
      <4>1. ck'[l].current_pfn = ck[l].current_pfn /\ ck[l].current_pfn # ck[i].current_pfn
            /\ ck[l].current_pfn # next_page
        BY <1>2, <1>6, <1>7, <3>1
      <4> QED BY <1>3, <4>1
    <3>2. j # i /\ k # i => j = k
      BY <1>0, <1>6, <2>5 DEF PagesKept
    <3> QED BY <1>6, <2>5, <3>1, <3>2
  <2> QED BY <2>1, <2>2, <2>3, <2>4, <2>5 DEF PagesKept
<1>10. OnePlace'
  <2>1. \A o \in AllObjects : ~SamePlace(o, q) /\ ~SamePlace(q, o)
    BY <1>3, <1>7, <1>8 DEF SamePlace
  <2>2. \A o \in objects : o \in AllObjects
    BY DEF AllObjects, Together
  <2>3. \A j \in Shifts : \A k \in 1 .. Len(freed[j]) : freed[j][k] \in AllObjects
    BY <1>0, StoredNow
  <2>4. \A o, p \in objects' : SamePlace(o, p) => o = p
    BY <1>0, <1>1, <2>1, <2>2 DEF OnePlace
  <2>5. \A o \in objects', j \in Shifts : \A k \in 1 .. Len(freed'[j]) : ~SamePlace(o, freed'[j][k])
    BY <1>0, <1>1, <2>1, <2>3 DEF OnePlace
  <2>6. \A j, m \in Shifts : \A k \in 1 .. Len(freed'[j]), l \in 1 .. Len(freed'[m]) :
             SamePlace(freed'[j][k], freed'[m][l]) => j = m /\ k = l
    BY <1>0, <1>1 DEF OnePlace
  <2>7. \A j \in Shifts : \A k \in 1 .. Len(freed'[j]) : j <= freed'[j][k].shift
    BY <1>0, <1>1 DEF OnePlace
  <2> QED BY <2>4, <2>5, <2>6, <2>7 DEF OnePlace, SamePlace
<1> QED BY <1>5, <1>9, <1>10 DEF ObjInv

\* PagesKept is about the places and sizes of what is stored only.
LEMMA SameStored ==
  ASSUME PagesKept, UNCHANGED <<ck, next_page>>,
         \A o \in AllObjects' : /\ o.size <= ClassSize[o.shift]
                            /\ \E p \in AllObjects : o.page = p.page /\ o.pos = p.pos /\ o.shift = p.shift
  PROVE  PagesKept'
<1>1. ck' = ck /\ next_page' = next_page
  OBVIOUS
<1>2. /\ \A o \in AllObjects : o.page < next_page
      /\ \A o \in AllObjects, i \in Shifts : o.page = ck[i].current_pfn => o.shift = i /\ o.pos < ck[i].free_position
      /\ \A o, p \in AllObjects : o.page = p.page => o.shift = p.shift
      /\ \A i \in Shifts : ck[i].current_pfn < next_page
      /\ \A i, j \in Shifts : ck[i].current_pfn = ck[j].current_pfn => i = j
  BY DEF PagesKept
<1>3. \A o \in AllObjects' : o.page < next_page /\ o.size <= ClassSize[o.shift]
  BY <1>2
<1>4. \A o \in AllObjects', i \in Shifts : o.page = ck[i].current_pfn => o.shift = i /\ o.pos < ck[i].free_position
  BY <1>2
<1>5. \A o, p \in AllObjects' : o.page = p.page => o.shift = p.shift
  BY <1>2
<1> QED BY <1>1, <1>2, <1>3, <1>4, <1>5 DEF PagesKept

\* Moving the first object of a free list back into use keeps the places.
LEMMA ReuseKeeps ==
  ASSUME ObjInv, NEW i \in Shifts, NEW size \in Nat, size <= ClassSize[i], Len(freed[i]) > 0,
         objects' = objects \cup {[freed[i][1] EXCEPT !.size = size]},
         freed' = [freed EXCEPT ![i] = Tail(@)],
         UNCHANGED <<ck, next_page>>
  PROVE  ObjInv'
<1> DEFINE old == freed[i][1]
           q == [old EXCEPT !.size = size]
<1>0. ObjTyped /\ PagesKept /\ OnePlace
  BY DEF ObjInv
<1>1. /\ freed \in [Shifts -> Seq(KernelObject)] /\ freed[i] \in Seq(KernelObject)
      /\ Len(freed[i]) \in Nat /\ 1 \in 1 .. Len(freed[i]) /\ freed[i] # <<>>
  <2>1. freed \in [Shifts -> Seq(KernelObject)] /\ freed[i] \in Seq(KernelObject)
    BY <1>0 DEF ObjTyped
  <2>2. Len(freed[i]) \in Nat
    BY <2>1
  <2> QED BY <2>1, <2>2
<1>2. /\ Tail(freed[i]) \in Seq(KernelObject) /\ Len(Tail(freed[i])) = Len(freed[i]) - 1
      /\ \A k \in 1 .. Len(freed[i]) - 1 : Tail(freed[i])[k] = freed[i][k + 1] /\ k + 1 \in 1 .. Len(freed[i])
  BY <1>1
<1>3. freed'[i] = Tail(freed[i]) /\ \A j \in Shifts : j # i => freed'[j] = freed[j]
  BY <1>1
<1>4. /\ old \in KernelObject /\ old \in AllObjects /\ q \in KernelObject
      /\ q.page = old.page /\ q.pos = old.pos /\ q.shift = old.shift /\ q.size = size
  <2>1. old \in AllObjects
    BY <1>0, <1>1, StoredNow
  <2>2. old \in KernelObject
    BY <1>0, <2>1, StoredNow
  <2> HIDE DEF old
  <2> QED BY <2>1, <2>2 DEF KernelObject
<1>5. i <= old.shift /\ old.shift \in Shifts
  BY <1>0, <1>1, <1>4 DEF OnePlace, KernelObject
<1> HIDE DEF old, q
<1>6. size <= ClassSize[q.shift]
  <2>1. i \in 0 .. MAX_SHIFT /\ old.shift \in 0 .. MAX_SHIFT
    BY <1>5, ObjectsAssumption DEF Shifts
  <2>2. ClassSize[i] \in Nat /\ ClassSize[old.shift] \in Nat
    BY <2>1, Powers
  <2>3. ClassSize[i] <= ClassSize[old.shift]
    BY <1>5, <2>1, <2>2, Larger
  <2> QED BY <1>4, <2>2, <2>3
<1>7. \A j \in Shifts : \A k \in 1 .. Len(freed'[j]) :
        \E l \in 1 .. Len(freed[j]) : freed'[j][k] = freed[j][l] /\ l = (IF j = i THEN k + 1 ELSE k)
  BY <1>1, <1>2, <1>3
<1>8. ObjTyped'
  <2>1. freed' \in [Shifts -> Seq(KernelObject)]
    BY <1>1, <1>2
  <2>2. objects' \in SUBSET KernelObject
    BY <1>0, <1>4 DEF ObjTyped, q, old
  <2> QED BY <1>0, <2>1, <2>2 DEF ObjTyped
<1>9. PagesKept'
  <2>1. \A o \in AllObjects : o.size <= ClassSize[o.shift]
    BY <1>0 DEF PagesKept
  <2>2. \A o \in AllObjects' : o = q \/ o \in AllObjects
    <3>1. \A o \in AllObjects' : o \in objects' \/ \E j \in Shifts : \E k \in 1 .. Len(freed'[j]) : o = freed'[j][k]
      BY <1>8, StoredNext
    <3>2. \A j \in Shifts : \A l \in 1 .. Len(freed[j]) : freed[j][l] \in AllObjects
      BY <1>0, StoredNow
    <3>3. \A o \in objects' : o = q \/ o \in AllObjects
      BY DEF AllObjects, Together, q, old
    <3>4. ASSUME NEW j \in Shifts, NEW k \in 1 .. Len(freed'[j]) PROVE freed'[j][k] \in AllObjects
      <4>1. PICK l \in 1 .. Len(freed[j]) : freed'[j][k] = freed[j][l]
        BY <1>7
      <4> QED BY <3>2, <4>1
    <3> QED BY <3>1, <3>3, <3>4
  <2> QED BY <1>0, <1>4, <1>6, <2>1, <2>2, SameStored
<1>10. OnePlace'
  <2>0. objects' = objects \cup {q}
    BY DEF q, old
  <2>1. \A j \in Shifts : \A l \in 1 .. Len(freed[j]) : SamePlace(q, freed[j][l]) => j = i /\ l = 1
    <3>1. \A j \in Shifts : \A l \in 1 .. Len(freed[j]) : SamePlace(freed[i][1], freed[j][l]) => i = j /\ 1 = l
      BY <1>0, <1>1 DEF OnePlace
    <3>2. q.page = freed[i][1].page /\ q.pos = freed[i][1].pos
      BY <1>4 DEF old
    <3> QED BY <3>1, <3>2 DEF SamePlace
  <2>2. \A o \in objects : ~SamePlace(o, q) /\ ~SamePlace(q, o)
    BY <1>0, <1>1, <1>4 DEF OnePlace, SamePlace, old
  <2>3. \A o, p \in objects' : SamePlace(o, p) => o = p
    BY <1>0, <2>0, <2>2 DEF OnePlace
  <2>4. \A j \in Shifts : \A k \in 1 .. Len(freed'[j]) : ~SamePlace(q, freed'[j][k])
    BY <1>1, <1>7, <2>1
  <2>5. \A o \in objects', j \in Shifts : \A k \in 1 .. Len(freed'[j]) : ~SamePlace(o, freed'[j][k])
    <3>1. \A o \in objects, j \in Shifts : \A l \in 1 .. Len(freed[j]) : ~SamePlace(o, freed[j][l])
      BY <1>0 DEF OnePlace
    <3>2. \A o \in objects, j \in Shifts : \A k \in 1 .. Len(freed'[j]) : ~SamePlace(o, freed'[j][k])
      BY <1>7, <3>1
    <3> QED BY <2>0, <2>4, <3>2
  <2>6. ASSUME NEW j \in Shifts, NEW m \in Shifts, NEW k \in 1 .. Len(freed'[j]), NEW l \in 1 .. Len(freed'[m]),
               SamePlace(freed'[j][k], freed'[m][l])
        PROVE  j = m /\ k = l
    <3>1. PICK a \in 1 .. Len(freed[j]) : freed'[j][k] = freed[j][a] /\ a = (IF j = i THEN k + 1 ELSE k)
      BY <1>7
    <3>2. PICK b \in 1 .. Len(freed[m]) : freed'[m][l] = freed[m][b] /\ b = (IF m = i THEN l + 1 ELSE l)
      BY <1>7
    <3>3. j = m /\ a = b
      BY <1>0, <2>6, <3>1, <3>2 DEF OnePlace
    <3> QED BY <3>1, <3>2, <3>3
  <2>7. ASSUME NEW j \in Shifts, NEW k \in 1 .. Len(freed'[j]) PROVE j <= freed'[j][k].shift
    <3>1. PICK a \in 1 .. Len(freed[j]) : freed'[j][k] = freed[j][a]
      BY <1>7
    <3>2. j <= freed[j][a].shift
      BY <1>0 DEF OnePlace
    <3> QED BY <3>1, <3>2
  <2> QED BY <2>3, <2>5, <2>6, <2>7 DEF OnePlace, SamePlace
<1> QED BY <1>8, <1>9, <1>10 DEF ObjInv

\* An object that os_free puts at the end of a list leaves the ones in use.
LEMMA FreeKeeps ==
  ASSUME ObjInv, NEW o \in objects,
         objects' = objects \ {o},
         freed' = [freed EXCEPT ![LowShift(o.size)] = Append(@, o)],
         UNCHANGED <<ck, next_page>>
  PROVE  ObjInv'
<1> DEFINE i == LowShift(o.size)
<1>0. ObjTyped /\ PagesKept /\ OnePlace
  BY DEF ObjInv
<1>1. o \in AllObjects /\ o \in KernelObject /\ o.size \in Nat /\ o.shift \in Shifts /\ o.size <= ClassSize[o.shift]
  <2>1. o \in AllObjects
    BY DEF AllObjects, Together
  <2> QED BY <1>0, <2>1, StoredNow DEF PagesKept, KernelObject
<1>2. i \in Shifts /\ i <= o.shift
  BY <1>1, LowIs, LowFits
<1> HIDE DEF i
<1>3. freed \in [Shifts -> Seq(KernelObject)] /\ freed[i] \in Seq(KernelObject) /\ Len(freed[i]) \in Nat
  <2>1. freed \in [Shifts -> Seq(KernelObject)] /\ freed[i] \in Seq(KernelObject)
    BY <1>0, <1>2 DEF ObjTyped
  <2> QED BY <2>1
<1> DEFINE s == Append(freed[i], o)
<1>4. /\ s \in Seq(KernelObject) /\ Len(s) = Len(freed[i]) + 1 /\ s[Len(freed[i]) + 1] = o
      /\ \A k \in 1 .. Len(freed[i]) : s[k] = freed[i][k]
  BY <1>1, <1>3
<1>5. freed' = [freed EXCEPT ![i] = s]
  BY DEF i
<1> HIDE DEF s
<1>6. freed'[i] = s /\ \A j \in Shifts : j # i => freed'[j] = freed[j]
  BY <1>2, <1>3, <1>5
<1>7. \A j \in Shifts : \A k \in 1 .. Len(freed'[j]) :
        \/ k \in 1 .. Len(freed[j]) /\ freed'[j][k] = freed[j][k]
        \/ j = i /\ k = Len(freed[i]) + 1 /\ freed'[j][k] = o
  BY <1>3, <1>4, <1>6
<1>8. ObjTyped'
  <2>1. freed' \in [Shifts -> Seq(KernelObject)]
    BY <1>3, <1>4, <1>5
  <2>2. objects' \in SUBSET KernelObject
    BY <1>0 DEF ObjTyped
  <2> QED BY <1>0, <2>1, <2>2 DEF ObjTyped
<1>9. PagesKept'
  <2>1. \A p \in AllObjects : p.size <= ClassSize[p.shift]
    BY <1>0 DEF PagesKept
  <2>2. \A p \in AllObjects' : p \in AllObjects
    <3>1. \A p \in AllObjects' : p \in objects' \/ \E j \in Shifts : \E k \in 1 .. Len(freed'[j]) : p = freed'[j][k]
      BY <1>8, StoredNext
    <3>2. \A j \in Shifts : \A l \in 1 .. Len(freed[j]) : freed[j][l] \in AllObjects
      BY <1>0, StoredNow
    <3>3. \A p \in objects' : p \in AllObjects
      BY DEF AllObjects, Together
    <3> QED BY <1>1, <1>7, <3>1, <3>2, <3>3
  <2> QED BY <1>0, <2>1, <2>2, SameStored
<1>10. OnePlace'
  <2>1. \A j \in Shifts : \A k \in 1 .. Len(freed[j]) : ~SamePlace(o, freed[j][k]) /\ ~SamePlace(freed[j][k], o)
    BY <1>0 DEF OnePlace, SamePlace
  <2>2. \A p \in objects' : p \in objects /\ ~SamePlace(p, o)
    BY <1>0 DEF OnePlace
  <2>3. \A p, q \in objects' : SamePlace(p, q) => p = q
    BY <1>0 DEF OnePlace
  <2>4. \A p \in objects', j \in Shifts : \A k \in 1 .. Len(freed'[j]) : ~SamePlace(p, freed'[j][k])
    BY <1>0, <1>7, <2>2 DEF OnePlace
  <2>5. \A j, m \in Shifts : \A k \in 1 .. Len(freed[j]), l \in 1 .. Len(freed[m]) :
             SamePlace(freed[j][k], freed[m][l]) => j = m /\ k = l
    BY <1>0 DEF OnePlace
  <2>6. ASSUME NEW j \in Shifts, NEW m \in Shifts, NEW k \in 1 .. Len(freed'[j]), NEW l \in 1 .. Len(freed'[m]),
               SamePlace(freed'[j][k], freed'[m][l])
        PROVE  j = m /\ k = l
    BY <1>7, <2>1, <2>5, <2>6
  <2>7. \A j \in Shifts : \A k \in 1 .. Len(freed'[j]) : j <= freed'[j][k].shift
    BY <1>0, <1>2, <1>7 DEF OnePlace
  <2> QED BY <2>3, <2>4, <2>6, <2>7 DEF OnePlace, SamePlace
<1> QED BY <1>8, <1>9, <1>10 DEF ObjInv

-----------------------------------------------------------------------------
(***************************************************************************)
(* Objects: free lists                                                      *)
(***************************************************************************)
Node == [value : NodeItem, next : Pool \cup {NULL}]
FreeList == [head : Pool \cup {NULL}, tail : Pool \cup {NULL}, size : Nat]

\* The list l runs through the nodes s, which hold the objects f; its sentinels
\* point at the first and at the last of them.
OneList(s, l, f, nodes) ==
  /\ l.size = Len(s) /\ Len(f) = Len(s)
  /\ l.head = NULL => l.tail = NULL /\ Len(s) = 0
  /\ l.head # NULL => l.tail # NULL /\ l.head # l.tail
  /\ Len(s) > 0 => nodes[l.head].next = s[1] /\ nodes[l.tail].next = s[Len(s)]
  /\ \A k \in 1 .. Len(s) : nodes[s[k]].value = f[k] /\ s[k] # l.head /\ s[k] # l.tail
  /\ \A k \in 1 .. Len(s) - 1 : nodes[s[k]].next = s[k + 1]
  /\ \A k, m \in 1 .. Len(s) : s[k] = s[m] => k = m

\* The node n is a sentinel of the list or on it.
HasNode(s, l, n) == n = l.head \/ n = l.tail \/ \E k \in 1 .. Len(s) : s[k] = n

\* Every list is in order, and no node belongs to two.
ListsKept(c, lists, fr, nodes) ==
  /\ \A i \in Shifts : OneList(c[i], lists[i], fr[i], nodes)
  /\ \A i, j \in Shifts : \A n \in Pool : HasNode(c[i], lists[i], n) /\ HasNode(c[j], lists[j], n) => i = j

Spare(c, lists, n) == \A i \in Shifts : ~HasNode(c[i], lists[i], n)

\* Until the pool was handed out once, it is handed out in order, and what lies
\* ahead is unused.
Ahead(c, lists, nodes, from, count) ==
  count <= Nodes =>
    /\ from = count
    /\ \A n \in Pool : n >= count => nodes[n].next = NULL /\ Spare(c, lists, n)

ListsTyped ==
  /\ freelist \in [Shifts -> FreeList]
  /\ node \in [Pool -> Node]
  /\ nodemem \in [next_free : Nat, num_free : Nat]
  /\ handed \in Nat
  /\ broken \in BOOLEAN

\* The invariant of the free lists.
ListInv ==
  /\ ListsTyped
  /\ broken => handed + 3 > Nodes \/ nodemem.num_free < 3
  /\ ~broken => \E c \in [Shifts -> Seq(Pool)] :
                  /\ ListsKept(c, freelist, freed, node)
                  /\ Ahead(c, freelist, node, nodemem.next_free, handed)

\* The nodes that a walk along a list meets are those of the list.
LEMMA WalkIs ==
  ASSUME NEW s \in Seq(Pool), NEW l \in FreeList, NEW f, NEW nodes, OneList(s, l, f, nodes)
  PROVE  Walk(nodes, l.head, l.size) = s
<1> DEFINE m == l.size
           head == l.head
           after(n) == IF n = NULL THEN NULL ELSE nodes[n].next
           body(h) == [k \in 0 .. m |-> IF k = 0 THEN head ELSE after(h[k - 1])]
           g == [k \in 0 .. m |-> IF k = 0 THEN head ELSE s[k]]
<1>1. m \in Nat /\ Len(s) = m /\ s = [k \in 1 .. m |-> s[k]] /\ \A k \in 1 .. m : s[k] \in Pool /\ s[k] # NULL
  <2>1. Len(s) \in Nat /\ Len(s) = m /\ s = [k \in 1 .. Len(s) |-> s[k]] /\ \A k \in 1 .. Len(s) : s[k] \in Pool
    BY LenProperties, ElementOfSeq DEF OneList
  <2>2. \A n \in Pool : n # NULL
    BY DEF Pool, NULL
  <2> HIDE DEF m
  <2> QED BY <2>1, <2>2
<1>2. /\ m > 0 => head # NULL /\ nodes[head].next = s[1]
      /\ \A k \in 1 .. m - 1 : nodes[s[k]].next = s[k + 1]
  <2>1. /\ l.head = NULL => l.tail = NULL /\ Len(s) = 0
        /\ Len(s) > 0 => nodes[l.head].next = s[1] /\ nodes[l.tail].next = s[Len(s)]
        /\ \A k \in 1 .. Len(s) - 1 : nodes[s[k]].next = s[k + 1]
    BY DEF OneList
  <2>2. Len(s) = m /\ m \in Nat
    BY <1>1
  <2> HIDE DEF m
  <2> QED BY <2>1, <2>2
<1> HIDE DEF m, head
<1>3. \A k \in 1 .. m : s[k] = after(g[k - 1])
  <2> SUFFICES ASSUME NEW k \in 1 .. m PROVE s[k] = after(g[k - 1])
    OBVIOUS
  <2>1. CASE k = 1
    BY <1>1, <1>2, <2>1
  <2>2. CASE k # 1
    <3>1. k - 1 \in 1 .. m - 1 /\ k - 1 \in 1 .. m /\ k - 1 \in 0 .. m /\ (k - 1) + 1 = k
      BY <1>1, <2>2
    <3>2. g[k - 1] = s[k - 1]
      BY <3>1
    <3>3. s[k - 1] # NULL /\ nodes[s[k - 1]].next = s[k]
      BY <1>1, <1>2, <3>1
    <3> HIDE DEF g
    <3> QED BY <3>2, <3>3
  <2> QED BY <2>1, <2>2
<1>4. g = body(g)
  <2>1. \A k \in 0 .. m : g[k] = IF k = 0 THEN head ELSE after(g[k - 1])
    <3>1. \A k \in 0 .. m : k # 0 => k \in 1 .. m
      BY <1>1
    <3>2. \A k \in 0 .. m : g[k] = IF k = 0 THEN head ELSE s[k]
      OBVIOUS
    <3> HIDE DEF g, after
    <3> QED BY <1>3, <3>1, <3>2
  <2>2. g = [k \in 0 .. m |-> g[k]]
    OBVIOUS
  <2> HIDE DEF g, after
  <2> QED BY <2>1, <2>2
<1>5. ASSUME NEW h, h = body(h) PROVE h = g
  <2> DEFINE S == {k \in 0 .. m : h[k] = g[k]}
  <2>0. \A k \in 0 .. m : /\ h[k] = IF k = 0 THEN head ELSE after(h[k - 1])
                         /\ g[k] = IF k = 0 THEN head ELSE after(g[k - 1])
    <3>1. \A k \in 0 .. m : h[k] = IF k = 0 THEN head ELSE after(h[k - 1])
      <4> HIDE DEF after
      <4> QED BY <1>5
    <3>2. \A k \in 0 .. m : g[k] = IF k = 0 THEN head ELSE after(g[k - 1])
      <4> HIDE DEF after, g
      <4> QED BY <1>4
    <3> QED BY <3>1, <3>2
  <2>1. h = [k \in 0 .. m |-> h[k]] /\ g = [k \in 0 .. m |-> g[k]]
    <3>1. g = [k \in 0 .. m |-> g[k]]
      OBVIOUS
    <3> HIDE DEF after, g
    <3> QED BY <1>5, <3>1
  <2> HIDE DEF after, g
  <2>2. 0 \in S
    BY <1>1, <2>0
  <2>3. ASSUME NEW k \in 1 .. m, k - 1 \in S PROVE k \in S
    BY <1>1, <2>0, <2>3
  <2> HIDE DEF S
  <2>4. \A k \in 0 .. m : k \in S
    BY <1>1, <2>2, <2>3, Induct
  <2>5. \A k \in 0 .. m : h[k] = g[k]
    BY <2>4 DEF S
  <2> QED BY <2>1, <2>5
<1>6. Walk(nodes, head, m) = [k \in 1 .. m |-> (CHOOSE h : h = body(h))[k]]
  BY DEF Walk
<1> HIDE DEF body
<1>7. (CHOOSE h : h = body(h)) = g
  <2> HIDE DEF g
  <2> QED BY <1>4, <1>5
<1>8. Walk(nodes, head, m) = [k \in 1 .. m |-> g[k]]
  BY <1>6, <1>7
<1>9. \A k \in 1 .. m : g[k] = s[k]
  BY <1>1
<1>10. [k \in 1 .. m |-> g[k]] = [k \in 1 .. m |-> s[k]]
  <2> HIDE DEF g
  <2> QED BY <1>9
<1> QED BY <1>1, <1>8, <1>10 DEF m, head

\* The elements of a sequence of nodes.
LEMMA NodesOf ==
  ASSUME NEW s \in Seq(Pool)
  PROVE  Len(s) \in Nat /\ DOMAIN s = 1 .. Len(s) /\ \A k \in 1 .. Len(s) : s[k] \in Pool /\ s[k] # NULL
<1>1. \A n \in Pool : n # NULL
  BY DEF Pool, NULL
<1> QED BY <1>1, LenProperties, ElementOfSeq

\* Which nodes are in a list, as Sound looks at them.
LEMMA InListsIs ==
  ASSUME ListsTyped, NEW c \in [Shifts -> Seq(Pool)], ListsKept(c, freelist, freed, node), NEW n \in Pool
  PROVE  n \in InLists <=> ~Spare(c, freelist, n)
<1>1. ASSUME NEW i \in Shifts PROVE Chain(i) = c[i]
  <2>1. c[i] \in Seq(Pool) /\ freelist[i] \in FreeList /\ OneList(c[i], freelist[i], freed[i], node)
    BY DEF ListsTyped, ListsKept
  <2> QED BY <2>1, WalkIs DEF Chain
<1>2. ASSUME NEW i \in Shifts PROVE n \in Range(Chain(i)) <=> \E k \in 1 .. Len(c[i]) : c[i][k] = n
  <2>1. DOMAIN c[i] = 1 .. Len(c[i])
    BY NodesOf
  <2> QED BY <1>1, <2>1 DEF Range
<1>3. n \in InLists <=> \E i \in Shifts : n = freelist[i].head \/ n = freelist[i].tail \/ n \in Range(Chain(i))
  BY DEF InLists
<1> QED BY <1>2, <1>3 DEF Spare, HasNode

\* A step changes list i and takes only nodes of that list and unused ones.
OneChanges(c, d, i, lists, lists2, fr, fr2, nodes, nodes2) ==
  /\ ListsKept(c, lists, fr, nodes)
  /\ \A j \in Shifts : j # i => d[j] = c[j] /\ lists2[j] = lists[j] /\ fr2[j] = fr[j]
  /\ \A n \in Pool : nodes2[n] = nodes[n] \/ HasNode(c[i], lists[i], n) \/ Spare(c, lists, n)
  /\ OneList(d[i], lists2[i], fr2[i], nodes2)
  /\ \A n \in Pool : HasNode(d[i], lists2[i], n) => HasNode(c[i], lists[i], n) \/ Spare(c, lists, n)

\* Such a step keeps the others.
LEMMA ListsStep ==
  ASSUME NEW c \in [Shifts -> Seq(Pool)], NEW d \in [Shifts -> Seq(Pool)], NEW i \in Shifts,
         NEW ls \in [Shifts -> FreeList], NEW ls2 \in [Shifts -> FreeList],
         NEW fr, NEW fr2, NEW nd, NEW nd2,
         OneChanges(c, d, i, ls, ls2, fr, fr2, nd, nd2)
  PROVE  ListsKept(d, ls2, fr2, nd2)
<1>0. /\ ListsKept(c, ls, fr, nd)
      /\ \A j \in Shifts : j # i => d[j] = c[j] /\ ls2[j] = ls[j] /\ fr2[j] = fr[j]
      /\ \A n \in Pool : nd2[n] = nd[n] \/ HasNode(c[i], ls[i], n) \/ Spare(c, ls, n)
      /\ OneList(d[i], ls2[i], fr2[i], nd2)
      /\ \A n \in Pool : HasNode(d[i], ls2[i], n) => HasNode(c[i], ls[i], n) \/ Spare(c, ls, n)
  BY DEF OneChanges
<1>1. ASSUME NEW j \in Shifts, j # i, NEW n \in Pool, HasNode(c[j], ls[j], n)
      PROVE  ~HasNode(c[i], ls[i], n) /\ ~Spare(c, ls, n) /\ nd2[n] = nd[n]
  BY <1>0, <1>1 DEF ListsKept, Spare
<1>2. ASSUME NEW j \in Shifts, j # i PROVE OneList(d[j], ls2[j], fr2[j], nd2)
  <2> DEFINE s == c[j]
             l == ls[j]
             f == fr[j]
  <2>1. /\ s \in Seq(Pool) /\ l \in FreeList /\ OneList(s, l, f, nd)
        /\ d[j] = s /\ ls2[j] = l /\ fr2[j] = f
    BY <1>0, <1>2 DEF ListsKept
  <2>2. \A n \in Pool : HasNode(s, l, n) => nd2[n] = nd[n]
    BY <1>1, <1>2
  <2> HIDE DEF s, l, f
  <2>3. Len(s) \in Nat /\ \A k \in 1 .. Len(s) : s[k] \in Pool
    BY <2>1, NodesOf
  <2>4. \A k \in 1 .. Len(s) : nd2[s[k]] = nd[s[k]]
    BY <2>2, <2>3 DEF HasNode
  <2>5. l.head # NULL => l.head \in Pool /\ l.tail \in Pool /\ nd2[l.head] = nd[l.head] /\ nd2[l.tail] = nd[l.tail]
    <3>1. l.head # NULL => l.tail # NULL
      BY <2>1 DEF OneList
    <3>2. l.head \in Pool \cup {NULL} /\ l.tail \in Pool \cup {NULL}
      BY <2>1 DEF FreeList
    <3> QED BY <2>2, <3>1, <3>2 DEF HasNode
  <2>6. Len(s) > 0 => l.head # NULL
    BY <2>1, <2>3 DEF OneList
  <2>7. /\ l.size = Len(s) /\ Len(f) = Len(s)
        /\ l.head = NULL => l.tail = NULL /\ Len(s) = 0
        /\ l.head # NULL => l.tail # NULL /\ l.head # l.tail
        /\ Len(s) > 0 => nd[l.head].next = s[1] /\ nd[l.tail].next = s[Len(s)]
        /\ \A k \in 1 .. Len(s) : nd[s[k]].value = f[k] /\ s[k] # l.head /\ s[k] # l.tail
        /\ \A k \in 1 .. Len(s) - 1 : nd[s[k]].next = s[k + 1]
        /\ \A k, m \in 1 .. Len(s) : s[k] = s[m] => k = m
    BY <2>1 DEF OneList
  <2>8. \A k \in 1 .. Len(s) - 1 : k \in 1 .. Len(s)
    BY <2>3
  <2>9. OneList(s, l, f, nd2)
    <3>1. Len(s) > 0 => nd2[l.head].next = s[1] /\ nd2[l.tail].next = s[Len(s)]
      BY <2>5, <2>6, <2>7
    <3>2. \A k \in 1 .. Len(s) : nd2[s[k]].value = f[k] /\ s[k] # l.head /\ s[k] # l.tail
      BY <2>4, <2>7
    <3>3. \A k \in 1 .. Len(s) - 1 : nd2[s[k]].next = s[k + 1]
      <4> SUFFICES ASSUME NEW k \in 1 .. Len(s) - 1 PROVE nd2[s[k]].next = s[k + 1]
        OBVIOUS
      <4>1. nd2[s[k]] = nd[s[k]]
        BY <2>4, <2>8
      <4> QED BY <2>7, <4>1
    <3>4. /\ l.size = Len(s) /\ Len(f) = Len(s)
          /\ l.head = NULL => l.tail = NULL /\ Len(s) = 0
          /\ l.head # NULL => l.tail # NULL /\ l.head # l.tail
          /\ \A k, m \in 1 .. Len(s) : s[k] = s[m] => k = m
      BY <2>7
    <3> QED BY <3>1, <3>2, <3>3, <3>4, Zenon DEF OneList
  <2> QED BY <2>1, <2>9
<1>3. ASSUME NEW j \in Shifts PROVE OneList(d[j], ls2[j], fr2[j], nd2)
  BY <1>0, <1>2
<1>4. ASSUME NEW j \in Shifts, NEW k \in Shifts, NEW n \in Pool, HasNode(d[j], ls2[j], n), HasNode(d[k], ls2[k], n)
      PROVE  j = k
  <2>1. CASE j # i /\ k # i
    BY <1>0, <1>4, <2>1 DEF ListsKept
  <2>2. CASE j = i /\ k # i
    <3>1. HasNode(c[k], ls[k], n)
      BY <1>0, <1>4, <2>2
    <3> QED BY <1>0, <1>1, <1>4, <2>2, <3>1
  <2>3. CASE j # i /\ k = i
    <3>1. HasNode(c[j], ls[j], n)
      BY <1>0, <1>4, <2>3
    <3> QED BY <1>0, <1>1, <1>4, <2>3, <3>1
  <2> QED BY <2>1, <2>2, <2>3
<1> QED BY <1>3, <1>4 DEF ListsKept

\* The list l through s becomes l2 through s2, by its own nodes and by those of T.
Becomes(s, l, nodes, T, s2, l2, f2, nodes2) ==
  /\ s2 \in Seq(Pool) /\ l2 \in FreeList /\ nodes2 \in [Pool -> Node]
  /\ OneList(s2, l2, f2, nodes2)
  /\ \A m \in Pool : nodes2[m] = nodes[m] \/ m \in T \/ HasNode(s, l, m)
  /\ \A m \in Pool : HasNode(s2, l2, m) => m \in T \/ HasNode(s, l, m)

\* LinkLast puts a node behind the last one of a list.
LEMMA Appended ==
  ASSUME NEW s \in Seq(Pool), NEW l \in FreeList, NEW f \in Seq(KernelObject), NEW nd \in [Pool -> Node],
         OneList(s, l, f, nd), Len(s) > 0, NEW n \in Pool, ~HasNode(s, l, n), NEW item \in KernelObject
  PROVE  Becomes(s, l, nd, {n}, Append(s, n), [l EXCEPT !.size = @ + 1], Append(f, item),
                 [nd EXCEPT ![n] = [value |-> item, next |-> NULL],
                            ![nd[l.tail].next].next = n, ![l.tail].next = n])
<1> DEFINE z == Len(s)
           last == s[z]
           fresh == [value |-> item, next |-> NULL]
           nd2 == [nd EXCEPT ![n] = fresh, ![nd[l.tail].next].next = n, ![l.tail].next = n]
           l2 == [l EXCEPT !.size = @ + 1]
           s2 == Append(s, n)
           f2 == Append(f, item)
<1>1. /\ l.size = Len(s) /\ Len(f) = Len(s)
      /\ l.head = NULL => l.tail = NULL /\ Len(s) = 0
      /\ l.head # NULL => l.tail # NULL /\ l.head # l.tail
      /\ Len(s) > 0 => nd[l.head].next = s[1] /\ nd[l.tail].next = s[Len(s)]
      /\ \A k \in 1 .. Len(s) : nd[s[k]].value = f[k] /\ s[k] # l.head /\ s[k] # l.tail
      /\ \A k \in 1 .. Len(s) - 1 : nd[s[k]].next = s[k + 1]
      /\ \A k, m \in 1 .. Len(s) : s[k] = s[m] => k = m
  BY DEF OneList
<1>2. Len(s) \in Nat /\ z \in Nat /\ z > 0 /\ z \in 1 .. z /\ \A k \in 1 .. z : s[k] \in Pool
  BY NodesOf
<1>3. l.head \in Pool /\ l.tail \in Pool /\ l.head # l.tail /\ l.head # NULL /\ l.tail # NULL
  <2>1. l.head \in Pool \cup {NULL} /\ l.tail \in Pool \cup {NULL}
    BY DEF FreeList
  <2> QED BY <1>1, <1>2, <2>1
<1>4. last \in Pool /\ last # l.tail /\ last # l.head /\ last # n /\ n # l.head /\ n # l.tail
      /\ nd[l.tail].next = last /\ \A k \in 1 .. z : s[k] # n
  BY <1>1, <1>2 DEF HasNode
<1>5. /\ s2 \in Seq(Pool) /\ Len(s2) = z + 1 /\ s2[z + 1] = n /\ \A k \in 1 .. z : s2[k] = s[k]
      /\ Len(f2) = z + 1 /\ f2[z + 1] = item /\ \A k \in 1 .. z : f2[k] = f[k]
  BY <1>1, AppendProperties
<1>6. l2 \in FreeList /\ l2.head = l.head /\ l2.tail = l.tail /\ l2.size = z + 1
  <2>1. l.size + 1 = z + 1 /\ z + 1 \in Nat /\ l \in FreeList
    BY <1>1, <1>2
  <2> HIDE DEF z
  <2> QED BY <2>1 DEF FreeList
<1>7. fresh \in Node /\ fresh.value = item /\ fresh.next = NULL
  <2>1. item \in NodeItem
    BY ObjectsAssumption DEF NodeItem, KernelObject, Shifts
  <2> QED BY <2>1 DEF Node
<1>8. /\ nd2 \in [Pool -> Node]
      /\ nd2[n] = fresh
      /\ nd2[last].next = n /\ nd2[last].value = nd[last].value
      /\ nd2[l.tail].next = n
      /\ \A m \in Pool : m # n /\ m # last /\ m # l.tail => nd2[m] = nd[m]
  <2>1. nd2 = [nd EXCEPT ![n] = fresh, ![last].next = n, ![l.tail].next = n]
    BY <1>4
  <2>2. \A m \in Pool : nd[m] \in Node
    OBVIOUS
  <2>3. \A x \in Node : /\ [x EXCEPT !.next = n] \in Node
                        /\ [x EXCEPT !.next = n].next = n /\ [x EXCEPT !.next = n].value = x.value
    BY DEF Node
  <2> DEFINE t == l.tail
             a == [nd EXCEPT ![n] = fresh]
             b == [a EXCEPT ![last] = [a[last] EXCEPT !.next = n]]
             e == [b EXCEPT ![t] = [b[t] EXCEPT !.next = n]]
  <2>4. nd2 = e
    BY <2>1
  <2> HIDE DEF nd2, fresh, last
  <2>5. a \in [Pool -> Node] /\ a[n] = fresh /\ \A m \in Pool : m # n => a[m] = nd[m]
    BY <1>7, <2>2
  <2> HIDE DEF a
  <2>6. b \in [Pool -> Node] /\ b[last] = [a[last] EXCEPT !.next = n] /\ \A m \in Pool : m # last => b[m] = a[m]
    BY <1>4, <2>3, <2>5
  <2> HIDE DEF b
  <2>7. e \in [Pool -> Node] /\ e[t] = [b[t] EXCEPT !.next = n] /\ \A m \in Pool : m # t => e[m] = b[m]
    BY <1>3, <2>3, <2>6
  <2> HIDE DEF e
  <2>8. e[n] = fresh /\ e[last] = [nd[last] EXCEPT !.next = n] /\ e[t] = [nd[t] EXCEPT !.next = n]
    BY <1>3, <1>4, <2>5, <2>6, <2>7
  <2>9. \A m \in Pool : m # n /\ m # last /\ m # l.tail => e[m] = nd[m]
    BY <2>5, <2>6, <2>7
  <2> QED BY <1>3, <1>4, <2>2, <2>3, <2>4, <2>7, <2>8, <2>9
<1> HIDE DEF s2, f2, l2, nd2, fresh
<1>9. \A k \in 1 .. z : k # z => s[k] # last
  BY <1>1, <1>2
<1>10. \A k \in 1 .. z - 1 : nd2[s[k]] = nd[s[k]] /\ k \in 1 .. z
  <2> SUFFICES ASSUME NEW k \in 1 .. z - 1 PROVE nd2[s[k]] = nd[s[k]] /\ k \in 1 .. z
    OBVIOUS
  <2>1. k \in 1 .. z /\ k # z /\ s[k] \in Pool
    BY <1>2
  <2>2. s[k] # n /\ s[k] # last /\ s[k] # l.tail
    BY <1>1, <1>4, <1>9, <2>1
  <2> HIDE DEF last, z
  <2> QED BY <1>8, <2>1, <2>2
<1>11. nd2[l.head] = nd[l.head]
  BY <1>3, <1>4, <1>8
<1>12. OneList(s2, l2, f2, nd2)
  <2>1. \A k \in 1 .. z + 1 : k \in 1 .. z - 1 \/ k = z \/ k = z + 1
    BY <1>2
  <2>2. nd2[l2.head].next = s2[1]
    <3>1. s2[1] = s[1] /\ nd[l.head].next = s[1]
      BY <1>1, <1>2, <1>5
    <3> QED BY <1>6, <1>11, <3>1
  <2>3. nd2[l2.tail].next = s2[Len(s2)]
    BY <1>5, <1>6, <1>8
  <2>4. ASSUME NEW k \in 1 .. z + 1 PROVE nd2[s2[k]].value = f2[k] /\ s2[k] # l2.head /\ s2[k] # l2.tail
    <3>1. CASE k \in 1 .. z - 1
      BY <1>1, <1>5, <1>6, <1>10, <3>1
    <3>2. CASE k = z
      BY <1>1, <1>2, <1>4, <1>5, <1>6, <1>8, <3>2
    <3>3. CASE k = z + 1
      BY <1>4, <1>5, <1>6, <1>7, <1>8, <3>3
    <3> QED BY <2>1, <3>1, <3>2, <3>3
  <2>5. ASSUME NEW k \in 1 .. z PROVE nd2[s2[k]].next = s2[k + 1]
    <3>1. CASE k = z
      BY <1>2, <1>5, <1>8, <3>1
    <3>2. CASE k # z
      <4>1. k \in 1 .. z - 1 /\ k + 1 \in 1 .. z
        BY <1>2, <3>2
      <4> QED BY <1>1, <1>5, <1>10, <4>1
    <3> QED BY <3>1, <3>2
  <2>6. ASSUME NEW k \in 1 .. z + 1, NEW m \in 1 .. z + 1, s2[k] = s2[m] PROVE k = m
    <3>1. \A j \in 1 .. z + 1 : j \in 1 .. z \/ j = z + 1
      BY <1>2
    <3> QED BY <1>1, <1>4, <1>5, <2>6, <3>1
  <2>7. l2.size = Len(s2) /\ Len(f2) = Len(s2) /\ l2.head # NULL /\ l2.tail # NULL /\ l2.head # l2.tail
    BY <1>3, <1>5, <1>6
  <2>8. Len(s2) = z + 1 /\ Len(s2) - 1 = z
    BY <1>2, <1>5
  <2> HIDE DEF z
  <2> QED BY <2>2, <2>3, <2>4, <2>5, <2>6, <2>7, <2>8 DEF OneList
<1>13. \A m \in Pool : nd2[m] = nd[m] \/ m = n \/ HasNode(s, l, m)
  <2>1. HasNode(s, l, last) /\ HasNode(s, l, l.tail)
    BY <1>2 DEF HasNode
  <2> HIDE DEF last
  <2> QED BY <1>8, <2>1
<1>14. \A m : HasNode(s2, l2, m) => m = n \/ HasNode(s, l, m)
  <2>1. \A j \in 1 .. z + 1 : j \in 1 .. z \/ j = z + 1
    BY <1>2
  <2> QED BY <1>5, <1>6, <2>1 DEF HasNode
<1>15. Becomes(s, l, nd, {n}, s2, l2, f2, nd2)
  BY <1>5, <1>6, <1>8, <1>12, <1>13, <1>14 DEF Becomes
<1> QED BY <1>15 DEF s2, f2, l2, nd2, fresh

\* Appended, for a list and a pool that are named.
LEMMA AppendList ==
  ASSUME NEW s \in Seq(Pool), NEW l \in FreeList, NEW f \in Seq(KernelObject), NEW nd \in [Pool -> Node],
         OneList(s, l, f, nd), Len(s) > 0, NEW n \in Pool, ~HasNode(s, l, n), NEW item \in KernelObject,
         NEW l2, l2 = [l EXCEPT !.size = @ + 1],
         NEW nd2, nd2 = [nd EXCEPT ![n] = [value |-> item, next |-> NULL],
                                   ![nd[l.tail].next].next = n, ![l.tail].next = n]
  PROVE  Becomes(s, l, nd, {n}, Append(s, n), l2, Append(f, item), nd2)
<1>1. Becomes(s, l, nd, {n}, Append(s, n), [l EXCEPT !.size = @ + 1], Append(f, item),
              [nd EXCEPT ![n] = [value |-> item, next |-> NULL],
                         ![nd[l.tail].next].next = n, ![l.tail].next = n])
  BY Appended
<1> QED BY <1>1

\* LinkOnly makes a list of one node.
LEMMA StartList ==
  ASSUME NEW h \in Pool, NEW t \in Pool, NEW n \in Pool, h # t, n # h, n # t,
         NEW nd \in [Pool -> Node], NEW item \in KernelObject
  PROVE  LET nd2 == [nd EXCEPT ![n] = [value |-> item, next |-> t], ![h].next = n, ![t].next = n]
         IN  /\ OneList(<<n>>, [head |-> h, tail |-> t, size |-> 1], <<item>>, nd2)
             /\ nd2 \in [Pool -> Node]
             /\ \A m \in Pool : nd2[m] = nd[m] \/ m \in {n, h, t}
             /\ <<n>> \in Seq(Pool)
             /\ [head |-> h, tail |-> t, size |-> 1] \in FreeList
             /\ \A m : HasNode(<<n>>, [head |-> h, tail |-> t, size |-> 1], m) => m \in {n, h, t}
<1> DEFINE fresh == [value |-> item, next |-> t]
           nd2 == [nd EXCEPT ![n] = fresh, ![h].next = n, ![t].next = n]
           l2 == [head |-> h, tail |-> t, size |-> 1]
           s2 == <<n>>
           f2 == <<item>>
<1>1. fresh \in Node /\ fresh.value = item
  <2>1. item \in NodeItem
    BY ObjectsAssumption DEF NodeItem, KernelObject, Shifts
  <2> QED BY <2>1 DEF Node
<1>2. h # NULL /\ t # NULL /\ n # NULL
  BY DEF Pool, NULL
<1>3. \A m \in Pool : nd[m] \in Node
  OBVIOUS
<1>4. \A x \in Node : /\ [x EXCEPT !.next = n] \in Node
                      /\ [x EXCEPT !.next = n].next = n /\ [x EXCEPT !.next = n].value = x.value
  BY DEF Node
<1> DEFINE a == [nd EXCEPT ![n] = fresh]
           b == [a EXCEPT ![h] = [a[h] EXCEPT !.next = n]]
           e == [b EXCEPT ![t] = [b[t] EXCEPT !.next = n]]
<1>5. nd2 = e
  OBVIOUS
<1> HIDE DEF nd2, fresh
<1>6. a \in [Pool -> Node] /\ a[n] = fresh /\ \A m \in Pool : m # n => a[m] = nd[m]
  BY <1>1, <1>3
<1> HIDE DEF a
<1>7. b \in [Pool -> Node] /\ b[h] = [a[h] EXCEPT !.next = n] /\ \A m \in Pool : m # h => b[m] = a[m]
  BY <1>4, <1>6
<1> HIDE DEF b
<1>8. e \in [Pool -> Node] /\ e[t] = [b[t] EXCEPT !.next = n] /\ \A m \in Pool : m # t => e[m] = b[m]
  BY <1>4, <1>7
<1> HIDE DEF e
<1>9. nd2[n].value = item /\ nd2[h].next = n /\ nd2[t].next = n
  <2>1. e[n] = fresh
    BY <1>6, <1>7, <1>8
  <2>2. e[h] = [nd[h] EXCEPT !.next = n]
    BY <1>6, <1>7, <1>8
  <2>3. e[t] = [nd[t] EXCEPT !.next = n]
    BY <1>6, <1>7, <1>8
  <2> QED BY <1>1, <1>3, <1>4, <1>5, <2>1, <2>2, <2>3
<1>10. \A m \in Pool : nd2[m] = nd[m] \/ m \in {n, h, t}
  BY <1>5, <1>6, <1>7, <1>8
<1>11. /\ l2.head = h /\ l2.tail = t /\ l2.size = 1 /\ l2 \in FreeList
       /\ s2 \in Seq(Pool) /\ Len(s2) = 1 /\ s2[1] = n /\ Len(f2) = 1 /\ f2[1] = item
       /\ 1 .. 1 = {1} /\ 1 .. 1 - 1 = {}
  BY DEF FreeList
<1> HIDE DEF l2, s2, f2
<1>12. OneList(s2, l2, f2, nd2)
  BY <1>2, <1>9, <1>11 DEF OneList
<1>13. \A m : HasNode(s2, l2, m) => m \in {n, h, t}
  BY <1>11 DEF HasNode
<1> QED BY <1>5, <1>8, <1>10, <1>11, <1>12, <1>13 DEF nd2, fresh, l2, s2, f2

\* dequeue_front takes the first node off a list.
LEMMA TakenOff ==
  ASSUME NEW s \in Seq(Pool), NEW l \in FreeList, NEW f \in Seq(KernelObject), NEW nd \in [Pool -> Node],
         OneList(s, l, f, nd), Len(s) > 0
  PROVE  /\ nd[nd[l.head].next].value = f[1]
         /\ Becomes(s, l, nd, {}, Tail(s), [l EXCEPT !.size = @ - 1], Tail(f),
                    [[nd EXCEPT ![l.head].next = nd[nd[l.head].next].next]
                         EXCEPT ![nd[l.head].next].next = NULL])
<1> DEFINE z == Len(s)
           n == nd[l.head].next
           h == l.head
           x == nd[n].next
           nd1 == [nd EXCEPT ![h].next = x]
           nd2 == [nd1 EXCEPT ![n].next = NULL]
           s2 == Tail(s)
           f2 == Tail(f)
           l2 == [l EXCEPT !.size = @ - 1]
<1>1. /\ l.size = Len(s) /\ Len(f) = Len(s)
      /\ l.head = NULL => l.tail = NULL /\ Len(s) = 0
      /\ l.head # NULL => l.tail # NULL /\ l.head # l.tail
      /\ Len(s) > 0 => nd[l.head].next = s[1] /\ nd[l.tail].next = s[Len(s)]
      /\ \A k \in 1 .. Len(s) : nd[s[k]].value = f[k] /\ s[k] # l.head /\ s[k] # l.tail
      /\ \A k \in 1 .. Len(s) - 1 : nd[s[k]].next = s[k + 1]
      /\ \A k, m \in 1 .. Len(s) : s[k] = s[m] => k = m
  BY DEF OneList
<1>2. Len(s) \in Nat /\ z \in Nat /\ z > 0 /\ 1 \in 1 .. z /\ z \in 1 .. z /\ \A k \in 1 .. z : s[k] \in Pool
  BY NodesOf
<1>3. h \in Pool /\ l.tail \in Pool /\ h # l.tail /\ h # NULL /\ l.tail # NULL
  <2>1. l.head \in Pool \cup {NULL} /\ l.tail \in Pool \cup {NULL}
    BY DEF FreeList
  <2> QED BY <1>1, <1>2, <2>1
<1>4. n = s[1] /\ n \in Pool /\ n # h /\ n # l.tail /\ nd[n].value = f[1]
  BY <1>1, <1>2
<1>5. /\ s2 \in Seq(Pool) /\ Len(s2) = z - 1 /\ \A k \in 1 .. z - 1 : s2[k] = s[k + 1] /\ k + 1 \in 1 .. z
      /\ Len(f2) = z - 1 /\ \A k \in 1 .. z - 1 : f2[k] = f[k + 1]
  <2>1. s # <<>> /\ f # <<>>
    BY <1>1, <1>2
  <2> QED BY <1>1, <1>2, <2>1
<1>6. l2 \in FreeList /\ l2.head = h /\ l2.tail = l.tail /\ l2.size = z - 1
  <2>1. z - 1 \in Nat
    BY <1>2
  <2> QED BY <1>1, <2>1 DEF FreeList
<1>7. \A m \in Pool : nd[m] \in Node
  OBVIOUS
<1>8. x \in Pool \cup {NULL}
  BY <1>4, <1>7 DEF Node
<1>9. \A y \in Node, v \in Pool \cup {NULL} :
         [y EXCEPT !.next = v] \in Node /\ [y EXCEPT !.next = v].next = v /\ [y EXCEPT !.next = v].value = y.value
  BY DEF Node
<1>10. nd1 = [nd EXCEPT ![h] = [nd[h] EXCEPT !.next = x]] /\ nd2 = [nd1 EXCEPT ![n] = [nd1[n] EXCEPT !.next = NULL]]
  OBVIOUS
<1> HIDE DEF s2, f2, l2, x, n, h, nd1, nd2
<1>11. nd1 \in [Pool -> Node] /\ nd1[h].next = x /\ \A m \in Pool : m # h => nd1[m] = nd[m]
  BY <1>3, <1>7, <1>8, <1>9, <1>10
<1>12. nd2 \in [Pool -> Node] /\ nd2[h].next = x /\ \A m \in Pool : m # h /\ m # n => nd2[m] = nd[m]
  BY <1>3, <1>4, <1>9, <1>10, <1>11
<1>13. ASSUME NEW k \in 1 .. z - 1 PROVE nd2[s2[k]] = nd[s[k + 1]] /\ s[k + 1] # h /\ s[k + 1] # l.tail
  <2>1. k + 1 \in 1 .. z /\ s2[k] = s[k + 1] /\ s[k + 1] \in Pool /\ k + 1 # 1
    BY <1>2, <1>5
  <2>2. s[k + 1] # h /\ s[k + 1] # l.tail /\ s[k + 1] # n
    BY <1>1, <1>2, <1>4, <2>1 DEF h
  <2> QED BY <1>12, <2>1, <2>2
<1>14. OneList(s2, l2, f2, nd2)
  <2>1. z - 1 > 0 => nd2[l2.head].next = s2[1] /\ nd2[l2.tail].next = s2[z - 1]
    <3> SUFFICES ASSUME z - 1 > 0 PROVE nd2[l2.head].next = s2[1] /\ nd2[l2.tail].next = s2[z - 1]
      OBVIOUS
    <3>1. 1 \in 1 .. z - 1 /\ z - 1 \in 1 .. z - 1 /\ (z - 1) + 1 = z
      BY <1>2
    <3>2. x = s[1 + 1]
      BY <1>1, <1>4, <3>1 DEF x
    <3>3. s2[1] = s[1 + 1] /\ s2[z - 1] = s[z]
      BY <1>5, <3>1
    <3>4. nd2[l.tail] = nd[l.tail] /\ nd[l.tail].next = s[z]
      BY <1>1, <1>2, <1>3, <1>4, <1>12
    <3> HIDE DEF z
    <3> QED BY <1>6, <1>12, <3>2, <3>3, <3>4
  <2>2. ASSUME NEW k \in 1 .. z - 1 PROVE nd2[s2[k]].value = f2[k] /\ s2[k] # l2.head /\ s2[k] # l2.tail
    BY <1>1, <1>5, <1>6, <1>13
  <2>3. ASSUME NEW k \in 1 .. (z - 1) - 1 PROVE nd2[s2[k]].next = s2[k + 1]
    <3>1. k \in 1 .. z - 1 /\ k + 1 \in 1 .. z - 1
      BY <1>2
    <3>2. s2[k + 1] = s[(k + 1) + 1] /\ nd2[s2[k]] = nd[s[k + 1]]
      BY <1>5, <1>13, <3>1
    <3> QED BY <1>1, <3>1, <3>2
  <2>4. ASSUME NEW k \in 1 .. z - 1, NEW m \in 1 .. z - 1, s2[k] = s2[m] PROVE k = m
    <3>1. k + 1 \in 1 .. z /\ m + 1 \in 1 .. z /\ s[k + 1] = s[m + 1]
      BY <1>5, <2>4
    <3>2. k + 1 = m + 1
      BY <1>1, <3>1
    <3> QED BY <3>2
  <2>5. l2.size = Len(s2) /\ Len(f2) = Len(s2) /\ l2.head # NULL /\ l2.tail # NULL /\ l2.head # l2.tail
    BY <1>3, <1>5, <1>6
  <2>6. Len(s2) = z - 1
    BY <1>5
  <2> HIDE DEF z
  <2> QED BY <2>1, <2>2, <2>3, <2>4, <2>5, <2>6 DEF OneList
<1>15. \A m \in Pool : nd2[m] = nd[m] \/ HasNode(s, l, m)
  <2>1. HasNode(s, l, h) /\ HasNode(s, l, n)
    BY <1>2, <1>4 DEF HasNode, h
  <2> QED BY <1>12, <2>1
<1>16. \A m : HasNode(s2, l2, m) => HasNode(s, l, m)
  BY <1>5, <1>6 DEF HasNode, h
<1>17. Becomes(s, l, nd, {}, s2, l2, f2, nd2)
  BY <1>5, <1>6, <1>12, <1>14, <1>15, <1>16 DEF Becomes
<1> QED BY <1>4, <1>17 DEF s2, f2, l2, x, n, h, nd1, nd2

\* TakenOff, for a list and a pool that are named.
LEMMA DropList ==
  ASSUME NEW s \in Seq(Pool), NEW l \in FreeList, NEW f \in Seq(KernelObject), NEW nd \in [Pool -> Node],
         OneList(s, l, f, nd), Len(s) > 0,
         NEW n, n = nd[l.head].next, NEW l2, l2 = [l EXCEPT !.size = @ - 1],
         NEW nd2, nd2 = [[nd EXCEPT ![l.head].next = nd[n].next] EXCEPT ![n].next = NULL]
  PROVE  nd[n].value = f[1] /\ Becomes(s, l, nd, {}, Tail(s), l2, Tail(f), nd2)
<1>1. /\ nd[nd[l.head].next].value = f[1]
      /\ Becomes(s, l, nd, {}, Tail(s), [l EXCEPT !.size = @ - 1], Tail(f),
                 [[nd EXCEPT ![l.head].next = nd[nd[l.head].next].next]
                      EXCEPT ![nd[l.head].next].next = NULL])
  BY TakenOff
<1> QED BY <1>1

\* The nodes node_alloc may give, and the one it gives while the pool is new.
LEMMA AllocIs ==
  ASSUME NEW k \in Nat
  PROVE  /\ node_alloc(k) \subseteq 0 .. Nodes
         /\ k < Nodes /\ node[k].next = NULL => node_alloc(k) = {k}
<1>0. Nodes \in Nat
  BY ObjectsAssumption
<1>1. ASSUME NEW m \in Nat, FreeFrom(m) # {}
      PROVE  Min(FreeFrom(m)) \in FreeFrom(m) /\ \A x \in FreeFrom(m) : Min(FreeFrom(m)) <= x
  <2>1. FreeFrom(m) \in SUBSET Nat
    BY <1>0 DEF FreeFrom
  <2> QED BY <1>1, <2>1, MinOf
<1>2. \A m \in Nat : FreeFrom(m) \subseteq 0 .. Nodes
  BY <1>0 DEF FreeFrom
<1> DEFINE wrapped == IF FreeFrom(0) = {} THEN OutOfPool ELSE Min(FreeFrom(0))
<1>3. wrapped \in 0 .. Nodes /\ OutOfPool \in 0 .. Nodes
  BY <1>0, <1>1, <1>2 DEF OutOfPool
<1>4. /\ k >= Nodes => node_alloc(k) = {OutOfPool, wrapped}
      /\ k < Nodes => node_alloc(k) = {IF FreeFrom(k) = {} THEN wrapped ELSE Min(FreeFrom(k))}
  BY <1>0 DEF node_alloc
<1> HIDE DEF wrapped
<1>5. node_alloc(k) \subseteq 0 .. Nodes
  BY <1>0, <1>1, <1>2, <1>3, <1>4
<1>6. ASSUME k < Nodes, node[k].next = NULL PROVE node_alloc(k) = {k}
  <2>1. k \in FreeFrom(k) /\ \A x \in FreeFrom(k) : x \in Nat /\ k <= x
    BY <1>0, <1>6 DEF FreeFrom
  <2>2. Min(FreeFrom(k)) = k
    BY <1>1, <2>1
  <2> QED BY <1>4, <1>6, <2>1, <2>2
<1> QED BY <1>5, <1>6

\* Short sequences.
LEMMA Grown ==
  ASSUME NEW a \in Nat, NEW b \in Nat, NEW d \in Nat
  PROVE  Append(<<a>>, b) = <<a, b>> /\ Append(<<a, b>>, d) = <<a, b, d>>
<1>1. <<a>> \in Seq(Nat) /\ <<a, b>> \in Seq(Nat) /\ <<a, b, d>> \in Seq(Nat)
  OBVIOUS
<1>2. Len(<<a>>) = 1 /\ Len(<<a, b>>) = 2 /\ Len(<<a, b, d>>) = 3
  OBVIOUS
<1>3. /\ Append(<<a>>, b) \in Seq(Nat) /\ Len(Append(<<a>>, b)) = 2
      /\ Append(<<a>>, b)[1] = a /\ Append(<<a>>, b)[2] = b
  BY <1>1, <1>2, AppendProperties
<1>4. /\ Append(<<a, b>>, d) \in Seq(Nat) /\ Len(Append(<<a, b>>, d)) = 3
      /\ Append(<<a, b>>, d)[1] = a /\ Append(<<a, b>>, d)[2] = b /\ Append(<<a, b>>, d)[3] = d
  BY <1>1, <1>2, AppendProperties
<1>5. \A i \in 1 .. 2 : Append(<<a>>, b)[i] = <<a, b>>[i]
  BY <1>3
<1>6. \A i \in 1 .. 3 : Append(<<a, b>>, d)[i] = <<a, b, d>>[i]
  BY <1>4
<1> QED BY <1>1, <1>2, <1>3, <1>4, <1>5, <1>6, SeqEqual

\* The nodes enqueue_tail asks for: one, or three for a list without sentinels.
LEMMA NewIs ==
  ASSUME nodemem.next_free \in Nat, NEW first \in BOOLEAN, NEW ns \in NewNodes(first)
  PROVE  \/ /\ ~first
            /\ \E a \in node_alloc(nodemem.next_free) : a \in 0 .. Nodes /\ ns = <<a>>
         \/ /\ first
            /\ \E a \in node_alloc(nodemem.next_free) : \E b \in node_alloc(a + 1) : \E d \in node_alloc(b + 1) :
                 a \in 0 .. Nodes /\ b \in 0 .. Nodes /\ d \in 0 .. Nodes /\ ns = <<a, b, d>>
<1> DEFINE one == {<<n>> : n \in node_alloc(nodemem.next_free)}
           more(S) == UNION {{Append(x, n) : n \in node_alloc(x[Len(x)] + 1)} : x \in S}
<1>1. NewNodes(first) = IF first THEN more(more(one)) ELSE one
  BY DEF NewNodes
<1>2. \A x \in one : \E a \in node_alloc(nodemem.next_free) : x = <<a>>
  OBVIOUS
<1>3. ASSUME NEW S, NEW y \in more(S)
      PROVE  \E x \in S : \E n \in node_alloc(x[Len(x)] + 1) : y = Append(x, n)
  BY <1>3
<1> HIDE DEF one, more
<1>4. ASSUME NEW k \in Nat, NEW n \in node_alloc(k) PROVE n \in 0 .. Nodes /\ n + 1 \in Nat
  <2>1. n \in 0 .. Nodes
    BY AllocIs
  <2> QED BY <2>1, ObjectsAssumption
<1>5. CASE ~first
  BY <1>1, <1>2, <1>4, <1>5
<1>6. CASE first
  <2>1. ns \in more(more(one))
    BY <1>1, <1>6
  <2>2. PICK y \in more(one) : \E d \in node_alloc(y[Len(y)] + 1) : ns = Append(y, d)
    BY <1>3, <2>1
  <2>3. PICK x \in one : \E b \in node_alloc(x[Len(x)] + 1) : y = Append(x, b)
    BY <1>3
  <2>4. PICK a \in node_alloc(nodemem.next_free) : x = <<a>>
    BY <1>2
  <2>5. x[Len(x)] = a /\ a \in 0 .. Nodes /\ a + 1 \in Nat
    BY <1>4, <2>4
  <2>6. PICK b \in node_alloc(a + 1) : y = Append(x, b)
    BY <2>3, <2>5
  <2>0. \A n \in 0 .. Nodes : n \in Nat
    BY ObjectsAssumption
  <2>7. b \in 0 .. Nodes /\ b + 1 \in Nat /\ y = <<a, b>>
    BY <1>4, <2>0, <2>4, <2>5, <2>6, Grown
  <2>8. y[Len(y)] = b
    BY <2>7
  <2>9. PICK d \in node_alloc(b + 1) : ns = Append(y, d)
    BY <2>2, <2>8
  <2>10. d \in 0 .. Nodes
    BY <1>4, <2>7
  <2>11. ns = <<a, b, d>>
    <3>1. ns = Append(<<a, b>>, d)
      BY <2>7, <2>9
    <3>2. a \in Nat /\ b \in Nat /\ d \in Nat
      BY <2>0, <2>5, <2>7, <2>10
    <3>3. Append(<<a, b>>, d) = <<a, b, d>>
      BY <3>2, Grown
    <3> QED BY <3>1, <3>3
  <2> QED BY <1>6, <2>5, <2>7, <2>10, <2>11
<1> QED BY <1>5, <1>6

\* Such a step by nodes of list i and by unused nodes T, which end where the
\* nodes ahead begin.
ListChange(c, i, T, lists, fr, nodes, from, count, s2, l2, f2, nodes2, from2, count2) ==
  /\ ListsKept(c, lists, fr, nodes)
  /\ Ahead(c, lists, nodes, from, count)
  /\ \A n \in T : Spare(c, lists, n)
  /\ OneList(s2, l2, f2, nodes2)
  /\ \A n \in Pool : nodes2[n] = nodes[n] \/ n \in T \/ HasNode(c[i], lists[i], n)
  /\ \A n \in Pool : HasNode(s2, l2, n) => n \in T \/ HasNode(c[i], lists[i], n)
  /\ count2 <= Nodes => from2 = count2 /\ count <= count2 /\ \A n \in T : n < count2

\* A step that changes one list as ListChange says keeps all the lists, and the
\* nodes ahead.
LEMMA ListChanged ==
  ASSUME NEW c \in [Shifts -> Seq(Pool)], NEW i \in Shifts, NEW T \in SUBSET Pool,
         NEW ls \in [Shifts -> FreeList], NEW fr \in [Shifts -> Seq(KernelObject)], NEW nd \in [Pool -> Node],
         NEW s2 \in Seq(Pool), NEW l2 \in FreeList, NEW f2, NEW nd2,
         NEW from, NEW count \in Nat, NEW from2, NEW count2 \in Nat,
         ListChange(c, i, T, ls, fr, nd, from, count, s2, l2, f2, nd2, from2, count2)
  PROVE  \E d \in [Shifts -> Seq(Pool)] :
           /\ ListsKept(d, [ls EXCEPT ![i] = l2], [fr EXCEPT ![i] = f2], nd2)
           /\ Ahead(d, [ls EXCEPT ![i] = l2], nd2, from2, count2)
<1>0. /\ ListsKept(c, ls, fr, nd)
      /\ Ahead(c, ls, nd, from, count)
      /\ \A n \in T : Spare(c, ls, n)
      /\ OneList(s2, l2, f2, nd2)
      /\ \A n \in Pool : nd2[n] = nd[n] \/ n \in T \/ HasNode(c[i], ls[i], n)
      /\ \A n \in Pool : HasNode(s2, l2, n) => n \in T \/ HasNode(c[i], ls[i], n)
      /\ count2 <= Nodes => from2 = count2 /\ count <= count2 /\ \A n \in T : n < count2
  BY DEF ListChange
<1> DEFINE d == [c EXCEPT ![i] = s2]
           ls2 == [ls EXCEPT ![i] = l2]
           fr2 == [fr EXCEPT ![i] = f2]
<1>1. /\ d \in [Shifts -> Seq(Pool)] /\ ls2 \in [Shifts -> FreeList]
      /\ d[i] = s2 /\ ls2[i] = l2 /\ fr2[i] = f2
      /\ \A j \in Shifts : j # i => d[j] = c[j] /\ ls2[j] = ls[j] /\ fr2[j] = fr[j]
  OBVIOUS
<1> HIDE DEF d, ls2, fr2
<1>2. ListsKept(d, ls2, fr2, nd2)
  <2>1. \A n \in Pool : nd2[n] = nd[n] \/ HasNode(c[i], ls[i], n) \/ Spare(c, ls, n)
    BY <1>0
  <2>2. OneList(d[i], ls2[i], fr2[i], nd2)
    BY <1>0, <1>1
  <2>3. \A n \in Pool : HasNode(d[i], ls2[i], n) => HasNode(c[i], ls[i], n) \/ Spare(c, ls, n)
    BY <1>0, <1>1
  <2>4. OneChanges(c, d, i, ls, ls2, fr, fr2, nd, nd2)
    BY <1>0, <1>1, <2>1, <2>2, <2>3, Zenon DEF OneChanges
  <2>5. d \in [Shifts -> Seq(Pool)] /\ ls2 \in [Shifts -> FreeList]
    BY <1>1
  <2> QED BY <2>4, <2>5, ListsStep
<1>3. Ahead(d, ls2, nd2, from2, count2)
  <2> SUFFICES ASSUME count2 <= Nodes, NEW n \in Pool, n >= count2
               PROVE  nd2[n].next = NULL /\ Spare(d, ls2, n)
    BY <1>0 DEF Ahead
  <2>1. count <= Nodes /\ n >= count /\ n \notin T
    BY <1>0, ObjectsAssumption DEF Pool
  <2>2. nd[n].next = NULL /\ Spare(c, ls, n)
    BY <1>0, <2>1 DEF Ahead
  <2>3. \A j \in Shifts : ~HasNode(c[j], ls[j], n)
    BY <2>2 DEF Spare
  <2>4. \A j \in Shifts : ~HasNode(d[j], ls2[j], n)
    BY <1>0, <1>1, <2>1, <2>3
  <2> QED BY <1>0, <2>1, <2>2, <2>3, <2>4 DEF Spare
<1> QED BY <1>1, <1>2, <1>3 DEF ls2, fr2

\* The nodes of an allocation while what lies ahead is unused are the next ones.
LEMMA NextNodes ==
  ASSUME ListsTyped, NEW c, Ahead(c, freelist, node, nodemem.next_free, handed),
         NEW first \in BOOLEAN, NEW ns \in NewNodes(first), handed + (IF first THEN 3 ELSE 1) <= Nodes
  PROVE  /\ nodemem.next_free = handed
         /\ first => ns = <<handed, handed + 1, handed + 2>>
         /\ ~first => ns = <<handed>>
<1>0. handed \in Nat /\ Nodes \in Nat /\ handed <= Nodes /\ nodemem.next_free \in Nat
  BY ObjectsAssumption DEF ListsTyped
<1>1. nodemem.next_free = handed /\ \A n \in Pool : n >= handed => node[n].next = NULL
  BY <1>0 DEF Ahead
<1>2. \A n \in Nat : handed <= n /\ n < Nodes => node_alloc(n) = {n}
  <2>1. ASSUME NEW n \in Nat, handed <= n, n < Nodes PROVE node_alloc(n) = {n}
    <3>1. n \in Pool /\ n >= handed
      BY <1>0, <2>1 DEF Pool
    <3>2. node[n].next = NULL
      BY <1>1, <3>1
    <3> QED BY <2>1, <3>2, AllocIs
  <2> QED BY <2>1
<1>3. CASE ~first
  <2>1. node_alloc(handed) = {handed}
    BY <1>0, <1>2, <1>3
  <2> QED BY <1>0, <1>1, <1>3, <2>1, NewIs
<1>4. CASE first
  <2>1. node_alloc(handed) = {handed} /\ node_alloc(handed + 1) = {handed + 1} /\ node_alloc(handed + 2) = {handed + 2}
    BY <1>0, <1>2, <1>4
  <2>2. (handed + 1) + 1 = handed + 2
    BY <1>0
  <2>3. PICK a \in node_alloc(nodemem.next_free) : \E b \in node_alloc(a + 1) : \E d \in node_alloc(b + 1) : ns = <<a, b, d>>
    BY <1>0, <1>4, NewIs
  <2>4. a = handed
    BY <1>1, <2>1, <2>3
  <2>5. PICK b \in node_alloc(handed + 1) : \E d \in node_alloc(b + 1) : ns = <<handed, b, d>>
    BY <2>3, <2>4
  <2>6. b = handed + 1
    BY <2>1, <2>5
  <2>7. \E d \in node_alloc(handed + 2) : ns = <<handed, handed + 1, d>>
    BY <2>2, <2>5, <2>6
  <2>8. ns = <<handed, handed + 1, handed + 2>>
    BY <2>1, <2>7
  <2> QED BY <1>1, <1>4, <2>8
<1> QED BY <1>3, <1>4

\* enqueue_tail with nodes that are free.
LEMMA EnqueueGood ==
  ASSUME ListInv, ~broken, NEW i \in Shifts, NEW item \in KernelObject, freed \in [Shifts -> Seq(KernelObject)],
         NEW ns \in NewNodes(freelist[i].head = NULL), Sound(ns), Link(i, ns, item),
         nodemem' = [next_free |-> ns[Len(ns)] + 1, num_free |-> nodemem.num_free - Len(ns)],
         handed' = handed + Len(ns), broken' = broken, freed' = [freed EXCEPT ![i] = Append(@, item)]
  PROVE  ListInv'
<1> DEFINE l == freelist[i]
           first == l.head = NULL
           f == freed[i]
<1>0. ListsTyped
  BY DEF ListInv
<1>1. /\ freelist \in [Shifts -> FreeList] /\ node \in [Pool -> Node] /\ handed \in Nat /\ Nodes \in Nat
      /\ nodemem.next_free \in Nat /\ nodemem.num_free \in Nat /\ first \in BOOLEAN
      /\ l \in FreeList /\ f \in Seq(KernelObject) /\ Len(f) \in Nat
  <2>1. nodemem \in [next_free : Nat, num_free : Nat] /\ freelist \in [Shifts -> FreeList]
    BY <1>0 DEF ListsTyped
  <2>2. f \in Seq(KernelObject) /\ l \in FreeList
    BY <2>1
  <2>3. first \in BOOLEAN
    OBVIOUS
  <2>4. Len(f) \in Nat
    BY <2>2
  <2>5. nodemem.next_free \in Nat /\ nodemem.num_free \in Nat
    BY <2>1
  <2>6. node \in [Pool -> Node] /\ handed \in Nat /\ Nodes \in Nat
    BY <1>0, ObjectsAssumption DEF ListsTyped
  <2> HIDE DEF l, f, first
  <2> QED BY <2>1, <2>2, <2>3, <2>4, <2>5, <2>6
<1>2. PICK c \in [Shifts -> Seq(Pool)] : /\ ListsKept(c, freelist, freed, node)
                                         /\ Ahead(c, freelist, node, nodemem.next_free, handed)
  BY DEF ListInv
<1> DEFINE s == c[i]
<1>3. s \in Seq(Pool) /\ OneList(s, l, f, node) /\ Len(s) \in Nat
  <2>1. s \in Seq(Pool) /\ OneList(s, l, f, node)
    BY <1>2 DEF ListsKept
  <2> QED BY <2>1, NodesOf
<1>4. \/ ~first /\ Len(ns) = 1 /\ ns = <<ns[1]>> /\ DOMAIN ns = {1} /\ ns[1] \in 0 .. Nodes
      \/ /\ first /\ Len(ns) = 3 /\ DOMAIN ns = {1, 2, 3}
         /\ ns[1] \in 0 .. Nodes /\ ns[2] \in 0 .. Nodes /\ ns[3] \in 0 .. Nodes
  <2>1. CASE ~first
    <3>1. PICK a \in node_alloc(nodemem.next_free) : a \in 0 .. Nodes /\ ns = <<a>>
      BY <1>1, <2>1, NewIs
    <3> QED BY <2>1, <3>1
  <2>2. CASE first
    <3>1. \E a \in node_alloc(nodemem.next_free) : \E b \in node_alloc(a + 1) : \E d \in node_alloc(b + 1) :
             a \in 0 .. Nodes /\ b \in 0 .. Nodes /\ d \in 0 .. Nodes /\ ns = <<a, b, d>>
      BY <1>1, <2>2, NewIs
    <3>2. PICK a \in 0 .. Nodes, b \in 0 .. Nodes, d \in 0 .. Nodes : ns = <<a, b, d>>
      BY <3>1
    <3>3. Len(ns) = 3 /\ DOMAIN ns = 1 .. 3 /\ ns[1] = a /\ ns[2] = b /\ ns[3] = d
      BY <3>2
    <3> QED BY <2>2, <3>3
  <2> QED BY <2>1, <2>2
<1>5. /\ nodemem.num_free >= Len(ns)
      /\ \A a, b \in DOMAIN ns : ns[a] = ns[b] => a = b
      /\ \A a \in DOMAIN ns : ns[a] # Nodes /\ ns[a] \notin InLists
  BY DEF Sound, IsInjective, Range, OutOfPool
<1>6. \A a \in DOMAIN ns : ns[a] \in Pool /\ Spare(c, freelist, ns[a])
  <2>1. \A a \in DOMAIN ns : ns[a] \in Pool
    <3>1. ASSUME NEW a \in DOMAIN ns PROVE ns[a] \in Pool
      <4>1. ns[a] \in 0 .. Nodes /\ ns[a] # Nodes
        BY <1>4, <1>5
      <4> QED BY <1>1, <4>1 DEF Pool
    <3> QED BY <3>1
  <2> QED BY <1>0, <1>2, <1>5, <2>1, InListsIs
<1> DEFINE T == {ns[a] : a \in DOMAIN ns}
<1>7. T \in SUBSET Pool /\ \A n \in T : Spare(c, freelist, n)
  BY <1>6
<1>8. /\ nodemem' \in [next_free : Nat, num_free : Nat] /\ handed' \in Nat /\ ~broken'
      /\ nodemem'.next_free = ns[Len(ns)] + 1
  <2>1. Len(ns) \in Nat /\ ns[Len(ns)] \in Nat
    <3>1. CASE ~first
      <4>1. Len(ns) = 1 /\ ns[1] \in 0 .. Nodes
        BY <1>4, <3>1
      <4> QED BY <1>1, <4>1
    <3>2. CASE first
      <4>1. Len(ns) = 3 /\ ns[3] \in 0 .. Nodes
        BY <1>4, <3>2
      <4> QED BY <1>1, <4>1
    <3> QED BY <3>1, <3>2
  <2>2. nodemem.num_free - Len(ns) \in Nat
    <3>1. nodemem.num_free \in Nat /\ nodemem.num_free >= Len(ns)
      BY <1>1, <1>5
    <3> QED BY <2>1, <3>1
  <2>3. nodemem' \in [next_free : Nat, num_free : Nat] /\ nodemem'.next_free = ns[Len(ns)] + 1
    <3>1. ns[Len(ns)] + 1 \in Nat
      BY <2>1
    <3> QED BY <2>2, <3>1
  <2>4. handed' \in Nat
    BY <1>1, <2>1
  <2>5. ~broken'
    OBVIOUS
  <2> QED BY <2>3, <2>4, <2>5
<1>9. handed' <= Nodes => nodemem'.next_free = handed' /\ handed <= handed' /\ \A n \in T : n < handed'
  <2> SUFFICES ASSUME handed' <= Nodes
               PROVE  nodemem'.next_free = handed' /\ handed <= handed' /\ \A n \in T : n < handed'
    OBVIOUS
  <2>1. CASE ~first
    <3>1. Len(ns) = 1 /\ DOMAIN ns = {1} /\ handed' = handed + 1
      BY <1>4, <2>1
    <3>2. ns = <<handed>>
      BY <1>0, <1>1, <1>2, <2>1, <3>1, NextNodes
    <3>3. ns[1] = handed
      BY <3>2
    <3> QED BY <1>1, <1>8, <3>1, <3>3
  <2>2. CASE first
    <3>1. Len(ns) = 3 /\ DOMAIN ns = {1, 2, 3} /\ handed' = handed + 3
      BY <1>4, <2>2
    <3>2. ns = <<handed, handed + 1, handed + 2>>
      BY <1>0, <1>1, <1>2, <2>2, <3>1, NextNodes
    <3>3. ns[1] = handed /\ ns[2] = handed + 1 /\ ns[3] = handed + 2
      BY <3>2
    <3> QED BY <1>1, <1>8, <3>1, <3>3
  <2> QED BY <2>1, <2>2
\* What Link makes of the list.
<1>10. PICK s2 \in Seq(Pool), l2 \in FreeList :
         /\ freelist' = [freelist EXCEPT ![i] = l2]
         /\ node' \in [Pool -> Node]
         /\ OneList(s2, l2, Append(f, item), node')
         /\ \A n \in Pool : node'[n] = node[n] \/ n \in T \/ HasNode(s, l, n)
         /\ \A n \in Pool : HasNode(s2, l2, n) => n \in T \/ HasNode(s, l, n)
  <2>0. l.size = Len(s) /\ Len(f) = Len(s)
    BY <1>3 DEF OneList
  <2>1. CASE l.size > 0
    <3>1. ~first
      BY <1>3, <2>0, <2>1 DEF OneList
    <3> DEFINE n == ns[1]
    <3>2. n \in Pool /\ ~HasNode(s, l, n) /\ n \in T
      BY <1>4, <1>6, <3>1 DEF Spare
    <3>3. /\ node' = [node EXCEPT ![n] = [value |-> item, next |-> NULL],
                                  ![node[l.tail].next].next = n, ![l.tail].next = n]
          /\ freelist' = [freelist EXCEPT ![i] = [l EXCEPT !.size = @ + 1]]
      BY <1>1, <2>1 DEF Link, LinkLast
    <3> DEFINE l2 == [l EXCEPT !.size = @ + 1]
    <3> HIDE DEF n, s, l, f, T, l2
    <3>4. Len(s) > 0 /\ l2 = [l EXCEPT !.size = @ + 1]
      BY <2>0, <2>1 DEF l2
    <3>5. Becomes(s, l, node, {n}, Append(s, n), l2, Append(f, item), node')
      BY <1>1, <1>3, <3>2, <3>3, <3>4, AppendList
    <3>6. freelist' = [freelist EXCEPT ![i] = l2]
      BY <3>3, <3>4
    <3> QED BY <3>2, <3>5, <3>6 DEF Becomes
  <2>2. CASE ~(l.size > 0)
    <3>1. Len(s) = 0 /\ Len(f) = 0 /\ f = <<>> /\ Append(f, item) = <<item>>
      <4>1. Len(s) = 0 /\ Len(f) = 0
        BY <1>3, <2>0, <2>2
      <4>2. f = <<>>
        BY <1>1, <4>1, EmptySeq
      <4> QED BY <4>1, <4>2
    <3> DEFINE n == ns[1]
               h == IF first THEN ns[2] ELSE l.head
               t == IF first THEN ns[3] ELSE l.tail
               l2 == [head |-> h, tail |-> t, size |-> 1]
               nd2 == [node EXCEPT ![n] = [value |-> item, next |-> t], ![h].next = n, ![t].next = n]
    <3>2. node' = nd2 /\ freelist' = [freelist EXCEPT ![i] = l2]
      <4>1. CASE first
        <5>1. LinkOnly(i, ns[1], ns[2], ns[3], item)
          BY <1>4, <2>2, <4>1 DEF Link
        <5>2. h = ns[2] /\ t = ns[3]
          BY <4>1
        <5> HIDE DEF h, t
        <5> QED BY <5>1, <5>2 DEF LinkOnly
      <4>2. CASE ~first
        <5>1. LinkOnly(i, ns[1], l.head, l.tail, item)
          BY <1>4, <2>2, <4>2 DEF Link
        <5>2. h = l.head /\ t = l.tail
          BY <4>2
        <5> HIDE DEF h, t
        <5> QED BY <5>1, <5>2 DEF LinkOnly
      <4> QED BY <4>1, <4>2
    <3>3. /\ n \in Pool /\ h \in Pool /\ t \in Pool /\ h # t /\ n # h /\ n # t
          /\ n \in T /\ h \in T \cup {l.head} /\ t \in T \cup {l.tail}
      <4>1. CASE first
        <5>1. DOMAIN ns = {1, 2, 3} /\ h = ns[2] /\ t = ns[3]
          BY <1>4, <4>1
        <5>2. ns[1] # ns[2] /\ ns[1] # ns[3] /\ ns[2] # ns[3]
          BY <1>5, <5>1
        <5> QED BY <1>6, <5>1, <5>2
      <4>2. CASE ~first
        <5>1. DOMAIN ns = {1} /\ h = l.head /\ t = l.tail
          BY <1>4, <4>2
        <5>2. h # NULL /\ t # NULL /\ h # t
          BY <1>3, <4>2, <5>1 DEF OneList
        <5>3. h \in Pool /\ t \in Pool
          BY <1>1, <5>1, <5>2 DEF FreeList
        <5>4. ~HasNode(s, l, n) /\ n \in T /\ n \in Pool
          BY <1>6, <5>1 DEF Spare
        <5>5. n # h /\ n # t
          BY <5>1, <5>4 DEF HasNode
        <5> QED BY <5>1, <5>2, <5>3, <5>4, <5>5
      <4> QED BY <4>1, <4>2
    <3> HIDE DEF n, h, t, s, l, f, T, first
    <3>4. /\ OneList(<<n>>, l2, <<item>>, nd2)
          /\ nd2 \in [Pool -> Node]
          /\ \A m \in Pool : nd2[m] = node[m] \/ m \in {n, h, t}
          /\ <<n>> \in Seq(Pool)
          /\ l2 \in FreeList
          /\ \A m : HasNode(<<n>>, l2, m) => m \in {n, h, t}
      BY <1>1, <3>3, StartList
    <3>5. \A m \in {n, h, t} : m \in T \/ HasNode(s, l, m)
      BY <3>3 DEF HasNode
    <3> HIDE DEF nd2, l2
    <3> QED BY <3>1, <3>2, <3>4, <3>5
  <2> QED BY <2>1, <2>2
<1>11. freed' = [freed EXCEPT ![i] = Append(f, item)]
  OBVIOUS
<1>12. \E d \in [Shifts -> Seq(Pool)] :
         /\ ListsKept(d, freelist', freed', node')
         /\ Ahead(d, freelist', node', nodemem'.next_free, handed')
  <2> DEFINE f2 == Append(f, item)
             from2 == nodemem'.next_free
             count2 == handed'
             nd2 == node'
  <2>1. /\ OneList(s2, l2, f2, nd2)
        /\ \A n \in Pool : nd2[n] = node[n] \/ n \in T \/ HasNode(c[i], freelist[i], n)
        /\ \A n \in Pool : HasNode(s2, l2, n) => n \in T \/ HasNode(c[i], freelist[i], n)
    BY <1>10
  <2>2. count2 <= Nodes => from2 = count2 /\ handed <= count2 /\ \A n \in T : n < count2
    BY <1>9
  <2> HIDE DEF f2, from2, count2, nd2, T
  <2>3. \E d \in [Shifts -> Seq(Pool)] :
           /\ ListsKept(d, [freelist EXCEPT ![i] = l2], [freed EXCEPT ![i] = f2], nd2)
           /\ Ahead(d, [freelist EXCEPT ![i] = l2], nd2, from2, count2)
    <3>1. ListChange(c, i, T, freelist, freed, node, nodemem.next_free, handed, s2, l2, f2, nd2, from2, count2)
      BY <1>2, <1>7, <2>1, <2>2, Zenon DEF ListChange
    <3>2. count2 \in Nat /\ handed \in Nat
      BY <1>1, <1>8 DEF count2
    <3> QED BY <1>1, <1>7, <3>1, <3>2, ListChanged
  <2> QED BY <1>10, <1>11, <2>3 DEF f2, from2, count2, nd2
<1>13. freelist' \in [Shifts -> FreeList]
  BY <1>1, <1>10
<1> QED BY <1>8, <1>10, <1>12, <1>13 DEF ListInv, ListsTyped

\* enqueue_tail fails only when the pool was handed out or has no free nodes.
LEMMA EnqueueBad ==
  ASSUME ListInv, ~broken, NEW i \in Shifts, NEW ns \in NewNodes(freelist[i].head = NULL), ~Sound(ns)
  PROVE  handed + 3 > Nodes \/ nodemem.num_free < 3
<1> SUFFICES ASSUME handed + 3 <= Nodes PROVE nodemem.num_free < 3
  <2>1. handed \in Nat /\ Nodes \in Nat
    BY ObjectsAssumption DEF ListInv, ListsTyped
  <2> QED BY <2>1
<1> DEFINE first == freelist[i].head = NULL
<1>0. /\ ListsTyped /\ handed \in Nat /\ Nodes \in Nat /\ nodemem.num_free \in Nat /\ first \in BOOLEAN
      /\ handed + (IF first THEN 3 ELSE 1) <= Nodes
  <2>1. ListsTyped /\ handed \in Nat /\ Nodes \in Nat /\ nodemem.num_free \in Nat
    BY ObjectsAssumption DEF ListInv, ListsTyped
  <2>2. first \in BOOLEAN
    OBVIOUS
  <2> QED BY <2>1, <2>2
<1>1. PICK c \in [Shifts -> Seq(Pool)] : /\ ListsKept(c, freelist, freed, node)
                                         /\ Ahead(c, freelist, node, nodemem.next_free, handed)
  BY DEF ListInv
<1>2. \A n \in Pool : n >= handed => n \notin InLists /\ n # OutOfPool
  <2>1. \A n \in Pool : n >= handed => Spare(c, freelist, n)
    BY <1>0, <1>1 DEF Ahead
  <2>2. \A n \in Pool : n # OutOfPool
    BY <1>0 DEF Pool, OutOfPool
  <2> QED BY <1>0, <1>1, <2>1, <2>2, InListsIs
<1>3. handed \in Pool /\ handed + 1 \in Pool /\ handed + 2 \in Pool
  BY <1>0 DEF Pool
<1>4. /\ first => ns = <<handed, handed + 1, handed + 2>>
      /\ ~first => ns = <<handed>>
  <2> HIDE DEF first
  <2> QED BY <1>0, <1>1, NextNodes DEF first
<1>5. CASE ~first
  <2>1. ns = <<handed>> /\ Len(ns) = 1 /\ DOMAIN ns = {1} /\ ns[1] = handed
    BY <1>4, <1>5
  <2>2. IsInjective(ns) /\ Range(ns) = {handed}
    BY <2>1 DEF IsInjective, Range
  <2>3. Range(ns) \cap (InLists \cup {OutOfPool}) = {}
    BY <1>0, <1>2, <1>3, <2>2
  <2>4. ~(nodemem.num_free >= 1)
    BY <2>1, <2>2, <2>3 DEF Sound
  <2> QED BY <1>0, <2>4
<1>6. CASE first
  <2>1. ns = <<handed, handed + 1, handed + 2>>
    BY <1>4, <1>6
  <2>2. Len(ns) = 3 /\ DOMAIN ns = 1 .. 3 /\ ns[1] = handed /\ ns[2] = handed + 1 /\ ns[3] = handed + 2
    BY <2>1
  <2>3. IsInjective(ns)
    BY <1>0, <2>2 DEF IsInjective
  <2>4. \A n \in Range(ns) : n \in Pool /\ n >= handed
    BY <1>0, <1>3, <2>2 DEF Range
  <2>5. Range(ns) \cap (InLists \cup {OutOfPool}) = {}
    BY <1>2, <2>4
  <2>6. ~(nodemem.num_free >= 3)
    BY <2>2, <2>3, <2>5 DEF Sound
  <2> QED BY <1>0, <2>6
<1> QED BY <1>5, <1>6

\* dequeue_front takes the object that was put in first, and keeps the lists.
LEMMA DequeueKeeps ==
  ASSUME ListInv, ~broken, NEW i \in Shifts, freelist[i].size > 0, freed \in [Shifts -> Seq(KernelObject)],
         dequeue_front(i), freed' = [freed EXCEPT ![i] = Tail(@)], UNCHANGED <<handed, broken>>
  PROVE  /\ ListInv'
         /\ Len(freed[i]) > 0
         /\ node[node[freelist[i].head].next].value = freed[i][1]
<1> DEFINE l == freelist[i]
           f == freed[i]
           n == node[l.head].next
           l2 == [l EXCEPT !.size = @ - 1]
<1>0. ListsTyped
  BY DEF ListInv
<1>1. /\ freelist \in [Shifts -> FreeList] /\ node \in [Pool -> Node] /\ handed \in Nat
      /\ nodemem \in [next_free : Nat, num_free : Nat]
      /\ l \in FreeList /\ f \in Seq(KernelObject)
  <2>1. freelist \in [Shifts -> FreeList] /\ f \in Seq(KernelObject)
    BY <1>0 DEF ListsTyped
  <2>2. l \in FreeList
    BY <2>1
  <2> HIDE DEF l, f
  <2> QED BY <1>0, <2>1, <2>2 DEF ListsTyped
<1>2. PICK c \in [Shifts -> Seq(Pool)] : /\ ListsKept(c, freelist, freed, node)
                                         /\ Ahead(c, freelist, node, nodemem.next_free, handed)
  BY DEF ListInv
<1> DEFINE s == c[i]
<1>3. s \in Seq(Pool) /\ OneList(s, l, f, node) /\ Len(s) \in Nat
  <2>1. s \in Seq(Pool) /\ OneList(s, l, f, node)
    BY <1>2 DEF ListsKept
  <2> QED BY <2>1, NodesOf
<1>4. Len(s) > 0 /\ Len(f) > 0
  BY <1>3 DEF OneList
<1>5. /\ node' = [[node EXCEPT ![l.head].next = node[n].next] EXCEPT ![n].next = NULL]
      /\ freelist' = [freelist EXCEPT ![i] = l2]
      /\ nodemem' = [nodemem EXCEPT !.num_free = @ + 1]
      /\ freed' = [freed EXCEPT ![i] = Tail(f)]
      /\ handed' = handed /\ broken' = broken
  BY <1>1 DEF dequeue_front, node_free
<1>6. node[n].value = f[1] /\ Becomes(s, l, node, {}, Tail(s), l2, Tail(f), node')
  <2>1. n = node[l.head].next /\ l2 = [l EXCEPT !.size = @ - 1]
    OBVIOUS
  <2> DEFINE nd2 == node'
  <2>2. nd2 = [[node EXCEPT ![l.head].next = node[n].next] EXCEPT ![n].next = NULL]
    BY <1>5
  <2> HIDE DEF n, l2, s, l, f, nd2
  <2>3. node[n].value = f[1] /\ Becomes(s, l, node, {}, Tail(s), l2, Tail(f), nd2)
    BY <1>1, <1>3, <1>4, <2>1, <2>2, DropList
  <2> QED BY <2>3 DEF nd2
<1>7. nodemem' \in [next_free : Nat, num_free : Nat] /\ nodemem'.next_free = nodemem.next_free
  <2>1. nodemem.num_free + 1 \in Nat
    BY <1>1
  <2> QED BY <1>1, <1>5, <2>1
<1>8. \E d \in [Shifts -> Seq(Pool)] :
         /\ ListsKept(d, freelist', freed', node')
         /\ Ahead(d, freelist', node', nodemem'.next_free, handed')
  <2> DEFINE s2 == Tail(s)
             f2 == Tail(f)
             nd2 == node'
             from == nodemem.next_free
             T == {}
  <2>1. /\ s2 \in Seq(Pool) /\ l2 \in FreeList
        /\ OneList(s2, l2, f2, nd2)
        /\ \A m \in Pool : nd2[m] = node[m] \/ m \in T \/ HasNode(c[i], freelist[i], m)
        /\ \A m \in Pool : HasNode(s2, l2, m) => m \in T \/ HasNode(c[i], freelist[i], m)
    BY <1>6 DEF Becomes
  <2>2. T \in SUBSET Pool /\ \A m \in T : Spare(c, freelist, m)
    OBVIOUS
  <2>3. handed <= Nodes => from = handed /\ handed <= handed /\ \A m \in T : m < handed
    BY <1>1, <1>2 DEF Ahead
  <2> HIDE DEF f2, from, nd2, T, s2, l2
  <2>4. ListChange(c, i, T, freelist, freed, node, from, handed, s2, l2, f2, nd2, from, handed)
    BY <1>2, <2>1, <2>2, <2>3 DEF ListChange, from
  <2>5. \E d \in [Shifts -> Seq(Pool)] :
           /\ ListsKept(d, [freelist EXCEPT ![i] = l2], [freed EXCEPT ![i] = f2], nd2)
           /\ Ahead(d, [freelist EXCEPT ![i] = l2], nd2, from, handed)
    BY <1>1, <2>1, <2>2, <2>4, ListChanged
  <2> QED BY <1>5, <1>7, <2>5 DEF f2, from, nd2
<1>9. freelist' \in [Shifts -> FreeList] /\ node' \in [Pool -> Node]
  BY <1>1, <1>5, <1>6 DEF Becomes
<1>10. ListsTyped' /\ ~broken'
  <2>1. broken \in BOOLEAN /\ handed \in Nat
    BY <1>0 DEF ListsTyped
  <2>2. broken' \in BOOLEAN /\ handed' \in Nat
    BY <1>5, <2>1
  <2>3. ~broken'
    <3>1. broken' = broken
      OBVIOUS
    <3> QED BY <2>1, <3>1
  <2> QED BY <1>7, <1>9, <2>2, <2>3 DEF ListsTyped
<1>11. ListInv'
  BY <1>8, <1>10 DEF ListInv
<1> QED BY <1>4, <1>6, <1>11

-----------------------------------------------------------------------------
\* The inductive invariant of kernel objects.
KernelInv == ObjInv /\ ListInv

\* Initially no page is in a class and every list is empty.
LEMMA ObjectsStart == ObjInit => KernelInv
<1> SUFFICES ASSUME ObjInit PROVE KernelInv
  OBVIOUS
<1>0. /\ MIN_SHIFT \in Nat /\ MAX_SHIFT \in Nat /\ MIN_SHIFT < MAX_SHIFT
      /\ Nodes \in Nat /\ PageNodes \in 1 .. Nodes
  BY ObjectsAssumption
<1>1. /\ ck = [i \in Shifts |-> [free_position |-> 0, current_pfn |-> 1 + i - MIN_SHIFT]]
      /\ freelist = [i \in Shifts |-> [head |-> NULL, tail |-> NULL, size |-> 0]]
      /\ node = [n \in Pool |-> [value |-> NoItem, next |-> NULL]]
      /\ nodemem = [next_free |-> 0, num_free |-> Nodes - PageNodes]
      /\ next_page = 2 + MAX_SHIFT - MIN_SHIFT + Nodes \div PageNodes
      /\ objects = {} /\ freed = [i \in Shifts |-> <<>>] /\ broken = FALSE /\ handed = 0
  BY DEF ObjInit, init_osalloc_chunks, init_nodealloc_memory, Pool
<1>2. \A i \in Shifts : i \in MIN_SHIFT .. MAX_SHIFT /\ 1 + i - MIN_SHIFT \in Nat
  BY <1>0 DEF Shifts
<1>3. next_page \in Nat /\ \A i \in Shifts : 1 + i - MIN_SHIFT < next_page
  <2>1. Nodes \div PageNodes \in Nat
    BY <1>0, Quotient
  <2> DEFINE q == Nodes \div PageNodes
  <2> HIDE DEF q
  <2>2. next_page = 2 + MAX_SHIFT - MIN_SHIFT + q /\ q \in Nat
    BY <1>1, <2>1 DEF q
  <2> QED BY <1>0, <1>2, <2>2
<1>4. ObjInv
  <2>1. ObjTyped
    <3>1. ck \in [Shifts -> [free_position : Nat, current_pfn : Nat]]
      BY <1>1, <1>2
    <3>2. freed \in [Shifts -> Seq(KernelObject)]
      BY <1>1
    <3> QED BY <1>1, <1>3, <3>1, <3>2 DEF ObjTyped
  <2>2. \A i \in Shifts : Len(freed[i]) = 0
    BY <1>1
  <2>3. AllObjects = {}
    <3>1. \A o \in AllObjects : \E i \in Shifts : \E k \in 1 .. Len(freed[i]) : TRUE
      BY <1>1, <2>1, StoredNow
    <3> QED BY <2>2, <3>1
  <2>4. PagesKept
    <3>1. \A i \in Shifts : ck[i].current_pfn = 1 + i - MIN_SHIFT
      BY <1>1
    <3>2. \A i, j \in Shifts : 1 + i - MIN_SHIFT = 1 + j - MIN_SHIFT => i = j
      BY <1>0, <1>2
    <3> QED BY <1>3, <2>3, <3>1, <3>2 DEF PagesKept
  <2>5. OnePlace
    BY <1>1, <2>2 DEF OnePlace
  <2> QED BY <2>1, <2>4, <2>5 DEF ObjInv
<1>5. ListInv
  <2>1. ListsTyped
    <3>1. NoItem \in NodeItem
      BY DEF NoItem, NodeItem
    <3>2. node \in [Pool -> Node]
      BY <1>1, <3>1 DEF Node
    <3>3. freelist \in [Shifts -> FreeList]
      BY <1>1 DEF FreeList
    <3>4. nodemem \in [next_free : Nat, num_free : Nat]
      BY <1>0, <1>1
    <3> QED BY <1>1, <3>2, <3>3, <3>4 DEF ListsTyped
  <2> DEFINE c == [i \in Shifts |-> <<>>]
  <2>2. c \in [Shifts -> Seq(Pool)] /\ \A i \in Shifts : c[i] = <<>> /\ Len(c[i]) = 0
    OBVIOUS
  <2> HIDE DEF c
  <2>3. ASSUME NEW i \in Shifts
        PROVE  /\ freelist[i].head = NULL /\ freelist[i].tail = NULL /\ freelist[i].size = 0
               /\ Len(freed[i]) = 0 /\ 1 .. Len(c[i]) = {} /\ 1 .. Len(c[i]) - 1 = {}
    <3>1. 1 .. 0 = {} /\ 1 .. 0 - 1 = {}
      OBVIOUS
    <3> QED BY <1>1, <2>2, <3>1
  <2>4. ASSUME NEW i \in Shifts PROVE OneList(c[i], freelist[i], freed[i], node)
    BY <2>2, <2>3 DEF OneList
  <2>5. ASSUME NEW i \in Shifts, NEW n \in Pool PROVE ~HasNode(c[i], freelist[i], n)
    <3>1. n # NULL
      BY DEF Pool, NULL
    <3> QED BY <2>2, <2>3, <3>1 DEF HasNode
  <2>6. ListsKept(c, freelist, freed, node)
    BY <2>4, <2>5 DEF ListsKept
  <2>7. Ahead(c, freelist, node, nodemem.next_free, handed)
    <3>1. nodemem.next_free = handed /\ \A n \in Pool : node[n].next = NULL
      BY <1>1
    <3> QED BY <2>5, <3>1 DEF Ahead, Spare
  <2> QED BY <1>1, <2>1, <2>2, <2>6, <2>7 DEF ListInv
<1> QED BY <1>4, <1>5 DEF KernelInv

\* os_alloc keeps the invariant, whether it takes a freed object or a new page.
LEMMA AllocKeeps ==
  ASSUME KernelInv, NEW size \in Sizes, os_alloc(size)
  PROVE  KernelInv'
<1> DEFINE i == HighShift(size)
<1>0. ObjInv /\ ListInv /\ ObjTyped /\ freed \in [Shifts -> Seq(KernelObject)]
  BY DEF KernelInv, ObjInv, ObjTyped
<1>1. i \in Shifts /\ size <= ClassSize[i] /\ size \in Nat
  BY HighIs
<1>2. ~broken
  BY DEF os_alloc
<1>3. CASE freelist[i].size > 0
  <2> DEFINE old == node[node[freelist[i].head].next].value
  <2>1. /\ dequeue_front(i)
        /\ objects' = objects \cup {[old EXCEPT !.size = size]}
        /\ freed' = [freed EXCEPT ![i] = Tail(@)]
        /\ UNCHANGED <<ck, next_page, handed, broken>>
    BY <1>3 DEF os_alloc
  <2> HIDE DEF i
  <2>2. ListInv' /\ Len(freed[i]) > 0 /\ old = freed[i][1]
    BY <1>0, <1>1, <1>2, <1>3, <2>1, DequeueKeeps
  <2> HIDE DEF old
  <2>3. objects' = objects \cup {[freed[i][1] EXCEPT !.size = size]}
    BY <2>1, <2>2
  <2>4. UNCHANGED <<ck, next_page>>
    BY <2>1
  <2>5. ObjInv'
    BY <1>0, <1>1, <2>1, <2>2, <2>3, <2>4, ReuseKeeps
  <2> QED BY <2>2, <2>5 DEF KernelInv
<1>4. CASE ~(freelist[i].size > 0)
  <2>1. TakePosition(i, size) /\ UNCHANGED <<freelist, node, nodemem, handed, freed, broken>>
    BY <1>4 DEF os_alloc
  <2>2. ObjInv'
    <3> HIDE DEF i
    <3> QED BY <1>0, <1>1, <2>1, TakeKeeps
  <2>3. ListInv'
    BY <1>0, <2>1 DEF ListInv, ListsTyped
  <2> QED BY <2>2, <2>3 DEF KernelInv
<1> QED BY <1>3, <1>4

\* os_free keeps the invariant: the object goes to the end of the list of its
\* class.
LEMMA ReleaseKeeps ==
  ASSUME KernelInv, NEW o \in objects, os_free(o)
  PROVE  KernelInv'
<1> DEFINE i == LowShift(o.size)
<1>0. ObjInv /\ ListInv /\ freed \in [Shifts -> Seq(KernelObject)] /\ o \in KernelObject
  BY DEF KernelInv, ObjInv, ObjTyped
<1>1. i \in Shifts
  <2>1. o.size \in Nat
    BY <1>0 DEF KernelObject
  <2> QED BY <2>1, LowIs
<1>2. /\ ~broken /\ objects' = objects \ {o}
      /\ freed' = [freed EXCEPT ![i] = Append(@, o)]
      /\ enqueue_tail(i, o) /\ UNCHANGED <<ck, next_page>>
  BY DEF os_free
<1>3. ObjInv'
  BY <1>0, <1>2, FreeKeeps
<1> HIDE DEF i
<1>4. PICK ns \in NewNodes(freelist[i].head = NULL) :
        IF Sound(ns)
        THEN /\ Link(i, ns, o)
             /\ nodemem' = [next_free |-> ns[Len(ns)] + 1, num_free |-> nodemem.num_free - Len(ns)]
             /\ handed' = handed + Len(ns)
             /\ UNCHANGED broken
        ELSE /\ broken' = TRUE
             /\ UNCHANGED <<node, freelist, nodemem, handed>>
  BY <1>2 DEF enqueue_tail
<1>5. CASE Sound(ns)
  BY <1>0, <1>1, <1>2, <1>3, <1>4, <1>5, EnqueueGood DEF KernelInv
<1>6. CASE ~Sound(ns)
  <2>1. handed + 3 > Nodes \/ nodemem.num_free < 3
    BY <1>0, <1>1, <1>2, <1>6, EnqueueBad
  <2>2. broken' = TRUE /\ node' = node /\ freelist' = freelist /\ nodemem' = nodemem /\ handed' = handed
    BY <1>4, <1>6
  <2>3. ListInv'
    BY <1>0, <2>1, <2>2 DEF ListInv, ListsTyped
  <2> QED BY <1>3, <2>3 DEF KernelInv
<1> QED BY <1>5, <1>6

\* Every step of the two handlers keeps the invariant.
LEMMA ObjectsStep == KernelInv /\ [ObjNext]_<<objVars, objCalls>> => KernelInv'
<1> SUFFICES ASSUME KernelInv, [ObjNext]_<<objVars, objCalls>> PROVE KernelInv'
  OBVIOUS
<1>1. ASSUME NEW size \in Sizes, os_alloc(size) PROVE KernelInv'
  BY <1>1, AllocKeeps
<1>2. ASSUME NEW o \in objects, os_free(o) PROVE KernelInv'
  BY <1>2, ReleaseKeeps
<1>3. CASE UNCHANGED <<objVars, objCalls>>
  <2>1. /\ ck' = ck /\ freelist' = freelist /\ node' = node /\ nodemem' = nodemem /\ handed' = handed
        /\ next_page' = next_page /\ objects' = objects /\ freed' = freed /\ broken' = broken
    BY <1>3 DEF objVars
  <2>2. ObjInv'
    BY <2>1 DEF KernelInv, ObjInv, ObjTyped, PagesKept, OnePlace, AllObjects, Together, SamePlace
  <2>3. ListInv'
    BY <2>1 DEF KernelInv, ListInv, ListsTyped
  <2> QED BY <2>2, <2>3 DEF KernelInv
<1> QED BY <1>1, <1>2, <1>3 DEF ObjNext

\* What the invariant says of the free lists.
LEMMA ListsAreKept == KernelInv => FreeListsKeep
<1> SUFFICES ASSUME KernelInv PROVE FreeListsKeep
  OBVIOUS
<1>0. ListInv /\ ListsTyped
  BY DEF KernelInv, ListInv
<1>1. ASSUME ~broken, NEW i \in Shifts
      PROVE  /\ freelist[i].size = Len(freed[i])
             /\ \A k \in 1 .. freelist[i].size : Chain(i)[k] # NULL /\ node[Chain(i)[k]].value = freed[i][k]
  <2>1. PICK c \in [Shifts -> Seq(Pool)] : ListsKept(c, freelist, freed, node)
    BY <1>0, <1>1 DEF ListInv
  <2>2. OneList(c[i], freelist[i], freed[i], node) /\ c[i] \in Seq(Pool) /\ freelist[i] \in FreeList
    BY <1>0, <2>1 DEF ListsKept, ListsTyped
  <2>3. Chain(i) = c[i]
    BY <2>2, WalkIs DEF Chain
  <2>4. \A k \in 1 .. Len(c[i]) : c[i][k] # NULL
    BY <2>2, NodesOf
  <2> QED BY <2>2, <2>3, <2>4 DEF OneList
<1>2. broken => handed + 3 > Nodes \/ nodemem.num_free < 3
  BY <1>0 DEF ListInv
<1> QED BY <1>1, <1>2 DEF FreeListsKeep

\* Kernel objects never share memory, unless one lies behind its page, and the
\* free lists hold what was put into them in that order; a call of node_alloc
\* can only go wrong when the pool was handed out once or has no three nodes left
\* (os_alloc, os_free, enqueue_tail, dequeue_front).
THEOREM ObjectsStaySound == ObjSpec => []ObjectsSound
<1>1. KernelInv => ObjectsSound
  BY KeptApart, ListsAreKept DEF KernelInv, ObjectsSound
<1> QED BY <1>1, ObjectsStart, ObjectsStep, PTL DEF ObjSpec
=============================================================================
