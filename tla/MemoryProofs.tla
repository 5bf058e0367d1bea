---------------------------- MODULE MemoryProofs ----------------------------
(***************************************************************************)
(* Proofs about the memory of gemOS processes: the list of vm_areas that    *)
(* mmap, munmap and mprotect keep (VmAreas, VmArea) and the page tables,    *)
(* frames and contents behind it (CowMemory), for any size of the mmap      *)
(* area and of the data segment, any number of processes and frames.        *)
(***************************************************************************)
EXTENDS VmArea, CowMemory, FiniteSetTheorems, SequenceTheorems, WellFoundedInduction, TLAPS

-----------------------------------------------------------------------------
(***************************************************************************)
(* Numbers, and definitions by recursion                                    *)
(***************************************************************************)

\* A non-empty set of naturals has the minimum that Min chooses.
LEMMA MinOf ==
  ASSUME NEW S \in SUBSET Nat, S # {}
  PROVE  Min(S) \in S /\ \A y \in S : Min(S) <= y
<1>1. PICK x \in S : \A y \in S : ~(<<y, x>> \in OpToRel(<, Nat))
  BY NatLessThanWellFounded, WFMin
<1>2. \A y \in S : ~(y < x)
  BY <1>1, Zenon DEF OpToRel
<1>3. \A y \in S : x <= y
  BY <1>2
<1> QED
  BY <1>3 DEF Min

\* Min and Max of two numbers.
LEMMA MinMax ==
  ASSUME NEW a \in Int, NEW b \in Int
  PROVE  /\ Min({a, b}) = IF a <= b THEN a ELSE b
         /\ Max({a, b}) = IF a >= b THEN a ELSE b
BY DEF Min, Max

\* Induction up to n, with a set for the property.
LEMMA Induct ==
  ASSUME NEW S, NEW n \in Nat, 0 \in S, \A i \in 1 .. n : i - 1 \in S => i \in S
  PROVE  \A i \in 0 .. n : i \in S
<1> DEFINE Bad == {i \in 0 .. n : i \notin S}
<1>1. SUFFICES ASSUME Bad # {} PROVE FALSE
  OBVIOUS
<1>2. Min(Bad) \in Bad /\ \A y \in Bad : Min(Bad) <= y
  BY <1>1, MinOf
<1>3. Min(Bad) \in 1 .. n
  BY <1>2
<1>4. Min(Bad) - 1 \in S
  BY <1>2, <1>3
<1> QED
  BY <1>2, <1>3, <1>4

\* f is defined by recursion up to n, from d by the steps g[i].
Follows(f, D, d, n, g) ==
  f \in [0 .. n -> D] /\ f[0] = d /\ \A i \in 1 .. n : f[i] = g[i][f[i - 1]]

\* A function defined by recursion up to n exists.
LEMMA Recursion ==
  ASSUME NEW D, NEW d \in D, NEW n \in Nat, NEW g \in [1 .. n -> [D -> D]]
  PROVE  \E f : Follows(f, D, d, n, g)
<1> DEFINE Upto(m, f) == f[0] = d /\ \A i \in 1 .. m : f[i] = g[i][f[i - 1]]
           S == {m \in 0 .. n : \E f \in [0 .. m -> D] : Upto(m, f)}
<1>1. 0 \in S
  <2>1. Upto(0, [i \in 0 .. 0 |-> d]) /\ [i \in 0 .. 0 |-> d] \in [0 .. 0 -> D]
    OBVIOUS
  <2> HIDE DEF Upto
  <2> QED BY <2>1
<1>2. ASSUME NEW m \in 1 .. n, m - 1 \in S PROVE m \in S
  <2>1. PICK f \in [0 .. m - 1 -> D] : Upto(m - 1, f)
    BY <1>2
  <2> DEFINE h == [i \in 0 .. m |-> IF i = m THEN g[m][f[m - 1]] ELSE f[i]]
  <2>2. h \in [0 .. m -> D]
    OBVIOUS
  <2>3. Upto(m, h)
    BY <2>1
  <2> HIDE DEF Upto, h
  <2> QED BY <2>2, <2>3
<1> HIDE DEF S
<1>3. \A i \in 0 .. n : i \in S
  BY <1>1, <1>2, Induct
<1>4. n \in S
  BY <1>3
<1> QED BY <1>4 DEF S, Follows

\* r is t and then u: its elements, and which are neighbours.
Joins(t, u, r) ==
  /\ Len(t) \in Nat /\ Len(u) \in Nat /\ Len(r) = Len(t) + Len(u)
  /\ \A k \in 1 .. Len(t) : r[k] = t[k] /\ k \in 1 .. Len(r)
  /\ \A j \in 1 .. Len(u) : r[Len(t) + j] = u[j] /\ Len(t) + j \in 1 .. Len(r)
  /\ \A k \in 1 .. Len(r) : k \in 1 .. Len(t) \/ \E j \in 1 .. Len(u) : k = Len(t) + j
  /\ \A k \in 1 .. Len(r) - 1 :
       \/ k \in 1 .. Len(t) - 1 /\ k \in 1 .. Len(t) /\ k + 1 \in 1 .. Len(t)
       \/ k \in 1 .. Len(t) /\ k = Len(t) /\ 1 \in 1 .. Len(u)
       \/ \E j \in 1 .. Len(u) - 1 : /\ k = Len(t) + j /\ k + 1 = Len(t) + (j + 1)
                                    /\ j \in 1 .. Len(u) /\ j + 1 \in 1 .. Len(u)

\* Concatenation joins.
LEMMA Concat ==
  ASSUME NEW T, NEW t \in Seq(T), NEW u \in Seq(T)
  PROVE  t \o u \in Seq(T) /\ Joins(t, u, t \o u)
<1> DEFINE a == Len(t)
           b == Len(u)
           r == t \o u
<1>1. a \in Nat /\ b \in Nat
  OBVIOUS
<1>2. /\ r \in Seq(T) /\ Len(r) = a + b
      /\ \A i \in 1 .. a + b : r[i] = IF i <= a THEN t[i] ELSE u[i - a]
  BY ConcatProperties
<1> HIDE DEF a, b, r
<1>3. \A k \in 1 .. a : r[k] = t[k] /\ k \in 1 .. a + b
  BY <1>1, <1>2
<1>4. ASSUME NEW j \in 1 .. b PROVE r[a + j] = u[j] /\ a + j \in 1 .. a + b
  <2>1. a + j \in 1 .. a + b /\ ~(a + j <= a) /\ (a + j) - a = j
    BY <1>1
  <2> QED BY <1>2, <2>1
<1>5. ASSUME NEW k \in 1 .. a + b PROVE k \in 1 .. a \/ \E j \in 1 .. b : k = a + j
  <2>1. CASE k > a
    <3>1. k - a \in 1 .. b /\ k = a + (k - a)
      BY <1>1, <2>1
    <3> QED BY <3>1
  <2> QED BY <1>1, <2>1
<1>6. ASSUME NEW k \in 1 .. (a + b) - 1
      PROVE  \/ k \in 1 .. a - 1 /\ k \in 1 .. a /\ k + 1 \in 1 .. a
             \/ k \in 1 .. a /\ k = a /\ 1 \in 1 .. b
             \/ \E j \in 1 .. b - 1 : k = a + j /\ k + 1 = a + (j + 1) /\ j \in 1 .. b /\ j + 1 \in 1 .. b
  <2>1. CASE k > a
    <3>1. k - a \in 1 .. b - 1 /\ k = a + (k - a) /\ k + 1 = a + ((k - a) + 1)
          /\ k - a \in 1 .. b /\ (k - a) + 1 \in 1 .. b
      BY <1>1, <2>1
    <3> QED BY <3>1
  <2> QED BY <1>1, <2>1
<1> QED BY <1>1, <1>2, <1>3, <1>4, <1>5, <1>6 DEF a, b, r, Joins

\* What FlattenSeq computes, prefix by prefix.
LEMMA Flattened ==
  ASSUME NEW T, NEW q \in Seq(Seq(T))
  PROVE  \E f \in [0 .. Len(q) -> Seq(T)] :
           /\ f[0] = <<>>
           /\ \A i \in 1 .. Len(q) : f[i] = f[i - 1] \o q[i]
           /\ FlattenSeq(q) = f[Len(q)]
<1> DEFINE n == Len(q)
           D == Seq(T)
           none == <<>>
           g == [i \in 1 .. n |-> [x \in D |-> x \o q[i]]]
<1>1. n \in Nat /\ \A i \in 1 .. n : q[i] \in Seq(T)
  OBVIOUS
<1>2. \A i \in 1 .. n, x \in D : g[i][x] = x \o q[i] /\ g[i][x] \in D
  BY <1>1, ConcatProperties
<1>3. none \in D
  OBVIOUS
<1> HIDE DEF n, g, D, none
<1>4. PICK f : Follows(f, D, none, n, g)
  <2>1. n \in Nat /\ g \in [1 .. n -> [D -> D]]
    BY <1>1, <1>2 DEF g
  <2> QED BY <1>3, <2>1, Recursion
<1>f. f \in [0 .. n -> D] /\ f[0] = none /\ \A i \in 1 .. n : f[i] = g[i][f[i - 1]]
  BY <1>4 DEF Follows
<1>5. \A i \in 1 .. n : f[i] = f[i - 1] \o q[i]
  <2> SUFFICES ASSUME NEW i \in 1 .. n PROVE f[i] = f[i - 1] \o q[i]
    OBVIOUS
  <2>1. f[i - 1] \in D
    BY <1>1, <1>f
  <2> QED BY <2>1, <1>2, <1>f
<1>6. FlattenSeq(q) = f[n]
  <2>1. CASE n = 0
    BY <2>1, <1>f, EmptySeq DEF FlattenSeq, n, none
  <2>2. CASE n # 0
    <3> DEFINE body(h) == [i \in 1 .. n |-> IF i = 1 THEN q[i] ELSE h[i - 1] \o q[i]]
               h1 == [i \in 1 .. n |-> f[i]]
    <3>1. f[1] = q[1]
      <4>1. 1 \in 1 .. n /\ 1 - 1 = 0
        BY <1>1, <2>2
      <4>2. f[1] = <<>> \o q[1]
        BY <1>f, <1>5, <4>1 DEF none
      <4> QED BY <1>1, <4>1, <4>2, ConcatEmptySeq
    <3>2. h1 = body(h1)
      <4>1. ASSUME NEW i \in 1 .. n PROVE f[i] = IF i = 1 THEN q[i] ELSE h1[i - 1] \o q[i]
        <5>1. i # 1 => i - 1 \in 1 .. n
          BY <1>1
        <5> QED BY <5>1, <3>1, <1>5
      <4> HIDE DEF h1
      <4>2. h1 = [i \in 1 .. n |-> IF i = 1 THEN q[i] ELSE h1[i - 1] \o q[i]]
        BY <4>1 DEF h1
      <4> QED BY <4>2
    <3>3. ASSUME NEW h, h = body(h) PROVE h[n] = f[n]
      <4> DEFINE S == {i \in 0 .. n : i > 0 => h[i] = f[i]}
      <4>1. 0 \in S
        BY <1>1
      <4>2. ASSUME NEW i \in 1 .. n, i - 1 \in S PROVE i \in S
        <5>1. h[i] = IF i = 1 THEN q[i] ELSE h[i - 1] \o q[i]
          BY <3>3
        <5>2. i > 1 => h[i - 1] = f[i - 1]
          BY <4>2, <1>1
        <5>3. h[i] = f[i]
          <6>1. CASE i = 1
            BY <5>1, <3>1, <6>1
          <6>2. CASE i # 1
            <7>0. i > 1
              BY <6>2, <1>1
            <7>1. h[i] = h[i - 1] \o q[i]
              BY <5>1, <6>2
            <7> QED BY <7>0, <7>1, <5>2, <1>5
          <6> QED BY <6>1, <6>2
        <5> QED BY <5>3, <1>1
      <4> HIDE DEF S
      <4>3. \A i \in 0 .. n : i \in S
        BY <4>1, <4>2, <1>1, Induct
      <4> QED BY <4>3, <1>1, <2>2 DEF S
    <3>4. FlattenSeq(q) = (CHOOSE h : h = body(h))[n]
      BY <2>2 DEF FlattenSeq, n
    <3> HIDE DEF body
    <3> QED BY <3>2, <3>3, <3>4
  <2> QED BY <2>1, <2>2
<1> QED BY <1>f, <1>5, <1>6 DEF n, D, none

-----------------------------------------------------------------------------
(***************************************************************************)
(* Lists of areas                                                           *)
(***************************************************************************)
\* WellFormed and FullyMerged, of any list.
Sorted(s) == /\ s \in Seq(vm_area)
             /\ \A i \in 1 .. Len(s) : s[i].start < s[i].end
             /\ \A i \in 1 .. Len(s) - 1 : s[i].end <= s[i + 1].start

Merged(s) == \A i \in 1 .. Len(s) - 1 :
               s[i].end = s[i + 1].start => s[i].access_flags # s[i + 1].access_flags

\* The page is in the area; the list maps the page with the flags.
In(a, page) == a.start <= page /\ page < a.end
Has(s, page, prot) == \E i \in 1 .. Len(s) : In(s[i], page) /\ s[i].access_flags = prot

\* What the bounds of an area are.
LEMMA AreaType ==
  ASSUME NEW a \in vm_area
  PROVE  /\ a.start \in Nat /\ a.end \in Nat /\ a.access_flags \in Prots
         /\ START <= a.start /\ a.start < END /\ START < a.end /\ a.end <= END
         /\ a.access_flags \in {1, 2, 3}
<1>1. a.start \in Pages /\ a.end \in START + 1 .. END /\ a.access_flags \in Prots
  BY DEF vm_area
<1>2. a.access_flags \in {1, 2, 3}
  BY <1>1, ProtsAssumption
<1>3. START \in Nat /\ END \in Nat
  BY AreaAssumption
<1> QED BY <1>1, <1>2, <1>3 DEF Pages

\* An area is a record of an area's type when its bounds are.
LEMMA IsArea ==
  ASSUME NEW b \in Int, NEW e \in Int, START <= b, b < END, START < e, e <= END, NEW prot \in Prots
  PROVE  [start |-> b, end |-> e, access_flags |-> prot] \in vm_area
BY AreaAssumption DEF vm_area, Pages

\* The elements of a sorted list.
LEMMA Elements ==
  ASSUME NEW s, Sorted(s)
  PROVE  /\ Len(s) \in Nat /\ DOMAIN s = 1 .. Len(s)
         /\ \A i \in 1 .. Len(s) : /\ s[i] \in vm_area /\ s[i].start < s[i].end
                                   /\ s[i].start \in Nat /\ s[i].end \in Nat
                                   /\ START <= s[i].start /\ s[i].end <= END
                                   /\ s[i].access_flags \in Prots /\ s[i].access_flags \in {1, 2, 3}
<1>1. s \in Seq(vm_area)
  BY DEF Sorted
<1>2. Len(s) \in Nat /\ DOMAIN s = 1 .. Len(s) /\ \A i \in 1 .. Len(s) : s[i] \in vm_area
  BY <1>1, LenProperties, ElementOfSeq
<1>3. \A i \in 1 .. Len(s) : s[i].start < s[i].end
  BY DEF Sorted
<1> QED BY <1>2, <1>3, AreaType

\* Areas further on in the list lie further up.
LEMMA Order ==
  ASSUME NEW s, Sorted(s), NEW i \in 1 .. Len(s), NEW j \in 1 .. Len(s), i < j
  PROVE  s[i].end <= s[j].start
<1> DEFINE S == {d \in 0 .. j - i - 1 : s[i].end <= s[i + 1 + d].start}
<1>0. /\ Len(s) \in Nat
      /\ \A k \in 1 .. Len(s) : s[k].start < s[k].end /\ s[k].start \in Nat /\ s[k].end \in Nat
  BY Elements
<1>1. 0 \in S
  BY <1>0 DEF Sorted
<1>2. ASSUME NEW d \in 1 .. j - i - 1, d - 1 \in S PROVE d \in S
  <2>1. i + 1 + (d - 1) = i + d /\ i + d \in 1 .. Len(s) - 1 /\ i + d + 1 = i + 1 + d
    BY <1>0
  <2>2. s[i].end <= s[i + d].start
    BY <1>2, <2>1
  <2>3. s[i + d].end <= s[i + d + 1].start
    BY <2>1 DEF Sorted
  <2>4. /\ s[i + d].start \in Nat /\ s[i + d].end \in Nat /\ s[i + d].start < s[i + d].end
        /\ s[i + d + 1].start \in Nat /\ s[i].end \in Nat
    BY <1>0, <2>1
  <2>5. s[i].end <= s[i + d + 1].start
    <3> DEFINE a == s[i].end
               b == s[i + d].start
               c == s[i + d].end
               e == s[i + d + 1].start
    <3>1. a \in Nat /\ b \in Nat /\ c \in Nat /\ e \in Nat /\ a <= b /\ b < c /\ c <= e
      BY <2>2, <2>3, <2>4
    <3> HIDE DEF a, b, c, e
    <3>2. a <= e
      BY <3>1
    <3> QED BY <3>2 DEF a, e
  <2> QED BY <2>1, <2>5
<1> HIDE DEF S
<1>3. j - i - 1 \in Nat
  BY <1>0
<1>4. j - i - 1 \in S
  BY <1>1, <1>2, <1>3, Induct, SMTT(30)
<1> QED BY <1>4, <1>0 DEF S

\* A page is in one area at most.
LEMMA OneOwner ==
  ASSUME NEW s, Sorted(s), NEW page \in Int,
         NEW i \in 1 .. Len(s), NEW j \in 1 .. Len(s), In(s[i], page), In(s[j], page)
  PROVE  i = j
<1>0. \A k \in 1 .. Len(s) : s[k].start \in Nat /\ s[k].end \in Nat
  BY Elements
<1>1. CASE i < j
  BY <1>0, <1>1, Order DEF In
<1>2. CASE j < i
  BY <1>0, <1>2, Order DEF In
<1> QED BY <1>1, <1>2, Elements

\* ProtOf is what the list has.
LEMMA ProtHas ==
  ASSUME NEW s, Sorted(s), NEW page \in Int
  PROVE  /\ \A prot : Has(s, page, prot) => ProtOf(s, page) = prot /\ prot \in Prots /\ prot # 0
         /\ ProtOf(s, page) # 0 => Has(s, page, ProtOf(s, page))
         /\ ProtOf(s, page) \in {0} \cup Prots
<1>0. /\ Len(s) \in Nat /\ DOMAIN s = 1 .. Len(s)
      /\ \A k \in 1 .. Len(s) : s[k].access_flags \in Prots /\ s[k].access_flags # 0
  BY Elements
<1>1. Owners(s, page) = {i \in 1 .. Len(s) : In(s[i], page)}
  BY <1>0 DEF Owners, In
<1>2. ASSUME NEW i \in 1 .. Len(s), In(s[i], page) PROVE ProtOf(s, page) = s[i].access_flags
  <2>1. Owners(s, page) \in SUBSET Nat /\ Owners(s, page) # {}
    BY <1>1, <1>2
  <2>2. Min(Owners(s, page)) \in Owners(s, page)
    BY <2>1, MinOf
  <2>3. Min(Owners(s, page)) = i
    BY <1>1, <1>2, <2>2, OneOwner
  <2> QED BY <2>1, <2>3 DEF ProtOf
<1>3. (\A i \in 1 .. Len(s) : ~In(s[i], page)) => ProtOf(s, page) = 0
  BY <1>1 DEF ProtOf
<1> QED BY <1>0, <1>2, <1>3 DEF Has

-----------------------------------------------------------------------------
(***************************************************************************)
(* Areas replaced by pieces of themselves, as munmap and mprotect do        *)
(***************************************************************************)
\* The pieces lie in the area, in order, none of them empty.
Pieces(a, t) == /\ Sorted(t)
                /\ \A j \in 1 .. Len(t) : a.start <= t[j].start /\ t[j].end <= a.end

\* The first m areas of s in pieces q are the list t: t has every piece, each
\* element of t is a piece, and neighbours in t are neighbouring pieces of one
\* area or pieces of two areas.
Made(s, q, m, t) ==
  /\ Sorted(t)
  /\ \A i \in 1 .. m : \A j \in 1 .. Len(q[i]) : \E k \in 1 .. Len(t) : t[k] = q[i][j]
  /\ \A k \in 1 .. Len(t) : \E i \in 1 .. m : \E j \in 1 .. Len(q[i]) : t[k] = q[i][j]
  /\ \A k \in 1 .. Len(t) - 1 :
       \/ \E i \in 1 .. m : \E j \in 1 .. Len(q[i]) - 1 : t[k] = q[i][j] /\ t[k + 1] = q[i][j + 1]
       \/ \E i \in 1 .. m : \E l \in i + 1 .. m : \E j \in 1 .. Len(q[i]), h \in 1 .. Len(q[l]) :
            t[k] = q[i][j] /\ t[k + 1] = q[l][h]

\* One area more.
LEMMA MadeStep ==
  ASSUME NEW s, Sorted(s), NEW q, \A i \in 1 .. Len(s) : Pieces(s[i], q[i]),
         NEW m \in 1 .. Len(s), NEW t, Made(s, q, m - 1, t)
  PROVE  Made(s, q, m, t \o q[m])
<1> DEFINE r == t \o q[m]
           u == q[m]
<1>0. Len(s) \in Nat /\ m \in Nat
  BY Elements
<1>1. Sorted(t) /\ Sorted(u) /\ \A j \in 1 .. Len(u) : s[m].start <= u[j].start
  BY DEF Made, Pieces
<1>2. /\ Len(t) \in Nat /\ Len(u) \in Nat
      /\ \A k \in 1 .. Len(t) : t[k].start \in Nat /\ t[k].end \in Nat /\ t[k].start < t[k].end
      /\ \A k \in 1 .. Len(u) : u[k].start \in Nat /\ u[k].end \in Nat /\ u[k].start < u[k].end
  BY <1>1, Elements
<1>3. r \in Seq(vm_area) /\ Joins(t, u, r)
  <2>1. t \in Seq(vm_area) /\ u \in Seq(vm_area)
    BY <1>1 DEF Sorted
  <2> QED BY <2>1, Concat
<1>4. ASSUME NEW k \in 1 .. Len(t), NEW j \in 1 .. Len(u) PROVE t[k].end <= u[j].start
  <2>1. PICK i \in 1 .. m - 1 : \E l \in 1 .. Len(q[i]) : t[k] = q[i][l]
    BY DEF Made
  <2>2. i \in 1 .. Len(s) /\ i < m
    BY <1>0
  <2>3. t[k].end <= s[i].end
    BY <2>1, <2>2 DEF Pieces
  <2>4. s[i].end <= s[m].start
    BY <2>2, Order
  <2>5. s[i].end \in Nat /\ s[m].start \in Nat /\ s[m].start <= u[j].start
    BY <2>2, <1>1, Elements
  <2> QED BY <1>2, <2>3, <2>4, <2>5, SMTT(30)
<1> HIDE DEF r, u
<1>5. Sorted(r)
  <2>1. ASSUME NEW k \in 1 .. Len(r) PROVE r[k].start < r[k].end
    BY <1>2, <1>3 DEF Joins
  <2>2. ASSUME NEW k \in 1 .. Len(r) - 1 PROVE r[k].end <= r[k + 1].start
    <3>1. CASE k \in 1 .. Len(t) - 1 /\ k \in 1 .. Len(t) /\ k + 1 \in 1 .. Len(t)
      <4>1. r[k] = t[k] /\ r[k + 1] = t[k + 1]
        BY <1>3, <3>1 DEF Joins
      <4> QED BY <4>1, <1>1, <3>1 DEF Sorted
    <3>2. CASE k \in 1 .. Len(t) /\ k = Len(t) /\ 1 \in 1 .. Len(u)
      <4>1. r[k] = t[k] /\ r[k + 1] = u[1]
        BY <1>3, <3>2 DEF Joins
      <4> QED BY <4>1, <1>4, <3>2
    <3>3. ASSUME NEW j \in 1 .. Len(u) - 1, k = Len(t) + j, k + 1 = Len(t) + (j + 1),
                 j \in 1 .. Len(u), j + 1 \in 1 .. Len(u)
          PROVE  r[k].end <= r[k + 1].start
      <4>1. r[k] = u[j] /\ r[k + 1] = u[j + 1]
        BY <1>3, <3>3 DEF Joins
      <4> QED BY <4>1, <1>1 DEF Sorted
    <3> QED BY <1>3, <3>1, <3>2, <3>3 DEF Joins
  <2> QED BY <1>3, <2>1, <2>2 DEF Sorted, Joins
<1>6. ASSUME NEW i \in 1 .. m, NEW j \in 1 .. Len(q[i]) PROVE \E k \in 1 .. Len(r) : r[k] = q[i][j]
  <2>1. CASE i = m
    <3>1. j \in 1 .. Len(u) /\ q[i][j] = u[j]
      BY <2>1 DEF u
    <3> QED BY <1>3, <3>1 DEF Joins
  <2>2. CASE i # m
    <3>1. i \in 1 .. m - 1
      BY <1>0, <2>2
    <3>2. PICK k \in 1 .. Len(t) : t[k] = q[i][j]
      BY <3>1 DEF Made
    <3> QED BY <3>2, <1>3 DEF Joins
  <2> QED BY <2>1, <2>2
<1>m. m \in 1 .. m /\ \A i \in 1 .. m - 1 : i \in 1 .. m /\ m \in i + 1 .. m /\ \A l \in i + 1 .. m - 1 : l \in i + 1 .. m
  BY <1>0
<1>7. ASSUME NEW k \in 1 .. Len(r)
      PROVE  \E i \in 1 .. m : \E j \in 1 .. Len(q[i]) : r[k] = q[i][j]
  <2>1. CASE k \in 1 .. Len(t)
    <3>1. PICK i \in 1 .. m - 1 : \E j \in 1 .. Len(q[i]) : t[k] = q[i][j]
      BY <2>1 DEF Made
    <3>2. r[k] = t[k] /\ i \in 1 .. m
      BY <2>1, <1>3, <1>m DEF Joins
    <3> QED BY <3>1, <3>2
  <2>2. ASSUME NEW j \in 1 .. Len(u), k = Len(t) + j
        PROVE  \E i \in 1 .. m : \E h \in 1 .. Len(q[i]) : r[k] = q[i][h]
    <3>1. r[k] = u[j]
      BY <2>2, <1>3 DEF Joins
    <3> QED BY <3>1, <1>m DEF u
  <2> QED BY <2>1, <2>2, <1>3 DEF Joins
<1>8. ASSUME NEW k \in 1 .. Len(r) - 1
      PROVE  \/ \E i \in 1 .. m : \E j \in 1 .. Len(q[i]) - 1 : r[k] = q[i][j] /\ r[k + 1] = q[i][j + 1]
             \/ \E i \in 1 .. m : \E l \in i + 1 .. m : \E j \in 1 .. Len(q[i]), h \in 1 .. Len(q[l]) :
                  r[k] = q[i][j] /\ r[k + 1] = q[l][h]
  <2>1. CASE k \in 1 .. Len(t) - 1 /\ k \in 1 .. Len(t) /\ k + 1 \in 1 .. Len(t)
    <3>1. r[k] = t[k] /\ r[k + 1] = t[k + 1]
      BY <1>3, <2>1 DEF Joins
    <3>2. CASE \E i \in 1 .. m - 1 : \E j \in 1 .. Len(q[i]) - 1 : t[k] = q[i][j] /\ t[k + 1] = q[i][j + 1]
      BY <3>1, <3>2, <1>m
    <3>3. CASE \E i \in 1 .. m - 1 : \E l \in i + 1 .. m - 1 : \E j \in 1 .. Len(q[i]), h \in 1 .. Len(q[l]) :
                 t[k] = q[i][j] /\ t[k + 1] = q[l][h]
      BY <3>1, <3>3, <1>m
    <3> QED BY <2>1, <3>2, <3>3 DEF Made
  <2>2. CASE k \in 1 .. Len(t) /\ k = Len(t) /\ 1 \in 1 .. Len(u)
    <3>1. r[k] = t[k] /\ r[k + 1] = q[m][1] /\ 1 \in 1 .. Len(q[m])
      BY <1>3, <2>2 DEF u, Joins
    <3>2. PICK i \in 1 .. m - 1 : \E j \in 1 .. Len(q[i]) : t[k] = q[i][j]
      BY <2>2 DEF Made
    <3> QED BY <3>1, <3>2, <1>m
  <2>3. ASSUME NEW j \in 1 .. Len(u) - 1, k = Len(t) + j, k + 1 = Len(t) + (j + 1),
               j \in 1 .. Len(u), j + 1 \in 1 .. Len(u)
        PROVE  \E i \in 1 .. m : \E h \in 1 .. Len(q[i]) - 1 : r[k] = q[i][h] /\ r[k + 1] = q[i][h + 1]
    <3>1. r[k] = u[j] /\ r[k + 1] = u[j + 1]
      BY <1>3, <2>3 DEF Joins
    <3> QED BY <3>1, <1>m DEF u
  <2> QED BY <1>3, <2>1, <2>2, <2>3 DEF Joins
<1> QED BY <1>5, <1>6, <1>7, <1>8 DEF Made, r

\* All areas, in pieces.
LEMMA InPieces ==
  ASSUME NEW s, Sorted(s), NEW q \in Seq(Seq(vm_area)), Len(q) = Len(s),
         \A i \in 1 .. Len(s) : Pieces(s[i], q[i])
  PROVE  Made(s, q, Len(s), FlattenSeq(q))
<1> DEFINE n == Len(s)
<1>0. n \in Nat
  BY Elements
<1>1. PICK f \in [0 .. n -> Seq(vm_area)] :
        /\ f[0] = <<>>
        /\ \A i \in 1 .. n : f[i] = f[i - 1] \o q[i]
        /\ FlattenSeq(q) = f[n]
  <2>1. n = Len(q)
    OBVIOUS
  <2> HIDE DEF n
  <2> QED BY <2>1, Flattened
<1> DEFINE S == {m \in 0 .. n : Made(s, q, m, f[m])}
<1>2. 0 \in S
  <2>1. Made(s, q, 0, <<>>)
    BY EmptySeq DEF Made, Sorted
  <2> HIDE DEF n
  <2> QED BY <1>0, <1>1, <2>1
<1>3. ASSUME NEW m \in 1 .. n, m - 1 \in S PROVE m \in S
  <2>1. Made(s, q, m - 1, f[m - 1])
    BY <1>3
  <2>2. Made(s, q, m, f[m - 1] \o q[m])
    BY <2>1, MadeStep
  <2>3. m \in 0 .. n
    <3> HIDE DEF n
    <3> QED BY <1>0
  <2>4. f[m] = f[m - 1] \o q[m]
    BY <1>1
  <2> QED BY <2>2, <2>3, <2>4
<1> HIDE DEF S, n
<1>4. \A m \in 0 .. n : m \in S
  BY <1>0, <1>2, <1>3, Induct
<1> QED BY <1>0, <1>1, <1>4 DEF S, n

\* What the pieces map is what the list made of them maps.
LEMMA MadeHas ==
  ASSUME NEW s, NEW q, NEW m \in Nat, NEW t, Made(s, q, m, t), NEW page, NEW prot
  PROVE  Has(t, page, prot) <=> \E i \in 1 .. m : Has(q[i], page, prot)
<1>1. ASSUME NEW k \in 1 .. Len(t), In(t[k], page), t[k].access_flags = prot
      PROVE  \E i \in 1 .. m : Has(q[i], page, prot)
  <2>1. PICK i \in 1 .. m : \E j \in 1 .. Len(q[i]) : t[k] = q[i][j]
    BY DEF Made
  <2>2. PICK j \in 1 .. Len(q[i]) : t[k] = q[i][j]
    BY <2>1
  <2>3. Has(q[i], page, prot)
    BY <1>1, <2>2 DEF Has
  <2> QED BY <2>3
<1>2. ASSUME NEW i \in 1 .. m, NEW j \in 1 .. Len(q[i]), In(q[i][j], page), q[i][j].access_flags = prot
      PROVE  Has(t, page, prot)
  <2>1. PICK k \in 1 .. Len(t) : t[k] = q[i][j]
    BY DEF Made
  <2> QED BY <1>2, <2>1 DEF Has
<1> QED BY <1>1, <1>2 DEF Has

\* Lists of up to three pieces.
LEMMA OnePiece ==
  ASSUME NEW x \in vm_area, x.start < x.end
  PROVE  Sorted(<<x>>) /\ Len(<<x>>) = 1 /\ <<x>>[1] = x
BY DEF Sorted

\* Two pieces.
LEMMA TwoPieces ==
  ASSUME NEW x \in vm_area, NEW y \in vm_area, x.start < x.end, y.start < y.end, x.end <= y.start
  PROVE  /\ Sorted(<<x, y>>) /\ Len(<<x, y>>) = 2 /\ <<x, y>>[1] = x /\ <<x, y>>[2] = y
         /\ <<x>> \o <<y>> = <<x, y>>
<1>1. <<x, y>> \in Seq(vm_area) /\ Len(<<x, y>>) = 2 /\ <<x, y>>[1] = x /\ <<x, y>>[2] = y
  OBVIOUS
<1>2. Sorted(<<x, y>>)
  BY <1>1 DEF Sorted
<1>3. <<x>> \o <<y>> = <<x, y>>
  <2> DEFINE p == <<x>>
             z == <<y>>
             r == p \o z
             u == <<x, y>>
  <2>1. p \in Seq(vm_area) /\ z \in Seq(vm_area) /\ Len(p) = 1 /\ Len(z) = 1 /\ p[1] = x /\ z[1] = y
    OBVIOUS
  <2>2. r \in Seq(vm_area) /\ Len(r) = 2 /\ r[1] = x /\ r[2] = y
    <3> HIDE DEF p, z
    <3>1. r \in Seq(vm_area) /\ Joins(p, z, r)
      BY <2>1, Concat
    <3> HIDE DEF r
    <3> QED BY <2>1, <3>1 DEF Joins
  <2>3. u \in Seq(vm_area) /\ Len(u) = 2 /\ u[1] = x /\ u[2] = y
    BY <1>1
  <2> HIDE DEF r, u
  <2>4. \A k \in 1 .. Len(r) : r[k] = u[k]
    BY <2>2, <2>3
  <2>5. r = u
    BY <2>2, <2>3, <2>4, SeqEqual
  <2> QED BY <2>5 DEF r, u
<1> QED BY <1>1, <1>2, <1>3

\* What munmap leaves of an area.
LEMMA Remainders ==
  ASSUME NEW a \in vm_area, a.start < a.end, NEW from \in Int, NEW to \in Int, from <= to
  PROVE  LET t == Remainder(a, from, to)
         IN  /\ Pieces(a, t) /\ Len(t) <= 2
             /\ Len(t) = 2 => a.start < from /\ to < a.end /\ t[1].end = from /\ t[2].start = to
             /\ \A j \in 1 .. Len(t) : t[j].access_flags = a.access_flags
             /\ \A page \in Int : \A prot :
                  Has(t, page, prot) <=> In(a, page) /\ a.access_flags = prot /\ ~(from <= page /\ page < to)
<1> DEFINE t == Remainder(a, from, to)
           x == [a EXCEPT !.end = Min({a.end, from})]
           y == [a EXCEPT !.start = Max({a.start, to})]
<1>0. /\ a.start \in Nat /\ a.end \in Nat /\ a.access_flags \in Prots
      /\ START <= a.start /\ a.end <= END /\ START \in Int /\ END \in Int
  BY AreaType, AreaAssumption
<1>1. a.start < from => /\ x.start = a.start /\ x.end = (IF a.end <= from THEN a.end ELSE from)
                        /\ x.access_flags = a.access_flags /\ x \in vm_area /\ x.start < x.end
  <2> SUFFICES ASSUME a.start < from
               PROVE  /\ x.start = a.start /\ x.end = (IF a.end <= from THEN a.end ELSE from)
                      /\ x.access_flags = a.access_flags /\ x \in vm_area /\ x.start < x.end
    OBVIOUS
  <2>1. Min({a.end, from}) = IF a.end <= from THEN a.end ELSE from
    BY <1>0, MinMax
  <2>2. x = [start |-> a.start, end |-> Min({a.end, from}), access_flags |-> a.access_flags]
    BY DEF vm_area
  <2> HIDE DEF x
  <2>3. x \in vm_area
    BY <1>0, <2>1, <2>2, IsArea
  <2> QED BY <1>0, <2>1, <2>2, <2>3
<1>2. a.end > to => /\ y.end = a.end /\ y.start = (IF a.start >= to THEN a.start ELSE to)
                    /\ y.access_flags = a.access_flags /\ y \in vm_area /\ y.start < y.end
  <2> SUFFICES ASSUME a.end > to
               PROVE  /\ y.end = a.end /\ y.start = (IF a.start >= to THEN a.start ELSE to)
                      /\ y.access_flags = a.access_flags /\ y \in vm_area /\ y.start < y.end
    OBVIOUS
  <2>1. Max({a.start, to}) = IF a.start >= to THEN a.start ELSE to
    <3>1. a.start \in Int
      BY <1>0
    <3> QED BY <3>1, MinMax
  <2>2. y = [start |-> Max({a.start, to}), end |-> a.end, access_flags |-> a.access_flags]
    BY DEF vm_area
  <2> HIDE DEF y
  <2>3. y \in vm_area
    BY <1>0, <2>1, <2>2, IsArea
  <2> QED BY <1>0, <2>1, <2>2, <2>3
<1>3. t = (IF a.start < from THEN <<x>> ELSE <<>>) \o (IF a.end > to THEN <<y>> ELSE <<>>)
  BY DEF Remainder
<1> HIDE DEF t, x, y
<1>4. CASE a.start < from /\ a.end > to
  <2>1. x.end <= y.start
    BY <1>0, <1>1, <1>2, <1>4
  <2>0. t = <<x>> \o <<y>>
    BY <1>3, <1>4
  <2>2. Sorted(t) /\ Len(t) = 2 /\ t[1] = x /\ t[2] = y
    <3>1. x \in vm_area /\ y \in vm_area /\ x.start < x.end /\ y.start < y.end
      BY <1>1, <1>2, <1>4
    <3>2. t = <<x, y>>
      BY <2>0, <2>1, <3>1, TwoPieces
    <3> DEFINE u == <<x, y>>
    <3>3. Sorted(u) /\ Len(u) = 2 /\ u[1] = x /\ u[2] = y
      BY <2>1, <3>1, TwoPieces
    <3> QED BY <3>2, <3>3
  <2>3. \A j \in 1 .. Len(t) : j = 1 \/ j = 2
    BY <2>2
  <2>4. \A page, prot : Has(t, page, prot) <=>
          ((In(x, page) /\ x.access_flags = prot) \/ (In(y, page) /\ y.access_flags = prot))
    BY <2>2, <2>3 DEF Has
  <2> QED BY <1>0, <1>1, <1>2, <1>4, <2>2, <2>3, <2>4 DEF Pieces, In, t
<1>5. CASE a.start < from /\ ~(a.end > to)
  <2>1. t = <<x>>
    <3>1. <<x>> \in Seq(vm_area)
      BY <1>1, <1>5
    <3>2. t = <<x>> \o <<>>
      BY <1>3, <1>5
    <3> QED BY <3>1, <3>2, ConcatEmptySeq
  <2>2. Sorted(t) /\ Len(t) = 1 /\ t[1] = x
    BY <1>1, <1>5, <2>1, OnePiece
  <2>4. \A page, prot : Has(t, page, prot) <=> In(x, page) /\ x.access_flags = prot
    BY <2>2 DEF Has
  <2> QED BY <1>0, <1>1, <1>5, <2>2, <2>4 DEF Pieces, In, t
<1>6. CASE ~(a.start < from) /\ a.end > to
  <2>1. t = <<y>>
    <3>1. <<y>> \in Seq(vm_area)
      BY <1>2, <1>6
    <3>2. t = <<>> \o <<y>>
      BY <1>3, <1>6
    <3> QED BY <3>1, <3>2, ConcatEmptySeq
  <2>2. Sorted(t) /\ Len(t) = 1 /\ t[1] = y
    BY <1>2, <1>6, <2>1, OnePiece
  <2>4. \A page, prot : Has(t, page, prot) <=> In(y, page) /\ y.access_flags = prot
    BY <2>2 DEF Has
  <2> QED BY <1>0, <1>2, <1>6, <2>2, <2>4 DEF Pieces, In, t
<1>7. CASE ~(a.start < from) /\ ~(a.end > to)
  <2>1. t = <<>>
    BY <1>3, <1>7
  <2>2. Sorted(t) /\ Len(t) = 0
    BY <2>1, EmptySeq DEF Sorted
  <2>4. \A page, prot : ~Has(t, page, prot)
    BY <2>2 DEF Has
  <2> QED BY <1>0, <1>7, <2>2, <2>4 DEF Pieces, In, t
<1> QED BY <1>4, <1>5, <1>6, <1>7

\* A list of pieces, one of each element but for one that has two, is longer by
\* one at most.
LEMMA FlatLen ==
  ASSUME NEW T, NEW q \in Seq(Seq(T)), NEW c \in Nat,
         \A i \in 1 .. Len(q) : Len(q[i]) <= IF i = c THEN 2 ELSE 1
  PROVE  Len(FlattenSeq(q)) <= Len(q) + IF c \in 1 .. Len(q) THEN 1 ELSE 0
<1> DEFINE n == Len(q)
           more(i) == IF c \in 1 .. i THEN 1 ELSE 0
<1>0. n \in Nat /\ \A i \in 1 .. n : q[i] \in Seq(T) /\ Len(q[i]) \in Nat
  OBVIOUS
<1>1. PICK f \in [0 .. n -> Seq(T)] :
        /\ f[0] = <<>>
        /\ \A i \in 1 .. n : f[i] = f[i - 1] \o q[i]
        /\ FlattenSeq(q) = f[n]
  BY Flattened
<1>2. \A i \in 1 .. n : Len(q[i]) <= IF i = c THEN 2 ELSE 1
  OBVIOUS
<1> DEFINE S == {m \in 0 .. n : Len(f[m]) <= m + more(m)}
<1> HIDE DEF n
<1>3. 0 \in S
  BY <1>0, <1>1, EmptySeq
<1>4. ASSUME NEW m \in 1 .. n, m - 1 \in S PROVE m \in S
  <2>1. f[m - 1] \in Seq(T) /\ Len(f[m - 1]) \in Nat
    BY <1>0
  <2>2. Len(f[m]) = Len(f[m - 1]) + Len(q[m])
    <3>1. q[m] \in Seq(T) /\ f[m] = f[m - 1] \o q[m]
      BY <1>0, <1>1
    <3> QED BY <2>1, <3>1, ConcatProperties
  <2>3. Len(f[m - 1]) <= (m - 1) + more(m - 1)
    BY <1>4
  <2>4. Len(q[m]) \in Nat /\ Len(q[m]) <= IF m = c THEN 2 ELSE 1
    BY <1>0, <1>2
  <2>5. Len(f[m]) <= m + more(m)
    <3> DEFINE x == Len(f[m - 1])
               y == Len(q[m])
               z == Len(f[m])
    <3>1. /\ x \in Nat /\ y \in Nat /\ z = x + y /\ x <= (m - 1) + more(m - 1)
          /\ y <= IF m = c THEN 2 ELSE 1
      BY <2>1, <2>2, <2>3, <2>4
    <3> HIDE DEF x, y, z
    <3>2. z <= m + more(m)
      BY <1>0, <3>1
    <3> QED BY <3>2 DEF z
  <2> QED BY <1>0, <2>5
<1> HIDE DEF S
<1>5. \A m \in 0 .. n : m \in S
  BY <1>0, <1>3, <1>4, Induct
<1> QED BY <1>0, <1>1, <1>5 DEF S, n

\* Two areas that touch are neighbours in the list.
LEMMA Touching ==
  ASSUME NEW s, Sorted(s), NEW i \in 1 .. Len(s), NEW l \in 1 .. Len(s), i < l, s[l].start <= s[i].end
  PROVE  l = i + 1 /\ i \in 1 .. Len(s) - 1 /\ s[i].end = s[l].start
<1>0. /\ Len(s) \in Nat
      /\ \A k \in 1 .. Len(s) : s[k].start < s[k].end /\ s[k].start \in Nat /\ s[k].end \in Nat
  BY Elements
<1>1. i + 1 \in 1 .. Len(s) /\ i \in 1 .. Len(s) - 1 /\ i < i + 1
  BY <1>0
<1>2. s[i].end <= s[i + 1].start
  BY <1>1, Order
<1>3. CASE i + 1 < l
  <2>1. s[i + 1].end <= s[l].start
    BY <1>1, <1>3, Order
  <2> QED BY <1>0, <1>1, <1>2, <2>1, SMTT(30)
<1>4. CASE l = i + 1
  BY <1>0, <1>1, <1>2, <1>4
<1> QED BY <1>0, <1>3, <1>4

\* What the list is after munmap of [from, to).
LEMMA Unmapped ==
  ASSUME NEW s, Sorted(s), NEW from \in Int, NEW to \in Int, from <= to,
         NEW t, t = FlattenSeq([i \in DOMAIN s |-> Remainder(s[i], from, to)])
  PROVE  /\ Sorted(t)
         /\ from < to /\ Merged(s) => Merged(t)
         /\ \A page \in Int : \A prot :
              Has(t, page, prot) <=> Has(s, page, prot) /\ ~(from <= page /\ page < to)
         /\ Len(t) <= Len(s) + IF Splits(s, from, to) THEN 1 ELSE 0
<1> DEFINE n == Len(s)
           q == [i \in 1 .. n |-> Remainder(s[i], from, to)]
<1>0. /\ n \in Nat /\ DOMAIN s = 1 .. n
      /\ \A k \in 1 .. n : s[k].start < s[k].end /\ s[k].start \in Nat /\ s[k].end \in Nat /\ s[k] \in vm_area
  BY Elements
<1>1. \A i \in 1 .. n : q[i] = Remainder(s[i], from, to)
  OBVIOUS
<1>t. t = FlattenSeq(q)
  BY <1>0
<1> HIDE DEF n, q
<1>2. ASSUME NEW i \in 1 .. n
      PROVE  /\ Pieces(s[i], q[i]) /\ Len(q[i]) <= 2
             /\ Len(q[i]) = 2 => s[i].start < from /\ to < s[i].end /\ q[i][1].end = from /\ q[i][2].start = to
             /\ \A j \in 1 .. Len(q[i]) : q[i][j].access_flags = s[i].access_flags
             /\ \A page \in Int : \A prot :
                  Has(q[i], page, prot) <=> In(s[i], page) /\ s[i].access_flags = prot /\ ~(from <= page /\ page < to)
  BY <1>0, <1>1, Remainders
<1>3. \A i \in 1 .. n : Sorted(q[i]) /\ q[i] \in Seq(vm_area) /\ Len(q[i]) \in Nat
  BY <1>2, Elements DEF Pieces, Sorted
<1>4. q \in Seq(Seq(vm_area)) /\ Len(q) = n
  <2>1. q \in [1 .. n -> Seq(vm_area)]
    BY <1>1, <1>3 DEF q
  <2> QED BY <2>1, <1>0
<1>5. Made(s, q, n, t)
  BY <1>2, <1>4, <1>t, InPieces DEF n
<1>6. Sorted(t)
  BY <1>5 DEF Made
<1>7. ASSUME from < to, Merged(s) PROVE Merged(t)
  <2> SUFFICES ASSUME NEW k \in 1 .. Len(t) - 1, t[k].end = t[k + 1].start
               PROVE  t[k].access_flags # t[k + 1].access_flags
    BY DEF Merged
  <2>1. ASSUME NEW i \in 1 .. n, NEW j \in 1 .. Len(q[i]) - 1, t[k] = q[i][j], t[k + 1] = q[i][j + 1]
        PROVE  FALSE
    <3> DEFINE d == Len(q[i])
    <3>0. d \in Nat /\ d <= 2 /\ j \in 1 .. d - 1
      BY <1>2, <1>3
    <3> HIDE DEF d
    <3>a. d = 2 /\ j = 1 /\ j + 1 = 2
      BY <3>0
    <3>1. Len(q[i]) = 2 /\ j = 1 /\ j + 1 = 2
      BY <3>a DEF d
    <3>2. t[k].end = from /\ t[k + 1].start = to
      BY <1>2, <2>1, <3>1
    <3> QED BY <3>2, <1>7
  <2>2. ASSUME NEW i \in 1 .. n, NEW l \in i + 1 .. n, NEW j \in 1 .. Len(q[i]), NEW h \in 1 .. Len(q[l]),
               t[k] = q[i][j], t[k + 1] = q[l][h]
        PROVE  t[k].access_flags # t[k + 1].access_flags
    <3>1. l \in 1 .. n /\ i < l
      BY <1>0
    <3>2. t[k].end <= s[i].end /\ s[l].start <= t[k + 1].start
      BY <1>2, <2>2, <3>1 DEF Pieces
    <3>3. t[k].end \in Nat /\ s[i].end \in Nat /\ s[l].start \in Nat
      <4>1. k \in 1 .. Len(t)
        BY <1>6, Elements
      <4> QED BY <1>0, <1>6, <3>1, <4>1, Elements
    <3>4. s[l].start <= s[i].end
      BY <3>2, <3>3, SMTT(30)
    <3>5. l = i + 1 /\ i \in 1 .. n - 1 /\ s[i].end = s[l].start
      BY <3>1, <3>4, Touching DEF n
    <3>6. s[i].access_flags # s[l].access_flags
      BY <1>7, <3>5 DEF Merged, n
    <3> QED BY <1>2, <2>2, <3>1, <3>6, SMTT(30)
  <2> QED BY <1>5, <2>1, <2>2 DEF Made
<1>8. ASSUME NEW page \in Int, NEW prot
      PROVE  Has(t, page, prot) <=> Has(s, page, prot) /\ ~(from <= page /\ page < to)
  <2>1. Has(t, page, prot) <=> \E i \in 1 .. n : Has(q[i], page, prot)
    <3>1. n \in Nat /\ Made(s, q, n, t)
      BY <1>0, <1>5
    <3> HIDE DEF Remainder
    <3> QED BY <3>1, MadeHas, ZenonT(30)
  <2>2. Has(s, page, prot) <=> \E i \in 1 .. n : In(s[i], page) /\ s[i].access_flags = prot
    BY DEF Has, n
  <2>3. \A i \in 1 .. n : Has(q[i], page, prot) <=>
          In(s[i], page) /\ s[i].access_flags = prot /\ ~(from <= page /\ page < to)
    BY <1>2
  <2> QED BY <2>1, <2>2, <2>3
<1>9. Len(t) <= Len(s) + IF Splits(s, from, to) THEN 1 ELSE 0
  <2>1. CASE Splits(s, from, to)
    <3>1. PICK c \in 1 .. n : s[c].start < from /\ to < s[c].end /\ from < s[c].end
      BY <2>1, <1>0 DEF Splits
    <3>2. ASSUME NEW i \in 1 .. n, i # c PROVE Len(q[i]) <= 1
      <4>1. Len(q[i]) # 2
        <5> SUFFICES ASSUME Len(q[i]) = 2 PROVE FALSE
          OBVIOUS
        <5>1. s[i].start < from /\ to < s[i].end
          BY <1>2
        <5>2. In(s[i], from) /\ In(s[c], from)
          BY <1>0, <3>1, <5>1 DEF In
        <5> QED BY <5>2, <3>2, OneOwner DEF n
      <4> DEFINE k == Len(q[i])
      <4>2. k \in Nat /\ k <= 2 /\ k # 2
        BY <1>2, <1>3, <4>1
      <4> HIDE DEF k
      <4>3. k <= 1
        BY <4>2
      <4> QED BY <4>3 DEF k
    <3>3. \A i \in 1 .. Len(q) : Len(q[i]) <= IF i = c THEN 2 ELSE 1
      BY <1>2, <1>4, <3>2
    <3>4. c \in Nat /\ c \in 1 .. Len(q)
      BY <1>4
    <3>5. Len(FlattenSeq(q)) <= Len(q) + IF c \in 1 .. Len(q) THEN 1 ELSE 0
      BY <1>4, <3>3, <3>4, FlatLen
    <3> QED BY <1>4, <1>t, <2>1, <3>4, <3>5 DEF n
  <2>2. CASE ~Splits(s, from, to)
    <3>2. ASSUME NEW i \in 1 .. n PROVE Len(q[i]) <= 1
      <4>1. Len(q[i]) # 2
        <5> SUFFICES ASSUME Len(q[i]) = 2 PROVE FALSE
          OBVIOUS
        <5>1. s[i].start < from /\ to < s[i].end /\ from < s[i].end
          BY <1>0, <1>2
        <5> QED BY <5>1, <2>2, <1>0 DEF Splits
      <4> DEFINE k == Len(q[i])
      <4>2. k \in Nat /\ k <= 2 /\ k # 2
        BY <1>2, <1>3, <4>1
      <4> HIDE DEF k
      <4>3. k <= 1
        BY <4>2
      <4> QED BY <4>3 DEF k
    <3>3. \A i \in 1 .. Len(q) : Len(q[i]) <= IF i = 0 THEN 2 ELSE 1
      BY <1>4, <3>2
    <3>5. Len(FlattenSeq(q)) <= Len(q) + IF 0 \in 1 .. Len(q) THEN 1 ELSE 0
      BY <1>4, <3>3, FlatLen
    <3> QED BY <1>4, <1>0, <1>t, <2>2, <3>5 DEF n
  <2> QED BY <2>1, <2>2
<1> QED BY <1>6, <1>7, <1>8, <1>9

-----------------------------------------------------------------------------
(***************************************************************************)
(* Lists put together and joined                                            *)
(***************************************************************************)
\* Of two lists, the second of which lies above the first.
LEMMA SortedJoin ==
  ASSUME NEW t, NEW u, Sorted(t), Sorted(u), NEW r, r = t \o u,
         \A k \in 1 .. Len(t), j \in 1 .. Len(u) : t[k].end <= u[j].start
  PROVE  /\ Sorted(r) /\ Joins(t, u, r)
         /\ \A page, prot : Has(r, page, prot) <=> (Has(t, page, prot) \/ Has(u, page, prot))
         /\ /\ Merged(t) /\ Merged(u)
            /\ \A k \in 1 .. Len(t), j \in 1 .. Len(u) :
                 t[k].end = u[j].start => t[k].access_flags # u[j].access_flags
            => Merged(r)
<1>1. r \in Seq(vm_area) /\ Joins(t, u, r)
  <2>1. t \in Seq(vm_area) /\ u \in Seq(vm_area)
    BY DEF Sorted
  <2> QED BY <2>1, Concat
<1>2. ASSUME NEW k \in 1 .. Len(r) - 1
      PROVE  \/ k \in 1 .. Len(t) - 1 /\ r[k] = t[k] /\ r[k + 1] = t[k + 1]
             \/ k \in 1 .. Len(t) /\ 1 \in 1 .. Len(u) /\ r[k] = t[k] /\ r[k + 1] = u[1]
             \/ \E j \in 1 .. Len(u) - 1 : r[k] = u[j] /\ r[k + 1] = u[j + 1]
  <2>1. CASE k \in 1 .. Len(t) - 1 /\ k \in 1 .. Len(t) /\ k + 1 \in 1 .. Len(t)
    BY <1>1, <2>1 DEF Joins
  <2>2. CASE k \in 1 .. Len(t) /\ k = Len(t) /\ 1 \in 1 .. Len(u)
    BY <1>1, <2>2 DEF Joins
  <2>3. ASSUME NEW j \in 1 .. Len(u) - 1, k = Len(t) + j, k + 1 = Len(t) + (j + 1),
               j \in 1 .. Len(u), j + 1 \in 1 .. Len(u)
        PROVE  r[k] = u[j] /\ r[k + 1] = u[j + 1]
    BY <1>1, <2>3 DEF Joins
  <2> QED BY <1>1, <2>1, <2>2, <2>3 DEF Joins
<1>3. Sorted(r)
  <2>1. ASSUME NEW k \in 1 .. Len(r) PROVE r[k].start < r[k].end
    BY <1>1 DEF Joins, Sorted
  <2>2. ASSUME NEW k \in 1 .. Len(r) - 1 PROVE r[k].end <= r[k + 1].start
    BY <1>2 DEF Sorted
  <2> QED BY <1>1, <2>1, <2>2 DEF Sorted
<1>4. ASSUME NEW page, NEW prot
      PROVE  Has(r, page, prot) <=> (Has(t, page, prot) \/ Has(u, page, prot))
  <2>1. Has(t, page, prot) => Has(r, page, prot)
    BY <1>1 DEF Joins, Has
  <2>2. Has(u, page, prot) => Has(r, page, prot)
    <3> SUFFICES ASSUME NEW j \in 1 .. Len(u), In(u[j], page), u[j].access_flags = prot PROVE Has(r, page, prot)
      BY DEF Has
    <3> DEFINE k == Len(t) + j
    <3>1. k \in 1 .. Len(r) /\ r[k] = u[j]
      BY <1>1 DEF Joins
    <3> HIDE DEF k
    <3> QED BY <3>1 DEF Has
  <2>3. ASSUME NEW k \in 1 .. Len(r), In(r[k], page), r[k].access_flags = prot
        PROVE  Has(t, page, prot) \/ Has(u, page, prot)
    <3>1. CASE k \in 1 .. Len(t)
      BY <1>1, <2>3, <3>1 DEF Joins, Has
    <3>2. ASSUME NEW j \in 1 .. Len(u), k = Len(t) + j PROVE Has(u, page, prot)
      <4>1. r[k] = u[j]
        BY <1>1, <3>2 DEF Joins
      <4> QED BY <4>1, <2>3 DEF Has
    <3> QED BY <1>1, <3>1, <3>2 DEF Joins
  <2> QED BY <2>1, <2>2, <2>3 DEF Has
<1>5. ASSUME Merged(t), Merged(u),
             \A k \in 1 .. Len(t), j \in 1 .. Len(u) :
               t[k].end = u[j].start => t[k].access_flags # u[j].access_flags
      PROVE  Merged(r)
  BY <1>2, <1>5 DEF Merged
<1> QED BY <1>1, <1>3, <1>4, <1>5

\* A list with one area or none.
LEMMA Optional ==
  ASSUME NEW x, NEW t, t = <<>> \/ (t = <<x>> /\ x \in vm_area /\ x.start < x.end)
  PROVE  /\ Sorted(t) /\ Merged(t) /\ Len(t) = (IF t = <<>> THEN 0 ELSE 1) /\ <<x>> # <<>>
         /\ \A j \in 1 .. Len(t) : t[j] = x /\ t # <<>>
         /\ \A page, prot : Has(t, page, prot) <=> (t # <<>> /\ In(x, page) /\ x.access_flags = prot)
<1>0. <<x>> # <<>>
  OBVIOUS
<1>1. CASE t = <<x>> /\ x \in vm_area /\ x.start < x.end
  <2>2. Sorted(t) /\ Len(t) = 1 /\ t[1] = x
    BY <1>1, OnePiece
  <2>3. \A j \in 1 .. Len(t) : j = 1
    BY <2>2
  <2> QED BY <1>0, <1>1, <2>2, <2>3 DEF Merged, Has
<1>2. CASE t = <<>>
  <2>1. t \in Seq(vm_area) /\ Len(t) = 0
    BY <1>2
  <2> QED BY <1>0, <1>2, <2>1 DEF Sorted, Merged, Has
<1> QED BY <1>1, <1>2

\* What mprotect makes of an area.
LEMMA Reprotected ==
  ASSUME NEW a \in vm_area, a.start < a.end, NEW from \in Int, NEW to \in Int, from < to,
         NEW prot \in Prots, NEW t, t = Reprotect(a, from, to, prot)
  PROVE  /\ Pieces(a, t)
         /\ \A page \in Int : \A p :
              Has(t, page, p) <=> In(a, page) /\ p = IF from <= page /\ page < to THEN prot ELSE a.access_flags
<1>0. /\ a.start \in Int /\ a.end \in Int /\ a.access_flags \in Prots
      /\ START <= a.start /\ a.end <= END /\ START \in Int /\ END \in Int
  BY AreaType, AreaAssumption
<1>1. CASE a.access_flags = prot \/ a.end <= from \/ to <= a.start
  <2>1. t = <<a>>
    BY <1>1 DEF Reprotect
  <2>2. Sorted(t) /\ Len(t) = 1 /\ t[1] = a
    BY <2>1, OnePiece
  <2>3. \A page, p : Has(t, page, p) <=> In(a, page) /\ a.access_flags = p
    BY <2>2 DEF Has
  <2> QED BY <1>0, <1>1, <2>2, <2>3 DEF Pieces, In
<1>2. CASE ~(a.access_flags = prot \/ a.end <= from \/ to <= a.start)
  <2> DEFINE x == [a EXCEPT !.end = from]
             y == [start |-> Max({a.start, from}), end |-> Min({a.end, to}), access_flags |-> prot]
             z == [a EXCEPT !.start = to]
             X == IF a.start < from THEN <<x>> ELSE <<>>
             Z == IF to < a.end THEN <<z>> ELSE <<>>
             Y == <<y>>
             XY == X \o Y
  <2>1. x = [start |-> a.start, end |-> from, access_flags |-> a.access_flags]
    BY DEF vm_area
  <2>2. z = [start |-> to, end |-> a.end, access_flags |-> a.access_flags]
    BY DEF vm_area
  <2>3. /\ Min({a.end, to}) = IF a.end <= to THEN a.end ELSE to
        /\ Max({a.start, from}) = IF a.start >= from THEN a.start ELSE from
    BY <1>0, MinMax
  <2>4. y.start = (IF a.start >= from THEN a.start ELSE from) /\ y.end = (IF a.end <= to THEN a.end ELSE to)
        /\ y.access_flags = prot
    BY <2>3
  <2>5. y \in vm_area /\ y.start < y.end
    BY <1>0, <1>2, <2>3, IsArea
  <2>6. t = XY \o Z
    BY <1>2 DEF Reprotect
  <2>x. X = IF a.start < from THEN <<x>> ELSE <<>>
    OBVIOUS
  <2>z. Z = IF to < a.end THEN <<z>> ELSE <<>>
    OBVIOUS
  <2>y. Y = <<y>>
    OBVIOUS
  <2>w. XY = X \o Y
    OBVIOUS
  <2> HIDE DEF x, y, z, X, Y, Z, XY
  <2>7. a.start < from => x \in vm_area /\ x.start < x.end
    BY <1>0, <1>2, <2>1, IsArea
  <2>8. to < a.end => z \in vm_area /\ z.start < z.end
    BY <1>0, <1>2, <2>2, IsArea
  <2>9. /\ Sorted(X) /\ \A j \in 1 .. Len(X) : X[j] = x /\ a.start < from
        /\ \A page, p : Has(X, page, p) <=> (a.start < from /\ In(x, page) /\ x.access_flags = p)
    <3>1. X = <<>> \/ (X = <<x>> /\ x \in vm_area /\ x.start < x.end)
      BY <2>7, <2>x
    <3>2. /\ Sorted(X) /\ <<x>> # <<>> /\ \A j \in 1 .. Len(X) : X[j] = x /\ X # <<>>
          /\ \A page, p : Has(X, page, p) <=> (X # <<>> /\ In(x, page) /\ x.access_flags = p)
      BY <3>1, Optional
    <3>3. X # <<>> <=> a.start < from
      BY <3>2, <2>x
    <3> QED BY <3>2, <3>3
  <2>10. /\ Sorted(Z) /\ \A j \in 1 .. Len(Z) : Z[j] = z /\ to < a.end
         /\ \A page, p : Has(Z, page, p) <=> (to < a.end /\ In(z, page) /\ z.access_flags = p)
    <3>1. Z = <<>> \/ (Z = <<z>> /\ z \in vm_area /\ z.start < z.end)
      BY <2>8, <2>z
    <3>2. /\ Sorted(Z) /\ <<z>> # <<>> /\ \A j \in 1 .. Len(Z) : Z[j] = z /\ Z # <<>>
          /\ \A page, p : Has(Z, page, p) <=> (Z # <<>> /\ In(z, page) /\ z.access_flags = p)
      BY <3>1, Optional
    <3>3. Z # <<>> <=> to < a.end
      BY <3>2, <2>z
    <3> QED BY <3>2, <3>3
  <2>11. /\ Sorted(Y) /\ \A j \in 1 .. Len(Y) : Y[j] = y
         /\ \A page, p : Has(Y, page, p) <=> (In(y, page) /\ y.access_flags = p)
    <3>1. Y = <<>> \/ (Y = <<y>> /\ y \in vm_area /\ y.start < y.end)
      BY <2>5, <2>y
    <3>2. /\ Sorted(Y) /\ <<y>> # <<>> /\ \A j \in 1 .. Len(Y) : Y[j] = y /\ Y # <<>>
          /\ \A page, p : Has(Y, page, p) <=> (Y # <<>> /\ In(y, page) /\ y.access_flags = p)
      BY <3>1, Optional
    <3>3. Y # <<>>
      BY <3>2, <2>y
    <3> QED BY <3>2, <3>3
  <2>12. /\ Sorted(XY) /\ Joins(X, Y, XY)
         /\ \A page, p : Has(XY, page, p) <=> (Has(X, page, p) \/ Has(Y, page, p))
    <3>1. \A k \in 1 .. Len(X), j \in 1 .. Len(Y) : X[k].end <= Y[j].start
      BY <1>0, <2>1, <2>4, <2>9, <2>11
    <3> QED BY <2>9, <2>11, <2>w, <3>1, SortedJoin
  <2>13. \A k \in 1 .. Len(XY) : (XY[k] = x /\ a.start < from) \/ XY[k] = y
    BY <2>9, <2>11, <2>12 DEF Joins
  <2>14. /\ Sorted(t) /\ Joins(XY, Z, t)
         /\ \A page, p : Has(t, page, p) <=> (Has(XY, page, p) \/ Has(Z, page, p))
    <3>1. \A k \in 1 .. Len(XY), j \in 1 .. Len(Z) : XY[k].end <= Z[j].start
      BY <1>0, <2>1, <2>2, <2>4, <2>10, <2>13
    <3> QED BY <2>10, <2>12, <2>6, <3>1, SortedJoin
  <2>15. \A k \in 1 .. Len(t) : (t[k] = x /\ a.start < from) \/ t[k] = y \/ (t[k] = z /\ to < a.end)
    <3> SUFFICES ASSUME NEW k \in 1 .. Len(t) PROVE (t[k] = x /\ a.start < from) \/ t[k] = y \/ (t[k] = z /\ to < a.end)
      OBVIOUS
    <3>1. CASE k \in 1 .. Len(XY)
      <4>1. t[k] = XY[k]
        BY <2>14, <3>1 DEF Joins
      <4> QED BY <2>13, <3>1, <4>1
    <3>2. ASSUME NEW j \in 1 .. Len(Z), k = Len(XY) + j PROVE t[k] = z /\ to < a.end
      <4>1. t[k] = Z[j]
        BY <2>14, <3>2 DEF Joins
      <4> QED BY <2>10, <4>1
    <3> QED BY <2>14, <3>1, <3>2 DEF Joins
  <2>16. Pieces(a, t)
    <3>1. \A k \in 1 .. Len(t) : a.start <= t[k].start /\ t[k].end <= a.end
      BY <1>0, <1>2, <2>1, <2>2, <2>4, <2>15
    <3> QED BY <2>14, <3>1 DEF Pieces
  <2>17. ASSUME NEW page \in Int, NEW p
         PROVE  Has(t, page, p) <=> In(a, page) /\ p = IF from <= page /\ page < to THEN prot ELSE a.access_flags
    <3>1. Has(t, page, p) <=> \/ (a.start < from /\ In(x, page) /\ x.access_flags = p)
                              \/ (In(y, page) /\ y.access_flags = p)
                              \/ (to < a.end /\ In(z, page) /\ z.access_flags = p)
      BY <2>9, <2>10, <2>11, <2>12, <2>14
    <3>2. In(x, page) <=> a.start <= page /\ page < from
      BY <2>1 DEF In
    <3>3. In(z, page) <=> to <= page /\ page < a.end
      BY <2>2 DEF In
    <3>4. x.access_flags = a.access_flags /\ z.access_flags = a.access_flags
      BY <2>1, <2>2
    <3> QED BY <1>0, <1>2, <2>4, <3>1, <3>2, <3>3, <3>4 DEF In
  <2> QED BY <2>16, <2>17
<1> QED BY <1>1, <1>2

\* The last area of a list that is not empty.
LEMMA LastOf ==
  ASSUME NEW T, NEW t \in Seq(T), t # <<>>
  PROVE  Len(t) \in Nat \ {0} /\ Len(t) \in 1 .. Len(t) /\ Last(t) = t[Len(t)] /\ Last(t) \in T
<1>1. Len(t) \in Nat /\ Len(t) # 0
  BY EmptySeq
<1> QED BY <1>1 DEF Last

\* An area entered at the end of a list, possibly into its last area.
LEMMA JoinedRight ==
  ASSUME NEW t, Sorted(t), Merged(t), NEW a \in vm_area, a.start < a.end,
         t = <<>> \/ Last(t).end <= a.start, NEW r, r = Joined(t, a)
  PROVE  /\ Sorted(r) /\ Merged(r) /\ r # <<>> /\ Last(r).end = a.end
         /\ \A page \in Int : \A prot :
              Has(r, page, prot) <=> (Has(t, page, prot) \/ (In(a, page) /\ a.access_flags = prot))
<1> DEFINE n == Len(t)
<1>0. /\ t \in Seq(vm_area) /\ n \in Nat
      /\ \A k \in 1 .. n : t[k] \in vm_area /\ t[k].start < t[k].end /\ t[k].start \in Nat /\ t[k].end \in Nat
      /\ a.start \in Nat /\ a.end \in Nat
  BY Elements, AreaType DEF Sorted
<1>1. t # <<>> => n \in 1 .. n /\ Last(t) = t[n]
  BY <1>0, LastOf
<1>2. CASE t # <<>> /\ Last(t).end = a.start /\ Last(t).access_flags = a.access_flags
  <2> DEFINE l == [start |-> t[n].start, end |-> a.end, access_flags |-> a.access_flags]
  <2>1. r = [t EXCEPT ![n] = [t[n] EXCEPT !.end = a.end]]
    BY <1>2 DEF Joined
  <2>2. [t[n] EXCEPT !.end = a.end] = l
    BY <1>0, <1>1, <1>2 DEF vm_area
  <2>3. l \in vm_area
    <3>1. t[n].start \in Pages /\ a.end \in START + 1 .. END /\ a.access_flags \in Prots
      BY <1>0, <1>1, <1>2 DEF vm_area
    <3> QED BY <3>1 DEF vm_area
  <2>4. r = [t EXCEPT ![n] = l]
    BY <2>1, <2>2
  <2>l. l.start = t[n].start /\ l.end = a.end /\ l.access_flags = a.access_flags
    OBVIOUS
  <2> HIDE DEF l, n
  <2>5. r \in Seq(vm_area) /\ Len(r) = n
    <3>1. n \in 1 .. Len(t)
      BY <1>0, <1>1, <1>2 DEF n
    <3> QED BY <1>0, <2>3, <2>4, <3>1, ExceptSeq DEF n
  <2>6. r[n] = l /\ \A k \in 1 .. n : k # n => r[k] = t[k]
    BY <1>0, <1>1, <1>2, <2>4 DEF n
  <2>7. t[n].end = a.start /\ t[n].access_flags = a.access_flags /\ t[n].start < a.start
    BY <1>0, <1>1, <1>2
  <2>8. Sorted(r)
    <3>1. ASSUME NEW k \in 1 .. n PROVE r[k].start < r[k].end
      BY <1>0, <2>6, <2>7, <2>l
    <3>2. ASSUME NEW k \in 1 .. n - 1 PROVE r[k].end <= r[k + 1].start
      <4>1. k \in 1 .. n /\ k + 1 \in 1 .. n /\ k # n /\ t[k].end <= t[k + 1].start
        BY <1>0 DEF n, Sorted
      <4>2. r[k] = t[k] /\ r[k + 1].start = t[k + 1].start
        BY <4>1, <2>6, <2>l
      <4> QED BY <4>1, <4>2
    <3> QED BY <2>5, <3>1, <3>2 DEF Sorted
  <2>9. Merged(r)
    <3>1. ASSUME NEW k \in 1 .. n - 1, r[k].end = r[k + 1].start
          PROVE  r[k].access_flags # r[k + 1].access_flags
      <4>1. k \in 1 .. n /\ k + 1 \in 1 .. n /\ k # n
        BY <1>0
      <4>2. r[k] = t[k] /\ r[k + 1].start = t[k + 1].start /\ r[k + 1].access_flags = t[k + 1].access_flags
        BY <4>1, <2>6, <2>7, <2>l
      <4> QED BY <4>1, <4>2, <3>1 DEF n, Merged
    <3> QED BY <2>5, <3>1 DEF Merged
  <2>10. r # <<>> /\ Last(r).end = a.end
    <3>1. r # <<>>
      BY <2>5, <1>1, <1>2, EmptySeq
    <3> QED BY <3>1, <2>5, <2>6, <2>l, LastOf
  <2>11. ASSUME NEW page \in Int, NEW prot
         PROVE  Has(r, page, prot) <=> (Has(t, page, prot) \/ (In(a, page) /\ a.access_flags = prot))
    <3>1. In(l, page) <=> In(t[n], page) \/ In(a, page)
      BY <1>0, <1>1, <1>2, <2>7, <2>l DEF In
    <3>2. Has(r, page, prot) <=> \E k \in 1 .. n : In(r[k], page) /\ r[k].access_flags = prot
      BY <2>5 DEF Has
    <3>3. Has(t, page, prot) <=> \E k \in 1 .. n : In(t[k], page) /\ t[k].access_flags = prot
      BY DEF Has, n
    <3> QED BY <1>1, <1>2, <2>6, <2>7, <2>l, <3>1, <3>2, <3>3
  <2> QED BY <2>8, <2>9, <2>10, <2>11
<1>3. CASE ~(t # <<>> /\ Last(t).end = a.start /\ Last(t).access_flags = a.access_flags)
  <2> DEFINE u == <<a>>
  <2>1. r = t \o u
    <3>1. r = Append(t, a)
      BY <1>3 DEF Joined
    <3> QED BY <3>1, <1>0, AppendIsConcat
  <2>2. /\ Sorted(u) /\ Merged(u) /\ Len(u) = 1 /\ u[1] = a /\ \A j \in 1 .. Len(u) : u[j] = a
        /\ \A page, prot : Has(u, page, prot) <=> (In(a, page) /\ a.access_flags = prot)
    <3>1. u = <<a>> /\ u # <<>>
      OBVIOUS
    <3> HIDE DEF u
    <3>2. u = <<>> \/ (u = <<a>> /\ a \in vm_area /\ a.start < a.end)
      BY <3>1
    <3>3. /\ Sorted(u) /\ Merged(u) /\ \A j \in 1 .. Len(u) : u[j] = a
          /\ \A page, prot : Has(u, page, prot) <=> (u # <<>> /\ In(a, page) /\ a.access_flags = prot)
          /\ Len(u) = (IF u = <<>> THEN 0 ELSE 1)
      BY <3>2, Optional
    <3> QED BY <3>1, <3>3
  <2> HIDE DEF u
  <2>3. ASSUME NEW k \in 1 .. n
        PROVE  t[k].end <= a.start /\ (t[k].end = a.start => t[k].access_flags # a.access_flags)
    <3>1. t # <<>> /\ n \in 1 .. n /\ t[n].end <= a.start
      <4>1. t # <<>>
        BY <1>0, EmptySeq
      <4> QED BY <1>1, <4>1
    <3>2. CASE k = n
      BY <3>1, <3>2, <1>1, <1>3
    <3>3. CASE k # n
      <4>1. k < n
        BY <3>3, <1>0
      <4>2. t[k].end <= t[n].start
        BY <4>1, <3>1, Order
      <4> QED BY <1>0, <3>1, <4>2
    <3> QED BY <3>2, <3>3
  <2>4. /\ Sorted(r) /\ Joins(t, u, r)
        /\ \A page, prot : Has(r, page, prot) <=> (Has(t, page, prot) \/ Has(u, page, prot))
        /\ Merged(r)
    <3>1. \A k \in 1 .. Len(t), j \in 1 .. Len(u) : t[k].end <= u[j].start
      BY <2>2, <2>3
    <3>2. \A k \in 1 .. Len(t), j \in 1 .. Len(u) :
            t[k].end = u[j].start => t[k].access_flags # u[j].access_flags
      BY <2>2, <2>3
    <3> QED BY <2>1, <2>2, <3>1, <3>2, SortedJoin
  <2>5. r # <<>> /\ Last(r).end = a.end
    <3>1. Len(r) = n + 1 /\ r[n + 1] = a /\ r \in Seq(vm_area)
      BY <2>2, <2>4 DEF Joins, Sorted
    <3>2. r # <<>>
      BY <3>1, <1>0, EmptySeq
    <3> QED BY <3>1, <3>2, LastOf
  <2> QED BY <2>2, <2>4, <2>5
<1> QED BY <1>2, <1>3

\* The merging pass maps what the list maps, merged.
LEMMA MergedAll ==
  ASSUME NEW s, Sorted(s), NEW t, t = MergeAll(s)
  PROVE  /\ Sorted(t) /\ Merged(t)
         /\ \A page \in Int : \A prot : Has(t, page, prot) <=> Has(s, page, prot)
<1> DEFINE n == Len(s)
           D == Seq(vm_area)
           none == <<>>
           g == [i \in 1 .. n |-> [x \in D |-> Joined(x, s[i])]]
<1>0. /\ n \in Nat
      /\ \A k \in 1 .. n : s[k] \in vm_area /\ s[k].start < s[k].end /\ s[k].start \in Nat /\ s[k].end \in Nat
  BY Elements
<1>1. ASSUME NEW i \in 1 .. n, NEW x \in D PROVE Joined(x, s[i]) \in D
  <2>1. s[i] \in vm_area
    BY <1>0
  <2>2. CASE x # <<>> /\ Last(x).end = s[i].start /\ Last(x).access_flags = s[i].access_flags
    <3>1. Joined(x, s[i]) = [x EXCEPT ![Len(x)] = [x[Len(x)] EXCEPT !.end = s[i].end]]
      BY <2>2 DEF Joined
    <3>2. x[Len(x)] \in vm_area /\ Len(x) \in 1 .. Len(x)
      BY <2>2, LastOf
    <3>3. [x[Len(x)] EXCEPT !.end = s[i].end] \in vm_area
      BY <3>2, <2>1 DEF vm_area
    <3> QED BY <3>1, <3>2, <3>3
  <2>3. CASE ~(x # <<>> /\ Last(x).end = s[i].start /\ Last(x).access_flags = s[i].access_flags)
    <3>1. Joined(x, s[i]) = Append(x, s[i])
      BY <2>3 DEF Joined
    <3> QED BY <2>1, <3>1, AppendProperties
  <2> QED BY <2>2, <2>3
<1>2. \A i \in 1 .. n, x \in D : g[i][x] = Joined(x, s[i]) /\ g[i][x] \in D
  BY <1>1
<1>3. none \in D /\ none = <<>>
  OBVIOUS
<1>c. t = (CHOOSE h : h = [i \in 0 .. n |-> IF i = 0 THEN <<>> ELSE Joined(h[i - 1], s[i])])[n]
  BY DEF MergeAll
<1> HIDE DEF n, g, D, none
<1>4. PICK f : Follows(f, D, none, n, g)
  <2>1. n \in Nat /\ g \in [1 .. n -> [D -> D]]
    BY <1>0, <1>2 DEF g
  <2> QED BY <1>3, <2>1, Recursion
<1>f. f \in [0 .. n -> D] /\ f[0] = none /\ \A i \in 1 .. n : f[i] = g[i][f[i - 1]]
  BY <1>4 DEF Follows
<1>5. \A i \in 1 .. n : f[i] = Joined(f[i - 1], s[i])
  <2> SUFFICES ASSUME NEW i \in 1 .. n PROVE f[i] = Joined(f[i - 1], s[i])
    OBVIOUS
  <2>1. f[i - 1] \in D
    BY <1>0, <1>f
  <2> QED BY <2>1, <1>2, <1>f
<1>6. t = f[n]
  <2> DEFINE body(h) == [i \in 0 .. n |-> IF i = 0 THEN <<>> ELSE Joined(h[i - 1], s[i])]
  <2>1. f = body(f)
    <3>1. ASSUME NEW i \in 0 .. n PROVE f[i] = IF i = 0 THEN <<>> ELSE Joined(f[i - 1], s[i])
      <4>1. i # 0 => i \in 1 .. n
        BY <1>0
      <4> QED BY <4>1, <1>3, <1>5, <1>f
    <3> QED BY <3>1, <1>f
  <2>2. ASSUME NEW h, h = body(h) PROVE h[n] = f[n]
    <3> DEFINE S == {i \in 0 .. n : h[i] = f[i]}
    <3>1. 0 \in S
      BY <1>0, <1>3, <1>f, <2>2
    <3>2. ASSUME NEW i \in 1 .. n, i - 1 \in S PROVE i \in S
      <4>1. i \in 0 .. n /\ i # 0
        BY <1>0
      <4>2. h[i] = Joined(h[i - 1], s[i])
        BY <2>2, <4>1
      <4>3. h[i - 1] = f[i - 1]
        BY <3>2
      <4> QED BY <4>1, <4>2, <4>3, <1>5
    <3> HIDE DEF S
    <3>3. \A i \in 0 .. n : i \in S
      BY <1>0, <3>1, <3>2, Induct
    <3> QED BY <3>3, <1>0 DEF S
  <2>3. t = (CHOOSE h : h = body(h))[n]
    BY <1>c
  <2> HIDE DEF body
  <2> QED BY <2>1, <2>2, <2>3
<1> DEFINE Upto(m, x) ==
             /\ Sorted(x) /\ Merged(x) /\ (m = 0 => x = <<>>) /\ (m > 0 => x # <<>> /\ Last(x).end = s[m].end)
             /\ \A page \in Int : \A prot :
                  Has(x, page, prot) <=> \E i \in 1 .. m : In(s[i], page) /\ s[i].access_flags = prot
           S == {m \in 0 .. n : Upto(m, f[m])}
<1>7. 0 \in S
  <2>0. f[0] = <<>> /\ 0 \in 0 .. n
    BY <1>0, <1>3, <1>f
  <2>1. Sorted(<<>>) /\ Merged(<<>>) /\ \A page \in Int : \A prot : ~Has(<<>>, page, prot)
    BY EmptySeq DEF Sorted, Merged, Has
  <2>2. Upto(0, <<>>)
    BY <2>1
  <2> HIDE DEF Upto
  <2> QED BY <2>0, <2>2
<1>8. ASSUME NEW m \in 1 .. n, m - 1 \in S PROVE m \in S
  <2> DEFINE x == f[m - 1]
             y == f[m]
  <2>1. Upto(m - 1, x) /\ y = Joined(x, s[m])
    BY <1>8, <1>5
  <2> HIDE DEF x, y
  <2>2. x = <<>> \/ Last(x).end <= s[m].start
    <3>1. CASE m - 1 = 0
      BY <2>1, <3>1
    <3>2. CASE m - 1 # 0
      <4>1. m - 1 > 0 /\ m - 1 \in 1 .. n - 1 /\ (m - 1) + 1 = m
        BY <1>0, <3>2
      <4>2. s[m - 1].end <= s[m].start
        BY <4>1 DEF n, Sorted
      <4> QED BY <2>1, <4>1, <4>2
    <3> QED BY <3>1, <3>2
  <2>3. /\ Sorted(y) /\ Merged(y) /\ y # <<>> /\ Last(y).end = s[m].end
        /\ \A page \in Int : \A prot :
             Has(y, page, prot) <=> (Has(x, page, prot) \/ (In(s[m], page) /\ s[m].access_flags = prot))
    <3>1. s[m] \in vm_area /\ s[m].start < s[m].end /\ Sorted(x) /\ Merged(x)
      BY <1>0, <2>1
    <3> QED BY <2>1, <2>2, <3>1, JoinedRight
  <2>4. ASSUME NEW page \in Int, NEW prot
        PROVE  Has(y, page, prot) <=> \E i \in 1 .. m : In(s[i], page) /\ s[i].access_flags = prot
    <3>1. \A i : i \in 1 .. m <=> i \in 1 .. m - 1 \/ i = m
      BY <1>0
    <3>2. Has(x, page, prot) <=> \E i \in 1 .. m - 1 : In(s[i], page) /\ s[i].access_flags = prot
      BY <2>1
    <3> QED BY <2>3, <3>1, <3>2
  <2>5. m # 0 /\ m \in 0 .. n
    BY <1>0
  <2>6. Upto(m, y)
    BY <2>3, <2>4, <2>5
  <2> HIDE DEF Upto
  <2> QED BY <2>5, <2>6 DEF y
<1> HIDE DEF S
<1>9. \A m \in 0 .. n : m \in S
  BY <1>0, <1>7, <1>8, Induct
<1>10. Upto(n, t)
  <2>1. n \in S
    BY <1>0, <1>9
  <2> HIDE DEF Upto
  <2> QED BY <1>6, <2>1 DEF S
<1> QED BY <1>10 DEF Has, n

-----------------------------------------------------------------------------
(***************************************************************************)
(* munmap and mprotect                                                      *)
(***************************************************************************)
\* A length in pages, rounded up.
LEMMA Rounded ==
  ASSUME NEW length \in Nat
  PROVE  /\ PagesOf(length) \in Nat /\ length <= PagesOf(length) * PageSize
         /\ length # 0 => (PagesOf(length) - 1) * PageSize < length
         /\ length = 0 => PagesOf(length) = 0
         /\ length # 0 => PagesOf(length) >= 1
<1> DEFINE P == PageSize
           w == length \div P
<1>1. P \in Nat /\ P >= 1
  BY AreaAssumption
<1>2. w \in Int /\ w * P <= length /\ length < (w + 1) * P
  BY <1>1
<1>3. PagesOf(length) = IF w * P # length THEN w + 1 ELSE w
  BY DEF PagesOf
<1> HIDE DEF w, P
<1>p. \A k \in Int : k * P \in Int /\ (k + 1) * P = k * P + P /\ (k >= 0 => k * P >= 0) /\ (k < 0 => k * P < 0)
  BY <1>1
<1>4. w >= 0
  <2>1. CASE w < 0
    <3>1. w + 1 < 0 \/ w + 1 = 0
      BY <1>2, <2>1
    <3>2. (w + 1) * P <= 0
      BY <1>1, <1>2, <1>p, <3>1
    <3>3. (w + 1) * P \in Int
      BY <1>2, <1>p
    <3> QED BY <1>2, <3>2, <3>3
  <2> QED BY <1>2, <2>1
<1>5. w * P \in Int /\ (w + 1) * P \in Int /\ (w + 1) * P = w * P + P
  BY <1>2, <1>p
<1>6. CASE w * P # length
  <2>1. PagesOf(length) = w + 1 /\ (w + 1) - 1 = w
    BY <1>2, <1>3, <1>6
  <2>2. length # 0
    <3>1. length = 0 => w * P <= 0 /\ w * P >= 0
      BY <1>2, <1>4, <1>p
    <3> QED BY <3>1, <1>5, <1>6
  <2>3. w * P < length /\ length <= (w + 1) * P
    BY <1>2, <1>5, <1>6
  <2> QED BY <1>2, <1>4, <2>1, <2>2, <2>3 DEF P
<1>7. CASE w * P = length
  <2>1. PagesOf(length) = w
    BY <1>3, <1>7
  <2>2. (w - 1) * P < length
    <3>1. ((w - 1) + 1) * P = (w - 1) * P + P /\ (w - 1) * P \in Int /\ (w - 1) + 1 = w
      BY <1>2, <1>p
    <3> QED BY <3>1, <1>1, <1>7
  <2>3. length = 0 => w = 0
    <3>1. CASE w >= 1
      <4>1. (w - 1) * P >= 0 /\ (w - 1) * P \in Int
        BY <1>2, <1>p, <3>1
      <4> QED BY <4>1, <2>2
    <3> QED BY <3>1, <1>2, <1>4
  <2>4. length # 0 => w >= 1
    <3>1. w = 0 => w * P = 0
      BY <1>1
    <3> QED BY <3>1, <1>2, <1>4, <1>7
  <2> QED BY <1>2, <1>4, <1>7, <2>1, <2>2, <2>3, <2>4 DEF P
<1> QED BY <1>6, <1>7

\* The test before the length is rounded is the test after it.
LEMMA Inside ==
  ASSUME NEW addr \in Nat, NEW length \in Nat
  PROVE  /\ addr + PagesOf(length) <= END => EndsInside(addr, length)
         /\ length # 0 \/ addr <= END => (EndsInside(addr, length) => addr + PagesOf(length) <= END)
<1> DEFINE P == PageSize
           n == PagesOf(length)
<1>0. P \in Nat /\ P >= 1 /\ END \in Nat
  BY AreaAssumption
<1>1. /\ n \in Nat /\ length <= n * P
      /\ length # 0 => (n - 1) * P < length
      /\ length = 0 => n = 0
  BY Rounded
<1>2. EndsInside(addr, length) <=> addr * P + length <= END * P
  BY DEF EndsInside
<1> HIDE DEF P, n
<1>p. \A j, k \in Int : j * P \in Int /\ (j + k) * P = j * P + k * P
  BY <1>0
<1>q. \A j, k \in Int : j <= k => j * P <= k * P
  BY <1>0
<1>3. ASSUME addr + n <= END PROVE EndsInside(addr, length)
  <2>1. (addr + n) * P <= END * P /\ (addr + n) * P = addr * P + n * P
    BY <1>0, <1>1, <1>3, <1>p, <1>q
  <2>2. addr * P \in Int /\ n * P \in Int /\ END * P \in Int
    BY <1>0, <1>1, <1>p
  <2> QED BY <1>1, <1>2, <2>1, <2>2
<1>4. ASSUME length # 0, EndsInside(addr, length), addr + n > END PROVE FALSE
  <2>1. END <= addr + (n - 1)
    BY <1>0, <1>1, <1>4
  <2>2. END * P <= (addr + (n - 1)) * P /\ (addr + (n - 1)) * P = addr * P + (n - 1) * P
    BY <1>0, <1>1, <2>1, <1>p, <1>q
  <2>3. addr * P \in Int /\ (n - 1) * P \in Int /\ END * P \in Int
    BY <1>0, <1>1, <1>p
  <2> QED BY <1>1, <1>2, <1>4, <2>2, <2>3
<1>5. length = 0 /\ addr <= END => addr + n <= END
  BY <1>0, <1>1
<1> QED BY <1>0, <1>1, <1>3, <1>4, <1>5 DEF n

\* What munmap does to a list.
UnmapResult(s, addr, length, r) ==
  /\ Sorted(r.areas) /\ r.ret \in {-1, 0}
  /\ length # 0 /\ Merged(s) => Merged(r.areas)
  /\ r.ret = -1 => r.areas = s
  /\ r.ret = 0 => \A page \in Int : \A prot :
       Has(r.areas, page, prot) <=>
         Has(s, page, prot) /\ ~(addr <= page /\ page < addr + PagesOf(length))
  /\ r.ret = 0 => addr = 0 \/ (START <= addr /\ EndsInside(addr, length))
  /\ Len(s) <= MaxAreas => Len(r.areas) <= MaxAreas

\* munmap does that.
LEMMA UnmapRight ==
  ASSUME NEW s, Sorted(s), NEW addr \in Nat, NEW length \in Nat,
         NEW r, r = vm_area_unmap(s, addr, length)
  PROVE  UnmapResult(s, addr, length, r)
<1> DEFINE to == addr + PagesOf(length)
           t == FlattenSeq([i \in DOMAIN s |-> Remainder(s[i], addr, to)])
<1>0. /\ to \in Int /\ addr <= to /\ (length # 0 => addr < to) /\ MaxAreas \in Nat /\ Len(s) \in Nat
  <2>1. PagesOf(length) \in Nat /\ (length # 0 => PagesOf(length) >= 1)
    BY Rounded
  <2>2. MaxAreas \in Nat /\ Len(s) \in Nat
    BY AreaAssumption, Elements
  <2> QED BY <2>1, <2>2
<1>1. r = IF addr # 0 /\ ~(START <= addr /\ EndsInside(addr, length)) THEN [areas |-> s, ret |-> -1]
          ELSE IF Splits(s, addr, to) /\ Len(s) = MaxAreas THEN [areas |-> s, ret |-> -1]
          ELSE [areas |-> t, ret |-> 0]
  BY DEF vm_area_unmap, Fail, Result
<1>2. /\ Sorted(t)
      /\ addr < to /\ Merged(s) => Merged(t)
      /\ \A page \in Int : \A prot :
           Has(t, page, prot) <=> Has(s, page, prot) /\ ~(addr <= page /\ page < to)
      /\ Len(t) <= Len(s) + IF Splits(s, addr, to) THEN 1 ELSE 0
      /\ Len(t) \in Nat
  <2>1. t = FlattenSeq([i \in DOMAIN s |-> Remainder(s[i], addr, to)])
    OBVIOUS
  <2> HIDE DEF t, to
  <2>2. addr \in Int
    OBVIOUS
  <2>3. /\ Sorted(t)
        /\ addr < to /\ Merged(s) => Merged(t)
        /\ \A page \in Int : \A prot :
             Has(t, page, prot) <=> Has(s, page, prot) /\ ~(addr <= page /\ page < to)
        /\ Len(t) <= Len(s) + IF Splits(s, addr, to) THEN 1 ELSE 0
    BY <1>0, <2>1, <2>2, Unmapped
  <2> QED BY <2>3, Elements
<1>3. CASE r = [areas |-> s, ret |-> -1]
  BY <1>3 DEF UnmapResult
<1>4. CASE r = [areas |-> t, ret |-> 0] /\ ~(Splits(s, addr, to) /\ Len(s) = MaxAreas)
           /\ ~(addr # 0 /\ ~(START <= addr /\ EndsInside(addr, length)))
  <2> HIDE DEF t
  <2>1. r.areas = t /\ r.ret = 0
    BY <1>4
  <2>2. Len(s) <= MaxAreas => Len(t) <= MaxAreas
    BY <1>0, <1>2, <1>4
  <2> QED BY <1>0, <1>2, <1>4, <2>1, <2>2 DEF UnmapResult
<1> QED BY <1>1, <1>3, <1>4

\* What mprotect does to a list.
ProtectResult(s, addr, length, prot, r) ==
  /\ Sorted(r.areas) /\ (Merged(s) => Merged(r.areas)) /\ r.ret \in {-1, 0}
  /\ r.ret = -1 \/ length = 0 => r.areas = s
  /\ r.ret = 0 => /\ START <= addr /\ EndsInside(addr, length)
                  /\ length # 0 => RangeAccepted(s, addr, addr + PagesOf(length))
  /\ r.ret = 0 => \A page \in Int : \A p :
       Has(r.areas, page, p) <=>
         IF addr <= page /\ page < addr + PagesOf(length)
         THEN p = prot /\ \E q : Has(s, page, q) ELSE Has(s, page, p)

\* mprotect does that.
LEMMA ProtectRight ==
  ASSUME NEW s, Sorted(s), NEW addr \in Nat, NEW length \in Nat, NEW prot \in Prots,
         NEW r, r = vm_area_mprotect(s, addr, length, prot)
  PROVE  ProtectResult(s, addr, length, prot, r)
<1> DEFINE to == addr + PagesOf(length)
           n == Len(s)
           q == [i \in 1 .. n |-> Reprotect(s[i], addr, to, prot)]
           t == FlattenSeq(q)
           u == MergeAll(t)
<1>0. /\ to \in Int /\ (length # 0 => addr < to) /\ (length = 0 => to = addr)
  BY Rounded
<1>s. /\ n \in Nat /\ DOMAIN s = 1 .. n
      /\ \A k \in 1 .. n : s[k].start < s[k].end /\ s[k].start \in Nat /\ s[k].end \in Nat /\ s[k] \in vm_area
  BY Elements
<1>1. r = IF ~(START <= addr /\ EndsInside(addr, length)) THEN [areas |-> s, ret |-> -1]
          ELSE IF length = 0 THEN [areas |-> s, ret |-> 0]
          ELSE IF ~RangeAccepted(s, addr, to) \/ TooManyAreas(s, addr, to, prot)
               THEN [areas |-> s, ret |-> -1]
               ELSE [areas |-> MergeAll(FlattenSeq([i \in DOMAIN s |-> Reprotect(s[i], addr, to, prot)])),
                     ret |-> 0]
  BY DEF vm_area_mprotect, Fail, Result
<1>2. CASE r = [areas |-> s, ret |-> -1]
  BY <1>2 DEF ProtectResult
<1>3. CASE r = [areas |-> s, ret |-> 0] /\ length = 0 /\ START <= addr /\ EndsInside(addr, length)
  <2>1. \A page \in Int : ~(addr <= page /\ page < addr + PagesOf(length))
    BY <1>0, <1>3
  <2> QED BY <1>3, <2>1 DEF ProtectResult
<1>4. CASE /\ r = [areas |-> MergeAll(FlattenSeq([i \in DOMAIN s |-> Reprotect(s[i], addr, to, prot)])),
                   ret |-> 0]
           /\ length # 0 /\ RangeAccepted(s, addr, to) /\ START <= addr /\ EndsInside(addr, length)
  <2>1. r.areas = u /\ r.ret = 0
    BY <1>4, <1>s
  <2>2. \A i \in 1 .. n : q[i] = Reprotect(s[i], addr, to, prot)
    OBVIOUS
  <2>d. q = [i \in 1 .. n |-> Reprotect(s[i], addr, to, prot)] /\ t = FlattenSeq(q) /\ u = MergeAll(t)
    OBVIOUS
  <2>n. n = Len(s)
    OBVIOUS
  <2>t. to = addr + PagesOf(length)
    OBVIOUS
  <2> HIDE DEF q, t, u, n, to
  <2>3. ASSUME NEW i \in 1 .. n
        PROVE  /\ Pieces(s[i], q[i])
               /\ \A page \in Int : \A p :
                    Has(q[i], page, p) <=>
                      In(s[i], page) /\ p = IF addr <= page /\ page < to THEN prot ELSE s[i].access_flags
    <3>1. s[i] \in vm_area /\ s[i].start < s[i].end /\ addr < to /\ addr \in Int
      BY <1>0, <1>s, <1>4
    <3> QED BY <1>0, <2>2, <3>1, Reprotected
  <2>4. q \in Seq(Seq(vm_area)) /\ Len(q) = n
    <3>1. \A i \in 1 .. n : q[i] \in Seq(vm_area)
      BY <2>3 DEF Pieces, Sorted
    <3>2. q \in [1 .. n -> Seq(vm_area)]
      BY <2>d, <3>1
    <3> QED BY <3>2, <1>s
  <2>5. Made(s, q, n, t)
    BY <2>3, <2>4, <2>d, <2>n, InPieces
  <2>6. Sorted(t)
    BY <2>5 DEF Made
  <2>7. Sorted(u) /\ Merged(u) /\ \A page \in Int : \A p : Has(u, page, p) <=> Has(t, page, p)
    BY <2>6, <2>d, MergedAll
  <2>8. ASSUME NEW page \in Int, NEW p
        PROVE  Has(u, page, p) <=> IF addr <= page /\ page < to
                                   THEN p = prot /\ \E f : Has(s, page, f) ELSE Has(s, page, p)
    <3>1. Has(u, page, p) <=> \E i \in 1 .. n : Has(q[i], page, p)
      <4>1. Has(t, page, p) <=> \E i \in 1 .. n : Has(q[i], page, p)
        BY <1>s, <2>5, MadeHas
      <4> QED BY <2>7, <4>1
    <3>2. \A f : Has(s, page, f) <=> \E i \in 1 .. n : In(s[i], page) /\ s[i].access_flags = f
      BY <2>n DEF Has
    <3>3. \A i \in 1 .. n : Has(q[i], page, p) <=>
            In(s[i], page) /\ p = IF addr <= page /\ page < to THEN prot ELSE s[i].access_flags
      BY <2>3
    <3> QED BY <3>1, <3>2, <3>3
  <2> QED BY <1>4, <2>1, <2>7, <2>8, <2>t DEF ProtectResult
<1> QED BY <1>1, <1>2, <1>3, <1>4

-----------------------------------------------------------------------------
(***************************************************************************)
(* mmap                                                                     *)
(***************************************************************************)
\* t is the part of s from a to b.
Part(s, a, b, t) ==
  /\ Sorted(t) /\ Len(t) = b - a + 1
  /\ \A k \in 1 .. Len(t) : t[k] = s[a + k - 1] /\ a + k - 1 \in a .. b /\ a + k - 1 \in 1 .. Len(s)
  /\ Merged(s) => Merged(t)
  /\ \A page, prot : Has(t, page, prot) <=> \E k \in a .. b : In(s[k], page) /\ s[k].access_flags = prot

\* SubSeq takes a part.
LEMMA PartOf ==
  ASSUME NEW s, Sorted(s), NEW a \in Int, NEW b \in Int, 1 <= a, a <= b + 1, b <= Len(s),
         NEW t, t = SubSeq(s, a, b)
  PROVE  Part(s, a, b, t)
<1> DEFINE n == b - a + 1
<1>0. Len(s) \in Nat /\ s \in Seq(vm_area) /\ \A k \in 1 .. Len(s) : s[k] \in vm_area
  BY Elements DEF Sorted
<1>1. n \in Nat
  BY <1>0
<1>2. t \in Seq(vm_area) /\ Len(t) = n /\ \A k \in 1 .. n : t[k] = s[a + k - 1]
  <2>1. t = [k \in 1 .. n |-> s[a + k - 1]]
    BY <1>0, <1>1
  <2>2. \A k \in 1 .. n : s[a + k - 1] \in vm_area
    BY <1>0, <1>1
  <2> HIDE DEF n
  <2> QED BY <1>1, <2>1, <2>2
<1>3. \A k \in 1 .. n : a + k - 1 \in a .. b /\ a + k - 1 \in 1 .. Len(s)
  BY <1>0, <1>1
<1>4. ASSUME NEW k \in 1 .. n - 1
      PROVE  /\ k \in 1 .. n /\ k + 1 \in 1 .. n /\ a + k - 1 \in 1 .. Len(s) - 1
             /\ t[k] = s[a + k - 1] /\ t[k + 1] = s[(a + k - 1) + 1]
  <2>1. k \in 1 .. n /\ k + 1 \in 1 .. n /\ a + (k + 1) - 1 = (a + k - 1) + 1 /\ a + k - 1 \in 1 .. Len(s) - 1
    BY <1>0, <1>1
  <2> QED BY <1>2, <2>1
<1>5. \A k \in a .. b : k - a + 1 \in 1 .. n /\ a + (k - a + 1) - 1 = k
  BY <1>1
<1> HIDE DEF n
<1>6. Sorted(t)
  <2>1. \A k \in 1 .. n : t[k].start < t[k].end
    BY <1>2, <1>3 DEF Sorted
  <2>2. \A k \in 1 .. n - 1 : t[k].end <= t[k + 1].start
    BY <1>4 DEF Sorted
  <2> QED BY <1>2, <2>1, <2>2 DEF Sorted
<1>7. Merged(s) => Merged(t)
  BY <1>2, <1>4 DEF Merged
<1>8. ASSUME NEW page, NEW prot
      PROVE  Has(t, page, prot) <=> \E k \in a .. b : In(s[k], page) /\ s[k].access_flags = prot
  <2>1. Has(t, page, prot) <=> \E k \in 1 .. n : In(t[k], page) /\ t[k].access_flags = prot
    BY <1>2 DEF Has
  <2>2. ASSUME NEW k \in 1 .. n, In(t[k], page), t[k].access_flags = prot
        PROVE  \E l \in a .. b : In(s[l], page) /\ s[l].access_flags = prot
    <3>1. t[k] = s[a + k - 1] /\ a + k - 1 \in a .. b
      BY <1>2, <1>3
    <3> QED BY <2>2, <3>1
  <2>3. ASSUME NEW l \in a .. b, In(s[l], page), s[l].access_flags = prot
        PROVE  \E k \in 1 .. n : In(t[k], page) /\ t[k].access_flags = prot
    <3>1. l - a + 1 \in 1 .. n /\ t[l - a + 1] = s[l]
      BY <1>2, <1>5
    <3> QED BY <2>3, <3>1
  <2> QED BY <2>1, <2>2, <2>3
<1> QED BY <1>2, <1>3, <1>6, <1>7, <1>8 DEF n, Part

\* The place of n pages at at, between area i and the next.
Gap(s, i, at, n) == /\ i \in 0 .. Len(s) /\ at \in Int /\ START <= at /\ at + n <= END
                    /\ i >= 1 => s[i].end <= at
                    /\ i < Len(s) => at + n <= s[i + 1].start

\* r is the list s with n pages at at added.
Added(s, r, at, n, prot) ==
  /\ Sorted(r)
  /\ Merged(s) => Merged(r)
  /\ Len(s) <= MaxAreas => Len(r) <= MaxAreas
  /\ \A page \in Int : \A p :
       Has(r, page, p) <=> (Has(s, page, p) \/ (p = prot /\ at <= page /\ page < at + n))

\* Pages are added in their place.
LEMMA PlaceRight ==
  ASSUME NEW s, Sorted(s), NEW i, NEW at, NEW n \in Nat \ {0}, NEW prot \in Prots, Gap(s, i, at, n),
         NEW r, r = Place(s, i, at, n, prot)
  PROVE  \/ /\ r.ret = -1 /\ r.areas = s /\ Len(s) >= MaxAreas
            /\ ~(i >= 1 /\ s[i].end = at /\ s[i].access_flags = prot)
         \/ r.ret = at /\ Added(s, r.areas, at, n, prot)
<1> DEFINE left  == i >= 1 /\ s[i].end = at /\ s[i].access_flags = prot
           right == i < Len(s) /\ s[i + 1].start = at + n /\ s[i + 1].access_flags = prot
           lo == IF left THEN i - 1 ELSE i
           hi == IF right THEN i + 2 ELSE i + 1
           L == Len(s)
           b == IF left THEN s[i].start ELSE at
           e == IF right THEN s[i + 1].end ELSE at + n
           x == [start |-> b, end |-> e, access_flags |-> prot]
           P == SubSeq(s, 1, lo)
           X == <<x>>
           Q == SubSeq(s, hi, L)
           PX == P \o X
           t == PX \o Q
<1>1. r = IF ~left /\ ~right /\ L >= MaxAreas THEN [areas |-> s, ret |-> -1]
          ELSE [areas |-> t, ret |-> at]
  BY DEF Place, Fail, Result
<1>2. /\ L \in Nat
      /\ \A k \in 1 .. L : /\ s[k].start \in Int /\ s[k].end \in Int /\ s[k].start < s[k].end
                           /\ START <= s[k].start /\ s[k].end <= END
      /\ START \in Nat /\ END \in Nat /\ MaxAreas \in Nat
  BY Elements, AreaAssumption
<1>3. /\ i \in 0 .. L /\ i \in Int /\ at \in Int /\ START <= at /\ at + n <= END /\ n >= 1
      /\ i >= 1 => i \in 1 .. L /\ s[i].end <= at
      /\ i < L => i + 1 \in 1 .. L /\ at + n <= s[i + 1].start
  BY <1>2 DEF Gap
<1>4. lo \in Int /\ hi \in Int /\ 1 <= lo + 1 /\ lo <= L /\ 1 <= hi /\ hi <= L + 1
  BY <1>2, <1>3
<1>b. b \in Int /\ e \in Int /\ START <= b /\ b <= at /\ at + n <= e /\ e <= END /\ b < e
  BY <1>2, <1>3
<1>x. x \in vm_area /\ x.start < x.end /\ x.start = b /\ x.end = e /\ x.access_flags = prot
  <2>1. x.start = b /\ x.end = e /\ x.access_flags = prot
    OBVIOUS
  <2>2. b < END /\ START < e
    BY <1>b, <1>2
  <2> HIDE DEF b, e
  <2> QED BY <1>b, <2>1, <2>2, IsArea
<1>l. ASSUME NEW k \in 1 .. lo
      PROVE  k \in 1 .. L /\ s[k].end <= b /\ (Merged(s) /\ s[k].end = b => s[k].access_flags # prot)
  <2>0. k \in 1 .. L /\ i \in 1 .. L /\ k <= i
    BY <1>2, <1>3
  <2>1. CASE left
    <3>1. k < i /\ b = s[i].start
      BY <2>1, <1>3
    <3>2. s[k].end <= s[i].start
      BY <2>0, <3>1, Order
    <3>3. s[k].end = s[i].start => i = k + 1 /\ k \in 1 .. L - 1
      BY <1>2, <2>0, <3>1, Touching
    <3> QED BY <2>0, <2>1, <3>1, <3>2, <3>3 DEF Merged
  <2>2. CASE ~left
    <3>1. b = at
      BY <2>2
    <3>2. CASE k = i
      BY <2>0, <2>2, <3>1, <3>2, <1>3
    <3>3. CASE k < i
      <4>1. s[k].end <= s[i].start
        BY <2>0, <3>3, Order
      <4> QED BY <1>2, <1>3, <2>0, <3>1, <4>1
    <3> QED BY <2>0, <3>2, <3>3, <1>3
  <2> QED BY <2>1, <2>2
<1>h. ASSUME NEW k \in hi .. L
      PROVE  k \in 1 .. L /\ e <= s[k].start /\ (Merged(s) /\ s[k].start = e => s[k].access_flags # prot)
  <2>0. k \in 1 .. L /\ i + 1 \in 1 .. L /\ i + 1 <= k /\ i < L
    BY <1>2, <1>3
  <2>1. CASE right
    <3>1. i + 1 < k /\ e = s[i + 1].end
      BY <2>1, <1>3
    <3>2. s[i + 1].end <= s[k].start
      BY <2>0, <3>1, Order
    <3>3. s[k].start = s[i + 1].end => k = (i + 1) + 1 /\ i + 1 \in 1 .. L - 1
      BY <1>2, <2>0, <3>1, Touching
    <3> QED BY <2>0, <2>1, <3>1, <3>2, <3>3 DEF Merged
  <2>2. CASE ~right
    <3>1. e = at + n
      BY <2>2
    <3>2. CASE k = i + 1
      BY <2>0, <2>2, <3>1, <3>2, <1>3
    <3>3. CASE i + 1 < k
      <4>1. s[i + 1].end <= s[k].start
        BY <2>0, <3>3, Order
      <4> QED BY <1>2, <1>3, <2>0, <3>1, <4>1, SMTT(30)
    <3> QED BY <2>0, <3>2, <3>3, <1>3
  <2> QED BY <2>1, <2>2
<1>i. ASSUME NEW page \in Int, NEW p
      PROVE  (\E k \in 1 .. lo : In(s[k], page) /\ s[k].access_flags = p)
             \/ (In(x, page) /\ p = prot) \/ (\E k \in hi .. L : In(s[k], page) /\ s[k].access_flags = p)
             <=> (\E k \in 1 .. L : In(s[k], page) /\ s[k].access_flags = p)
                 \/ (p = prot /\ at <= page /\ page < at + n)
  <2>1. In(x, page) <=> b <= page /\ page < e
    BY <1>x DEF In
  <2>2. \A k \in 1 .. L : k \in 1 .. lo \/ k \in hi .. L \/ (left /\ k = i) \/ (right /\ k = i + 1)
    BY <1>2, <1>3
  <2>3. left => i \in 1 .. L /\ s[i].access_flags = prot /\ (In(s[i], page) => b <= page /\ page < e)
                /\ (b <= page /\ page < at => In(s[i], page))
    BY <1>2, <1>3, <1>b DEF In
  <2>4. right => /\ i + 1 \in 1 .. L /\ s[i + 1].access_flags = prot
                 /\ (In(s[i + 1], page) => b <= page /\ page < e)
                 /\ (at + n <= page /\ page < e => In(s[i + 1], page))
    BY <1>2, <1>3, <1>b DEF In
  <2>5. ~left => b = at
    OBVIOUS
  <2>6. ~right => e = at + n
    OBVIOUS
  <2>7. \A k \in 1 .. lo : k \in 1 .. L
    BY <1>l
  <2>8. \A k \in hi .. L : k \in 1 .. L
    BY <1>h
  <2>9. at <= page /\ page < at + n => b <= page /\ page < e
    BY <1>3, <1>b
  <2>10. b <= page /\ page < e => (b <= page /\ page < at) \/ (at <= page /\ page < at + n) \/ (at + n <= page /\ page < e)
    BY <1>3, <1>b
  <2>11. b = at => ~(b <= page /\ page < at)
    BY <1>3
  <2>12. e = at + n => ~(at + n <= page /\ page < e)
    BY <1>3
  <2> HIDE DEF left, right, lo, hi, b, e, x, L
  <2> QED BY <2>1, <2>2, <2>3, <2>4, <2>5, <2>6, <2>7, <2>8, <2>9, <2>10, <2>11, <2>12
<1>n. lo + 1 + (L - hi + 1) = L + 1 - (IF left THEN 1 ELSE 0) - (IF right THEN 1 ELSE 0)
  <2>1. lo = i - (IF left THEN 1 ELSE 0)
    BY <1>3
  <2>2. hi = i + 1 + (IF right THEN 1 ELSE 0)
    BY <1>3
  <2> HIDE DEF left, right, lo, hi, L
  <2>3. (IF left THEN 1 ELSE 0) \in Int /\ (IF right THEN 1 ELSE 0) \in Int
    OBVIOUS
  <2> QED BY <1>2, <1>3, <2>1, <2>2, <2>3
<1>d. P = SubSeq(s, 1, lo) /\ Q = SubSeq(s, hi, L) /\ X = <<x>> /\ PX = P \o X /\ t = PX \o Q /\ L = Len(s)
  OBVIOUS
<1> HIDE DEF left, right, lo, hi, b, e, x, L, P, X, Q, PX, t
<1>5. /\ Sorted(P) /\ Len(P) = lo
      /\ \A k \in 1 .. Len(P) : P[k] = s[k] /\ k \in 1 .. lo
      /\ Merged(s) => Merged(P)
      /\ \A page, p : Has(P, page, p) <=> \E k \in 1 .. lo : In(s[k], page) /\ s[k].access_flags = p
  <2>1. /\ Sorted(P) /\ Len(P) = lo - 1 + 1
        /\ \A k \in 1 .. Len(P) : P[k] = s[1 + k - 1] /\ 1 + k - 1 \in 1 .. lo /\ 1 + k - 1 \in 1 .. Len(s)
        /\ Merged(s) => Merged(P)
        /\ \A page, p : Has(P, page, p) <=> \E k \in 1 .. lo : In(s[k], page) /\ s[k].access_flags = p
    <3>1. 1 \in Int /\ lo \in Int /\ 1 <= 1 /\ 1 <= lo + 1 /\ lo <= Len(s) /\ P = SubSeq(s, 1, lo)
      BY <1>4, <1>d
    <3>2. Part(s, 1, lo, P)
      BY <3>1, PartOf
    <3> QED BY <3>2 DEF Part
  <2>2. lo - 1 + 1 = lo /\ \A k \in 1 .. lo : 1 + k - 1 = k
    BY <1>4
  <2> QED BY <2>1, <2>2
<1>6. /\ Sorted(Q) /\ Len(Q) = L - hi + 1
      /\ \A k \in 1 .. Len(Q) : \E l \in hi .. L : Q[k] = s[l]
      /\ Merged(s) => Merged(Q)
      /\ \A page, p : Has(Q, page, p) <=> \E k \in hi .. L : In(s[k], page) /\ s[k].access_flags = p
  <2>0. L \in Int /\ hi <= L + 1 /\ L <= Len(s)
    BY <1>2, <1>4, <1>d
  <2>1. /\ Sorted(Q) /\ Len(Q) = L - hi + 1
        /\ \A k \in 1 .. Len(Q) : Q[k] = s[hi + k - 1] /\ hi + k - 1 \in hi .. L /\ hi + k - 1 \in 1 .. Len(s)
        /\ Merged(s) => Merged(Q)
        /\ \A page, p : Has(Q, page, p) <=> \E k \in hi .. L : In(s[k], page) /\ s[k].access_flags = p
    <3>1. hi \in Int /\ 1 <= hi /\ Q = SubSeq(s, hi, L)
      BY <1>4, <1>d
    <3>2. Part(s, hi, L, Q)
      BY <2>0, <3>1, PartOf
    <3> QED BY <3>2 DEF Part
  <2> QED BY <2>1
<1>7. /\ Sorted(X) /\ Merged(X) /\ Len(X) = 1 /\ \A j \in 1 .. Len(X) : X[j] = x
      /\ \A page, p : Has(X, page, p) <=> (In(x, page) /\ p = prot)
  <2>1. X = <<>> \/ (X = <<x>> /\ x \in vm_area /\ x.start < x.end)
    BY <1>d, <1>x
  <2>2. /\ Sorted(X) /\ Merged(X) /\ <<x>> # <<>> /\ \A j \in 1 .. Len(X) : X[j] = x /\ X # <<>>
        /\ \A page, p : Has(X, page, p) <=> (X # <<>> /\ In(x, page) /\ x.access_flags = p)
        /\ Len(X) = (IF X = <<>> THEN 0 ELSE 1)
    BY <2>1, Optional
  <2>3. X # <<>>
    BY <2>2, <1>d
  <2> QED BY <2>2, <2>3, <1>x
<1>8. /\ Sorted(PX) /\ Joins(P, X, PX) /\ (Merged(s) => Merged(PX))
      /\ \A page, p : Has(PX, page, p) <=> (Has(P, page, p) \/ Has(X, page, p))
  <2>1. \A k \in 1 .. Len(P), j \in 1 .. Len(X) :
           P[k].end <= X[j].start /\ (Merged(s) /\ P[k].end = X[j].start => P[k].access_flags # X[j].access_flags)
    BY <1>5, <1>7, <1>l, <1>x
  <2>2. /\ Sorted(PX) /\ Joins(P, X, PX)
        /\ \A page, p : Has(PX, page, p) <=> (Has(P, page, p) \/ Has(X, page, p))
        /\ /\ Merged(P) /\ Merged(X)
           /\ \A k \in 1 .. Len(P), j \in 1 .. Len(X) :
                P[k].end = X[j].start => P[k].access_flags # X[j].access_flags
           => Merged(PX)
    <3>1. \A k \in 1 .. Len(P), j \in 1 .. Len(X) : P[k].end <= X[j].start
      BY <2>1
    <3>2. Sorted(P) /\ Sorted(X) /\ PX = P \o X
      BY <1>5, <1>7, <1>d
    <3> QED BY <3>1, <3>2, SortedJoin
  <2> QED BY <1>5, <1>7, <2>1, <2>2
<1>9. \A k \in 1 .. Len(PX) : PX[k] = x \/ \E l \in 1 .. lo : PX[k] = s[l]
  BY <1>5, <1>7, <1>8 DEF Joins
<1>10. /\ Sorted(t) /\ Joins(PX, Q, t) /\ (Merged(s) => Merged(t))
       /\ \A page, p : Has(t, page, p) <=> (Has(PX, page, p) \/ Has(Q, page, p))
  <2>1. ASSUME NEW k \in 1 .. Len(PX), NEW j \in 1 .. Len(Q)
        PROVE  PX[k].end <= Q[j].start /\ (Merged(s) /\ PX[k].end = Q[j].start => PX[k].access_flags # Q[j].access_flags)
    <3>1. PICK m \in hi .. L : Q[j] = s[m]
      BY <1>6
    <3>2. e <= s[m].start /\ (Merged(s) /\ s[m].start = e => s[m].access_flags # prot) /\ s[m].start \in Int
      BY <1>h, <1>2
    <3>3. CASE PX[k] = x
      BY <3>1, <3>2, <3>3, <1>x
    <3>4. ASSUME NEW l \in 1 .. lo, PX[k] = s[l] PROVE PX[k].end < Q[j].start
      <4>1. s[l].end <= b /\ s[l].end \in Int
        BY <1>l, <1>2
      <4> QED BY <4>1, <3>1, <3>2, <3>4, <1>b
    <3>5. CASE \E l \in 1 .. lo : PX[k] = s[l]
      <4>1. PX[k].end < Q[j].start
        BY <3>4, <3>5
      <4>2. PX[k].end \in Int /\ Q[j].start \in Int
        BY <1>6, <1>8, Elements
      <4> QED BY <4>1, <4>2
    <3> QED BY <1>9, <3>3, <3>5
  <2>2. /\ Sorted(t) /\ Joins(PX, Q, t)
        /\ \A page, p : Has(t, page, p) <=> (Has(PX, page, p) \/ Has(Q, page, p))
        /\ /\ Merged(PX) /\ Merged(Q)
           /\ \A k \in 1 .. Len(PX), j \in 1 .. Len(Q) :
                PX[k].end = Q[j].start => PX[k].access_flags # Q[j].access_flags
           => Merged(t)
    <3>1. \A k \in 1 .. Len(PX), j \in 1 .. Len(Q) : PX[k].end <= Q[j].start
      BY <2>1
    <3>2. Sorted(PX) /\ Sorted(Q) /\ t = PX \o Q
      BY <1>6, <1>8, <1>d
    <3> QED BY <3>1, <3>2, SortedJoin
  <2> QED BY <1>6, <1>8, <2>1, <2>2
<1>11. Len(t) = L + 1 - (IF left THEN 1 ELSE 0) - (IF right THEN 1 ELSE 0)
  BY <1>5, <1>6, <1>7, <1>8, <1>10, <1>n DEF Joins
<1>12. CASE ~left /\ ~right /\ L >= MaxAreas
  BY <1>1, <1>12, <1>d DEF left
<1>13. CASE ~(~left /\ ~right /\ L >= MaxAreas)
  <2>1. r.areas = t /\ r.ret = at
    BY <1>1, <1>13
  <2>2. Len(s) <= MaxAreas => Len(t) <= MaxAreas
    BY <1>2, <1>11, <1>13, <1>d
  <2>3. ASSUME NEW page \in Int, NEW p
        PROVE  Has(t, page, p) <=> (Has(s, page, p) \/ (p = prot /\ at <= page /\ page < at + n))
    <3>1. Has(s, page, p) <=> \E k \in 1 .. L : In(s[k], page) /\ s[k].access_flags = p
      BY <1>d DEF Has
    <3>2. Has(t, page, p) <=> Has(P, page, p) \/ Has(X, page, p) \/ Has(Q, page, p)
      BY <1>8, <1>10
    <3>3. Has(P, page, p) <=> \E k \in 1 .. lo : In(s[k], page) /\ s[k].access_flags = p
      BY <1>5
    <3>4. Has(X, page, p) <=> (In(x, page) /\ p = prot)
      BY <1>7
    <3>5. Has(Q, page, p) <=> \E k \in hi .. L : In(s[k], page) /\ s[k].access_flags = p
      BY <1>6
    <3> QED BY <1>i, <3>1, <3>2, <3>3, <3>4, <3>5
  <2> QED BY <1>10, <2>1, <2>2, <2>3 DEF Added
<1> QED BY <1>12, <1>13

\* No page of a gap is mapped.
LEMMA GapFree ==
  ASSUME NEW s, Sorted(s), NEW i, NEW at, NEW n \in Nat \ {0}, Gap(s, i, at, n), NEW page \in Int,
         at <= page, page < at + n
  PROVE  page \in Pages /\ \A k \in 1 .. Len(s) : ~In(s[k], page)
<1>0. /\ Len(s) \in Nat /\ START \in Nat /\ END \in Nat
      /\ \A k \in 1 .. Len(s) : s[k].start \in Int /\ s[k].end \in Int /\ s[k].start < s[k].end
  BY Elements, AreaAssumption
<1>1. /\ i \in 0 .. Len(s) /\ at \in Int /\ START <= at /\ at + n <= END
      /\ i >= 1 => s[i].end <= at
      /\ i < Len(s) => at + n <= s[i + 1].start
  BY DEF Gap
<1>2. page \in Pages
  BY <1>0, <1>1 DEF Pages
<1>3. ASSUME NEW k \in 1 .. Len(s), In(s[k], page) PROVE FALSE
  <2>1. CASE k = i
    BY <1>0, <1>1, <1>3, <2>1 DEF In
  <2>2. CASE k < i
    <3>1. i \in 1 .. Len(s)
      BY <1>0, <1>1, <2>2
    <3>2. s[k].end <= s[i].start
      BY <2>2, <3>1, Order
    <3> QED BY <1>0, <1>1, <1>3, <2>2, <3>1, <3>2 DEF In
  <2>3. CASE k = i + 1
    BY <1>0, <1>1, <1>3, <2>3 DEF In
  <2>4. CASE k > i + 1
    <3>1. i + 1 \in 1 .. Len(s)
      BY <1>0, <1>1, <2>4
    <3>2. s[i + 1].end <= s[k].start
      BY <2>4, <3>1, Order
    <3> QED BY <1>0, <1>1, <1>3, <2>4, <3>1, <3>2 DEF In
  <2> QED BY <1>0, <1>1, <2>1, <2>2, <2>3, <2>4
<1> QED BY <1>2, <1>3

\* Pages of the mmap area that are not mapped are in a gap.
LEMMA FreeGap ==
  ASSUME NEW s, Sorted(s), NEW at \in Int, NEW n \in Nat \ {0}, START <= at, at + n <= END,
         \A page \in Int : at <= page /\ page < at + n => \A k \in 1 .. Len(s) : ~In(s[k], page)
  PROVE  \E i : Gap(s, i, at, n)
<1> DEFINE B == {k \in 1 .. Len(s) : at < s[k].end}
<1>0. /\ Len(s) \in Nat
      /\ \A k \in 1 .. Len(s) : s[k].start \in Int /\ s[k].end \in Int /\ s[k].start < s[k].end
  BY Elements
<1>1. CASE B = {}
  <2>1. Gap(s, Len(s), at, n)
    BY <1>0, <1>1 DEF Gap
  <2> QED BY <2>1
<1>2. CASE B # {}
  <2>1. B \in SUBSET Nat
    BY <1>0
  <2>2. Min(B) \in B /\ \A y \in B : Min(B) <= y
    BY <1>2, <2>1, MinOf
  <2> DEFINE k == Min(B)
  <2>3. k \in 1 .. Len(s) /\ at < s[k].end /\ (k > 1 => s[k - 1].end <= at)
    <3>1. k \in B
      BY <2>2
    <3>2. k > 1 => k - 1 \in 1 .. Len(s) /\ k - 1 \notin B
      BY <1>0, <2>2
    <3> HIDE DEF k
    <3> QED BY <1>0, <3>1, <3>2
  <2> HIDE DEF k, B
  <2>4. at + n <= s[k].start
    <3>1. ~In(s[k], at)
      BY <2>3
    <3>2. at < s[k].start
      BY <1>0, <2>3, <3>1 DEF In
    <3>3. CASE s[k].start < at + n
      <4>1. ~In(s[k], s[k].start)
        BY <1>0, <2>3, <3>2, <3>3, SMTT(30)
      <4> QED BY <1>0, <2>3, <4>1 DEF In
    <3> QED BY <1>0, <2>3, <3>3
  <2>5. k - 1 \in 0 .. Len(s) /\ (k - 1) + 1 = k
    BY <1>0, <2>3
  <2>6. Gap(s, k - 1, at, n)
    BY <1>0, <2>3, <2>4, <2>5 DEF Gap
  <2> QED BY <2>6
<1> QED BY <1>1, <1>2

\* Which gaps there are.
LEMMA GapCases ==
  ASSUME NEW s, Sorted(s), NEW n \in Nat \ {0}
  PROVE  /\ \A j, a : Gap(s, j, a, n) =>
              /\ a \in Int /\ START <= a /\ a + n <= END /\ j \in 0 .. Len(s)
              /\ j = 0 /\ Len(s) > 0 => START + n <= s[1].start
              /\ j > 0 /\ j < Len(s) => j \in Gaps(s, n)
              /\ j > 0 => s[j].end <= a /\ s[j].end + n <= END
         /\ Len(s) = 0 /\ START + n <= END => Gap(s, 0, START, n)
         /\ Len(s) > 0 /\ START + n <= s[1].start => Gap(s, 0, START, n)
         /\ \A j \in Gaps(s, n) : Gap(s, j, s[j].end, n) /\ j \in 1 .. Len(s)
         /\ Len(s) > 0 /\ s[Len(s)].end + n <= END => Gap(s, Len(s), s[Len(s)].end, n)
<1>0. /\ Len(s) \in Nat /\ START \in Nat /\ END \in Nat
      /\ \A k \in 1 .. Len(s) : /\ s[k].start \in Int /\ s[k].end \in Int /\ s[k].start < s[k].end
                                /\ START <= s[k].start /\ s[k].end <= END
  BY Elements, AreaAssumption
<1>1. ASSUME NEW j, NEW a, Gap(s, j, a, n)
      PROVE  /\ a \in Int /\ START <= a /\ a + n <= END /\ j \in 0 .. Len(s)
             /\ j = 0 /\ Len(s) > 0 => START + n <= s[1].start
             /\ j > 0 /\ j < Len(s) => j \in Gaps(s, n)
             /\ j > 0 => s[j].end <= a /\ s[j].end + n <= END
  <2>1. /\ j \in 0 .. Len(s) /\ a \in Int /\ START <= a /\ a + n <= END
        /\ j >= 1 => s[j].end <= a
        /\ j < Len(s) => a + n <= s[j + 1].start
    BY <1>1 DEF Gap
  <2>2. j = 0 /\ Len(s) > 0 => START + n <= s[1].start
    BY <1>0, <2>1
  <2>3. j > 0 /\ j < Len(s) => j \in Gaps(s, n)
    BY <1>0, <2>1 DEF Gaps
  <2>4. j > 0 => s[j].end <= a /\ s[j].end + n <= END
    BY <1>0, <2>1
  <2> QED BY <2>1, <2>2, <2>3, <2>4
<1>2. Len(s) = 0 /\ START + n <= END => Gap(s, 0, START, n)
  BY <1>0 DEF Gap
<1>3. Len(s) > 0 /\ START + n <= s[1].start => Gap(s, 0, START, n)
  BY <1>0 DEF Gap
<1>4. ASSUME NEW j \in Gaps(s, n) PROVE Gap(s, j, s[j].end, n) /\ j \in 1 .. Len(s)
  <2>1. j \in 1 .. Len(s) - 1 /\ j \in 1 .. Len(s) /\ j + 1 \in 1 .. Len(s) /\ s[j].end + n <= s[j + 1].start
    BY <1>0 DEF Gaps
  <2> DEFINE e == s[j].end
             f == s[j + 1]
  <2>a. e \in Int /\ START <= s[j].start /\ s[j].start < e /\ s[j].start \in Int
    BY <1>0, <2>1
  <2>b. f.start \in Int /\ f.start < f.end /\ f.end \in Int /\ f.end <= END /\ e + n <= f.start
    BY <1>0, <2>1
  <2> HIDE DEF e, f
  <2>c. START <= e /\ e + n <= END /\ e <= e
    BY <1>0, <2>a, <2>b
  <2>2. s[j].end \in Int /\ START <= s[j].end /\ s[j].end + n <= END /\ s[j].end <= s[j].end
    BY <2>a, <2>c DEF e
  <2>3. j \in 0 .. Len(s)
    BY <1>0, <2>1
  <2> QED BY <2>1, <2>2, <2>3 DEF Gap
<1>5. Len(s) > 0 /\ s[Len(s)].end + n <= END => Gap(s, Len(s), s[Len(s)].end, n)
  BY <1>0 DEF Gap
<1> QED BY <1>1, <1>2, <1>3, <1>4, <1>5

\* The result of mmap is a placement of the pages in a gap.
Placed(s, r, at, n, prot) == \E i : Gap(s, i, at, n) /\ r = Place(s, i, at, n, prot)

\* Without a hint the lowest gap is taken.
LEMMA NoHintPlaces ==
  ASSUME NEW s, Sorted(s), NEW n \in Nat \ {0}, NEW prot, NEW r, r = MapNoHint(s, n, prot)
  PROVE  \/ \E at : Placed(s, r, at, n, prot) /\ \A j, a : Gap(s, j, a, n) => at <= a
         \/ r = Fail(s) /\ \A j, a : ~Gap(s, j, a, n)
<1> DEFINE L == Len(s)
<1>0. /\ L \in Nat /\ START \in Nat /\ END \in Nat /\ (s = <<>> <=> L = 0) /\ s \in Seq(vm_area)
      /\ \A k \in 1 .. L : /\ s[k].start \in Int /\ s[k].end \in Int /\ s[k].start < s[k].end
                           /\ START <= s[k].start /\ s[k].end <= END
  <2>1. s \in Seq(vm_area)
    BY DEF Sorted
  <2>2. s = <<>> <=> L = 0
    BY <2>1, EmptySeq
  <2> QED BY <2>1, <2>2, Elements, AreaAssumption
<1>l. L > 0 => Last(s) = s[L]
  BY <1>0, LastOf
<1>1. /\ \A j, a : Gap(s, j, a, n) =>
           /\ a \in Int /\ START <= a /\ a + n <= END /\ j \in 0 .. L
           /\ j = 0 /\ L > 0 => START + n <= s[1].start
           /\ j > 0 /\ j < L => j \in Gaps(s, n)
           /\ j > 0 => s[j].end <= a /\ s[j].end + n <= END
      /\ L = 0 /\ START + n <= END => Gap(s, 0, START, n)
      /\ L > 0 /\ START + n <= s[1].start => Gap(s, 0, START, n)
      /\ \A j \in Gaps(s, n) : Gap(s, j, s[j].end, n) /\ j \in 1 .. L
      /\ L > 0 /\ s[L].end + n <= END => Gap(s, L, s[L].end, n)
  BY GapCases
<1>m. \A j, k \in 1 .. L : j <= k => s[j].end <= s[k].end
  <2> SUFFICES ASSUME NEW j \in 1 .. L, NEW k \in 1 .. L, j <= k PROVE s[j].end <= s[k].end
    OBVIOUS
  <2>1. CASE j < k
    <3>1. s[j].end <= s[k].start
      BY <2>1, Order
    <3> QED BY <1>0, <3>1
  <2>2. CASE j = k
    BY <1>0, <2>2
  <2> QED BY <1>0, <2>1, <2>2
<1> HIDE DEF L
<1>2. CASE L = 0
  <2>1. r = IF START + n > END THEN Fail(s) ELSE Place(s, 0, START, n, prot)
    BY <1>0, <1>2 DEF MapNoHint
  <2>2. CASE START + n > END
    <3>1. r = Fail(s)
      BY <2>1, <2>2
    <3>2. \A j, a : ~Gap(s, j, a, n)
      BY <1>0, <1>1, <2>2
    <3> QED BY <3>1, <3>2
  <2>3. CASE START + n <= END
    <3>1. r = Place(s, 0, START, n, prot)
      BY <1>0, <2>1, <2>3
    <3>2. Placed(s, r, START, n, prot)
      BY <1>1, <1>2, <2>3, <3>1 DEF Placed
    <3> QED BY <1>1, <3>2
  <2> QED BY <1>0, <2>2, <2>3
<1>3. CASE L > 0 /\ s[1].start >= START + n
  <2>1. r = Place(s, 0, START, n, prot)
    BY <1>0, <1>3 DEF MapNoHint
  <2>2. START + n <= s[1].start
    BY <1>0, <1>3
  <2>3. Placed(s, r, START, n, prot)
    BY <1>1, <1>3, <2>1, <2>2 DEF Placed
  <2> QED BY <1>1, <2>3
<1>4. CASE L > 0 /\ ~(s[1].start >= START + n)
  <2>1. r = IF Gaps(s, n) # {} THEN PlaceAfter(s, Min(Gaps(s, n)), n, prot)
            ELSE IF Last(s).end + n > END THEN Fail(s)
            ELSE PlaceAfter(s, Len(s), n, prot)
    BY <1>0, <1>4 DEF MapNoHint
  <2>0. \A j, a : Gap(s, j, a, n) => j > 0 /\ j \in 1 .. L
    <3>1. ~(START + n <= s[1].start)
      BY <1>0, <1>4
    <3> QED BY <1>0, <1>1, <1>4, <3>1
  <2>2. CASE Gaps(s, n) # {}
    <3> DEFINE g == Min(Gaps(s, n))
    <3>1. Gaps(s, n) \in SUBSET Nat
      BY <1>0 DEF Gaps, L
    <3>2. g \in Gaps(s, n) /\ \A y \in Gaps(s, n) : g <= y
      BY <2>2, <3>1, MinOf
    <3>3. r = Place(s, g, s[g].end, n, prot)
      BY <2>1, <2>2 DEF PlaceAfter
    <3>4. g \in 1 .. L - 1
      BY <3>2, <1>0 DEF Gaps, L
    <3> HIDE DEF g
    <3>5. Placed(s, r, s[g].end, n, prot)
      BY <1>1, <3>2, <3>3 DEF Placed
    <3>6. ASSUME NEW j, NEW a, Gap(s, j, a, n) PROVE s[g].end <= a
      <4>1. j \in 1 .. L /\ s[j].end <= a /\ a \in Int
        BY <1>1, <2>0, <3>6
      <4>2. g <= j
        <5>1. CASE j < L
          <6>1. j > 0
            BY <1>0, <4>1
          <6> QED BY <1>1, <3>2, <3>6, <5>1, <6>1
        <5>2. CASE j = L
          BY <1>0, <3>4, <5>2
        <5> QED BY <1>0, <4>1, <5>1, <5>2
      <4>3. s[g].end <= s[j].end /\ g \in 1 .. L
        BY <1>0, <1>m, <3>4, <4>1, <4>2
      <4>4. s[g].end \in Int /\ s[j].end \in Int
        BY <1>0, <4>1, <4>3
      <4> QED BY <4>1, <4>3, <4>4
    <3> QED BY <3>5, <3>6
  <2>3. CASE Gaps(s, n) = {}
    <3>0. \A j, a : Gap(s, j, a, n) => j = L
      BY <1>0, <1>1, <2>0, <2>3
    <3>1. CASE s[L].end + n > END
      <4>1. r = Fail(s)
        BY <1>l, <1>4, <2>1, <2>3, <3>1
      <4>2. L \in 1 .. L /\ ~(s[L].end + n <= END)
        BY <1>0, <1>4, <3>1
      <4> QED BY <1>1, <1>4, <3>0, <4>1, <4>2
    <3>2. CASE ~(s[L].end + n > END)
      <4>1. r = Place(s, L, s[L].end, n, prot)
        BY <1>l, <1>4, <2>1, <2>3, <3>2 DEF PlaceAfter, L
      <4>2. L \in 1 .. L /\ s[L].end + n <= END
        BY <1>0, <1>4, <3>2
      <4>3. Placed(s, r, s[L].end, n, prot)
        BY <1>1, <1>4, <4>1, <4>2 DEF Placed
      <4> QED BY <1>1, <1>4, <3>0, <4>3
    <3> QED BY <3>1, <3>2
  <2> QED BY <2>2, <2>3
<1> QED BY <1>0, <1>2, <1>3, <1>4

\* The searches after the hint and from the start, together, leave out no gap.
LEMMA ForwardPlaces ==
  ASSUME NEW s, Sorted(s), Len(s) > 0, NEW n \in Nat \ {0}, NEW prot, NEW addr \in Int,
         NEW c \in 0 .. Len(s), c = 0 => \A j \in 1 .. Len(s) - 1 : s[j].end < addr,
         \A j \in 1 .. c - 1 : s[j].end < addr,
         NEW r, r = SearchForward(s, c, addr, n, prot)
  PROVE  \/ \E at : Placed(s, r, at, n, prot)
         \/ r = Fail(s) /\ \A j, a : ~Gap(s, j, a, n)
<1> DEFINE L == Len(s)
           after == {i \in Gaps(s, n) : c # 0 /\ i >= c}
           before == {i \in Gaps(s, n) : s[i].end < addr}
<1>0. /\ L \in Nat /\ L > 0 /\ START \in Nat /\ END \in Nat /\ s # <<>> /\ s \in Seq(vm_area)
      /\ \A k \in 1 .. L : /\ s[k].start \in Int /\ s[k].end \in Int /\ s[k].start < s[k].end
                           /\ START <= s[k].start /\ s[k].end <= END
  BY Elements, AreaAssumption, EmptySeq DEF Sorted
<1>l. Last(s) = s[L] /\ L \in 1 .. L
  BY <1>0, LastOf
<1>1. /\ \A j, a : Gap(s, j, a, n) =>
           /\ a \in Int /\ START <= a /\ a + n <= END /\ j \in 0 .. L
           /\ j = 0 /\ L > 0 => START + n <= s[1].start
           /\ j > 0 /\ j < L => j \in Gaps(s, n)
           /\ j > 0 => s[j].end <= a /\ s[j].end + n <= END
      /\ L > 0 /\ START + n <= s[1].start => Gap(s, 0, START, n)
      /\ \A j \in Gaps(s, n) : Gap(s, j, s[j].end, n) /\ j \in 1 .. L
      /\ L > 0 /\ s[L].end + n <= END => Gap(s, L, s[L].end, n)
  BY GapCases
<1>g. Gaps(s, n) \subseteq 1 .. L - 1 /\ Gaps(s, n) \subseteq Nat
  BY <1>0 DEF Gaps
<1>2. r = CASE after # {} -> PlaceAfter(s, Min(after), n, prot)
            [] after = {} /\ c # 0 /\ Last(s).end + n <= END -> PlaceAfter(s, Len(s), n, prot)
            [] OTHER -> SearchFromStart(s, addr, n, prot)
  BY DEF SearchForward
<1>3. ASSUME NEW G \in SUBSET Gaps(s, n), G # {}, r = PlaceAfter(s, Min(G), n, prot)
      PROVE  \E at : Placed(s, r, at, n, prot)
  <2>1. Min(G) \in G
    BY <1>3, <1>g, MinOf
  <2>2. r = Place(s, Min(G), s[Min(G)].end, n, prot)
    BY <1>3 DEF PlaceAfter
  <2>3. Gap(s, Min(G), s[Min(G)].end, n)
    BY <1>1, <2>1
  <2>4. Placed(s, r, s[Min(G)].end, n, prot)
    BY <2>2, <2>3 DEF Placed
  <2> QED BY <2>4
<1>4. ASSUME s[L].end + n <= END, r = PlaceAfter(s, Len(s), n, prot)
      PROVE  \E at : Placed(s, r, at, n, prot)
  <2>1. r = Place(s, L, s[L].end, n, prot)
    BY <1>4 DEF PlaceAfter
  <2>2. Gap(s, L, s[L].end, n)
    BY <1>0, <1>1, <1>4
  <2> HIDE DEF L
  <2>3. Placed(s, r, s[L].end, n, prot)
    BY <2>1, <2>2 DEF Placed
  <2> QED BY <2>3
<1>5. CASE after # {}
  <2>1. after \in SUBSET Gaps(s, n) /\ r = PlaceAfter(s, Min(after), n, prot)
    BY <1>2, <1>5
  <2> HIDE DEF after
  <2> QED BY <1>3, <1>5, <2>1
<1>6. CASE after = {} /\ c # 0 /\ Last(s).end + n <= END
  <2>1. r = PlaceAfter(s, Len(s), n, prot) /\ s[L].end + n <= END
    BY <1>2, <1>6, <1>l
  <2> QED BY <1>4, <2>1
<1>7. CASE after = {} /\ ~(c # 0 /\ Last(s).end + n <= END)
  <2>1. r = SearchFromStart(s, addr, n, prot)
    BY <1>2, <1>7
  <2>2. r = CASE s[1].start >= START + n -> Place(s, 0, START, n, prot)
              [] s[1].start < START + n /\ before # {} -> PlaceAfter(s, Min(before), n, prot)
              [] OTHER -> IF /\ \A i \in 1 .. Len(s) - 1 : s[i].end < addr
                             /\ Last(s).end + n <= END
                          THEN PlaceAfter(s, Len(s), n, prot)
                          ELSE Fail(s)
    BY <2>1 DEF SearchFromStart
  <2>3. CASE s[1].start >= START + n
    <3>1. r = Place(s, 0, START, n, prot)
      BY <1>0, <2>2, <2>3, SMTT(30)
    <3>2. START + n <= s[1].start
      BY <1>0, <2>3
    <3>3. Gap(s, 0, START, n)
      BY <1>0, <1>1, <3>2
    <3>4. Placed(s, r, START, n, prot)
      BY <3>1, <3>3 DEF Placed
    <3> QED BY <3>4
  <2>4. CASE ~(s[1].start >= START + n) /\ before # {}
    <3>0. s[1].start < START + n
      BY <1>0, <2>4
    <3>1. before \in SUBSET Gaps(s, n) /\ r = PlaceAfter(s, Min(before), n, prot)
      BY <2>2, <2>4, <3>0
    <3> HIDE DEF before
    <3> QED BY <1>3, <2>4, <3>1
  <2>5. CASE ~(s[1].start >= START + n) /\ before = {}
    <3>0. ~(START + n <= s[1].start)
      BY <1>0, <2>5
    <3>1. r = IF (\A i \in 1 .. Len(s) - 1 : s[i].end < addr) /\ Last(s).end + n <= END
              THEN PlaceAfter(s, Len(s), n, prot) ELSE Fail(s)
      BY <2>2, <2>5
    <3>2. Gaps(s, n) = {}
      <4> SUFFICES ASSUME NEW j \in Gaps(s, n) PROVE FALSE
        OBVIOUS
      <4>1. j \in 1 .. L - 1 /\ ~(s[j].end < addr) /\ ~(c # 0 /\ j >= c)
        BY <1>7, <1>g, <2>5
      <4>2. c # 0 => j \in 1 .. c - 1
        BY <1>0, <4>1
      <4> QED BY <4>1, <4>2
    <3>3. \A j, a : Gap(s, j, a, n) => j = L /\ s[L].end + n <= END
      BY <1>0, <1>1, <3>0, <3>2, SMTT(30)
    <3>4. CASE s[L].end + n <= END
      <4>1. c = 0
        BY <1>7, <1>l, <3>4
      <4>2. r = PlaceAfter(s, Len(s), n, prot)
        BY <3>1, <3>4, <4>1, <1>l
      <4> QED BY <1>4, <3>4, <4>2
    <3>5. CASE ~(s[L].end + n <= END)
      <4>1. r = Fail(s)
        BY <3>1, <3>5, <1>l
      <4> QED BY <3>3, <3>5, <4>1
    <3> QED BY <3>4, <3>5
  <2> QED BY <2>3, <2>4, <2>5
<1> QED BY <1>5, <1>6, <1>7

\* The hint is the end of the last area, which is extended.
Extended(s, r, addr, n, prot) ==
  /\ Len(s) > 0 /\ addr = s[Len(s)].end /\ s[Len(s)].access_flags = prot /\ Gap(s, Len(s), addr, n)
  /\ r = Result(Place(s, Len(s), addr, n, prot).areas, s[Len(s)].start)

\* What mmap with a hint may do: place the pages, at the hint if that is fixed;
\* fail if there is no gap, or a fixed hint is not in one; extend the last area.
Hinted(s, r, addr, n, prot, fixed) ==
  \/ \E at : Placed(s, r, at, n, prot) /\ (fixed => at = addr)
  \/ r = Fail(s) /\ \A j, a : Gap(s, j, a, n) => fixed /\ a # addr
  \/ Extended(s, r, addr, n, prot)

\* The search where the hint itself is taken.
LEMMA TakenPlaces ==
  ASSUME NEW s, Sorted(s), Len(s) > 0, NEW n \in Nat \ {0}, NEW prot, NEW addr \in Int, NEW fixed \in BOOLEAN,
         NEW c \in 0 .. Len(s), c = 0 => \A j \in 1 .. Len(s) - 1 : s[j].end < addr,
         \A j \in 1 .. c - 1 : s[j].end < addr,
         ~fixed \/ \E page \in Int, k \in 1 .. Len(s) : addr <= page /\ page < addr + n /\ In(s[k], page),
         NEW r, r = HintTaken(s, c, addr, n, prot, fixed)
  PROVE  Hinted(s, r, addr, n, prot, fixed)
<1>1. CASE fixed
  <2>1. r = Fail(s)
    BY <1>1 DEF HintTaken
  <2>2. PICK page \in Int, k \in 1 .. Len(s) : addr <= page /\ page < addr + n /\ In(s[k], page)
    BY <1>1
  <2>3. \A j : ~Gap(s, j, addr, n)
    BY <2>2, GapFree
  <2> QED BY <1>1, <2>1, <2>3 DEF Hinted
<1>2. CASE ~fixed
  <2>1. r = SearchForward(s, c, addr, n, prot)
    BY <1>2 DEF HintTaken
  <2>2. \/ \E at : Placed(s, r, at, n, prot)
        \/ r = Fail(s) /\ \A j, a : ~Gap(s, j, a, n)
    BY <2>1, ForwardPlaces
  <2> QED BY <1>2, <2>2 DEF Hinted
<1> QED BY <1>1, <1>2

\* mmap with a hint, by the place of the hint in the list.
LEMMA HintPlaces ==
  ASSUME NEW s, Sorted(s), NEW n \in Nat \ {0}, NEW prot, NEW addr \in Int, START <= addr,
         NEW fixed \in BOOLEAN, fixed => addr + n <= END,
         NEW r, r = MapHint(s, addr, n, prot, fixed)
  PROVE  Hinted(s, r, addr, n, prot, fixed)
<1> DEFINE L == Len(s)
           stops == {i \in 1 .. L - 1 : addr <= s[i].end \/ addr < s[i + 1].start}
           at0 == IF addr + n > END THEN START ELSE addr
<1>0. /\ L \in Nat /\ START \in Nat /\ END \in Nat
      /\ \A k \in 1 .. L : /\ s[k].start \in Int /\ s[k].end \in Int /\ s[k].start < s[k].end
                           /\ START <= s[k].start /\ s[k].end <= END
  BY Elements, AreaAssumption
<1>e. s = <<>> <=> L = 0
  BY EmptySeq DEF Sorted
<1>1. r = CASE s = <<>> -> IF at0 + n > END THEN Fail(s) ELSE Place(s, 0, at0, n, prot)
            [] s # <<>> /\ addr < s[1].start ->
                 IF addr + n <= s[1].start THEN Place(s, 0, addr, n, prot)
                 ELSE HintTaken(s, 1, addr, n, prot, fixed)
            [] OTHER -> IF stops # {} THEN MapBetween(s, Min(stops), addr, n, prot, fixed)
                        ELSE MapAfterLast(s, addr, n, prot, fixed)
  BY DEF MapHint
<1>2. CASE L = 0
  <2>1. r = IF at0 + n > END THEN Fail(s) ELSE Place(s, 0, at0, n, prot)
    BY <1>1, <1>2, <1>e
  <2>a. at0 \in Int /\ START <= at0 /\ (fixed => at0 = addr /\ at0 + n <= END)
    BY <1>0
  <2>b. at0 + n > END => START + n > END
    BY <1>0
  <2> HIDE DEF at0
  <2>2. CASE at0 + n > END
    <3>1. \A j, a : ~Gap(s, j, a, n)
      BY <1>0, <2>2, <2>b DEF Gap
    <3> QED BY <2>1, <2>2, <3>1 DEF Hinted
  <2>3. CASE ~(at0 + n > END)
    <3>1. Gap(s, 0, at0, n)
      BY <1>0, <1>2, <2>3, <2>a DEF Gap
    <3>2. Placed(s, r, at0, n, prot)
      BY <2>1, <2>3, <3>1 DEF Placed
    <3> QED BY <2>a, <3>2 DEF Hinted
  <2> QED BY <2>2, <2>3
<1>3. CASE L > 0 /\ addr < s[1].start
  <2>1. r = IF addr + n <= s[1].start THEN Place(s, 0, addr, n, prot)
            ELSE HintTaken(s, 1, addr, n, prot, fixed)
    BY <1>0, <1>1, <1>3, <1>e
  <2>2. CASE addr + n <= s[1].start
    <3>1. Gap(s, 0, addr, n)
      BY <1>0, <1>3, <2>2 DEF Gap
    <3>2. Placed(s, r, addr, n, prot)
      BY <2>1, <2>2, <3>1 DEF Placed
    <3> QED BY <3>2 DEF Hinted
  <2>3. CASE ~(addr + n <= s[1].start)
    <3>1. r = HintTaken(s, 1, addr, n, prot, fixed) /\ Len(s) > 0 /\ 1 \in 0 .. Len(s) /\ 1 \in 1 .. Len(s)
      BY <1>0, <1>3, <2>1, <2>3
    <3>2. \A j \in 1 .. 1 - 1 : s[j].end < addr
      OBVIOUS
    <3>3. s[1].start \in Int /\ addr <= s[1].start /\ s[1].start < addr + n /\ In(s[1], s[1].start)
      BY <1>0, <1>3, <2>3 DEF In
    <3> QED BY <3>1, <3>2, <3>3, TakenPlaces
  <2> QED BY <2>2, <2>3
<1>4. CASE L > 0 /\ ~(addr < s[1].start) /\ stops # {}
  <2> DEFINE i == Min(stops)
  <2>1. r = MapBetween(s, i, addr, n, prot, fixed)
    BY <1>0, <1>1, <1>4, <1>e
  <2>2. stops \in SUBSET Nat
    BY <1>0
  <2>3. i \in stops /\ \A y \in stops : i <= y
    BY <1>4, <2>2, MinOf
  <2>4. i \in 1 .. L - 1 /\ (addr <= s[i].end \/ addr < s[i + 1].start)
    BY <2>3
  <2>5. ASSUME NEW j \in 1 .. L - 1, j < i PROVE s[j].end < addr /\ s[j + 1].start <= addr
    <3>0. j \in stops => i <= j
      BY <2>3
    <3>1. j \notin stops
      <4> HIDE DEF i, stops
      <4>1. i \in Int /\ j \in Int
        BY <2>4
      <4> QED BY <2>5, <3>0, <4>1
    <3>2. j + 1 \in 1 .. L /\ j \in 1 .. L
      BY <1>0
    <3> QED BY <1>0, <3>1, <3>2
  <2>h. r = MapBetween(s, i, addr, n, prot, fixed) /\ L = Len(s)
    BY <2>1
  <2> HIDE DEF i, stops, L
  <2>6. i \in 1 .. L /\ i + 1 \in 1 .. L /\ i \in Int /\ i \in 0 .. L /\ i + 1 \in 0 .. L /\ i # 0 /\ i + 1 # 0
    BY <1>0, <2>4
  <2>7. s[i].start <= addr
    <3>1. CASE i = 1
      BY <1>0, <1>4, <2>6, <3>1
    <3>2. CASE i # 1
      <4>1. i - 1 \in 1 .. L - 1 /\ i - 1 < i /\ (i - 1) + 1 = i
        BY <1>0, <2>4, <3>2
      <4> QED BY <2>5, <4>1
    <3> QED BY <3>1, <3>2
  <2>8. \A j \in 1 .. i - 1 : s[j].end < addr
    <3>1. \A j \in 1 .. i - 1 : j \in 1 .. L - 1 /\ j < i
      BY <1>0, <2>4
    <3> QED BY <2>5, <3>1
  <2>9. CASE addr < s[i].end
    <3>0. ~(addr >= s[i].end)
      BY <1>0, <2>6, <2>9
    <3>1. r = HintTaken(s, i, addr, n, prot, fixed)
      BY <2>h, <2>9, <3>0 DEF MapBetween
    <3>2. addr <= addr /\ addr < addr + n /\ In(s[i], addr)
      BY <2>7, <2>9 DEF In
    <3>3. Len(s) > 0 /\ i \in 0 .. Len(s) /\ i \in 1 .. Len(s)
      BY <1>4, <2>6, <2>h
    <3> QED BY <2>6, <2>8, <3>1, <3>2, <3>3, TakenPlaces
  <2>10. CASE addr >= s[i].end /\ addr + n <= s[i + 1].start
    <3>1. r = Place(s, i, addr, n, prot)
      <4>1. ~(addr < s[i].end)
        BY <1>0, <2>6, <2>10
      <4> QED BY <2>h, <2>10, <4>1 DEF MapBetween
    <3>2. Gap(s, i, addr, n)
      <4>1. s[i].end <= addr /\ addr + n <= END
        BY <1>0, <2>6, <2>10
      <4> QED BY <2>6, <2>10, <4>1, <2>h DEF Gap
    <3>3. Placed(s, r, addr, n, prot)
      BY <3>1, <3>2 DEF Placed
    <3> QED BY <3>3 DEF Hinted
  <2>11. CASE ~(addr < s[i].end) /\ ~(addr + n <= s[i + 1].start)
    <3>1. r = HintTaken(s, IF addr = s[i].end THEN i ELSE i + 1, addr, n, prot, fixed)
      BY <2>h, <2>11 DEF MapBetween
    <3>2. s[i + 1].start \in Int /\ addr <= s[i + 1].start /\ s[i + 1].start < addr + n /\ In(s[i + 1], s[i + 1].start)
      <4>1. s[i].end <= s[i + 1].start
        BY <2>4, <2>h DEF Sorted
      <4>2. s[i].end \in Int /\ s[i + 1].start \in Int /\ s[i + 1].end \in Int /\ s[i + 1].start < s[i + 1].end
        BY <1>0, <2>6
      <4>3. addr <= s[i + 1].start /\ s[i + 1].start < addr + n
        BY <2>4, <2>11, <4>1, <4>2
      <4> QED BY <4>2, <4>3 DEF In
    <3>3. Len(s) > 0 /\ i \in 0 .. Len(s) /\ i + 1 \in 0 .. Len(s) /\ i + 1 \in 1 .. Len(s)
      BY <1>4, <2>6, <2>h
    <3>4. CASE addr = s[i].end
      <4>1. r = HintTaken(s, i, addr, n, prot, fixed)
        BY <3>1, <3>4
      <4> QED BY <2>6, <2>8, <3>2, <3>3, <4>1, TakenPlaces
    <3>5. CASE addr # s[i].end
      <4>1. r = HintTaken(s, i + 1, addr, n, prot, fixed)
        BY <3>1, <3>5
      <4>2. \A j \in 1 .. (i + 1) - 1 : s[j].end < addr
        <5>1. s[i].end < addr
          BY <1>0, <2>6, <2>11, <3>5
        <5>2. \A j \in 1 .. (i + 1) - 1 : j = i \/ j \in 1 .. i - 1
          BY <2>6
        <5> QED BY <2>8, <5>1, <5>2
      <4> QED BY <2>6, <3>2, <3>3, <4>1, <4>2, TakenPlaces
    <3> QED BY <3>4, <3>5
  <2>12. ~(addr < s[i].end) <=> addr >= s[i].end
    BY <1>0, <2>6
  <2> QED BY <2>9, <2>10, <2>11, <2>12
<1>5. CASE L > 0 /\ ~(addr < s[1].start) /\ stops = {}
  <2>1. r = MapAfterLast(s, addr, n, prot, fixed)
    BY <1>0, <1>1, <1>5, <1>e
  <2>2. ASSUME NEW j \in 1 .. L - 1 PROVE s[j].end < addr /\ s[j + 1].start <= addr
    <3>1. j \notin stops
      BY <1>5
    <3>2. j + 1 \in 1 .. L /\ j \in 1 .. L
      BY <1>0
    <3> QED BY <1>0, <3>1, <3>2
  <2>3. r = CASE addr + n > END -> HintTaken(s, 0, addr, n, prot, fixed)
              [] addr + n <= END /\ addr < s[L].end -> HintTaken(s, L, addr, n, prot, fixed)
              [] addr + n <= END /\ addr = s[L].end /\ s[L].access_flags = prot ->
                   Result(Place(s, L, addr, n, prot).areas, s[L].start)
              [] OTHER -> Place(s, L, addr, n, prot)
    BY <2>1 DEF MapAfterLast
  <2>h. L = Len(s)
    OBVIOUS
  <2> HIDE DEF stops, L
  <2>4. L \in 1 .. L /\ L \in 0 .. L /\ L # 0 /\ 0 \in 0 .. L
    BY <1>0, <1>5
  <2>5. s[L].start <= addr
    <3>1. CASE L = 1
      BY <1>0, <1>5, <2>4, <3>1
    <3>2. CASE L # 1
      <4>1. L - 1 \in 1 .. L - 1 /\ (L - 1) + 1 = L
        BY <1>0, <1>5, <3>2
      <4> QED BY <2>2, <4>1
    <3> QED BY <3>1, <3>2
  <2>6. CASE addr + n > END
    <3>0. ~(addr + n <= END)
      BY <1>0, <2>6
    <3>1. r = HintTaken(s, 0, addr, n, prot, fixed)
      BY <2>3, <2>6, <3>0
    <3>2. \A j \in 1 .. 0 - 1 : s[j].end < addr
      OBVIOUS
    <3>3. ~fixed
      BY <1>0, <2>6
    <3>4. Len(s) > 0 /\ 0 \in 0 .. Len(s) /\ \A j \in 1 .. Len(s) - 1 : s[j].end < addr
      BY <1>5, <2>2, <2>4, <2>h
    <3> QED BY <3>1, <3>2, <3>3, <3>4, TakenPlaces
  <2>7. CASE addr + n <= END /\ addr < s[L].end
    <3>1. r = HintTaken(s, L, addr, n, prot, fixed)
      <4>1. ~(addr + n > END)
        BY <1>0, <2>7
      <4> QED BY <2>3, <2>7, <4>1
    <3>2. addr <= addr /\ addr < addr + n /\ In(s[L], addr)
      BY <2>5, <2>7 DEF In
    <3>3. Len(s) > 0 /\ L \in 0 .. Len(s) /\ L \in 1 .. Len(s) /\ \A j \in 1 .. L - 1 : s[j].end < addr
      BY <1>5, <2>2, <2>4, <2>h
    <3> QED BY <2>4, <3>1, <3>2, <3>3, TakenPlaces
  <2>8. CASE addr + n <= END /\ ~(addr < s[L].end)
    <3>0. ~(addr + n > END)
      BY <1>0, <2>8
    <3>1. Gap(s, L, addr, n)
      <4>1. s[L].end <= addr /\ ~(L < L)
        BY <1>0, <2>4, <2>8
      <4> QED BY <2>4, <2>8, <2>h, <4>1 DEF Gap
    <3>2. CASE addr = s[L].end /\ s[L].access_flags = prot
      <4>1. r = Result(Place(s, L, addr, n, prot).areas, s[L].start)
        BY <2>3, <2>8, <3>0, <3>2
      <4> QED BY <1>5, <2>h, <3>1, <3>2, <4>1 DEF Hinted, Extended
    <3>3. CASE ~(addr = s[L].end /\ s[L].access_flags = prot)
      <4>1. r = Place(s, L, addr, n, prot)
        BY <2>3, <2>8, <3>0, <3>3
      <4>2. Placed(s, r, addr, n, prot)
        BY <3>1, <4>1 DEF Placed
      <4> QED BY <4>2 DEF Hinted
    <3> QED BY <3>2, <3>3
  <2>9. addr + n > END \/ addr + n <= END
    BY <1>0
  <2> QED BY <2>6, <2>7, <2>8, <2>9
<1> QED BY <1>0, <1>2, <1>3, <1>4, <1>5

\* mmap, for every argument.
LEMMA MapOutcome ==
  ASSUME NEW s, Sorted(s), NEW addr \in Nat, NEW length \in Nat \ {0}, NEW prot, NEW fixed \in BOOLEAN,
         NEW r, r = vm_area_map(s, addr, length, prot, fixed), NEW n, n = PagesOf(length)
  PROVE  /\ n \in Nat \ {0}
         /\ \/ \E at : /\ Placed(s, r, at, n, prot) /\ (fixed /\ addr # 0 => at = addr)
                       /\ addr = 0 => \A j, a : Gap(s, j, a, n) => at <= a
            \/ /\ r = Fail(s)
               /\ \A j, a : Gap(s, j, a, n) => /\ addr # 0
                                               /\ addr \in START .. END => fixed /\ a # addr
            \/ Extended(s, r, addr, n, prot)
<1>0. n \in Nat \ {0} /\ START \in Nat \ {0} /\ END \in Nat
  <2>1. PagesOf(length) \in Nat /\ PagesOf(length) >= 1
    BY Rounded
  <2> QED BY <2>1, AreaAssumption
<1>1. CASE addr # 0 /\ ~(START <= addr /\ addr <= END)
  <2>1. r = Fail(s)
    BY <1>1 DEF vm_area_map
  <2>2. addr \notin START .. END
    BY <1>0, <1>1
  <2> QED BY <1>0, <1>1, <2>1, <2>2
<1>2. CASE addr \in START .. END /\ fixed /\ ~EndsInside(addr, length)
  <2>0. addr # 0 /\ START <= addr /\ addr <= END
    BY <1>0, <1>2
  <2>1. r = Fail(s)
    BY <1>2, <2>0 DEF vm_area_map
  <2>2. ~(addr + n <= END)
    BY <1>2, Inside
  <2>3. \A j, a : Gap(s, j, a, n) => a # addr
    BY <2>2 DEF Gap
  <2> QED BY <1>0, <1>2, <2>0, <2>1, <2>3
<1>3. CASE addr = 0
  <2>1. r = MapNoHint(s, n, prot)
    <3>1. addr \notin START .. END
      BY <1>0, <1>3
    <3> QED BY <1>3, <3>1 DEF vm_area_map
  <2>2. \/ \E at : Placed(s, r, at, n, prot) /\ \A j, a : Gap(s, j, a, n) => at <= a
        \/ r = Fail(s) /\ \A j, a : ~Gap(s, j, a, n)
    BY <1>0, <2>1, NoHintPlaces
  <2> QED BY <1>0, <1>3, <2>2
<1>4. CASE addr \in START .. END /\ (fixed => EndsInside(addr, length))
  <2>0. addr # 0 /\ START <= addr /\ addr <= END /\ addr \in Int
    BY <1>0, <1>4
  <2>1. r = MapHint(s, addr, n, prot, fixed)
    BY <1>4, <2>0 DEF vm_area_map
  <2>2. fixed => addr + n <= END
    BY <1>4, Inside
  <2>3. Hinted(s, r, addr, n, prot, fixed)
    BY <1>0, <2>0, <2>1, <2>2, HintPlaces
  <2> QED BY <1>0, <1>4, <2>0, <2>3 DEF Hinted
<1>5. addr = 0 \/ ~(START <= addr /\ addr <= END) \/ addr \in START .. END
  BY <1>0
<1> QED BY <1>1, <1>2, <1>3, <1>4, <1>5

\* What mmap does to a list, and what it returns.
MapResult(s, addr, n, prot, fixed, r) ==
  /\ n \in Nat \ {0} /\ r.ret \in Int
  /\ Sorted(r.areas) /\ (Merged(s) => Merged(r.areas))
  /\ Len(s) <= MaxAreas => Len(r.areas) <= MaxAreas
  /\ r.ret = -1 => /\ r.areas = s
                   /\ \/ Len(s) >= MaxAreas
                      \/ \A j, a : Gap(s, j, a, n) => /\ addr # 0
                                                      /\ addr \in START .. END => fixed /\ a # addr
  /\ r.ret # -1 =>
       /\ \A page \in Int : r.ret <= page /\ page < r.ret + n => Has(r.areas, page, prot)
       /\ \E at : /\ (\E i : Gap(s, i, at, n)) /\ Added(s, r.areas, at, n, prot)
                  /\ fixed /\ addr # 0 => at = addr
                  /\ addr = 0 => \A j, a : Gap(s, j, a, n) => at <= a
                  /\ \/ r.ret = at
                     \/ /\ Len(s) > 0 /\ addr = s[Len(s)].end /\ s[Len(s)].access_flags = prot
                        /\ at = addr /\ addr # 0

\* mmap does that.
LEMMA MapRight ==
  ASSUME NEW s, Sorted(s), NEW addr \in Nat, NEW length \in Nat \ {0}, NEW prot \in Prots, NEW fixed \in BOOLEAN,
         NEW r, r = vm_area_map(s, addr, length, prot, fixed), NEW n, n = PagesOf(length)
  PROVE  MapResult(s, addr, n, prot, fixed, r)
<1>0. START \in Nat \ {0} /\ MaxAreas \in Nat
  BY AreaAssumption
<1>1. /\ n \in Nat \ {0}
      /\ \/ \E at : /\ Placed(s, r, at, n, prot) /\ (fixed /\ addr # 0 => at = addr)
                    /\ addr = 0 => \A j, a : Gap(s, j, a, n) => at <= a
         \/ /\ r = Fail(s)
            /\ \A j, a : Gap(s, j, a, n) => /\ addr # 0
                                            /\ addr \in START .. END => fixed /\ a # addr
         \/ Extended(s, r, addr, n, prot)
  BY MapOutcome
<1>a. ASSUME NEW at, \E i : Gap(s, i, at, n) PROVE at \in Int /\ at # -1 /\ START <= at
  BY <1>0, <1>a DEF Gap
<1>2. CASE r = Fail(s) /\ \A j, a : Gap(s, j, a, n) => /\ addr # 0
                                                       /\ addr \in START .. END => fixed /\ a # addr
  <2>1. r.ret = -1 /\ r.areas = s
    BY <1>2 DEF Fail, Result
  <2> QED BY <1>1, <1>2, <2>1 DEF MapResult
<1>3. ASSUME NEW at, Placed(s, r, at, n, prot), fixed /\ addr # 0 => at = addr,
             addr = 0 => \A j, a : Gap(s, j, a, n) => at <= a
      PROVE  /\ n \in Nat \ {0} /\ r.ret \in Int
             /\ Sorted(r.areas) /\ (Merged(s) => Merged(r.areas))
             /\ Len(s) <= MaxAreas => Len(r.areas) <= MaxAreas
             /\ r.ret = -1 => r.areas = s /\ Len(s) >= MaxAreas
             /\ r.ret # -1 => /\ \A page \in Int : r.ret <= page /\ page < r.ret + n => Has(r.areas, page, prot)
                              /\ (\E i : Gap(s, i, at, n)) /\ Added(s, r.areas, at, n, prot) /\ r.ret = at
  <2>1. PICK i : Gap(s, i, at, n) /\ r = Place(s, i, at, n, prot)
    BY <1>3 DEF Placed
  <2>2. \/ r.ret = -1 /\ r.areas = s /\ Len(s) >= MaxAreas
        \/ r.ret = at /\ Added(s, r.areas, at, n, prot)
    BY <1>1, <2>1, PlaceRight
  <2>3. at \in Int /\ at # -1
    BY <1>a, <2>1
  <2>4. CASE r.ret = -1 /\ r.areas = s /\ Len(s) >= MaxAreas
    BY <1>1, <2>4
  <2>5. CASE r.ret = at /\ Added(s, r.areas, at, n, prot)
    BY <1>1, <2>1, <2>3, <2>5 DEF Added
  <2> QED BY <2>2, <2>4, <2>5
<1>4. ASSUME Extended(s, r, addr, n, prot)
      PROVE  /\ n \in Nat \ {0} /\ r.ret \in Int /\ r.ret # -1
             /\ Sorted(r.areas) /\ (Merged(s) => Merged(r.areas))
             /\ Len(s) <= MaxAreas => Len(r.areas) <= MaxAreas
             /\ \A page \in Int : r.ret <= page /\ page < r.ret + n => Has(r.areas, page, prot)
             /\ (\E i : Gap(s, i, addr, n)) /\ Added(s, r.areas, addr, n, prot)
             /\ Len(s) > 0 /\ addr = s[Len(s)].end /\ s[Len(s)].access_flags = prot /\ addr # 0
  <2> DEFINE L == Len(s)
             q == Place(s, L, addr, n, prot)
  <2>1. /\ L > 0 /\ addr = s[L].end /\ s[L].access_flags = prot /\ Gap(s, L, addr, n)
        /\ r = Result(q.areas, s[L].start)
    BY <1>4 DEF Extended
  <2>2. /\ L \in Nat /\ L \in 1 .. L
        /\ s[L].start \in Int /\ s[L].end \in Int /\ s[L].start < s[L].end /\ START <= s[L].start
    <3>1. L \in Nat /\ L \in 1 .. L
      BY <2>1, Elements
    <3> QED BY <3>1, Elements
  <2>3. r.ret = s[L].start /\ r.areas = q.areas
    BY <2>1 DEF Result
  <2>q. q = Place(s, L, addr, n, prot)
    OBVIOUS
  <2> HIDE DEF q
  <2>4. \/ q.ret = -1 /\ ~(L >= 1 /\ s[L].end = addr /\ s[L].access_flags = prot)
        \/ q.ret = addr /\ Added(s, q.areas, addr, n, prot)
    BY <1>1, <2>1, <2>q, PlaceRight
  <2>5. Added(s, r.areas, addr, n, prot)
    BY <2>1, <2>2, <2>3, <2>4
  <2>6. r.ret \in Int /\ r.ret # -1 /\ addr # 0
    BY <1>0, <2>1, <2>2, <2>3
  <2>7. ASSUME NEW page \in Int, r.ret <= page, page < r.ret + n PROVE Has(r.areas, page, prot)
    <3>1. CASE page < s[L].end
      <4>1. In(s[L], page)
        BY <2>3, <2>7, <3>1 DEF In
      <4>2. Has(s, page, prot)
        BY <2>1, <2>2, <4>1 DEF Has
      <4> QED BY <2>5, <4>2 DEF Added
    <3>2. CASE ~(page < s[L].end)
      <4>1. addr <= page /\ page < addr + n
        BY <1>1, <2>1, <2>2, <2>3, <2>7, <3>2
      <4> QED BY <2>5, <4>1 DEF Added
    <3> QED BY <3>1, <3>2
  <2>8. /\ Sorted(r.areas) /\ (Merged(s) => Merged(r.areas))
        /\ Len(s) <= MaxAreas => Len(r.areas) <= MaxAreas
    BY <2>5 DEF Added
  <2>9. \E i : Gap(s, i, addr, n)
    BY <2>1
  <2> QED BY <1>1, <2>1, <2>5, <2>6, <2>7, <2>8, <2>9
<1>5. CASE \E at : /\ Placed(s, r, at, n, prot) /\ (fixed /\ addr # 0 => at = addr)
                   /\ addr = 0 => \A j, a : Gap(s, j, a, n) => at <= a
  <2>1. PICK at : /\ Placed(s, r, at, n, prot) /\ (fixed /\ addr # 0 => at = addr)
                  /\ addr = 0 => \A j, a : Gap(s, j, a, n) => at <= a
    BY <1>5
  <2> QED BY <1>3, <2>1 DEF MapResult
<1>6. CASE Extended(s, r, addr, n, prot)
  BY <1>4, <1>6 DEF MapResult
<1> QED BY <1>1, <1>2, <1>5, <1>6

\* A run of free pages is a gap.
LEMMA FreeIsGap ==
  ASSUME NEW s, Sorted(s), NEW n \in Nat \ {0}, NEW at \in Int
  PROVE  Run(at, n) \subseteq Pages /\ (\A p \in Run(at, n) : ProtOf(s, p) = 0) <=> \E i : Gap(s, i, at, n)
<1>0. /\ \A p : p \in Run(at, n) <=> p \in Int /\ at <= p /\ p < at + n
      /\ START \in Nat /\ END \in Nat
  BY AreaAssumption DEF Run
<1>1. ASSUME NEW i, Gap(s, i, at, n), NEW p \in Run(at, n) PROVE p \in Pages /\ ProtOf(s, p) = 0
  <2>1. p \in Int /\ at <= p /\ p < at + n
    BY <1>0
  <2>2. p \in Pages /\ \A k \in 1 .. Len(s) : ~In(s[k], p)
    BY <1>1, <2>1, GapFree
  <2>3. \A f : ~Has(s, p, f)
    BY <2>2 DEF Has
  <2> QED BY <2>1, <2>2, <2>3, ProtHas
<1>2. ASSUME Run(at, n) \subseteq Pages, \A p \in Run(at, n) : ProtOf(s, p) = 0 PROVE \E i : Gap(s, i, at, n)
  <2>1. at \in Run(at, n) /\ at + n - 1 \in Run(at, n)
    BY <1>0
  <2>2. START <= at /\ at + n <= END
    BY <1>0, <1>2, <2>1 DEF Pages
  <2>3. ASSUME NEW p \in Int, at <= p, p < at + n, NEW k \in 1 .. Len(s), In(s[k], p) PROVE FALSE
    <3>1. ProtOf(s, p) = 0
      BY <1>0, <1>2, <2>3
    <3>2. Has(s, p, s[k].access_flags)
      BY <2>3 DEF Has
    <3> QED BY <3>1, <3>2, ProtHas
  <2> QED BY <2>2, <2>3, FreeGap
<1> QED BY <1>1, <1>2

-----------------------------------------------------------------------------
(***************************************************************************)
(* The theorems of VmArea                                                   *)
(***************************************************************************)
\* Arguments of the system calls are naturals.
LEMMA Arguments ==
  /\ Addresses \subseteq Nat /\ Pages \subseteq Nat /\ Pages \subseteq Int
  /\ Lengths \subseteq Nat \ {0} /\ UnmapLengths \subseteq Nat /\ ProtLengths \subseteq Nat
  /\ START .. END \subseteq Nat /\ START .. END \subseteq Addresses /\ 0 \in Addresses
<1>1. START \in Nat \ {0} /\ END \in Nat
  BY AreaAssumption
<1>2. Pages \subseteq Nat /\ START - 1 \in Nat /\ START .. END \subseteq Nat
  BY <1>1 DEF Pages
<1>3. \A a \in START .. END : a \in Pages \/ a = END
  BY <1>1 DEF Pages
<1> QED BY <1>1, <1>2, <1>3, LengthsAssumption DEF Addresses

\* One call keeps the list sorted, and merged unless it is a munmap of length 0.
LEMMA ListStep ==
  ASSUME Sorted(list), [AreaNext]_areaVars
  PROVE  Sorted(list)' /\ (Merged(list) /\ 0 \notin UnmapLengths => Merged(list)')
<1>1. ASSUME NEW addr \in Addresses, NEW length \in Lengths, NEW prot \in Prots, NEW fixed \in BOOLEAN,
             Mmap(addr, length, prot, fixed)
      PROVE  Sorted(list)' /\ (Merged(list) => Merged(list)')
  <2> DEFINE r == vm_area_map(list, addr, length, prot, fixed)
  <2>1. list' = r.areas /\ addr \in Nat /\ length \in Nat \ {0} /\ r = vm_area_map(list, addr, length, prot, fixed)
    BY <1>1, Arguments DEF Mmap, Returns
  <2> HIDE DEF r
  <2>2. Sorted(r.areas) /\ (Merged(list) => Merged(r.areas))
    <3>1. MapResult(list, addr, PagesOf(length), prot, fixed, r)
      BY <2>1, MapRight
    <3> QED BY <3>1 DEF MapResult
  <2> QED BY <2>1, <2>2
<1>2. ASSUME NEW addr \in Addresses, NEW length \in UnmapLengths, Munmap(addr, length)
      PROVE  Sorted(list)' /\ (Merged(list) /\ 0 \notin UnmapLengths => Merged(list)')
  <2> DEFINE r == vm_area_unmap(list, addr, length)
  <2>1. list' = r.areas /\ addr \in Nat /\ length \in Nat /\ r = vm_area_unmap(list, addr, length)
    BY <1>2, Arguments DEF Munmap, Returns
  <2> HIDE DEF r
  <2>2. Sorted(r.areas) /\ (length # 0 /\ Merged(list) => Merged(r.areas))
    <3>1. UnmapResult(list, addr, length, r)
      BY <2>1, UnmapRight
    <3> QED BY <3>1 DEF UnmapResult
  <2> QED BY <2>1, <2>2
<1>3. ASSUME NEW addr \in Addresses \ {0}, NEW length \in ProtLengths, NEW prot \in Prots,
             Mprotect(addr, length, prot)
      PROVE  Sorted(list)' /\ (Merged(list) => Merged(list)')
  <2> DEFINE r == vm_area_mprotect(list, addr, length, prot)
  <2>1. list' = r.areas /\ addr \in Nat /\ length \in Nat /\ r = vm_area_mprotect(list, addr, length, prot)
    BY <1>3, Arguments DEF Mprotect, Returns
  <2> HIDE DEF r
  <2>2. Sorted(r.areas) /\ (Merged(list) => Merged(r.areas))
    <3>1. ProtectResult(list, addr, length, prot, r)
      BY <2>1, ProtectRight
    <3> QED BY <3>1 DEF ProtectResult
  <2> QED BY <2>1, <2>2
<1>4. CASE UNCHANGED areaVars
  BY <1>4 DEF areaVars
<1> QED BY <1>1, <1>2, <1>3, <1>4 DEF AreaNext

\* The list is well formed after any sequence of mmap, munmap and mprotect, the
\* calls with length 0 included: every loop of mmap.c relies on it.
THEOREM ListWellFormed == AreaSpec => [](WellFormed /\ Sorted(list))
<1>1. AreaInit => Sorted(list)
  BY EmptySeq DEF AreaInit, Sorted
<1>2. Sorted(list) /\ [AreaNext]_areaVars => Sorted(list)'
  BY ListStep
<1>3. Sorted(list) => WellFormed
  BY Elements DEF WellFormed, AreaTypeOK, Sorted
<1> QED BY <1>1, <1>2, <1>3, PTL DEF AreaSpec

\* The limit of areas, in any well-formed list.
LEMMA LimitHolds ==
  ASSUME Sorted(list)
  PROVE  LimitKept
<1>1. ASSUME Len(list) <= MaxAreas, NEW addr \in Addresses, NEW length \in Lengths, NEW prot \in Prots,
             NEW fixed \in BOOLEAN
      PROVE  Len(vm_area_map(list, addr, length, prot, fixed).areas) <= MaxAreas
  <2>1. addr \in Nat /\ length \in Nat \ {0}
    BY Arguments
  <2>2. MapResult(list, addr, PagesOf(length), prot, fixed, vm_area_map(list, addr, length, prot, fixed))
    BY <2>1, MapRight
  <2> QED BY <1>1, <2>2 DEF MapResult
<1>2. ASSUME Len(list) <= MaxAreas, NEW addr \in Addresses, NEW length \in UnmapLengths
      PROVE  Len(vm_area_unmap(list, addr, length).areas) <= MaxAreas
  <2>1. addr \in Nat /\ length \in Nat
    BY Arguments
  <2>2. UnmapResult(list, addr, length, vm_area_unmap(list, addr, length))
    BY <2>1, UnmapRight
  <2> QED BY <1>2, <2>2 DEF UnmapResult
<1> QED BY <1>1, <1>2 DEF LimitKept

\* Where munmap is not called with length 0 the list also stays merged and
\* within its limit: what every loop of mmap.c finds, after any calls.  (With
\* length 0 munmap splits an area in two that touch.)
THEOREM ListStaysSound ==
  ASSUME 0 \notin UnmapLengths
  PROVE  AreaSpec => []ListSound
<1> DEFINE Inv == Sorted(list) /\ Merged(list)
<1>1. AreaInit => Inv
  BY EmptySeq DEF AreaInit, Sorted, Merged
<1>2. Inv /\ [AreaNext]_areaVars => Inv'
  BY ListStep
<1>3. Inv => ListSound
  BY LimitHolds, Elements DEF ListSound, WellFormed, AreaTypeOK, FullyMerged, Sorted, Merged
<1> QED BY <1>1, <1>2, <1>3, PTL DEF AreaSpec

\* The four statements about where mmap puts a mapping, in a well-formed list.
LEMMA PlacementRight ==
  ASSUME Sorted(list)
  PROVE  PlacesRight
<1>0. /\ \A at, n : FreeRun(at, n) <=> Run(at, n) \subseteq Pages /\ \A p \in Run(at, n) : ProtOf(list, p) = 0
      /\ \A at \in Int, n \in Nat \ {0} : FreeRun(at, n) <=> \E i : Gap(list, i, at, n)
  BY FreeIsGap DEF FreeRun
<1>a. \A i, at, n : Gap(list, i, at, n) => at \in Int /\ START <= at /\ at + n <= END
  BY DEF Gap
<1>f. ASSUME NEW i, NEW at, NEW n \in Nat \ {0}, Gap(list, i, at, n) PROVE at \in Fits(n)
  <2>1. at \in Int /\ START <= at /\ at + n <= END
    BY <1>f, <1>a
  <2>2. at \in Pages
    BY <2>1, AreaAssumption DEF Pages
  <2> QED BY <1>0, <1>f, <2>1, <2>2 DEF Fits
<1>g. ASSUME NEW n \in Nat \ {0}, NEW at \in Fits(n) PROVE at \in Nat /\ \E i : Gap(list, i, at, n)
  <2>1. at \in Pages /\ FreeRun(at, n)
    BY DEF Fits
  <2> QED BY <1>0, <2>1, Arguments
<1>r. ASSUME NEW at \in Int, NEW n \in Nat, NEW t, Sorted(t), NEW prot,
             \A page \in Int : at <= page /\ page < at + n => Has(t, page, prot)
      PROVE  \A p \in Run(at, n) : ProtOf(t, p) = prot
  <2>1. \A p \in Run(at, n) : p \in Int /\ at <= p /\ p < at + n
    BY DEF Run
  <2> QED BY <1>r, <2>1, ProtHas
<1>1. LowestFit
  <2> SUFFICES ASSUME NEW length \in Lengths, NEW prot \in Prots,
                      NEW r, r = vm_area_map(list, 0, length, prot, FALSE), NEW n, n = PagesOf(length)
               PROVE  IF r.ret = -1 THEN Fits(n) = {} \/ Len(list) >= MaxAreas
                      ELSE Fits(n) # {} /\ r.ret = Min(Fits(n))
    BY DEF LowestFit
  <2>1. length \in Nat \ {0} /\ 0 \in Nat
    BY Arguments
  <2>2. /\ n \in Nat \ {0}
        /\ r.ret = -1 => Len(list) >= MaxAreas \/ \A j, a : ~Gap(list, j, a, n)
        /\ r.ret # -1 => \E at : /\ (\E i : Gap(list, i, at, n)) /\ r.ret = at
                                 /\ \A j, a : Gap(list, j, a, n) => at <= a
    <3>1. MapResult(list, 0, n, prot, FALSE, r)
      BY <2>1, MapRight
    <3> QED BY <2>1, <3>1, AreaAssumption DEF MapResult
  <2>3. CASE r.ret = -1
    <3>1. Fits(n) = {} \/ Len(list) >= MaxAreas
      BY <1>g, <2>2, <2>3
    <3> QED BY <2>3, <3>1
  <2>4. CASE r.ret # -1
    <3>1. r.ret \in Fits(n) /\ \A a \in Fits(n) : r.ret <= a
      BY <1>f, <1>g, <2>2, <2>4
    <3>2. Fits(n) \in SUBSET Nat /\ Fits(n) # {}
      BY <1>g, <2>2, <3>1
    <3>3. Min(Fits(n)) \in Fits(n) /\ \A y \in Fits(n) : Min(Fits(n)) <= y
      BY <3>2, MinOf
    <3> DEFINE m == Min(Fits(n))
               k == r.ret
    <3>4. k <= m /\ m <= k /\ k \in Nat /\ m \in Nat
      BY <3>1, <3>2, <3>3
    <3> HIDE DEF m, k
    <3>5. k = m
      BY <3>4
    <3>6. r.ret = Min(Fits(n))
      BY <3>5 DEF k, m
    <3> QED BY <2>4, <3>2, <3>6
  <2> QED BY <2>3, <2>4
<1>2. HintSearchComplete
  <2> SUFFICES ASSUME NEW addr \in START .. END, NEW length \in Lengths, NEW prot \in Prots,
                      NEW r, r = vm_area_map(list, addr, length, prot, FALSE), NEW n, n = PagesOf(length),
                      r.ret = -1
               PROVE  Fits(n) = {} \/ Len(list) >= MaxAreas
    BY DEF HintSearchComplete
  <2>1. length \in Nat \ {0} /\ addr \in Nat
    BY Arguments
  <2>2. n \in Nat \ {0} /\ (Len(list) >= MaxAreas \/ \A j, a : ~Gap(list, j, a, n))
    <3>1. MapResult(list, addr, n, prot, FALSE, r)
      BY <2>1, MapRight
    <3> QED BY <2>1, <3>1, AreaAssumption DEF MapResult
  <2> QED BY <1>g, <2>2
<1>3. FixedPlacement
  <2> SUFFICES ASSUME NEW addr \in START .. END, NEW length \in Lengths, NEW prot \in Prots
               PROVE  LET r == vm_area_map(list, addr, length, prot, TRUE)
                          n == PagesOf(length)
                      IN  IF r.ret = -1
                          THEN r.areas = list /\ (FreeRun(addr, n) => Len(list) >= MaxAreas)
                          ELSE FreeRun(addr, n) /\ \A p \in Run(addr, n) : ProtOf(r.areas, p) = prot
    BY DEF FixedPlacement
  <2> DEFINE r == vm_area_map(list, addr, length, prot, TRUE)
             n == PagesOf(length)
  <2>1. /\ length \in Nat \ {0} /\ addr \in Nat /\ addr # 0 /\ addr \in Int
        /\ r = vm_area_map(list, addr, length, prot, TRUE) /\ n = PagesOf(length)
    BY Arguments, AreaAssumption
  <2> HIDE DEF r, n
  <2>2. /\ n \in Nat \ {0} /\ Sorted(r.areas)
        /\ r.ret = -1 => r.areas = list /\ (Len(list) >= MaxAreas \/ \A j, a : Gap(list, j, a, n) => a # addr)
        /\ r.ret # -1 => (\E i : Gap(list, i, addr, n)) /\ Added(list, r.areas, addr, n, prot)
    <3>1. MapResult(list, addr, n, prot, TRUE, r)
      BY <2>1, MapRight
    <3> QED BY <2>1, <3>1, AreaAssumption DEF MapResult
  <2>3. ASSUME r.ret = -1 PROVE r.areas = list /\ (FreeRun(addr, n) => Len(list) >= MaxAreas)
    BY <1>0, <2>1, <2>2, <2>3
  <2>4. ASSUME r.ret # -1 PROVE FreeRun(addr, n) /\ \A p \in Run(addr, n) : ProtOf(r.areas, p) = prot
    <3>1. FreeRun(addr, n)
      BY <1>0, <2>1, <2>2, <2>4
    <3>2. \A page \in Int : addr <= page /\ page < addr + n => Has(r.areas, page, prot)
      BY <2>2, <2>4 DEF Added
    <3>3. \A p \in Run(addr, n) : ProtOf(r.areas, p) = prot
      BY <1>r, <2>1, <2>2, <3>2
    <3> QED BY <2>4, <3>1, <3>3
  <2>5. IF r.ret = -1
        THEN r.areas = list /\ (FreeRun(addr, n) => Len(list) >= MaxAreas)
        ELSE FreeRun(addr, n) /\ \A p \in Run(addr, n) : ProtOf(r.areas, p) = prot
    BY <2>3, <2>4
  <2> QED BY <2>5 DEF r, n
<1>4. ReturnsMapping
  <2> SUFFICES ASSUME NEW addr \in Addresses, NEW length \in Lengths, NEW prot \in Prots, NEW fixed \in BOOLEAN,
                      NEW r, r = vm_area_map(list, addr, length, prot, fixed), NEW n, n = PagesOf(length),
                      r.ret # -1, ~ExtendsLast(addr, prot)
               PROVE  FreeRun(r.ret, n) /\ \A p \in Run(r.ret, n) : ProtOf(r.areas, p) = prot
    BY DEF ReturnsMapping
  <2>1. length \in Nat \ {0} /\ addr \in Nat
    BY Arguments
  <2>2. /\ n \in Nat \ {0} /\ r.ret \in Int /\ Sorted(r.areas)
        /\ \A page \in Int : r.ret <= page /\ page < r.ret + n => Has(r.areas, page, prot)
        /\ \E at : /\ (\E i : Gap(list, i, at, n))
                   /\ r.ret = at \/ (Len(list) > 0 /\ addr = list[Len(list)].end
                                     /\ list[Len(list)].access_flags = prot)
    <3>1. MapResult(list, addr, n, prot, fixed, r)
      BY <2>1, MapRight
    <3> QED BY <2>1, <3>1, AreaAssumption DEF MapResult
  <2>3. ~(Len(list) > 0 /\ addr = list[Len(list)].end /\ list[Len(list)].access_flags = prot)
    <3>1. Len(list) > 0 => list # <<>> /\ Last(list) = list[Len(list)]
      BY EmptySeq, LastOf DEF Sorted
    <3> QED BY <3>1 DEF ExtendsLast
  <2>4. FreeRun(r.ret, n)
    BY <1>0, <2>2, <2>3
  <2> QED BY <1>r, <2>2, <2>4
<1> QED BY <1>1, <1>2, <1>3, <1>4 DEF PlacesRight

\* Whatever was mapped, unmapped and protected before, mmap takes the lowest
\* run of free pages without a hint, misses none with one, maps exactly the
\* pages asked for with MAP_FIXED, and returns the mapping.
THEOREM MapPlacesRight == AreaSpec => []PlacesRight
<1>1. Sorted(list) => PlacesRight
  BY PlacementRight
<1> QED BY <1>1, ListWellFormed, PTL

\* Areas that touch, from the f-th to the k-th, leave no page out.
LEMMA Chain ==
  ASSUME NEW s, Sorted(s), NEW f \in 1 .. Len(s), NEW k \in f .. Len(s),
         \A j \in f + 1 .. k : s[j].start = s[j - 1].end,
         NEW page \in Int, s[f].start <= page, page < s[k].end
  PROVE  \E j \in 1 .. Len(s) : In(s[j], page)
<1> DEFINE S == {d \in 0 .. k - f : page < s[f + d].end => \E j \in 1 .. Len(s) : In(s[j], page)}
<1>0. /\ Len(s) \in Nat /\ k \in Int /\ f \in Int /\ k - f \in Nat
      /\ \A j \in 1 .. Len(s) : s[j].start \in Int /\ s[j].end \in Int
  BY Elements
<1>1. 0 \in S
  <2>1. f + 0 = f /\ 0 \in 0 .. k - f
    BY <1>0
  <2>2. page < s[f].end => In(s[f], page)
    BY DEF In
  <2> QED BY <2>1, <2>2
<1>2. ASSUME NEW d \in 1 .. k - f, d - 1 \in S PROVE d \in S
  <2>1. /\ f + d \in f + 1 .. k /\ (f + d) - 1 = f + (d - 1) /\ f + d \in 1 .. Len(s)
        /\ d \in 0 .. k - f
    BY <1>0
  <2>2. s[f + d].start = s[f + (d - 1)].end
    BY <2>1
  <2>3. CASE page < s[f + (d - 1)].end
    BY <1>2, <2>1, <2>3
  <2>4. CASE ~(page < s[f + (d - 1)].end)
    <3>1. s[f + d].start <= page
      BY <1>0, <2>1, <2>2, <2>4
    <3>2. page < s[f + d].end => In(s[f + d], page)
      BY <3>1 DEF In
    <3> QED BY <2>1, <3>2
  <2> QED BY <2>3, <2>4
<1> HIDE DEF S
<1>3. \A d \in 0 .. k - f : d \in S
  BY <1>0, <1>1, <1>2, Induct
<1>4. k - f \in 0 .. k - f /\ f + (k - f) = k
  BY <1>0
<1>5. k - f \in S
  BY <1>3, <1>4
<1> QED BY <1>4, <1>5 DEF S

\* A range that mprotect accepts is mapped.
LEMMA AcceptedMapped ==
  ASSUME NEW s, Sorted(s), NEW from \in Int, NEW to \in Int, RangeAccepted(s, from, to), NEW page \in Int,
         from <= page, page < to, page < s[Len(s)].end
  PROVE  \E j \in 1 .. Len(s) : In(s[j], page)
<1>0. /\ Len(s) \in Nat /\ DOMAIN s = 1 .. Len(s)
      /\ \A j \in 1 .. Len(s) : s[j].start \in Int /\ s[j].end \in Int
  BY Elements
<1>1. PICK f \in Owners(s, from) :
        \/ f = Len(s)
        \/ \E k \in f .. Len(s) : /\ to <= s[k].end
                                  /\ \A j \in f + 1 .. k : s[j].start = s[j - 1].end
  BY DEF RangeAccepted
<1>2. f \in 1 .. Len(s) /\ s[f].start <= from
  BY <1>0 DEF Owners
<1>3. s[f].start <= page
  BY <1>0, <1>2
<1>4. CASE f = Len(s)
  BY <1>2, <1>3, <1>4 DEF In
<1>5. ASSUME NEW k \in f .. Len(s), to <= s[k].end, \A j \in f + 1 .. k : s[j].start = s[j - 1].end
      PROVE  \E j \in 1 .. Len(s) : In(s[j], page)
  <2>1. k \in 1 .. Len(s)
    BY <1>0, <1>2
  <2>2. page < s[k].end
    BY <1>0, <1>5, <2>1
  <2> QED BY <1>2, <1>3, <1>5, <2>2, Chain
<1> QED BY <1>1, <1>4, <1>5

\* In a well-formed list mprotect succeeds across no hole.
LEMMA NoHole ==
  ASSUME Sorted(list)
  PROVE  ProtectsNoHole
<1> SUFFICES ASSUME NEW addr \in Addresses \ {0}, NEW length \in ProtLengths, NEW prot \in Prots,
                    vm_area_mprotect(list, addr, length, prot).ret = 0,
                    NEW p \in Run(addr, PagesOf(length)), p < Last(list).end
             PROVE  ProtOf(list, p) # 0
  BY DEF ProtectsNoHole
<1>1. addr \in Nat /\ length \in Nat
  BY Arguments
<1>2. ProtectResult(list, addr, length, prot, vm_area_mprotect(list, addr, length, prot))
  BY <1>1, ProtectRight
<1>3. length # 0 => RangeAccepted(list, addr, addr + PagesOf(length))
  BY <1>2 DEF ProtectResult
<1>4. PagesOf(length) \in Nat /\ (length = 0 => PagesOf(length) = 0)
  BY <1>1, Rounded
<1>5. p \in Int /\ addr <= p /\ p < addr + PagesOf(length) /\ length # 0
  BY <1>1, <1>4 DEF Run
<1>6. RangeAccepted(list, addr, addr + PagesOf(length))
  BY <1>3, <1>5
<1>7. Len(list) \in Nat /\ DOMAIN list = 1 .. Len(list) /\ list \in Seq(vm_area)
  BY Elements DEF Sorted
<1>8. list # <<>>
  <2>1. Owners(list, addr) # {}
    BY <1>6 DEF RangeAccepted
  <2>2. Len(list) # 0
    BY <1>7, <2>1 DEF Owners
  <2> QED BY <2>2, EmptySeq
<1>9. p < list[Len(list)].end
  BY <1>7, <1>8, LastOf
<1>10. PICK j \in 1 .. Len(list) : In(list[j], p)
  <2>1. addr \in Int /\ addr + PagesOf(length) \in Int
    BY <1>1, <1>4
  <2> QED BY <1>5, <1>6, <1>9, <2>1, AcceptedMapped
<1>11. Has(list, p, list[j].access_flags)
  BY <1>10 DEF Has
<1> QED BY <1>5, <1>11, ProtHas

\* An mprotect that succeeds found every page of its range mapped, up to the
\* end of the last area, after any calls before it.
THEOREM ProtectNoHole == AreaSpec => []ProtectsNoHole
<1>1. Sorted(list) => ProtectsNoHole
  BY NoHole
<1> QED BY <1>1, ListWellFormed, PTL

\* Lists that have the same, or nothing, at a page.
LEMMA SameProt ==
  ASSUME NEW s, NEW t, Sorted(s), Sorted(t), NEW page \in Int
  PROVE  /\ (\A p : Has(t, page, p) <=> Has(s, page, p)) => ProtOf(t, page) = ProtOf(s, page)
         /\ (\A p : ~Has(t, page, p)) => ProtOf(t, page) = 0
<1>1. /\ \A p : Has(s, page, p) => ProtOf(s, page) = p /\ p # 0
      /\ ProtOf(s, page) # 0 => Has(s, page, ProtOf(s, page))
  BY ProtHas
<1>2. /\ \A p : Has(t, page, p) => ProtOf(t, page) = p /\ p # 0
      /\ ProtOf(t, page) # 0 => Has(t, page, ProtOf(t, page))
  BY ProtHas
<1> QED BY <1>1, <1>2

\* The pages that hold a byte of a range are those of its length rounded up.
LEMMA RangeIsRun ==
  ASSUME NEW at \in Int, NEW length \in Nat, NEW p \in Int
  PROVE  p \in Abs!Range(at, length) <=> at <= p /\ p < at + PagesOf(length)
<1> DEFINE P == PageSize
           n == PagesOf(length)
           d == p - at
<1>0. P \in Nat /\ P >= 1 /\ d \in Int
  BY AreaAssumption
<1>1. /\ n \in Nat /\ length <= n * P
      /\ length # 0 => (n - 1) * P < length
      /\ length = 0 => n = 0
  BY Rounded
<1>2. p \in Abs!Range(at, length) <=> p \in at .. at + length - 1 /\ d * P < length
  BY DEF Abs!Range
<1>3. at <= p <=> 0 <= d
  BY DEF d
<1>4. p < at + n <=> d < n
  BY <1>1 DEF d
<1>5. p \in at .. at + length - 1 <=> 0 <= d /\ d < length
  BY DEF d
<1> HIDE DEF P, n, d
<1>q. \A j, k \in Int : j <= k => j * P <= k * P
  BY <1>0
<1>r. \A j \in Int : j * P \in Int /\ (0 <= j => j <= j * P)
  BY <1>0
<1>6. ASSUME 0 <= d, d < n PROVE d < length /\ d * P < length
  <2>1. length # 0 /\ d <= n - 1 /\ n - 1 \in Int
    BY <1>0, <1>1, <1>6
  <2>2. d * P <= (n - 1) * P
    BY <1>0, <1>q, <2>1
  <2>3. d <= d * P /\ d * P \in Int /\ (n - 1) * P \in Int
    BY <1>0, <1>r, <1>6, <2>1
  <2> QED BY <1>0, <1>1, <2>1, <2>2, <2>3
<1>7. ASSUME 0 <= d, d * P < length PROVE d < n
  <2>1. n <= d => n * P <= d * P
    BY <1>0, <1>1, <1>q
  <2>2. d * P \in Int /\ n * P \in Int
    BY <1>0, <1>1, <1>r
  <2> QED BY <1>0, <1>1, <1>7, <2>1, <2>2
<1> QED BY <1>2, <1>3, <1>4, <1>5, <1>6, <1>7 DEF n

\* A munmap that fails was asked for pages outside the mmap area, or for pages
\* strictly inside one area.
LEMMA UnmapFails ==
  ASSUME NEW s, Sorted(s), NEW addr \in Pages, NEW length \in Nat, addr + PagesOf(length) <= END,
         vm_area_unmap(s, addr, length).ret # 0
  PROVE  \E i \in 1 .. Len(s) : s[i].start < addr /\ addr + PagesOf(length) < s[i].end
<1>1. addr \in Nat /\ addr # 0 /\ START <= addr
  BY Arguments, AreaAssumption DEF Pages
<1>2. EndsInside(addr, length)
  BY <1>1, Inside
<1>3. Splits(s, addr, addr + PagesOf(length))
  BY <1>1, <1>2 DEF vm_area_unmap, Result
<1>4. DOMAIN s = 1 .. Len(s)
  BY Elements DEF Sorted
<1> QED BY <1>3, <1>4 DEF Splits

\* A step of the list is the step of the address space for the same call, with
\* the same result.
LEMMA PageStep ==
  ASSUME Sorted(list), Sorted(list)', [AreaNext]_areaVars
  PROVE  [Abs!Next]_(Abs!vars)
<1> DEFINE now(p) == ProtOf(list, p)
           then(p) == ProtOf(list', p)
           AllLengths == Lengths \cup UnmapLengths \cup ProtLengths
<1>p. \A p \in Pages : p \in Int /\ START <= p /\ p < END
  BY AreaAssumption DEF Pages
<1>n. START \in Nat \ {0} /\ END \in Nat /\ -1 \in Int
  BY AreaAssumption
<1>b. \A p \in Int : START <= p /\ p < END => p \in Pages
  BY <1>n DEF Pages
<1>s. ASSUME \A p \in Pages : then(p) = now(p) PROVE UNCHANGED PageProt
  BY <1>s DEF PageProt
<1>t. \A p \in Pages : PageProt[p] = now(p) /\ PageProt'[p] = then(p)
  BY DEF PageProt
<1>i. \A at, length : Abs!Range(at, length) \subseteq at .. at + length - 1
  BY DEF Abs!Range
<1>r. ASSUME NEW at \in Int, NEW length \in Nat
      PROVE  /\ Abs!Range(at, length) \subseteq Int
             /\ \A p \in Int : p \in Abs!Range(at, length) <=> at <= p /\ p < at + PagesOf(length)
  BY <1>i, RangeIsRun
<1>1. ASSUME NEW addr \in Addresses, NEW length \in Lengths, NEW prot \in Prots, NEW fixed \in BOOLEAN,
             Mmap(addr, length, prot, fixed)
      PROVE  Abs!Mmap(addr, length, prot, fixed)
  <2> DEFINE r == vm_area_map(list, addr, length, prot, fixed)
             n == PagesOf(length)
  <2>1. /\ list' = r.areas /\ addr \in Nat /\ length \in Nat \ {0}
        /\ call' = <<"mmap", addr, length, prot, fixed>> /\ ret' = r.ret
        /\ r = vm_area_map(list, addr, length, prot, fixed) /\ n = PagesOf(length)
    BY <1>1, Arguments DEF Mmap, Returns
  <2> HIDE DEF r, n
  <2>2. MapResult(list, addr, n, prot, fixed, r)
    BY <2>1, MapRight
  <2>3. CASE r.ret = -1
    <3>1. list' = list
      BY <2>1, <2>2, <2>3 DEF MapResult
    <3>2. Abs!Fails
      BY <1>s, <2>1, <2>3, <3>1 DEF Abs!Fails
    <3> QED BY <2>1, <3>2 DEF Abs!Mmap
  <2>4. CASE r.ret # -1
    <3>1. PICK at : /\ (\E i : Gap(list, i, at, n)) /\ Added(list, r.areas, at, n, prot)
                    /\ fixed /\ addr # 0 => at = addr
                    /\ r.ret = at \/ at = addr
      BY <2>2, <2>4 DEF MapResult
    <3>2. n \in Nat \ {0} /\ at \in Int /\ START <= at /\ at + n <= END /\ r.ret \in Int
      BY <2>2, <3>1 DEF MapResult, Gap
    <3>r. /\ Abs!Range(at, length) \subseteq Int /\ Abs!Range(r.ret, length) \subseteq Int
          /\ \A p \in Int : p \in Abs!Range(at, length) <=> at <= p /\ p < at + n
          /\ \A p \in Int : p \in Abs!Range(r.ret, length) <=> r.ret <= p /\ p < r.ret + n
      BY <1>r, <2>1, <3>2
    <3>3. at \in Pages /\ Abs!Range(at, length) \subseteq Pages
      <4>1. at \in Pages
        BY <1>n, <1>b, <3>2
      <4>2. ASSUME NEW p \in Int, at <= p, p < at + n PROVE p \in Pages
        BY <1>n, <1>b, <3>2, <4>2
      <4> QED BY <3>r, <4>1, <4>2
    <3>4. ASSUME NEW p \in Pages, at <= p, p < at + n PROVE now(p) = 0 /\ then(p) = prot
      <4>1. \A f : ~Has(list, p, f)
        BY <1>p, <3>1, <3>2, <3>4, GapFree DEF Has
      <4>2. Has(list', p, prot)
        BY <1>p, <2>1, <3>1, <3>4 DEF Added
      <4> QED BY <1>p, <4>1, <4>2, SameProt, ProtHas
    <3>5. ASSUME NEW p \in Pages, ~(at <= p /\ p < at + n) PROVE then(p) = now(p)
      <4>1. \A f : Has(list', p, f) <=> Has(list, p, f)
        BY <1>p, <2>1, <3>1, <3>5 DEF Added
      <4> QED BY <1>p, <4>1, SameProt
    <3>6. PageProt' = Abs!Given(at, length, prot)
      BY <1>p, <1>t, <3>r, <3>4, <3>5 DEF Abs!Given, PageProt
    <3>7. \A p \in Abs!Range(at, length) : PageProt[p] = 0
      BY <1>t, <3>r, <3>3, <3>4
    <3>8. ASSUME NEW p \in Int, r.ret <= p, p < r.ret + n PROVE p \in Pages /\ then(p) = prot
      <4>1. Has(list', p, prot)
        BY <2>1, <2>2, <2>4, <3>8 DEF MapResult
      <4>2. then(p) = prot
        BY <4>1, ProtHas
      <4>3. PICK k \in 1 .. Len(list') : list'[k].start <= p /\ p < list'[k].end
        BY <4>1 DEF Has, In
      <4>4. START <= list'[k].start /\ list'[k].end <= END /\ list'[k].start \in Int /\ list'[k].end \in Int
        BY Elements, AreaType DEF Sorted
      <4>5. START <= p /\ p < END
        BY <1>n, <4>3, <4>4
      <4> QED BY <1>b, <4>2, <4>5
    <3>9. r.ret \in Pages
      BY <3>2, <3>8
    <3>10. \A p \in Abs!Range(r.ret, length) : p \in Pages /\ PageProt'[p] = prot
      BY <1>t, <3>r, <3>8
    <3> QED BY <2>1, <3>1, <3>3, <3>6, <3>7, <3>9, <3>10 DEF Abs!Mmap
  <2> QED BY <2>3, <2>4
<1>2. ASSUME NEW addr \in Addresses, NEW length \in UnmapLengths, Munmap(addr, length)
      PROVE  Abs!Munmap(addr, length)
  <2> DEFINE r == vm_area_unmap(list, addr, length)
             n == PagesOf(length)
  <2>1. /\ list' = r.areas /\ addr \in Nat /\ length \in Nat
        /\ call' = <<"munmap", addr, length>> /\ ret' = r.ret
        /\ r = vm_area_unmap(list, addr, length) /\ n = PagesOf(length)
    BY <1>2, Arguments DEF Munmap, Returns
  <2>n. n \in Nat
    BY <2>1, Rounded
  <2> HIDE DEF r, n
  <2>2. UnmapResult(list, addr, length, r)
    BY <2>1, UnmapRight
  <2>r. /\ Abs!Range(addr, length) \subseteq Int
        /\ \A p \in Int : p \in Abs!Range(addr, length) <=> addr <= p /\ p < addr + n
    BY <1>r, <2>1
  <2>3. CASE r.ret # 0
    <3>1. list' = list /\ r.ret = -1
      BY <2>1, <2>2, <2>3 DEF UnmapResult
    <3>2. Abs!Fails
      BY <1>s, <2>1, <3>1 DEF Abs!Fails
    <3>3. ASSUME Abs!Range(addr, length) \cup {addr} \subseteq Pages PROVE Abs!CutsHole(addr, length)
      <4>1. addr \in Pages /\ addr + n <= END
        <5>1. addr \in Pages /\ addr < END
          BY <1>p, <3>3
        <5>2. n # 0 => addr + n - 1 \in Abs!Range(addr, length)
          BY <2>1, <2>n, <2>r
        <5>3. n # 0 => addr + n - 1 < END
          BY <1>p, <3>3, <5>2
        <5> QED BY <1>n, <2>1, <2>n, <5>1, <5>3
      <4>2. PICK i \in 1 .. Len(list) : list[i].start < addr /\ addr + n < list[i].end
        BY <2>1, <2>3, <4>1, UnmapFails
      <4>3. list[i] \in vm_area
        BY Elements DEF Sorted
      <4>4. /\ list[i].start \in Nat /\ list[i].end \in Nat /\ list[i].access_flags \in Prots
            /\ START <= list[i].start /\ list[i].end <= END
        BY <4>3, AreaType
      <4> DEFINE more == length + 2 * PageSize
      <4>5. more \in Nat /\ PagesOf(more) \in Nat /\ PagesOf(more) <= n + 2
        <5>1. PageSize \in Nat /\ PageSize >= 1
          BY AreaAssumption
        <5>2. /\ length <= n * PageSize
          BY <2>1, Rounded
        <5>3. more \in Nat
          BY <2>1, <5>1
        <5> HIDE DEF more
        <5>4. PagesOf(more) \in Nat /\ (more # 0 => (PagesOf(more) - 1) * PageSize < more) /\ (more = 0 => PagesOf(more) = 0)
          BY <5>3, Rounded
        <5>5. more <= (n + 2) * PageSize
          <6>1. (n + 2) * PageSize = n * PageSize + 2 * PageSize /\ n * PageSize \in Int
            BY <2>n, <5>1
          <6> QED BY <2>1, <5>1, <5>2, <6>1 DEF more
        <5>6. ASSUME PagesOf(more) > n + 2 PROVE FALSE
          <6>1. n + 2 <= PagesOf(more) - 1 /\ more # 0
            BY <2>n, <5>4, <5>6
          <6> DEFINE m == PagesOf(more) - 1
          <6>2. m \in Int /\ n + 2 \in Int /\ n + 2 <= m /\ m * PageSize < more
            BY <2>n, <5>4, <6>1
          <6> HIDE DEF m
          <6>3. \A j, k \in Int : j <= k => j * PageSize <= k * PageSize
            BY <5>1
          <6>4. (n + 2) * PageSize <= m * PageSize /\ m * PageSize \in Int /\ (n + 2) * PageSize \in Int
            BY <5>1, <6>2, <6>3
          <6> QED BY <5>3, <5>5, <6>2, <6>4
        <5> QED BY <2>n, <5>3, <5>4, <5>6
      <4> DEFINE before == addr - 1
      <4>b. before \in Int /\ list[i].start <= before /\ before + n + 2 <= list[i].end
        BY <2>1, <2>n, <4>2, <4>4
      <4> HIDE DEF more, before
      <4>6. /\ Abs!Range(before, more) \subseteq Int
            /\ \A p \in Int : p \in Abs!Range(before, more) <=> before <= p /\ p < before + PagesOf(more)
        BY <1>r, <4>5, <4>b
      <4>7. ASSUME NEW p \in Abs!Range(before, more) PROVE p \in Pages /\ now(p) = list[i].access_flags
        <5>0. p \in Int /\ before <= p /\ p < before + PagesOf(more)
          BY <4>6
        <5>1. p \in Int /\ list[i].start <= p /\ p < list[i].end
          BY <2>n, <4>4, <4>5, <4>b, <5>0
        <5>2. Has(list, p, list[i].access_flags)
          BY <5>1 DEF Has, In
        <5>3. START <= p /\ p < END
          BY <1>n, <4>4, <5>1
        <5> QED BY <1>b, <5>1, <5>2, <5>3, ProtHas
      <4>8. \A p \in Abs!Range(before, more) : p \in Pages /\ PageProt[p] = list[i].access_flags
        BY <1>t, <4>7
      <4> QED BY <4>4, <4>8 DEF Abs!CutsHole, more, before
    <3> QED BY <2>1, <3>2, <3>3 DEF Abs!Munmap
  <2>4. CASE r.ret = 0
    <3>1. \A page \in Int : \A f : Has(list', page, f) <=> Has(list, page, f) /\ ~(addr <= page /\ page < addr + n)
      BY <2>1, <2>2, <2>4 DEF UnmapResult
    <3>3. ASSUME NEW p \in Pages
          PROVE  then(p) = IF addr <= p /\ p < addr + n THEN 0 ELSE now(p)
      <4>1. CASE addr <= p /\ p < addr + n
        <5>1. \A f : ~Has(list', p, f)
          BY <1>p, <3>1, <4>1
        <5> QED BY <1>p, <4>1, <5>1, SameProt
      <4>2. CASE ~(addr <= p /\ p < addr + n)
        <5>1. \A f : Has(list', p, f) <=> Has(list, p, f)
          BY <1>p, <3>1, <4>2
        <5> QED BY <1>p, <4>2, <5>1, SameProt
      <4> QED BY <4>1, <4>2
    <3>4. PageProt' = Abs!Given(addr, length, 0)
      BY <1>p, <1>t, <2>r, <3>3 DEF Abs!Given, PageProt
    <3> QED BY <2>1, <2>4, <3>4 DEF Abs!Munmap
  <2> QED BY <2>3, <2>4
<1>3. ASSUME NEW addr \in Addresses \ {0}, NEW length \in ProtLengths, NEW prot \in Prots,
             Mprotect(addr, length, prot)
      PROVE  Abs!Mprotect(addr, length, prot)
  <2> DEFINE r == vm_area_mprotect(list, addr, length, prot)
             n == PagesOf(length)
  <2>1. /\ list' = r.areas /\ addr \in Nat /\ length \in Nat
        /\ call' = <<"mprotect", addr, length, prot>> /\ ret' = r.ret
        /\ r = vm_area_mprotect(list, addr, length, prot) /\ n = PagesOf(length)
    BY <1>3, Arguments DEF Mprotect, Returns
  <2>n. n \in Nat /\ (length = 0 => n = 0)
    BY <2>1, Rounded
  <2> HIDE DEF r, n
  <2>2. ProtectResult(list, addr, length, prot, r)
    BY <2>1, ProtectRight
  <2>r. /\ Abs!Range(addr, length) \subseteq Int
        /\ \A p \in Int : p \in Abs!Range(addr, length) <=> addr <= p /\ p < addr + n
    BY <1>r, <2>1
  <2>3. CASE r.ret # 0
    <3>1. list' = list /\ r.ret = -1
      BY <2>1, <2>2, <2>3 DEF ProtectResult
    <3>2. Abs!Fails
      BY <1>s, <2>1, <3>1 DEF Abs!Fails
    <3> QED BY <2>1, <3>2 DEF Abs!Mprotect
  <2>4. CASE r.ret = 0
    <3>1. /\ \A page \in Int : \A f :
               Has(list', page, f) <=> IF addr <= page /\ page < addr + n
                                       THEN f = prot /\ \E q : Has(list, page, q) ELSE Has(list, page, f)
          /\ START <= addr /\ EndsInside(addr, length)
      BY <2>1, <2>2, <2>4 DEF ProtectResult
    <3>2. length # 0 => addr + n <= END
      BY <2>1, <3>1, Inside
    <3>3. ASSUME NEW p \in Pages
          PROVE  then(p) = IF addr <= p /\ p < addr + n /\ now(p) # 0 THEN prot ELSE now(p)
      <4>1. CASE addr <= p /\ p < addr + n
        <5>1. \A f : Has(list', p, f) <=> f = prot /\ \E q : Has(list, p, q)
          BY <1>p, <3>1, <4>1
        <5>2. /\ \A f : Has(list, p, f) => now(p) = f /\ f # 0
              /\ now(p) # 0 => Has(list, p, now(p))
          BY <1>p, ProtHas
        <5>3. /\ \A f : Has(list', p, f) => then(p) = f /\ f # 0
              /\ then(p) # 0 => Has(list', p, then(p))
          BY <1>p, ProtHas
        <5> QED BY <4>1, <5>1, <5>2, <5>3
      <4>2. CASE ~(addr <= p /\ p < addr + n)
        <5>1. \A f : Has(list', p, f) <=> Has(list, p, f)
          BY <1>p, <3>1, <4>2
        <5> QED BY <1>p, <4>2, <5>1, SameProt
      <4> QED BY <4>1, <4>2
    <3>4. Abs!Range(addr, length) \subseteq Pages
      <4>1. ASSUME NEW p \in Int, addr <= p, p < addr + n PROVE p \in Pages
        BY <1>n, <1>b, <2>1, <2>n, <3>1, <3>2, <4>1
      <4> QED BY <2>r, <4>1
    <3>5. \A p \in Pages : Abs!Given(addr, length, prot)[p] = IF addr <= p /\ p < addr + n THEN prot ELSE now(p)
      BY <1>p, <1>t, <2>r DEF Abs!Given
    <3>6. PageProt' = [p \in Pages |-> IF PageProt[p] = 0 THEN 0 ELSE Abs!Given(addr, length, prot)[p]]
      BY <1>t, <3>3, <3>5 DEF PageProt
    <3> QED BY <2>1, <2>4, <3>4, <3>6 DEF Abs!Mprotect
  <2> QED BY <2>3, <2>4
<1>4. CASE UNCHANGED areaVars
  BY <1>4 DEF areaVars, PageProt, Abs!vars
<1> QED BY <1>1, <1>2, <1>3, <1>4 DEF AreaNext, Abs!Next

\* Call by call the list of areas is the address space that AddressSpace
\* promises a process: no mmap maps a page that is mapped, a munmap or mprotect
\* that succeeds changes the mapped pages of its own range and no other, and a
\* call that fails changes nothing.
THEOREM ListImplementsAddressSpace == AreaSpec => Refinement
<1>1. AreaInit => Abs!Init
  <2>1. ASSUME AreaInit, NEW p \in Pages PROVE ProtOf(list, p) = 0
    <3>1. Owners(list, p) = {}
      BY <2>1 DEF AreaInit, Owners
    <3> QED BY <3>1 DEF ProtOf
  <2> QED BY <2>1 DEF AreaInit, Abs!Init, PageProt
<1>2. Sorted(list) /\ Sorted(list)' /\ [AreaNext]_areaVars => [Abs!Next]_(Abs!vars)
  BY PageStep
<1> QED BY <1>1, <1>2, ListWellFormed, PTL DEF AreaSpec, Refinement, Abs!Spec

-----------------------------------------------------------------------------
(***************************************************************************)
(* Processes and page tables                                                *)
(***************************************************************************)
\* What the assumptions on the constants say of slots and pages.
LEMMA CowFacts ==
  /\ Slots \subseteq Nat \ {0} /\ Slots \subseteq 0 .. MAX_PROCESSES - 1 /\ IsFiniteSet(Slots)
  /\ Spaces = Slots /\ 1 \in Slots
  /\ DataEnd \in Nat /\ START \in Nat /\ END \in Nat
  /\ AllPages \subseteq Nat /\ IsFiniteSet(AllPages) /\ DataPages \cap Pages = {}
  /\ \A page \in Int : (page \in DataPages <=> 1 <= page /\ page <= DataEnd)
                       /\ (page \in Pages <=> START <= page /\ page < END)
  /\ AllPages = DataPages \cup Pages /\ DataEnd < START
  /\ NoFrame \notin Frames /\ NoValue \notin Values
<1>1. /\ MAX_PROCESSES \in Nat \ {0, 1} /\ NoFrame \notin Frames /\ DataEnd \in 0 .. START - 1
      /\ NoValue \notin Values /\ START \in Nat \ {0} /\ END \in Nat
  BY CowAssumption, AreaAssumption
<1>2. IsFiniteSet(Slots) /\ IsFiniteSet(DataPages) /\ IsFiniteSet(Pages)
  BY <1>1, FS_Interval DEF Slots, DataPages, Pages
<1>3. IsFiniteSet(AllPages)
  BY <1>2, FS_Union DEF AllPages
<1> QED BY <1>1, <1>2, <1>3 DEF Slots, Spaces, DataPages, Pages, AllPages

\* A slot found unused is one, and no other slot names the page table it gets.
LEMMA NewProcess ==
  ASSUME pgd \in [Slots -> {0} \cup Spaces], Unused # {}
  PROVE  /\ NewCtx \in Slots /\ state[NewCtx] = "UNUSED" /\ NewCtx \notin Live
         /\ NewPgd \in Spaces /\ \A q \in Slots : q # NewCtx => pgd[q] # NewPgd
<1>1. NewCtx \in Unused
  BY CowFacts, MinOf DEF NewCtx, Unused
<1>2. NewCtx \in Slots /\ state[NewCtx] = "UNUSED" /\ NewCtx \notin Live
  BY <1>1 DEF Unused, Live
<1> DEFINE others == Slots \ {NewCtx}
           G == {g \in Spaces : \A q \in others : pgd[q] # g}
           user == [g \in Spaces |-> CHOOSE q \in others : pgd[q] = g]
<1>3. ASSUME G = {} PROVE FALSE
  <2>1. \A g \in Spaces : \E q \in others : pgd[q] = g
    BY <1>3
  <2>2. \A g \in Spaces : user[g] \in others /\ pgd[user[g]] = g
    BY <2>1
  <2>3. user \in [Spaces -> others]
    BY <2>2
  <2>4. IsFiniteSet(Spaces) /\ Cardinality(Spaces) \in Nat
    BY CowFacts, FS_CardinalityType
  <2>5. IsFiniteSet(others) /\ Cardinality(others) = Cardinality(Spaces) - 1
    BY <1>2, <2>4, CowFacts, FS_RemoveElement
  <2>6. Cardinality(others) < Cardinality(Spaces)
    BY <2>4, <2>5
  <2> HIDE DEF others, user
  <2>7. \E x, y \in Spaces : x # y /\ user[x] = user[y]
    BY <2>3, <2>4, <2>5, <2>6, FS_PigeonHole
  <2> QED BY <2>2, <2>7
<1>4. G \in SUBSET Nat /\ NewPgd = Min(G)
  BY CowFacts DEF NewPgd
<1>5. NewPgd \in G
  BY <1>3, <1>4, MinOf
<1> QED BY <1>2, <1>5

\* Leaf tables: every entry is absent or names a frame.
Mapping == [pfn : Frames, rw : BOOLEAN]
Tables  == [AllPages -> {Absent} \cup Mapping]

\* An entry that is there names a frame; one that is not cannot be written.
LEMMA EntryIs ==
  ASSUME NEW t \in Tables, NEW page \in AllPages
  PROVE  /\ \/ t[page] = Absent /\ t[page].pfn = NoFrame /\ t[page].pfn \notin Frames /\ ~t[page].rw
            \/ t[page] # Absent /\ t[page] \in Mapping /\ t[page].pfn \in Frames /\ t[page].rw \in BOOLEAN
         /\ t[page] = [pfn |-> t[page].pfn, rw |-> t[page].rw]
<1>1. Absent.pfn = NoFrame /\ Absent.rw = FALSE /\ NoFrame \notin Frames /\ Absent = [pfn |-> Absent.pfn, rw |-> Absent.rw]
  BY CowFacts DEF Absent
<1>2. CASE t[page] = Absent
  BY <1>1, <1>2
<1>3. CASE t[page] \in Mapping
  <2>1. t[page].pfn \in Frames /\ t[page].rw \in BOOLEAN /\ t[page] = [pfn |-> t[page].pfn, rw |-> t[page].rw]
    BY <1>3 DEF Mapping
  <2>2. t[page] # Absent
    BY <1>1, <2>1
  <2> QED BY <1>3, <2>1, <2>2
<1> QED BY <1>2, <1>3 DEF Tables

\* Tables are what the type invariant asks for; the empty one is a table.
LEMMA TableType ==
  /\ Tables \subseteq [AllPages -> [pfn : {NoFrame} \cup Frames, rw : BOOLEAN]]
  /\ EmptyTable \in Tables
  /\ \A page \in AllPages : EmptyTable[page] = Absent
<1> DEFINE E == [pfn : {NoFrame} \cup Frames, rw : BOOLEAN]
<1>a. Absent \in E
  BY DEF Absent
<1>b. ASSUME NEW e \in Mapping PROVE e \in E
  <2>1. e = [pfn |-> e.pfn, rw |-> e.rw] /\ e.pfn \in Frames /\ e.rw \in BOOLEAN
    BY <1>b DEF Mapping
  <2> QED BY <2>1
<1>1. \A e \in {Absent} \cup Mapping : e \in E
  BY <1>a, <1>b
<1>2. {Absent} \cup Mapping \subseteq [pfn : {NoFrame} \cup Frames, rw : BOOLEAN]
  BY <1>1
<1>3. ASSUME NEW D, NEW A, NEW B, A \subseteq B PROVE [D -> A] \subseteq [D -> B]
  BY <1>3
<1> QED BY <1>2, <1>3 DEF Tables, EmptyTable

\* An entry for a frame.
LEMMA MappingIs ==
  ASSUME NEW f \in Frames, NEW rw \in BOOLEAN
  PROVE  /\ [pfn |-> f, rw |-> rw] \in Mapping /\ [pfn |-> f, rw |-> rw] # Absent
         /\ [pfn |-> f, rw |-> rw].pfn = f /\ [pfn |-> f, rw |-> rw].rw = rw
BY CowFacts DEF Mapping, Absent

\* A table shows only pages that the data segment, up to n, or an area of l has.
Covers(t, l, n) == \A page \in AllPages : t[page] # Absent => (page \in DataPages /\ page < n) \/ ProtOf(l, page) # 0

\* A table lets programs write only where the data segment or an area does.
Obeys(t, l, n) == \A page \in AllPages : t[page].rw => IF page \in DataPages THEN page < n ELSE Writable(ProtOf(l, page))

\* What mmap, munmap, mprotect, expand, shrink, stores and faults may leave
\* of a process: a table, areas and a data segment that fit together.
Fit(t, l, n) == t \in Tables /\ Sorted(l) /\ n \in 1 .. DataEnd + 1 /\ Covers(t, l, n)

FrameType == /\ bitmap \subseteq Frames /\ refcount \in [Frames -> 0 .. 255]
             /\ mem \in [Frames -> Values \cup {NoValue}]

\* Processes that run have page tables of their own (the parent of a vfork
\* child waits), and their tables fit their areas and data segments.
MemInv ==
  /\ state \in [Slots -> {"UNUSED", "READY", "WAITING"}]
  /\ ppid \in [Slots -> 0 .. MAX_PROCESSES - 1] /\ pgd \in [Slots -> {0} \cup Spaces]
  /\ areas \in [Slots -> Seq(vm_area)] /\ next_free \in [Slots -> 1 .. DataEnd + 1]
  /\ pte \in [Spaces -> Tables]
  /\ FrameType
  /\ \A p \in Slots : state[p] # "UNUSED" => pgd[p] \in Spaces
  /\ \A p \in Slots : Sorted(areas[p])
  /\ \A p, q \in Slots : state[p] = "READY" /\ state[q] = "READY" /\ p # q => pgd[p] # pgd[q]
  /\ \A p \in Slots : state[p] = "READY" => Covers(pte[pgd[p]], areas[p], next_free[p])

\* It is what the run checks of mappings.
LEMMA MemMapped == MemInv => PresentOnlyMapped
<1> SUFFICES ASSUME MemInv PROVE PresentOnlyMapped
  OBVIOUS
<1>1. pte \in [Spaces -> [AllPages -> [pfn : {NoFrame} \cup Frames, rw : BOOLEAN]]]
  <2>1. ASSUME NEW A, NEW B, A \subseteq B PROVE [Spaces -> A] \subseteq [Spaces -> B]
    BY <2>1
  <2> QED BY <2>1, TableType DEF MemInv
<1>2. TypeOK
  BY <1>1 DEF MemInv, TypeOK, FrameType
<1>3. ASSUME NEW p \in Live, state[p] = "READY", NEW page \in Present(p) PROVE Covered(p, page)
  BY <1>3 DEF MemInv, Live, Present, Entries, Covers, Covered
<1> QED BY <1>2, <1>3 DEF PresentOnlyMapped

\* A step of process p that schedules nothing: its new table, areas and segment.
Own(p, t, l, n) ==
  /\ p \in Running /\ UNCHANGED <<state, ppid, pgd>>
  /\ areas' = [areas EXCEPT ![p] = l] /\ next_free' = [next_free EXCEPT ![p] = n]
  /\ pte' = [pte EXCEPT ![pgd[p]] = t]

\* Such a step keeps the invariant: no other process runs on that table.
LEMMA OwnKeeps ==
  ASSUME MemInv, NEW p, NEW t, NEW l, NEW n, Own(p, t, l, n), Fit(t, l, n), FrameType'
  PROVE  MemInv'
<1>1. p \in Slots /\ state[p] = "READY" /\ pgd[p] \in Spaces /\ l \in Seq(vm_area)
  BY DEF MemInv, Own, Running, Fit, Sorted
<1>2. /\ state' = state /\ ppid' = ppid /\ pgd' = pgd
      /\ areas' \in [Slots -> Seq(vm_area)] /\ areas'[p] = l /\ \A q \in Slots \ {p} : areas'[q] = areas[q]
      /\ next_free' \in [Slots -> 1 .. DataEnd + 1] /\ next_free'[p] = n
      /\ \A q \in Slots \ {p} : next_free'[q] = next_free[q]
      /\ pte' \in [Spaces -> Tables] /\ pte'[pgd[p]] = t /\ \A s \in Spaces \ {pgd[p]} : pte'[s] = pte[s]
  BY <1>1 DEF MemInv, Own, Fit
<1>3. \A q \in Slots : Sorted(areas'[q])
  BY <1>2 DEF MemInv, Fit
<1>4. ASSUME NEW q \in Slots, state[q] = "READY" PROVE Covers(pte'[pgd'[q]], areas'[q], next_free'[q])
  <2>1. CASE q = p
    BY <1>2, <2>1 DEF Fit
  <2>2. CASE q # p
    <3>1. pgd[q] # pgd[p] /\ pgd[q] \in Spaces
      BY <1>1, <1>4, <2>2 DEF MemInv
    <3>2. pte'[pgd'[q]] = pte[pgd[q]] /\ areas'[q] = areas[q] /\ next_free'[q] = next_free[q]
      BY <1>2, <2>2, <3>1
    <3> QED BY <1>4, <3>2 DEF MemInv
  <2> QED BY <2>1, <2>2
<1> QED BY <1>2, <1>3, <1>4 DEF MemInv

\* The state of a running process.
LEMMA RunningIs ==
  ASSUME MemInv, NEW p \in Running
  PROVE  /\ p \in Slots /\ state[p] = "READY" /\ pgd[p] \in Spaces /\ pgd[p] # 0
         /\ Entries(p) \in Tables /\ Fit(Entries(p), areas[p], next_free[p])
         /\ next_free[p] \in Nat /\ next_free[p] \in 1 .. DataEnd + 1
<1>1. p \in Slots /\ state[p] = "READY" /\ pgd[p] \in Spaces /\ pgd[p] # 0
  BY CowFacts DEF MemInv, Running
<1>2. next_free[p] \in 1 .. DataEnd + 1
  BY <1>1 DEF MemInv
<1>3. next_free[p] \in Nat
  BY <1>2, CowFacts
<1>4. Entries(p) = pte[pgd[p]]
  BY DEF Entries
<1>5. Entries(p) \in Tables
  BY <1>1, <1>4 DEF MemInv
<1>6. Sorted(areas[p]) /\ Covers(Entries(p), areas[p], next_free[p])
  BY <1>1, <1>4 DEF MemInv
<1>7. Fit(Entries(p), areas[p], next_free[p])
  BY <1>2, <1>5, <1>6 DEF Fit
<1> QED BY <1>1, <1>2, <1>3, <1>5, <1>7

\* What is unchanged for a process can be written as a step of it.
LEMMA Same ==
  ASSUME MemInv, NEW p \in Running
  PROVE  /\ areas = [areas EXCEPT ![p] = areas[p]]
         /\ next_free = [next_free EXCEPT ![p] = next_free[p]]
         /\ pte = [pte EXCEPT ![pgd[p]] = Entries(p)]
BY RunningIs DEF MemInv, Entries

-----------------------------------------------------------------------------
(***************************************************************************)
(* What the operations on frames leave                                      *)
(***************************************************************************)
\* A u8.
LEMMA Byte ==
  ASSUME NEW n \in Int
  PROVE  U8(n) \in 0 .. 255 /\ (0 <= n /\ n <= 255 => U8(n) = n)
BY DEF U8

\* Contents after a step.
LEMMA ContentsAre ==
  ASSUME NEW m \in [Frames -> Values \cup {NoValue}], Contents(m)
  PROVE  mem' \in [Frames -> Values \cup {NoValue}]
<1>1. \A f \in Frames : mem'[f] \in Values \cup {NoValue}
  <2>1. ASSUME NEW f \in Frames PROVE mem'[f] \in Values \cup {NoValue}
    <3>1. mem'[f] = NoValue \/ mem'[f] = m[f]
      BY DEF Contents
    <3> QED BY <3>1
  <2> QED BY <2>1
<1>2. mem' = [f \in Frames |-> mem'[f]]
  BY DEF Contents
<1> QED BY <1>1, <1>2

\* A table with new frames for some pages, and one with pages taken out.
Filled(t, pages, new, rw) ==
  [q \in AllPages |-> IF q \in pages THEN [pfn |-> new[q], rw |-> rw] ELSE t[q]]
Cleared(t, pages) == [q \in AllPages |-> IF q \in pages THEN Absent ELSE t[q]]

\* They are tables.
LEMMA Rewritten ==
  ASSUME NEW t \in Tables
  PROVE  /\ \A pages : Cleared(t, pages) \in Tables
         /\ \A pages : \A rw \in BOOLEAN : \A new \in [pages -> Frames] : Filled(t, pages, new, rw) \in Tables
<1>1. ASSUME NEW pages PROVE Cleared(t, pages) \in Tables
  BY DEF Cleared, Tables
<1>2. ASSUME NEW pages, NEW rw \in BOOLEAN, NEW new \in [pages -> Frames] PROVE Filled(t, pages, new, rw) \in Tables
  <2>1. ASSUME NEW q \in AllPages PROVE Filled(t, pages, new, rw)[q] \in {Absent} \cup Mapping
    <3>1. q \in pages => [pfn |-> new[q], rw |-> rw] \in Mapping
      BY MappingIs
    <3> QED BY <3>1 DEF Filled, Tables
  <2> QED BY <2>1 DEF Filled, Tables
<1> QED BY <1>1, <1>2

\* New frames: free ones, each with one page, and counted once.
NewFrames(pages, new) ==
  /\ new \in [pages -> Frames] /\ \A q \in pages : new[q] \notin bitmap
  /\ \A q, q2 \in pages : new[q] = new[q2] => q = q2
  /\ bitmap' = bitmap \cup {new[q] : q \in pages}
  /\ refcount' = [f \in Frames |-> IF f \in {new[q] : q \in pages} THEN 1 ELSE refcount[f]]

\* Installing pages fills the table of the process with new frames.
LEMMA InstallIs ==
  ASSUME MemInv, NEW p \in Running, NEW pages, NEW rw \in BOOLEAN, Install(p, pages, rw)
  PROVE  \E new : /\ NewFrames(pages, new) /\ Filled(Entries(p), pages, new, rw) \in Tables
                  /\ pte' = [pte EXCEPT ![pgd[p]] = Filled(Entries(p), pages, new, rw)]
                  /\ FrameType'
<1>1. PICK new \in Injection(pages, Free), v \in [pages -> Values] :
             /\ os_pfn_alloc(Range(new))
             /\ pte' = [pte EXCEPT ![pgd[p]] = [q \in AllPages |->
                          IF q \in pages THEN [pfn |-> new[q], rw |-> rw] ELSE @[q]]]
             /\ Contents([f \in Frames |-> IF f \in Range(new) THEN v[CHOOSE q \in pages : new[q] = f]
                                                               ELSE mem[f]])
  BY DEF Install
<1>2. new \in [pages -> Free] /\ \A q, q2 \in pages : new[q] = new[q2] => q = q2
  BY DEF Injection, IsInjective
<1>3. Range(new) = {new[q] : q \in pages}
  BY <1>2 DEF Range
<1>4. /\ pgd[p] \in Spaces /\ Entries(p) = pte[pgd[p]] /\ Entries(p) \in Tables
      /\ bitmap \subseteq Frames /\ refcount \in [Frames -> 0 .. 255] /\ mem \in [Frames -> Values \cup {NoValue}]
  BY RunningIs DEF MemInv, FrameType, Entries
<1>5. new \in [pages -> Frames] /\ \A q \in pages : new[q] \notin bitmap
  BY <1>2 DEF Free
<1>6. NewFrames(pages, new)
  BY <1>1, <1>2, <1>3, <1>5 DEF NewFrames, os_pfn_alloc
<1>7. pte' = [pte EXCEPT ![pgd[p]] = Filled(Entries(p), pages, new, rw)]
  BY <1>1, <1>4 DEF Filled
<1>8. Filled(Entries(p), pages, new, rw) \in Tables
  BY <1>4, <1>5, Rewritten
<1>9. bitmap' \subseteq Frames /\ refcount' \in [Frames -> 0 .. 255]
  BY <1>4, <1>5, <1>6 DEF NewFrames
<1>10. mem' \in [Frames -> Values \cup {NoValue}]
  <2> DEFINE m == [f \in Frames |-> IF f \in Range(new) THEN v[CHOOSE q \in pages : new[q] = f] ELSE mem[f]]
  <2>1. ASSUME NEW f \in Frames PROVE m[f] \in Values \cup {NoValue}
    <3>1. f \in Range(new) => \E q \in pages : new[q] = f
      BY <1>3
    <3>2. f \in Range(new) => (CHOOSE q \in pages : new[q] = f) \in pages
      BY <3>1
    <3> QED BY <3>2, <1>4
  <2>2. m \in [Frames -> Values \cup {NoValue}]
    BY <2>1
  <2>3. Contents(m)
    BY <1>1
  <2> HIDE DEF m
  <2> QED BY <2>2, <2>3, ContentsAre
<1> QED BY <1>6, <1>7, <1>8, <1>9, <1>10 DEF FrameType

\* Taking pages out counts their frames down.
Dropped(t, pages) ==
  LET gone == {t[page].pfn : page \in {q \in pages \cap AllPages : t[q] # Absent}}
  IN  /\ bitmap' = bitmap \ {f \in gone : refcount[f] = 1}
      /\ refcount' = [f \in Frames |-> IF f \in gone THEN U8(refcount[f] - 1) ELSE refcount[f]]

\* pfn_unmap does that and clears the entries.
LEMMA UnmapIs ==
  ASSUME MemInv, NEW p \in Running, NEW pages, pfn_unmap(p, pages)
  PROVE  /\ Dropped(Entries(p), pages) /\ Cleared(Entries(p), pages) \in Tables
         /\ pte' = [pte EXCEPT ![pgd[p]] = Cleared(Entries(p), pages)]
         /\ FrameType'
<1>1. /\ pgd[p] \in Spaces /\ Entries(p) = pte[pgd[p]] /\ Entries(p) \in Tables
      /\ bitmap \subseteq Frames /\ refcount \in [Frames -> 0 .. 255] /\ mem \in [Frames -> Values \cup {NoValue}]
  BY RunningIs DEF MemInv, FrameType, Entries
<1>2. pages \cap Present(p) = {q \in pages \cap AllPages : Entries(p)[q] # Absent}
  BY DEF Present
<1>3. Dropped(Entries(p), pages)
  BY <1>2 DEF pfn_unmap, Dropped
<1>4. Cleared(Entries(p), pages) \in Tables
  BY <1>1, Rewritten
<1>5. pte' = [pte EXCEPT ![pgd[p]] = Cleared(Entries(p), pages)]
  BY <1>1 DEF pfn_unmap, Cleared
<1>6. bitmap' \subseteq Frames
  BY <1>1, <1>3 DEF Dropped
<1>7. refcount' \in [Frames -> 0 .. 255]
  <2>1. \A f \in Frames : refcount[f] - 1 \in Int
    BY <1>1
  <2>2. \A f \in Frames : U8(refcount[f] - 1) \in 0 .. 255
    BY <2>1, Byte
  <2> QED BY <1>1, <1>3, <2>2 DEF Dropped
<1>8. mem' \in [Frames -> Values \cup {NoValue}]
  BY <1>1, ContentsAre DEF pfn_unmap
<1> QED BY <1>3, <1>4, <1>5, <1>6, <1>7, <1>8 DEF FrameType

\* Freeing frames resets their counts.
Freed(freed) == /\ bitmap' = bitmap \ freed
                /\ refcount' = [f \in Frames |-> IF f \in freed THEN 0 ELSE refcount[f]]

\* They keep their types.
LEMMA FreeIs ==
  ASSUME MemInv, NEW freed, os_pfn_free(freed), Contents(mem)
  PROVE  Freed(freed) /\ FrameType'
<1>1. bitmap \subseteq Frames /\ refcount \in [Frames -> 0 .. 255] /\ mem \in [Frames -> Values \cup {NoValue}]
  BY DEF MemInv, FrameType
<1>2. Freed(freed)
  BY DEF os_pfn_free, Freed
<1>3. bitmap' \subseteq Frames /\ refcount' \in [Frames -> 0 .. 255]
  BY <1>1, <1>2 DEF Freed
<1> QED BY <1>1, <1>2, <1>3, ContentsAre DEF FrameType

-----------------------------------------------------------------------------
(***************************************************************************)
(* Steps of one process on its own table, areas and data segment            *)
(***************************************************************************)
\* Pages with an area are pages of the mmap area.
LEMMA AreaPages ==
  ASSUME NEW s, Sorted(s), NEW page \in Int, NEW f, Has(s, page, f)
  PROVE  page \in Pages /\ page \notin DataPages /\ ProtOf(s, page) = f /\ f # 0
<1>1. PICK i \in 1 .. Len(s) : In(s[i], page) /\ s[i].access_flags = f
  BY DEF Has
<1>2. s[i] \in vm_area
  BY <1>1, Elements
<1>3. page \in Pages
  BY <1>1, <1>2, AreaType, CowFacts DEF In
<1> QED BY <1>3, CowFacts, ProtHas

\* A list that keeps what another has keeps the protections.
LEMMA KeepsProt ==
  ASSUME NEW s, Sorted(s), NEW r, Sorted(r), NEW page \in Int, \A f : Has(s, page, f) => Has(r, page, f)
  PROVE  ProtOf(s, page) # 0 => ProtOf(r, page) = ProtOf(s, page)
BY ProtHas

\* May a process see a page, and write it?
Mapped(l, n, page) == (page \in DataPages /\ page < n) \/ ProtOf(l, page) # 0
MayWrite(l, n, page) == IF page \in DataPages THEN page < n ELSE Writable(ProtOf(l, page))

\* A change of some pages: the others keep their entries and protections.
LEMMA ChangedPages ==
  ASSUME NEW t, NEW l, NEW n, Fit(t, l, n),
         NEW t2 \in Tables, NEW l2, Sorted(l2), NEW n2 \in 1 .. DataEnd + 1, NEW S,
         \A page \in AllPages \ S : /\ t2[page] = t[page]
                                    /\ page \in DataPages /\ page < n => page < n2
                                    /\ ProtOf(l, page) # 0 => ProtOf(l2, page) = ProtOf(l, page),
         \A page \in AllPages \cap S : t2[page] # Absent => Mapped(l2, n2, page)
  PROVE  /\ Fit(t2, l2, n2)
         /\ Obeys(t, l, n) /\ (\A page \in AllPages \cap S : t2[page].rw => MayWrite(l2, n2, page))
              => Obeys(t2, l2, n2)
<1>1. Covers(t2, l2, n2)
  <2> SUFFICES ASSUME NEW page \in AllPages, t2[page] # Absent PROVE Mapped(l2, n2, page)
    BY DEF Covers, Mapped
  <2>1. CASE page \in S
    BY <2>1
  <2>2. CASE page \notin S
    <3>1. Mapped(l, n, page)
      BY <2>2 DEF Fit, Covers, Mapped
    <3> QED BY <2>2, <3>1 DEF Mapped
  <2> QED BY <2>1, <2>2
<1>2. ASSUME Obeys(t, l, n), \A page \in AllPages \cap S : t2[page].rw => MayWrite(l2, n2, page)
      PROVE  Obeys(t2, l2, n2)
  <2> SUFFICES ASSUME NEW page \in AllPages, t2[page].rw PROVE MayWrite(l2, n2, page)
    BY DEF Obeys, MayWrite
  <2>1. CASE page \in S
    BY <1>2, <2>1
  <2>2. CASE page \notin S
    <3>1. MayWrite(l, n, page)
      BY <1>2, <2>2 DEF Obeys, MayWrite
    <3>2. Writable(ProtOf(l, page)) => ProtOf(l, page) # 0
      BY DEF Writable
    <3> QED BY <2>2, <3>1, <3>2 DEF MayWrite
  <2> QED BY <2>1, <2>2
<1> QED BY <1>1, <1>2 DEF Fit

\* A lawful step of a process: table, areas and segment fit, and the table
\* obeys the others if it did.
Lawful(p, t, l, n) ==
  /\ Own(p, t, l, n) /\ Fit(t, l, n) /\ FrameType'
  /\ Obeys(Entries(p), areas[p], next_free[p]) => Obeys(t, l, n)

\* Pages of a run.
LEMMA RunPages ==
  ASSUME NEW at \in Int, NEW n \in Int
  PROVE  \A page \in AllPages : page \in Int /\ (page \in Run(at, n) <=> at <= page /\ page < at + n)
BY CowFacts DEF Run

\* mmap, with and without MAP_POPULATE.
LEMMA MmapOwn ==
  ASSUME MemInv, NEW p \in Slots, NEW addr \in Hints, NEW length \in Lengths, NEW prot \in Prots,
         NEW fixed \in BOOLEAN, NEW populate \in BOOLEAN, mmap(p, addr, length, prot, fixed, populate)
  PROVE  \E t, l : Lawful(p, t, l, next_free[p])
<1> DEFINE r == vm_area_map(areas[p], addr, length, prot, fixed)
           s == areas[p]
           n == PagesOf(length)
           m == next_free[p]
           old == Entries(p)
<1>1. p \in Running
  BY DEF mmap
<1>2. addr \in Nat /\ length \in Nat \ {0} /\ Sorted(s)
  BY <1>1, RunningIs, Arguments, CowAssumption DEF Fit
<1>3. MapResult(s, addr, n, prot, fixed, r)
  BY <1>2, MapRight
<1>4. Fit(old, s, m) /\ old \in Tables /\ m \in 1 .. DataEnd + 1
  BY <1>1, RunningIs
<1>5. areas' = [areas EXCEPT ![p] = r.areas] /\ next_free' = [next_free EXCEPT ![p] = m]
      /\ UNCHANGED <<state, ppid, pgd>>
  BY <1>1, Same DEF mmap
<1>6. /\ r.ret # -1 /\ populate => Install(p, Run(r.ret, n), Writable(prot))
      /\ ~(r.ret # -1 /\ populate) => UNCHANGED <<pte, frames, mem>>
  BY DEF mmap
<1> HIDE DEF r, n
<1>7. Sorted(r.areas) /\ n \in Nat \ {0} /\ r.ret \in Int
  BY <1>3 DEF MapResult
<1>8. ASSUME NEW page \in AllPages PROVE ProtOf(s, page) # 0 => ProtOf(r.areas, page) = ProtOf(s, page)
  <2>1. page \in Int
    BY CowFacts
  <2>2. ASSUME NEW f, Has(s, page, f) PROVE Has(r.areas, page, f)
    <3>1. CASE r.ret = -1
      BY <1>3, <2>2, <3>1 DEF MapResult
    <3>2. CASE r.ret # -1
      <4>1. PICK at : Added(s, r.areas, at, n, prot)
        BY <1>3, <3>2 DEF MapResult
      <4> QED BY <2>1, <2>2, <4>1 DEF Added
    <3> QED BY <3>1, <3>2
  <2> QED BY <1>2, <1>7, <2>1, <2>2, KeepsProt
<1>9. CASE r.ret # -1 /\ populate
  <2>1. Writable(prot) \in BOOLEAN
    BY DEF Writable
  <2>2. PICK new : /\ Filled(old, Run(r.ret, n), new, Writable(prot)) \in Tables
                   /\ pte' = [pte EXCEPT ![pgd[p]] = Filled(old, Run(r.ret, n), new, Writable(prot))]
                   /\ FrameType'
    BY <1>1, <1>6, <1>9, <2>1, InstallIs
  <2> DEFINE t == Filled(old, Run(r.ret, n), new, Writable(prot))
  <2>3. ASSUME NEW page \in AllPages \cap Run(r.ret, n)
        PROVE  /\ ProtOf(r.areas, page) = prot /\ prot # 0 /\ page \notin DataPages
               /\ t[page].rw = Writable(prot)
    <3>1. page \in Int /\ r.ret <= page /\ page < r.ret + n
      BY <1>7, RunPages
    <3>2. Has(r.areas, page, prot)
      BY <1>3, <1>9, <3>1 DEF MapResult
    <3> QED BY <1>7, <3>1, <3>2, AreaPages DEF Filled
  <2>4. \A page \in AllPages \ Run(r.ret, n) : t[page] = old[page]
    BY DEF Filled
  <2>5. t \in Tables /\ pte' = [pte EXCEPT ![pgd[p]] = t]
    BY <2>2
  <2> HIDE DEF t, old, s, m
  <2>6. \A page \in AllPages \cap Run(r.ret, n) : /\ t[page] # Absent => Mapped(r.areas, m, page)
                                                  /\ t[page].rw => MayWrite(r.areas, m, page)
    BY <2>3 DEF Mapped, MayWrite
  <2>7. Fit(t, r.areas, m) /\ (Obeys(old, s, m) => Obeys(t, r.areas, m))
    <3> DEFINE R == Run(r.ret, n)
    <3>1. \A page \in AllPages \ R : t[page] = old[page]
      BY <2>4
    <3>2. \A page \in AllPages \cap R : /\ t[page] # Absent => Mapped(r.areas, m, page)
                                        /\ t[page].rw => MayWrite(r.areas, m, page)
      BY <2>6
    <3> HIDE DEF R, r
    <3> QED BY <1>4, <1>7, <1>8, <2>5, <3>1, <3>2, ChangedPages
  <2> QED BY <1>1, <1>5, <2>2, <2>5, <2>7 DEF Lawful, Own, old, s, m
<1>10. CASE ~(r.ret # -1 /\ populate)
  <2>1. pte' = [pte EXCEPT ![pgd[p]] = old] /\ FrameType'
    BY <1>1, <1>6, <1>10, Same DEF MemInv, FrameType, frames
  <2> HIDE DEF old, s, m
  <2>2. Fit(old, r.areas, m) /\ (Obeys(old, s, m) => Obeys(old, r.areas, m))
    <3> DEFINE S == {}
    <3>1. \A page \in AllPages \cap S : FALSE
      OBVIOUS
    <3> HIDE DEF S
    <3> QED BY <1>4, <1>7, <1>8, <3>1, ChangedPages
  <2> QED BY <1>1, <1>5, <2>1, <2>2 DEF Lawful, Own, old, s, m
<1> QED BY <1>9, <1>10

\* munmap.
LEMMA MunmapOwn ==
  ASSUME MemInv, NEW p \in Slots, NEW addr \in Pages, NEW length \in UnmapLengths, munmap(p, addr, length)
  PROVE  \E t, l : Lawful(p, t, l, next_free[p])
<1> DEFINE r == vm_area_unmap(areas[p], addr, length)
           s == areas[p]
           n == PagesOf(length)
           m == next_free[p]
           old == Entries(p)
           cut == Run(addr, n)
<1>1. p \in Running
  BY DEF munmap
<1>2. addr \in Nat /\ length \in Nat /\ Sorted(s)
  BY <1>1, RunningIs, Arguments DEF Fit
<1>3. UnmapResult(s, addr, length, r) /\ n \in Nat
  BY <1>2, UnmapRight, Rounded
<1>4. Fit(old, s, m) /\ old \in Tables /\ m \in 1 .. DataEnd + 1
  BY <1>1, RunningIs
<1>5. areas' = [areas EXCEPT ![p] = r.areas] /\ next_free' = [next_free EXCEPT ![p] = m]
      /\ UNCHANGED <<state, ppid, pgd>>
  BY <1>1, Same DEF munmap
<1>6. /\ r.ret = 0 /\ s # <<>> => pfn_unmap(p, cut)
      /\ ~(r.ret = 0 /\ s # <<>>) => UNCHANGED <<pte, frames, mem>>
  BY DEF munmap
<1>7. Sorted(r.areas) /\ r.ret \in {-1, 0}
  BY <1>3 DEF UnmapResult
<1>8. ASSUME NEW page \in AllPages, r.ret = -1 \/ s = <<>> \/ page \notin cut
      PROVE  ProtOf(s, page) # 0 => ProtOf(r.areas, page) = ProtOf(s, page)
  <2>1. page \in Int /\ (page \in cut <=> addr <= page /\ page < addr + n)
    BY <1>2, <1>3, RunPages
  <2> HIDE DEF cut, n, r, s
  <2>2. ASSUME NEW f, Has(s, page, f) PROVE Has(r.areas, page, f)
    <3>1. CASE r.ret = -1
      BY <1>3, <2>2, <3>1 DEF UnmapResult
    <3>2. CASE s = <<>>
      BY <2>2, <3>2 DEF Has
    <3>3. CASE r.ret = 0 /\ page \notin cut
      BY <1>3, <2>1, <2>2, <3>3 DEF UnmapResult, n
    <3> QED BY <1>7, <1>8, <3>1, <3>2, <3>3
  <2> QED BY <1>2, <1>7, <2>1, <2>2, KeepsProt
<1>9. CASE r.ret = 0 /\ s # <<>>
  <2> DEFINE t == Cleared(old, cut)
  <2>1. t \in Tables /\ pte' = [pte EXCEPT ![pgd[p]] = t] /\ FrameType'
    BY <1>1, <1>6, <1>9, UnmapIs
  <2>2. \A page \in AllPages \ cut : t[page] = old[page] /\ (ProtOf(s, page) # 0 => ProtOf(r.areas, page) = ProtOf(s, page))
    <3> SUFFICES ASSUME NEW page \in AllPages \ cut
                 PROVE  t[page] = old[page] /\ (ProtOf(s, page) # 0 => ProtOf(r.areas, page) = ProtOf(s, page))
      OBVIOUS
    <3>1. t[page] = old[page]
      BY DEF Cleared
    <3> HIDE DEF t, old, s, r, cut
    <3> QED BY <1>8, <3>1
  <2>3. \A page \in AllPages \cap cut : t[page] = Absent /\ ~t[page].rw
    BY DEF Cleared, Absent
  <2> HIDE DEF t, old, s, m, r, cut
  <2>4. Fit(t, r.areas, m) /\ (Obeys(old, s, m) => Obeys(t, r.areas, m))
    BY <1>4, <1>7, <2>1, <2>2, <2>3, ChangedPages
  <2> QED BY <1>1, <1>5, <2>1, <2>4 DEF Lawful, Own, old, s, m
<1>10. CASE ~(r.ret = 0 /\ s # <<>>)
  <2>1. pte' = [pte EXCEPT ![pgd[p]] = old] /\ FrameType'
    <3>1. UNCHANGED <<pte, frames, mem>>
      BY <1>6, <1>10
    <3>2. pte = [pte EXCEPT ![pgd[p]] = old]
      BY <1>1, Same
    <3>3. pte' = pte /\ bitmap' = bitmap /\ refcount' = refcount /\ mem' = mem
      BY <3>1 DEF frames
    <3> HIDE DEF old, s, m, r, cut
    <3>4. FrameType'
      BY <3>3 DEF MemInv, FrameType
    <3> QED BY <3>2, <3>3, <3>4
  <2>2. r.ret = -1 \/ s = <<>>
    BY <1>7, <1>10
  <2> HIDE DEF old, s, m, r, cut
  <2>3. Fit(old, r.areas, m) /\ (Obeys(old, s, m) => Obeys(old, r.areas, m))
    <3> DEFINE S == {}
    <3>1. \A page \in AllPages \cap S : FALSE
      OBVIOUS
    <3> HIDE DEF S
    <3> QED BY <1>4, <1>7, <1>8, <2>2, <3>1, ChangedPages
  <2> QED BY <1>1, <1>5, <2>1, <2>3 DEF Lawful, Own, old, s, m
<1> QED BY <1>9, <1>10

\* A frame that an entry can write is counted once.
WritersAlone(t) == \A page \in AllPages : t[page].rw => refcount[t[page].pfn] = 1

\* The entry of a page with other rights.
WithRights(t, page, rw) == [t EXCEPT ![page].rw = rw]

\* An entry that is there keeps its frame.
LEMMA RightsOnly ==
  ASSUME NEW t \in Tables, NEW page \in AllPages, t[page] # Absent, NEW rw \in BOOLEAN, NEW u, u = WithRights(t, page, rw)
  PROVE  /\ u \in Tables /\ u[page].rw = rw /\ u[page].pfn = t[page].pfn /\ u[page] # Absent
         /\ \A q \in AllPages \ {page} : u[q] = t[q]
<1>1. t[page].pfn \in Frames /\ t[page] = [pfn |-> t[page].pfn, rw |-> t[page].rw]
  BY EntryIs
<1>2. /\ u = [q \in AllPages |-> IF q = page THEN [pfn |-> t[page].pfn, rw |-> rw] ELSE t[q]]
      /\ \A q \in AllPages : t[q] \in {Absent} \cup Mapping
  <2>1. [t[page] EXCEPT !.rw = rw] = [pfn |-> t[page].pfn, rw |-> rw]
    BY <1>1
  <2>2. u = [t EXCEPT ![page] = [t[page] EXCEPT !.rw = rw]]
    BY DEF WithRights
  <2>3. t \in [AllPages -> {Absent} \cup Mapping]
    BY DEF Tables
  <2> QED BY <2>1, <2>2, <2>3
<1>3. [pfn |-> t[page].pfn, rw |-> rw] \in Mapping /\ [pfn |-> t[page].pfn, rw |-> rw] # Absent
  BY <1>1, MappingIs
<1>4. u \in Tables
  BY <1>2, <1>3 DEF Tables
<1> QED BY <1>2, <1>3, <1>4

\* mprotect.  A table that obeyed obeys still if the range is one page.
LEMMA MprotectOwn ==
  ASSUME MemInv, NEW p \in Slots, NEW addr \in Pages, NEW length \in ProtLengths, NEW prot \in Prots,
         mprotect(p, addr, length, prot)
  PROVE  \E t, l : /\ Own(p, t, l, next_free[p]) /\ Fit(t, l, next_free[p]) /\ FrameType'
                   /\ PagesOf(length) <= 1 /\ WritersAlone(Entries(p)) => Lawful(p, t, l, next_free[p])
<1> DEFINE r == vm_area_mprotect(areas[p], addr, length, prot)
           s == areas[p]
           n == PagesOf(length)
           m == next_free[p]
           old == Entries(p)
           range == Run(addr, n)
           done == r.ret = 0 /\ length # 0
           sole == addr \in Present(p) /\ refcount[old[addr].pfn] = 1
           t == IF done /\ sole THEN WithRights(old, addr, Writable(prot)) ELSE old
<1>1. p \in Running
  BY DEF mprotect
<1>2. addr \in Nat /\ length \in Nat /\ Sorted(s) /\ addr \in AllPages /\ addr \notin DataPages
  BY <1>1, RunningIs, Arguments, CowFacts DEF Fit
<1>3. ProtectResult(s, addr, length, prot, r) /\ n \in Nat /\ (length # 0 => n # 0)
  BY <1>2, ProtectRight, Rounded
<1>4. Fit(old, s, m) /\ old \in Tables /\ m \in 1 .. DataEnd + 1 /\ pgd[p] \in Spaces
  BY <1>1, RunningIs
<1>5. areas' = [areas EXCEPT ![p] = r.areas] /\ next_free' = [next_free EXCEPT ![p] = m]
      /\ UNCHANGED <<state, ppid, pgd>> /\ FrameType'
  BY <1>1, Same DEF mprotect, frames, MemInv, FrameType
<1>6. pte' = [pte EXCEPT ![pgd[p]] = t]
  <2>1. pte = [pte EXCEPT ![pgd[p]] = old] /\ old = pte[pgd[p]]
    BY <1>1, Same DEF Entries
  <2>2. pte' = IF done THEN (IF sole THEN [pte EXCEPT ![pgd[p]][addr].rw = Writable(prot)] ELSE pte) ELSE pte
    BY DEF mprotect, change_permissions
  <2>3. [pte EXCEPT ![pgd[p]][addr].rw = Writable(prot)] = [pte EXCEPT ![pgd[p]] = WithRights(old, addr, Writable(prot))]
    BY <1>4, <2>1 DEF WithRights
  <2> HIDE DEF done, sole
  <2> QED BY <2>1, <2>2, <2>3
<1>7. Sorted(r.areas) /\ r.ret \in {-1, 0}
  BY <1>3 DEF ProtectResult
<1>8. /\ t \in Tables /\ \A page \in AllPages \ {addr} : t[page] = old[page]
      /\ done /\ sole => t[addr].rw = Writable(prot)
      /\ \A page \in AllPages : t[page] # Absent => old[page] # Absent
  <2>1. CASE done /\ sole
    <3>1. old[addr] # Absent /\ Writable(prot) \in BOOLEAN /\ t = WithRights(old, addr, Writable(prot))
      BY <2>1 DEF Present, Writable
    <3> HIDE DEF t, old
    <3> QED BY <1>2, <1>4, <3>1, RightsOnly
  <2>2. CASE ~(done /\ sole)
    BY <1>4, <2>2
  <2> QED BY <2>1, <2>2
<1>9. ~(done /\ sole) => t = old
  OBVIOUS
<1>10. ASSUME NEW page \in AllPages, ~done \/ page \notin range
       PROVE  ProtOf(s, page) # 0 => ProtOf(r.areas, page) = ProtOf(s, page)
  <2>1. page \in Int /\ (page \in range <=> addr <= page /\ page < addr + n)
    BY <1>2, <1>3, RunPages
  <2>2. ~done => r.ret = -1 \/ length = 0
    BY <1>7
  <2> HIDE DEF range, n, r, s, done
  <2>3. CASE r.ret = -1 \/ length = 0
    BY <1>3, <2>3 DEF ProtectResult
  <2>4. CASE r.ret = 0 /\ page \notin range
    <3>1. ASSUME NEW f, Has(s, page, f) PROVE Has(r.areas, page, f)
      BY <1>3, <2>1, <2>4, <3>1 DEF ProtectResult, n
    <3> QED BY <1>2, <1>7, <2>1, <3>1, KeepsProt
  <2> QED BY <1>7, <1>10, <2>2, <2>3, <2>4
<1>11. ASSUME NEW page \in AllPages \cap range, done, old[page] # Absent
       PROVE  ProtOf(r.areas, page) = prot /\ prot # 0 /\ page \notin DataPages
  <2>1. page \in Int /\ addr <= page /\ page < addr + n
    BY <1>2, <1>3, <1>11, RunPages
  <2>2. page \notin DataPages
    BY <1>2, <2>1, CowFacts
  <2>3. ProtOf(s, page) # 0
    BY <1>4, <1>11, <2>2 DEF Fit, Covers
  <2>4. Has(s, page, ProtOf(s, page))
    BY <1>2, <2>1, <2>3, ProtHas
  <2>5. Has(r.areas, page, prot)
    BY <1>3, <1>11, <2>1, <2>4 DEF ProtectResult
  <2> HIDE DEF r
  <2> QED BY <1>7, <2>1, <2>2, <2>5, AreaPages
<1> DEFINE S == IF done THEN range ELSE {}
<1>12. addr \in range \/ ~done
  BY <1>2, <1>3, RunPages
<1>13. \A page \in AllPages \ S : t[page] = old[page] /\ (ProtOf(s, page) # 0 => ProtOf(r.areas, page) = ProtOf(s, page))
  <2> HIDE DEF t, old, s, r, range, done, sole
  <2> QED BY <1>8, <1>9, <1>10, <1>12
<1>14. \A page \in AllPages \cap S : t[page] # Absent => Mapped(r.areas, m, page)
  <2> HIDE DEF t, old, s, r, range, done, sole
  <2> QED BY <1>8, <1>11 DEF Mapped
<1>15. ASSUME n <= 1, WritersAlone(old), NEW page \in AllPages \cap S, t[page].rw
       PROVE  MayWrite(r.areas, m, page)
  <2>1. done
    BY <1>15
  <2>2. page = addr
    <3>1. page \in range /\ page \in AllPages
      BY <1>15
    <3> HIDE DEF n
    <3>2. page \in Int /\ addr <= page /\ page < addr + n
      BY <1>2, <1>3, <3>1, RunPages
    <3> QED BY <1>2, <1>3, <1>15, <3>2
  <2>3. sole
    <3>1. CASE ~sole
      <4>1. t = old
        BY <3>1
      <4>2. old[addr].rw
        BY <1>15, <2>2, <4>1
      <4>3. refcount[old[addr].pfn] = 1 /\ old[addr] # Absent
        BY <1>2, <1>4, <1>15, <4>2, EntryIs DEF WritersAlone
      <4> QED BY <1>2, <3>1, <4>3 DEF Present
    <3> QED BY <3>1
  <2>4. old[page] # Absent /\ t[page].rw = Writable(prot)
    BY <1>8, <2>1, <2>2, <2>3 DEF Present
  <2>5. ProtOf(r.areas, page) = prot /\ page \notin DataPages
    BY <1>11, <1>15, <2>1, <2>4
  <2> HIDE DEF t, r
  <2> QED BY <1>15, <2>4, <2>5 DEF MayWrite
<1> HIDE DEF t, old, s, r, m, range, done, sole, S
<1>16. Fit(t, r.areas, m)
  BY <1>4, <1>7, <1>8, <1>13, <1>14, ChangedPages
<1>17. n <= 1 /\ WritersAlone(old) => (Obeys(old, s, m) => Obeys(t, r.areas, m))
  <2> SUFFICES ASSUME n <= 1, WritersAlone(old) PROVE Obeys(old, s, m) => Obeys(t, r.areas, m)
    OBVIOUS
  <2>1. \A page \in AllPages \cap S : t[page].rw => MayWrite(r.areas, m, page)
    BY <1>15
  <2> QED BY <1>4, <1>7, <1>8, <1>13, <1>14, <2>1, ChangedPages
<1>18. Own(p, t, r.areas, m)
  BY <1>1, <1>5, <1>6 DEF Own
<1> QED BY <1>5, <1>16, <1>17, <1>18 DEF Lawful, old, s, m

\* expand.
LEMMA ExpandOwn ==
  ASSUME MemInv, NEW p \in Slots, NEW size \in 1 .. DataEnd, do_expand(p, size)
  PROVE  Lawful(p, Entries(p), areas[p], next_free[p] + size)
<1> DEFINE m == next_free[p]
           n == next_free[p] + size
           old == Entries(p)
           s == areas[p]
<1>1. p \in Running /\ n <= DataEnd + 1
  BY DEF do_expand
<1>2. Fit(old, s, m) /\ old \in Tables /\ m \in 1 .. DataEnd + 1 /\ Sorted(s) /\ m \in Nat
  BY <1>1, RunningIs DEF Fit
<1>3. n \in 1 .. DataEnd + 1 /\ m <= n
  BY <1>1, <1>2, CowFacts
<1>4. Own(p, old, s, n) /\ FrameType'
  <2>1. next_free' = [next_free EXCEPT ![p] = n]
    BY DEF do_expand
  <2>2. areas' = [areas EXCEPT ![p] = s] /\ pte' = [pte EXCEPT ![pgd[p]] = old]
    BY <1>1, Same DEF do_expand
  <2> QED BY <1>1, <2>1, <2>2 DEF do_expand, Own, frames, MemInv, FrameType
<1>5. \A page \in AllPages : page \in DataPages /\ page < m => page < n
  BY <1>2, <1>3, CowFacts
<1> HIDE DEF m, n, old, s
<1>6. Fit(old, s, n) /\ (Obeys(old, s, m) => Obeys(old, s, n))
  <2> DEFINE S == {}
  <2>1. \A page \in AllPages \cap S : FALSE
    OBVIOUS
  <2> HIDE DEF S
  <2> QED BY <1>2, <1>3, <1>5, <2>1, ChangedPages
<1> QED BY <1>4, <1>6 DEF Lawful, m, n, old, s

\* shrink.
LEMMA ShrinkOwn ==
  ASSUME MemInv, NEW p \in Slots, NEW size \in 1 .. DataEnd, do_shrink(p, size)
  PROVE  /\ Lawful(p, Cleared(Entries(p), LastPages(p, size)), areas[p], next_free[p] - size)
         /\ Freed({Entries(p)[page].pfn : page \in LastPages(p, size)})
         /\ LastPages(p, size) \subseteq DataPages
<1> DEFINE m == next_free[p]
           n == next_free[p] - size
           old == Entries(p)
           s == areas[p]
           last == LastPages(p, size)
           t == Cleared(old, last)
<1>1. p \in Running /\ n >= 1
  BY DEF do_shrink
<1>2. Fit(old, s, m) /\ old \in Tables /\ m \in 1 .. DataEnd + 1 /\ Sorted(s) /\ m \in Nat /\ pgd[p] \in Spaces
  BY <1>1, RunningIs DEF Fit
<1>3. n \in 1 .. DataEnd + 1 /\ n < m /\ n \in Int
  BY <1>1, <1>2, CowFacts
<1>4. \A page \in Int : page \in last <=> n <= page /\ page < m
  BY <1>2, <1>3 DEF LastPages, Run
<1>5. last \subseteq DataPages
  BY <1>2, <1>3, <1>4, CowFacts DEF LastPages, Run
<1>6. t \in Tables
  BY <1>2, Rewritten
<1>7. Own(p, t, s, n)
  <2>1. next_free' = [next_free EXCEPT ![p] = n]
    BY DEF do_shrink
  <2>2. areas' = [areas EXCEPT ![p] = s]
    BY <1>1, Same DEF do_shrink
  <2>3. pte' = [pte EXCEPT ![pgd[p]] = t]
    BY <1>2 DEF do_shrink, do_unmap_user, Cleared, Entries
  <2> QED BY <1>1, <2>1, <2>2, <2>3 DEF do_shrink, Own
<1>8. Freed({old[page].pfn : page \in last}) /\ FrameType'
  BY FreeIs DEF do_shrink, do_unmap_user
<1>9. /\ \A page \in AllPages \ last : t[page] = old[page] /\ (page \in DataPages /\ page < m => page < n)
      /\ \A page \in AllPages \cap last : t[page] = Absent /\ ~t[page].rw
  <2>1. \A page \in AllPages \ last : page \in DataPages /\ page < m => page < n
    BY <1>2, <1>3, <1>4, CowFacts
  <2> QED BY <2>1 DEF Cleared, Absent
<1>10. Fit(t, s, n) /\ (Obeys(old, s, m) => Obeys(t, s, n))
  <2> HIDE DEF t, old, s, m, n, last
  <2> QED BY <1>2, <1>3, <1>6, <1>9, ChangedPages
<1> QED BY <1>5, <1>7, <1>8, <1>10 DEF Lawful

\* A store.
LEMMA StoreOwn ==
  ASSUME MemInv, NEW p \in Slots, NEW page \in AllPages, NEW v \in Values, store(p, page, v)
  PROVE  Lawful(p, Entries(p), areas[p], next_free[p])
<1>1. p \in Running
  BY DEF store
<1>2. Own(p, Entries(p), areas[p], next_free[p])
  BY <1>1, Same DEF store, ctx, Own
<1>3. FrameType'
  BY DEF store, frames, MemInv, FrameType
<1> QED BY <1>1, <1>2, <1>3, RunningIs DEF Lawful

\* The outcomes of a page fault that do not end the process: a new frame ...
Filling(p, page, write) ==
  /\ UNCHANGED ctx /\ Install(p, {page}, write) /\ Entries(p)[page] = Absent
  /\ Mapped(areas[p], next_free[p], page) /\ (write => MayWrite(areas[p], next_free[p], page))

\* ... the right to write for the only sharer ...
Regaining(p, page) ==
  /\ UNCHANGED <<ctx, frames, mem>> /\ Entries(p)[page] # Absent
  /\ MayWrite(areas[p], next_free[p], page) /\ refcount[Entries(p)[page].pfn] = 1
  /\ pte' = [pte EXCEPT ![pgd[p]][page].rw = TRUE]

\* ... or a copy of a shared frame.
Copying(p, page, f) ==
  LET old == Entries(p)[page].pfn
  IN  /\ UNCHANGED ctx /\ Entries(p)[page] # Absent /\ ~Entries(p)[page].rw /\ f \in Free
      /\ MayWrite(areas[p], next_free[p], page) /\ refcount[old] # 1
      /\ bitmap' = bitmap \cup {f}
      /\ refcount' = [refcount EXCEPT ![old] = U8(@ - 1), ![f] = 1]
      /\ pte' = [pte EXCEPT ![pgd[p]][page] = [pfn |-> f, rw |-> TRUE]]
      /\ Contents(CopyOf(old, f))

\* A page fault ends in one of them or in a SIGSEGV.
LEMMA FaultCases ==
  ASSUME MemInv, NEW p \in Slots, NEW page \in AllPages, NEW write \in BOOLEAN, do_page_fault(p, page, write)
  PROVE  /\ p \in Running
         /\ \/ Exit(p) \/ UNCHANGED vars \/ Filling(p, page, write) \/ Regaining(p, page)
            \/ \E f : Copying(p, page, f)
<1>1. p \in Running /\ ~Permits(Entries(p)[page], write) /\ Entries(p) \in Tables /\ page \in Int
  BY RunningIs, CowFacts DEF do_page_fault
<1>2. CowAllowed(p, page) = MayWrite(areas[p], next_free[p], page)
  BY DEF CowAllowed, MayWrite
<1>3. CASE Entries(p)[page] # Absent
  <2>1. ~Entries(p)[page].rw
    BY <1>1, <1>3, EntryIs DEF Permits
  <2>2. handle_cow_fault(p, page)
    BY <1>3 DEF do_page_fault
  <2>3. CASE sig_exit(p)
    BY <1>1, <2>3 DEF sig_exit
  <2>4. CASE ~sig_exit(p)
    BY <1>1, <1>2, <1>3, <2>1, <2>2, <2>4 DEF handle_cow_fault, Regaining, Copying
  <2> QED BY <2>3, <2>4
<1>4. CASE Entries(p)[page] = Absent /\ page \in DataPages
  <2>1. data_fault(p, page, write)
    BY <1>4 DEF do_page_fault
  <2>2. CASE page < next_free[p]
    BY <1>1, <1>4, <2>1, <2>2 DEF data_fault, install_page_table, Filling, Mapped, MayWrite
  <2>3. CASE ~(page < next_free[p])
    BY <1>1, <2>1, <2>3 DEF data_fault, sig_exit
  <2> QED BY <2>2, <2>3
<1>5. CASE Entries(p)[page] = Absent /\ page \notin DataPages
  <2>1. vm_area_pagefault(p, page, write)
    BY <1>5 DEF do_page_fault
  <2>2. CASE ProtOf(areas[p], page) = 0 \/ (write /\ ~Writable(ProtOf(areas[p], page)))
    BY <1>1, <2>1, <2>2 DEF vm_area_pagefault, sig_exit
  <2>3. CASE ~(ProtOf(areas[p], page) = 0 \/ (write /\ ~Writable(ProtOf(areas[p], page))))
    BY <1>1, <1>5, <2>1, <2>3 DEF vm_area_pagefault, install_page_table, Filling, Mapped, MayWrite
  <2> QED BY <2>2, <2>3
<1> QED BY <1>3, <1>4, <1>5

\* A change of one page that a process sees, or that is mapped.
LEMMA OnePage ==
  ASSUME MemInv, NEW p \in Running, UNCHANGED ctx, FrameType', NEW page \in AllPages,
         NEW t \in Tables, pte' = [pte EXCEPT ![pgd[p]] = t],
         \A q \in AllPages \ {page} : t[q] = Entries(p)[q],
         Entries(p)[page] # Absent \/ Mapped(areas[p], next_free[p], page),
         t[page].rw => MayWrite(areas[p], next_free[p], page)
  PROVE  Lawful(p, t, areas[p], next_free[p])
<1> DEFINE old == Entries(p)
           s == areas[p]
           m == next_free[p]
<1>1. Fit(old, s, m) /\ m \in 1 .. DataEnd + 1 /\ Sorted(s)
  BY RunningIs DEF Fit
<1>2. Mapped(s, m, page)
  BY <1>1 DEF Fit, Covers, Mapped
<1>3. Own(p, t, s, m)
  BY Same DEF ctx, Own
<1>4. \A q \in AllPages \ {page} : t[q] = old[q]
  OBVIOUS
<1>5. t[page].rw => MayWrite(s, m, page)
  OBVIOUS
<1> HIDE DEF old, s, m
<1>6. Fit(t, s, m) /\ (Obeys(old, s, m) => Obeys(t, s, m))
  <2> DEFINE S == {page}
  <2>1. \A q \in AllPages \cap S : t[q] # Absent => Mapped(s, m, q)
    BY <1>2
  <2>2. \A q \in AllPages \cap S : t[q].rw => MayWrite(s, m, q)
    BY <1>5
  <2>3. \A q \in AllPages \ S : /\ t[q] = old[q] /\ (q \in DataPages /\ q < m => q < m)
                                /\ ProtOf(s, q) # 0 => ProtOf(s, q) = ProtOf(s, q)
    BY <1>4
  <2> HIDE DEF S
  <2> QED BY <1>1, <2>1, <2>2, <2>3, ChangedPages
<1> QED BY <1>3, <1>6 DEF Lawful, old, s, m

\* The outcomes of a fault.
LEMMA FaultOwn ==
  ASSUME MemInv, NEW p \in Running, NEW page \in AllPages, NEW write \in BOOLEAN,
         Filling(p, page, write) \/ Regaining(p, page) \/ \E f : Copying(p, page, f)
  PROVE  \E t : Lawful(p, t, areas[p], next_free[p])
<1> DEFINE old == Entries(p)
<1>1. /\ pgd[p] \in Spaces /\ old \in Tables /\ old = pte[pgd[p]]
      /\ bitmap \subseteq Frames /\ refcount \in [Frames -> 0 .. 255] /\ mem \in [Frames -> Values \cup {NoValue}]
  BY RunningIs DEF MemInv, FrameType, Entries
<1>2. CASE Filling(p, page, write)
  <2>1. PICK new : /\ Filled(old, {page}, new, write) \in Tables
                   /\ pte' = [pte EXCEPT ![pgd[p]] = Filled(old, {page}, new, write)] /\ FrameType'
    BY <1>2, InstallIs DEF Filling
  <2> DEFINE t == Filled(old, {page}, new, write)
  <2>2. t[page].rw = write /\ \A q \in AllPages \ {page} : t[q] = old[q]
    BY DEF Filled
  <2>3. t \in Tables /\ pte' = [pte EXCEPT ![pgd[p]] = t] /\ FrameType'
    BY <2>1
  <2>4. UNCHANGED ctx /\ Mapped(areas[p], next_free[p], page) /\ (write => MayWrite(areas[p], next_free[p], page))
    BY <1>2 DEF Filling
  <2> HIDE DEF t
  <2>5. Lawful(p, t, areas[p], next_free[p])
    BY <2>2, <2>3, <2>4, OnePage
  <2> QED BY <2>5
<1>3. CASE Regaining(p, page)
  <2> DEFINE t == WithRights(old, page, TRUE)
  <2>1. t \in Tables /\ \A q \in AllPages \ {page} : t[q] = old[q]
    <3>1. old[page] # Absent
      BY <1>3 DEF Regaining
    <3>2. PICK rw \in BOOLEAN : rw = TRUE
      OBVIOUS
    <3>3. t = WithRights(old, page, rw)
      BY <3>2
    <3> HIDE DEF t, old
    <3> QED BY <1>1, <3>1, <3>3, RightsOnly
  <2>2. pte' = [pte EXCEPT ![pgd[p]] = t]
    BY <1>1, <1>3 DEF Regaining, WithRights
  <2>3. UNCHANGED ctx /\ old[page] # Absent /\ MayWrite(areas[p], next_free[p], page) /\ FrameType'
    BY <1>1, <1>3 DEF Regaining, frames, FrameType
  <2> HIDE DEF t
  <2>4. Lawful(p, t, areas[p], next_free[p])
    BY <2>1, <2>2, <2>3, OnePage
  <2> QED BY <2>4
<1>4. CASE \E f : Copying(p, page, f)
  <2>1. PICK f : Copying(p, page, f)
    BY <1>4
  <2> DEFINE t == [old EXCEPT ![page] = [pfn |-> f, rw |-> TRUE]]
             o == old[page].pfn
  <2>2. f \in Frames /\ UNCHANGED ctx /\ old[page] # Absent /\ MayWrite(areas[p], next_free[p], page)
    BY <2>1 DEF Copying, Free
  <2>3. o \in Frames
    BY <1>1, <2>2, EntryIs
  <2>4. t \in Tables /\ \A q \in AllPages \ {page} : t[q] = old[q]
    <3>1. [pfn |-> f, rw |-> TRUE] \in Mapping
      BY <2>2, MappingIs
    <3> QED BY <1>1, <3>1 DEF Tables
  <2>5. pte' = [pte EXCEPT ![pgd[p]] = t]
    BY <1>1, <2>1 DEF Copying
  <2>6. FrameType'
    <3>1. bitmap' \subseteq Frames
      BY <1>1, <2>1, <2>2 DEF Copying
    <3>2. refcount' \in [Frames -> 0 .. 255]
      <4>1. refcount[o] \in 0 .. 255
        BY <1>1, <2>3
      <4>2. refcount[o] - 1 \in Int
        BY <4>1
      <4>3. U8(refcount[o] - 1) \in 0 .. 255
        BY <4>2, Byte
      <4>4. refcount' = [refcount EXCEPT ![o] = U8(refcount[o] - 1), ![f] = 1]
        BY <2>1 DEF Copying
      <4> HIDE DEF o
      <4>5. \A g \in Frames : refcount'[g] \in 0 .. 255
        BY <1>1, <4>3, <4>4
      <4> QED BY <1>1, <4>4, <4>5
    <3>3. CopyOf(o, f) \in [Frames -> Values \cup {NoValue}]
      BY <1>1, <2>2, <2>3 DEF CopyOf
    <3>4. mem' \in [Frames -> Values \cup {NoValue}]
      BY <2>1, <3>3, ContentsAre DEF Copying
    <3> QED BY <3>1, <3>2, <3>4 DEF FrameType
  <2> HIDE DEF t, o
  <2>7. Lawful(p, t, areas[p], next_free[p])
    BY <2>2, <2>4, <2>5, <2>6, OnePage
  <2> QED BY <2>7
<1> QED BY <1>2, <1>3, <1>4

\* Tables let programs write only where segments and areas do.
ObeyInv == \A p \in Slots : state[p] = "READY" => Obeys(pte[pgd[p]], areas[p], next_free[p])

\* A lawful step keeps that for all processes.
LEMMA OwnObeys ==
  ASSUME MemInv, ObeyInv, NEW p, NEW t, NEW l, NEW n, Lawful(p, t, l, n)
  PROVE  ObeyInv'
<1>1. /\ p \in Slots /\ state[p] = "READY" /\ pgd[p] \in Spaces /\ p \in Running
      /\ Own(p, t, l, n) /\ t \in Tables /\ Entries(p) = pte[pgd[p]]
  BY DEF MemInv, Own, Running, Lawful, Fit, Entries
<1>2. Obeys(t, l, n)
  BY <1>1 DEF ObeyInv, Lawful
<1>3. /\ state' = state /\ pgd' = pgd /\ areas'[p] = l /\ \A q \in Slots \ {p} : areas'[q] = areas[q]
      /\ next_free'[p] = n /\ \A q \in Slots \ {p} : next_free'[q] = next_free[q]
      /\ pte'[pgd[p]] = t /\ \A s \in Spaces \ {pgd[p]} : pte'[s] = pte[s]
  BY <1>1 DEF MemInv, Own
<1> SUFFICES ASSUME NEW q \in Slots, state[q] = "READY" PROVE Obeys(pte'[pgd'[q]], areas'[q], next_free'[q])
  BY <1>3 DEF ObeyInv
<1>4. CASE q = p
  BY <1>2, <1>3, <1>4
<1>5. CASE q # p
  <2>1. pgd[q] # pgd[p] /\ pgd[q] \in Spaces
    BY <1>1, <1>5 DEF MemInv
  <2>2. pte'[pgd'[q]] = pte[pgd[q]] /\ areas'[q] = areas[q] /\ next_free'[q] = next_free[q]
    BY <1>3, <1>5, <2>1
  <2> QED BY <2>2 DEF ObeyInv
<1> QED BY <1>4, <1>5

\* A table that shows and grants no more than another.
Weaker(t2, t) == \A page \in AllPages : (t2[page] # Absent => t[page] # Absent) /\ (t2[page].rw => t[page].rw)

\* Processes that run with the areas and segment of one that ran, and a weaker
\* table, or with an empty table.
LEMMA Inherited ==
  ASSUME MemInv,
         \A q \in Slots : state'[q] = "READY" =>
            \/ \A page \in AllPages : pte'[pgd'[q]][page] = Absent
            \/ \E o \in Slots : /\ state[o] = "READY" /\ areas'[q] = areas[o] /\ next_free'[q] = next_free[o]
                                /\ Weaker(pte'[pgd'[q]], pte[pgd[o]])
  PROVE  /\ \A q \in Slots : state'[q] = "READY" => Covers(pte'[pgd'[q]], areas'[q], next_free'[q])
         /\ ObeyInv => ObeyInv'
<1>1. ASSUME NEW q \in Slots, state'[q] = "READY"
      PROVE  Covers(pte'[pgd'[q]], areas'[q], next_free'[q]) /\ (ObeyInv => Obeys(pte'[pgd'[q]], areas'[q], next_free'[q]))
  <2> DEFINE t == pte'[pgd'[q]]
             l == areas'[q]
             n == next_free'[q]
  <2>1. ASSUME \A page \in AllPages : t[page] = Absent PROVE Covers(t, l, n) /\ (ObeyInv => Obeys(t, l, n))
    <3>1. \A page \in AllPages : ~t[page].rw
      BY <2>1 DEF Absent
    <3> HIDE DEF t
    <3> QED BY <2>1, <3>1 DEF Covers, Obeys
  <2>2. ASSUME \E o \in Slots : /\ state[o] = "READY" /\ l = areas[o] /\ n = next_free[o]
                                /\ Weaker(t, pte[pgd[o]])
        PROVE  Covers(t, l, n) /\ (ObeyInv => Obeys(t, l, n))
    <3>1. PICK o \in Slots : /\ state[o] = "READY" /\ l = areas[o] /\ n = next_free[o]
                             /\ Weaker(t, pte[pgd[o]])
      BY <2>2
    <3> DEFINE u == pte[pgd[o]]
    <3>2. Covers(u, l, n) /\ (ObeyInv => Obeys(u, l, n)) /\ Weaker(t, u)
      BY <3>1 DEF MemInv, ObeyInv
    <3> HIDE DEF u, t, l, n
    <3>3. Covers(t, l, n)
      BY <3>2 DEF Covers, Weaker
    <3>4. Obeys(u, l, n) => Obeys(t, l, n)
      BY <3>2 DEF Obeys, Weaker
    <3> QED BY <3>2, <3>3, <3>4 DEF t, l, n
  <2>3. \/ \A page \in AllPages : t[page] = Absent
        \/ \E o \in Slots : /\ state[o] = "READY" /\ l = areas[o] /\ n = next_free[o]
                            /\ Weaker(t, pte[pgd[o]])
    BY <1>1
  <2> HIDE DEF t, l, n
  <2>4. Covers(t, l, n) /\ (ObeyInv => Obeys(t, l, n))
    BY <2>1, <2>2, <2>3
  <2> QED BY <2>4 DEF t, l, n
<1> QED BY <1>1 DEF ObeyInv

\* The two tables cfork leaves.
LEMMA SharedTables ==
  ASSUME MemInv, NEW p \in Running
  PROVE  /\ install_ptable(Entries(p), p) \in Tables /\ install_ptable(EmptyTable, p) \in Tables
         /\ Weaker(install_ptable(Entries(p), p), Entries(p)) /\ Weaker(install_ptable(EmptyTable, p), Entries(p))
         /\ \A page \in Shared(p) : /\ page \in AllPages /\ Entries(p)[page] # Absent /\ Entries(p)[page].pfn \in Frames
                                    /\ [Entries(p)[page] EXCEPT !.rw = FALSE] = [pfn |-> Entries(p)[page].pfn, rw |-> FALSE]
<1> DEFINE old == Entries(p)
<1>1. old \in Tables
  BY RunningIs
<1>2. ASSUME NEW page \in Shared(p)
      PROVE  /\ page \in AllPages /\ old[page] # Absent /\ old[page].pfn \in Frames
             /\ [old[page] EXCEPT !.rw = FALSE] = [pfn |-> old[page].pfn, rw |-> FALSE]
             /\ [pfn |-> old[page].pfn, rw |-> FALSE] \in Mapping
  <2>1. page \in AllPages /\ old[page] # Absent
    BY DEF Shared, Present
  <2>2. old[page].pfn \in Frames /\ old[page] = [pfn |-> old[page].pfn, rw |-> old[page].rw]
    BY <1>1, <2>1, EntryIs
  <2>3. [old[page] EXCEPT !.rw = FALSE] = [pfn |-> old[page].pfn, rw |-> FALSE]
    <3>1. PICK v \in BOOLEAN : v = FALSE
      OBVIOUS
    <3>2. [old[page] EXCEPT !.rw = v] = [pfn |-> old[page].pfn, rw |-> v]
      BY <2>2
    <3> QED BY <3>1, <3>2
  <2>4. [pfn |-> old[page].pfn, rw |-> FALSE] \in Mapping
    BY <2>2 DEF Mapping
  <2> QED BY <2>1, <2>2, <2>3, <2>4
<1>3. ASSUME NEW t \in Tables, \A page \in AllPages : (t[page] # Absent => old[page] # Absent) /\ (t[page].rw => old[page].rw)
      PROVE  install_ptable(t, p) \in Tables /\ Weaker(install_ptable(t, p), old)
  <2> DEFINE u == install_ptable(t, p)
  <2>1. ASSUME NEW page \in AllPages
        PROVE  u[page] \in {Absent} \cup Mapping /\ (u[page] # Absent => old[page] # Absent) /\ (u[page].rw => old[page].rw)
    <3>1. CASE page \in Shared(p)
      <4>1. u[page] = [pfn |-> old[page].pfn, rw |-> FALSE]
        BY <1>2, <3>1 DEF install_ptable
      <4>2. ~u[page].rw
        BY <4>1
      <4> HIDE DEF u, old
      <4> QED BY <1>2, <3>1, <4>1, <4>2
    <3>2. CASE page \notin Shared(p)
      <4>1. u[page] = t[page]
        BY <3>2 DEF install_ptable
      <4> HIDE DEF u, old
      <4> QED BY <1>3, <4>1 DEF Tables
    <3> QED BY <3>1, <3>2
  <2>2. u = [page \in AllPages |-> u[page]]
    BY DEF install_ptable
  <2> HIDE DEF u
  <2> QED BY <2>1, <2>2 DEF Tables, Weaker, u
<1>4. \A page \in AllPages : EmptyTable[page] = Absent /\ ~EmptyTable[page].rw
  BY DEF EmptyTable, Absent
<1>5. install_ptable(old, p) \in Tables /\ Weaker(install_ptable(old, p), old)
  BY <1>1, <1>3
<1>6. install_ptable(EmptyTable, p) \in Tables /\ Weaker(install_ptable(EmptyTable, p), old)
  BY <1>3, <1>4, TableType
<1> QED BY <1>2, <1>5, <1>6

\* cfork.
LEMMA CforkKeeps ==
  ASSUME MemInv, NEW p \in Slots, do_cfork(p)
  PROVE  MemInv' /\ (ObeyInv => ObeyInv')
<1> DEFINE c == NewCtx
           g == NewPgd
           t == install_ptable(Entries(p), p)
           u == install_ptable(EmptyTable, p)
<1>1. p \in Running /\ Unused # {}
  BY DEF do_cfork
<1>2. /\ pgd[p] \in Spaces /\ state[p] = "READY" /\ Entries(p) = pte[pgd[p]] /\ pte \in [Spaces -> Tables]
      /\ \A q \in Slots : state[q] = "READY" => Sorted(areas[q]) /\ pgd[q] \in Spaces
  BY <1>1, RunningIs DEF Entries, MemInv
<1>3. c \in Slots /\ state[c] = "UNUSED" /\ g \in Spaces /\ \A q \in Slots : q # c => pgd[q] # g
  BY <1>1, NewProcess DEF MemInv
<1>4. c # p /\ pgd[p] # g
  BY <1>2, <1>3
<1>5. t \in Tables /\ u \in Tables /\ Weaker(t, Entries(p)) /\ Weaker(u, Entries(p))
  BY <1>1, SharedTables
<1>6. /\ state' = [state EXCEPT ![c] = "READY"] /\ ppid' = [ppid EXCEPT ![c] = p]
      /\ pgd' = [pgd EXCEPT ![c] = g] /\ areas' = [areas EXCEPT ![c] = areas[p]]
      /\ next_free' = [next_free EXCEPT ![c] = next_free[p]]
      /\ pte' = [pte EXCEPT ![pgd[p]] = t, ![g] = u] /\ refcount' = Counted(p)
      /\ bitmap' = bitmap /\ mem' = mem
  BY <1>2 DEF do_cfork, CopyContext, cfork_copy_mm
<1> HIDE DEF c, g, t, u
<1>7. pte'[pgd[p]] = t /\ pte'[g] = u /\ \A s \in Spaces : s # pgd[p] /\ s # g => pte'[s] = pte[s]
  BY <1>2, <1>3, <1>4, <1>6
<1>8. pte' \in [Spaces -> Tables]
  BY <1>2, <1>3, <1>5, <1>6
<1>9. FrameType'
  <2>1. \A f \in Frames : Counted(p)[f] \in 0 .. 255
    <3> SUFFICES ASSUME NEW f \in Frames PROVE Counted(p)[f] \in 0 .. 255
      OBVIOUS
    <3> DEFINE S == {page \in Shared(p) : Entries(p)[page].pfn = f}
    <3>1. S \subseteq AllPages /\ IsFiniteSet(AllPages)
      BY CowFacts DEF Shared, Present
    <3>2. Cardinality(S) \in Nat
      BY <3>1, FS_Subset, FS_CardinalityType
    <3>3. refcount[f] \in 0 .. 255
      BY DEF MemInv, FrameType
    <3> HIDE DEF S
    <3>5. refcount[f] + Cardinality(S) \in Int
      BY <3>2, <3>3
    <3>4. U8(refcount[f] + Cardinality(S)) \in 0 .. 255
      BY <3>5, Byte
    <3> QED BY <3>4 DEF Counted, S
  <2>2. Counted(p) = [f \in Frames |-> Counted(p)[f]]
    BY DEF Counted
  <2>3. Counted(p) \in [Frames -> 0 .. 255]
    BY <2>1, <2>2
  <2> QED BY <1>6, <2>3 DEF MemInv, FrameType
<1>10. ASSUME NEW q \in Slots, state'[q] = "READY"
       PROVE  \E o \in Slots : /\ state[o] = "READY" /\ areas'[q] = areas[o] /\ next_free'[q] = next_free[o]
                               /\ Weaker(pte'[pgd'[q]], pte[pgd[o]])
  <2>1. CASE q = c
    <3>1. areas'[q] = areas[p] /\ next_free'[q] = next_free[p] /\ pgd'[q] = g
      BY <1>3, <1>6, <2>1 DEF MemInv
    <3> QED BY <1>2, <1>5, <1>7, <3>1
  <2>2. CASE q = p
    <3>1. areas'[q] = areas[p] /\ next_free'[q] = next_free[p] /\ pgd'[q] = pgd[p]
      BY <1>3, <1>4, <1>6, <2>2 DEF MemInv
    <3> QED BY <1>2, <1>5, <1>7, <3>1
  <2>3. CASE q # c /\ q # p
    <3>1. areas'[q] = areas[q] /\ next_free'[q] = next_free[q] /\ pgd'[q] = pgd[q] /\ state[q] = "READY"
      BY <1>3, <1>6, <1>10, <2>3 DEF MemInv
    <3>2. pgd[q] # pgd[p] /\ pgd[q] # g /\ pgd[q] \in Spaces
      BY <1>2, <1>3, <2>3, <3>1 DEF MemInv
    <3>3. Weaker(pte'[pgd'[q]], pte[pgd[q]])
      BY <1>7, <3>1, <3>2 DEF Weaker
    <3> QED BY <3>1, <3>3
  <2> QED BY <2>1, <2>2, <2>3
<1>11. /\ \A q \in Slots : state'[q] = "READY" => Covers(pte'[pgd'[q]], areas'[q], next_free'[q])
       /\ ObeyInv => ObeyInv'
  BY <1>10, Inherited
<1>12. /\ state' \in [Slots -> {"UNUSED", "READY", "WAITING"}]
       /\ ppid' \in [Slots -> 0 .. MAX_PROCESSES - 1] /\ pgd' \in [Slots -> {0} \cup Spaces]
       /\ areas' \in [Slots -> Seq(vm_area)] /\ next_free' \in [Slots -> 1 .. DataEnd + 1]
  BY <1>3, <1>6, CowFacts DEF MemInv
<1>13. \A q \in Slots : Sorted(areas'[q]) /\ (state'[q] # "UNUSED" => pgd'[q] \in Spaces)
  BY <1>3, <1>6 DEF MemInv
<1>14. \A q, o \in Slots : state'[q] = "READY" /\ state'[o] = "READY" /\ q # o => pgd'[q] # pgd'[o]
  BY <1>3, <1>6 DEF MemInv
<1> QED BY <1>8, <1>9, <1>11, <1>12, <1>13, <1>14 DEF MemInv

\* vfork.
LEMMA VforkKeeps ==
  ASSUME MemInv, NEW p \in Slots, do_vfork(p)
  PROVE  MemInv' /\ (ObeyInv => ObeyInv')
<1> DEFINE c == NewCtx
<1>1. p \in Running /\ Unused # {}
  BY DEF do_vfork
<1>2. pgd[p] \in Spaces /\ state[p] = "READY"
  BY <1>1, RunningIs
<1>3. c \in Slots /\ state[c] = "UNUSED"
  BY <1>1, NewProcess DEF MemInv
<1>4. c # p
  BY <1>2, <1>3
<1>5. /\ state' = [state EXCEPT ![p] = "WAITING", ![c] = "READY"] /\ ppid' = [ppid EXCEPT ![c] = p]
      /\ pgd' = [pgd EXCEPT ![c] = pgd[p]] /\ areas' = [areas EXCEPT ![c] = areas[p]]
      /\ next_free' = [next_free EXCEPT ![c] = next_free[p]]
      /\ pte' = pte /\ refcount' = refcount /\ bitmap' = bitmap /\ mem' = mem
  BY DEF do_vfork, CopyContext, frames
<1> HIDE DEF c
<1>6. ASSUME NEW q \in Slots, state'[q] = "READY"
      PROVE  \E o \in Slots : /\ state[o] = "READY" /\ areas'[q] = areas[o] /\ next_free'[q] = next_free[o]
                              /\ pgd'[q] = pgd[o] /\ ((q = c /\ o = p) \/ (q # c /\ q # p /\ o = q))
  <2>1. CASE q = c
    BY <1>2, <1>3, <1>5, <2>1 DEF MemInv
  <2>2. CASE q # c
    <3>1. q # p /\ state[q] = "READY"
      BY <1>2, <1>3, <1>4, <1>5, <1>6, <2>2 DEF MemInv
    <3> QED BY <1>3, <1>5, <2>2, <3>1 DEF MemInv
  <2> QED BY <2>1, <2>2
<1>7. /\ \A q \in Slots : state'[q] = "READY" => Covers(pte'[pgd'[q]], areas'[q], next_free'[q])
      /\ ObeyInv => ObeyInv'
  <2>1. \A t : Weaker(t, t)
    BY DEF Weaker
  <2>2. ASSUME NEW q \in Slots, state'[q] = "READY"
        PROVE  \E o \in Slots : /\ state[o] = "READY" /\ areas'[q] = areas[o] /\ next_free'[q] = next_free[o]
                                /\ Weaker(pte'[pgd'[q]], pte[pgd[o]])
    BY <1>5, <1>6, <2>1, <2>2
  <2> QED BY <2>2, Inherited
<1>8. /\ state' \in [Slots -> {"UNUSED", "READY", "WAITING"}]
      /\ ppid' \in [Slots -> 0 .. MAX_PROCESSES - 1] /\ pgd' \in [Slots -> {0} \cup Spaces]
      /\ areas' \in [Slots -> Seq(vm_area)] /\ next_free' \in [Slots -> 1 .. DataEnd + 1]
      /\ pte' \in [Spaces -> Tables] /\ FrameType'
  BY <1>2, <1>3, <1>5, CowFacts DEF MemInv, FrameType
<1>9. \A q \in Slots : Sorted(areas'[q]) /\ (state'[q] # "UNUSED" => pgd'[q] \in Spaces)
  BY <1>2, <1>3, <1>4, <1>5 DEF MemInv
<1>10. \A q, o \in Slots : state'[q] = "READY" /\ state'[o] = "READY" /\ q # o => pgd'[q] # pgd'[o]
  <2> SUFFICES ASSUME NEW q \in Slots, NEW o \in Slots, state'[q] = "READY", state'[o] = "READY", q # o
               PROVE  pgd'[q] # pgd'[o]
    OBVIOUS
  <2>1. PICK x \in Slots : state[x] = "READY" /\ pgd'[q] = pgd[x] /\ ((q = c /\ x = p) \/ (q # c /\ q # p /\ x = q))
    BY <1>6
  <2>2. PICK y \in Slots : state[y] = "READY" /\ pgd'[o] = pgd[y] /\ ((o = c /\ y = p) \/ (o # c /\ o # p /\ y = o))
    BY <1>6
  <2>3. x # y
    BY <2>1, <2>2
  <2> QED BY <2>1, <2>2, <2>3 DEF MemInv
<1> QED BY <1>7, <1>8, <1>9, <1>10 DEF MemInv

\* exit: of the process, and by a signal.
LEMMA ExitKeeps ==
  ASSUME MemInv, NEW p \in Running, Exit(p)
  PROVE  MemInv' /\ (ObeyInv => ObeyInv')
<1> DEFINE V == VforkParent(p)
           s == [q \in Slots |-> IF q = p THEN "UNUSED" ELSE IF q \in V THEN "READY" ELSE state[q]]
           stays == \E q \in Slots : s[q] # "UNUSED" /\ pgd[q] = pgd[p]
<1>1. p \in Slots /\ state[p] = "READY" /\ pgd[p] \in Spaces
  BY RunningIs
<1>2. \A q \in V : q \in Slots /\ pgd[q] = pgd[p]
  BY DEF VforkParent
<1>3. /\ state' = s /\ ppid' = ppid /\ pgd' = pgd
      /\ areas' = [q \in Slots |-> CASE q = p /\ q # 1 -> <<>>
                                     [] q # p /\ q \in V -> areas[p]
                                     [] OTHER -> areas[q]]
      /\ next_free' = [q \in Slots |-> IF q = p THEN 1 ELSE IF q \in V THEN next_free[p] ELSE next_free[q]]
      /\ pte' = IF stays THEN pte ELSE [pte EXCEPT ![pgd[p]] = EmptyTable]
      /\ IF \A q \in Slots : s[q] = "UNUSED" THEN pt_cleanup(p) ELSE UNCHANGED frames
      /\ Contents(mem)
  BY DEF Exit
<1>4. ASSUME NEW q \in Slots
      PROVE  /\ q = p => state'[q] = "UNUSED" /\ areas'[q] \in {<<>>, areas[q]} /\ next_free'[q] = 1
             /\ q # p /\ q \in V => state'[q] = "READY" /\ areas'[q] = areas[p] /\ next_free'[q] = next_free[p]
             /\ q # p /\ q \notin V => state'[q] = state[q] /\ areas'[q] = areas[q] /\ next_free'[q] = next_free[q]
  <2>1. /\ q = p /\ q # 1 => areas'[q] = <<>>
        /\ q # p /\ q \in V => areas'[q] = areas[p]
        /\ ~(q = p /\ q # 1) /\ ~(q # p /\ q \in V) => areas'[q] = areas[q]
    BY <1>3
  <2> HIDE DEF V
  <2> QED BY <1>3, <2>1
<1>5. Sorted(<<>>) /\ <<>> \in Seq(vm_area)
  BY EmptySeq DEF Sorted
<1>6. pte' \in [Spaces -> Tables] /\ \A t \in Spaces : t # pgd[p] \/ stays => pte'[t] = pte[t]
  <2>1. pte \in [Spaces -> Tables]
    BY DEF MemInv
  <2> HIDE DEF stays
  <2> QED BY <1>1, <1>3, <2>1, TableType
<1>7. ASSUME NEW q \in Slots, q # p, q \in V PROVE stays
  BY <1>2, <1>7
<1>8. FrameType'
  <2>1. CASE pt_cleanup(p)
    BY <1>3, <2>1, FreeIs DEF pt_cleanup
  <2>2. CASE UNCHANGED frames
    BY <1>3, <2>2, ContentsAre DEF frames, MemInv, FrameType
  <2> QED BY <1>3, <2>1, <2>2
<1>9. /\ areas' = [q \in Slots |-> areas'[q]] /\ next_free' = [q \in Slots |-> next_free'[q]]
      /\ state' = [q \in Slots |-> state'[q]]
  BY <1>3
<1> HIDE DEF V, s, stays
<1>10. ASSUME NEW q \in Slots, state'[q] = "READY"
       PROVE  \E o \in Slots : /\ state[o] = "READY" /\ areas'[q] = areas[o] /\ next_free'[q] = next_free[o]
                               /\ pgd[q] = pgd[o] /\ pte'[pgd[q]] = pte[pgd[o]]
                               /\ (q \in V /\ o = p) \/ (o = q /\ o # p)
  <2>1. q # p
    BY <1>4, <1>10
  <2>2. CASE q \in V
    <3>1. pgd[q] = pgd[p] /\ pte'[pgd[p]] = pte[pgd[p]]
      BY <1>1, <1>2, <1>6, <1>7, <2>1, <2>2
    <3> QED BY <1>1, <1>4, <2>1, <2>2, <3>1
  <2>3. CASE q \notin V
    <3>1. state[q] = "READY" /\ areas'[q] = areas[q] /\ next_free'[q] = next_free[q]
      BY <1>4, <1>10, <2>1, <2>3
    <3>2. pgd[q] # pgd[p] /\ pgd[q] \in Spaces
      BY <1>1, <2>1, <3>1 DEF MemInv
    <3> QED BY <1>6, <2>1, <3>1, <3>2
  <2> QED BY <2>2, <2>3
<1>11. /\ \A q \in Slots : state'[q] = "READY" => Covers(pte'[pgd'[q]], areas'[q], next_free'[q])
       /\ ObeyInv => ObeyInv'
  <2>1. \A t : Weaker(t, t)
    BY DEF Weaker
  <2>2. ASSUME NEW q \in Slots, state'[q] = "READY"
        PROVE  \E o \in Slots : /\ state[o] = "READY" /\ areas'[q] = areas[o] /\ next_free'[q] = next_free[o]
                                /\ Weaker(pte'[pgd'[q]], pte[pgd[o]])
    BY <1>3, <1>10, <2>1, <2>2
  <2> QED BY <2>2, Inherited
<1>12. \A q \in Slots : /\ areas'[q] \in Seq(vm_area) /\ next_free'[q] \in 1 .. DataEnd + 1
                        /\ state'[q] \in {"UNUSED", "READY", "WAITING"} /\ Sorted(areas'[q])
  <2> SUFFICES ASSUME NEW q \in Slots
               PROVE  /\ areas'[q] \in Seq(vm_area) /\ next_free'[q] \in 1 .. DataEnd + 1
                      /\ state'[q] \in {"UNUSED", "READY", "WAITING"} /\ Sorted(areas'[q])
    OBVIOUS
  <2>1. /\ \A o \in Slots : areas[o] \in Seq(vm_area) /\ Sorted(areas[o]) /\ next_free[o] \in 1 .. DataEnd + 1
        /\ state[q] \in {"UNUSED", "READY", "WAITING"} /\ 1 \in 1 .. DataEnd + 1
    BY CowFacts DEF MemInv
  <2>2. CASE q = p
    BY <1>1, <1>4, <1>5, <2>1, <2>2
  <2>3. CASE q # p /\ q \in V
    BY <1>1, <1>4, <2>1, <2>3
  <2>4. CASE q # p /\ q \notin V
    BY <1>4, <2>1, <2>4
  <2> QED BY <2>2, <2>3, <2>4
<1>13. \A q \in Slots : state'[q] # "UNUSED" => pgd'[q] \in Spaces
  BY <1>1, <1>2, <1>3, <1>4 DEF MemInv
<1>14. \A q, o \in Slots : state'[q] = "READY" /\ state'[o] = "READY" /\ q # o => pgd'[q] # pgd'[o]
  <2> SUFFICES ASSUME NEW q \in Slots, NEW o \in Slots, state'[q] = "READY", state'[o] = "READY", q # o
               PROVE  pgd[q] # pgd[o]
    BY <1>3
  <2>1. PICK x \in Slots : state[x] = "READY" /\ pgd[q] = pgd[x] /\ ((q \in V /\ x = p) \/ (x = q /\ x # p))
    BY <1>10
  <2>2. PICK y \in Slots : state[y] = "READY" /\ pgd[o] = pgd[y] /\ ((o \in V /\ y = p) \/ (y = o /\ y # p))
    BY <1>10
  <2>3. \A a, b \in V : a = b
    BY DEF V, VforkParent
  <2>4. x # y
    BY <2>1, <2>2, <2>3
  <2> QED BY <2>1, <2>2, <2>4 DEF MemInv
<1>15. /\ state' \in [Slots -> {"UNUSED", "READY", "WAITING"}]
       /\ ppid' \in [Slots -> 0 .. MAX_PROCESSES - 1] /\ pgd' \in [Slots -> {0} \cup Spaces]
       /\ areas' \in [Slots -> Seq(vm_area)] /\ next_free' \in [Slots -> 1 .. DataEnd + 1]
  BY <1>3, <1>9, <1>12 DEF MemInv
<1> QED BY <1>6, <1>8, <1>11, <1>12, <1>13, <1>14, <1>15 DEF MemInv

\* The shell starts init again.
LEMMA ExecKeeps ==
  ASSUME MemInv, exec_init
  PROVE  MemInv' /\ (ObeyInv => ObeyInv')
<1> DEFINE c == NewCtx
           g == NewPgd
<1>1. \A q \in Slots : state[q] = "UNUSED"
  BY DEF exec_init, Live
<1>2. c \in Slots /\ g \in Spaces
  <2>1. Unused # {}
    BY CowFacts DEF exec_init, Unused
  <2> QED BY <2>1, NewProcess DEF MemInv
<1>3. /\ state' = [state EXCEPT ![c] = "READY"] /\ ppid' = ppid /\ pgd' = [pgd EXCEPT ![c] = g]
      /\ pte' = [pte EXCEPT ![g] = EmptyTable] /\ next_free' = [next_free EXCEPT ![c] = 1]
      /\ areas' = areas /\ bitmap' = bitmap /\ refcount' = refcount /\ mem' = mem
  BY DEF exec_init, frames
<1> HIDE DEF c, g
<1>4. \A q \in Slots : state'[q] # "UNUSED" => q = c
  BY <1>1, <1>3 DEF MemInv
<1>5. ASSUME NEW q \in Slots, state'[q] = "READY" PROVE \A page \in AllPages : pte'[pgd'[q]][page] = Absent
  <2>1. pgd'[q] = g /\ pte'[g] = EmptyTable
    BY <1>2, <1>3, <1>4, <1>5 DEF MemInv
  <2> QED BY <2>1, TableType
<1>6. /\ \A q \in Slots : state'[q] = "READY" => Covers(pte'[pgd'[q]], areas'[q], next_free'[q])
      /\ ObeyInv => ObeyInv'
  BY <1>5, Inherited
<1>7. /\ state' \in [Slots -> {"UNUSED", "READY", "WAITING"}]
      /\ ppid' \in [Slots -> 0 .. MAX_PROCESSES - 1] /\ pgd' \in [Slots -> {0} \cup Spaces]
      /\ areas' \in [Slots -> Seq(vm_area)] /\ next_free' \in [Slots -> 1 .. DataEnd + 1]
      /\ pte' \in [Spaces -> Tables] /\ FrameType'
  <2>1. 1 \in 1 .. DataEnd + 1 /\ EmptyTable \in Tables
    BY TableType, CowFacts
  <2>2. pte' \in [Spaces -> Tables] /\ FrameType'
    BY <1>2, <1>3, <2>1 DEF MemInv, FrameType
  <2>3. next_free' \in [Slots -> 1 .. DataEnd + 1]
    BY <1>2, <1>3, <2>1 DEF MemInv
  <2> QED BY <1>2, <1>3, <2>2, <2>3 DEF MemInv
<1>8. \A q \in Slots : Sorted(areas'[q]) /\ (state'[q] # "UNUSED" => pgd'[q] \in Spaces)
  BY <1>2, <1>3, <1>4 DEF MemInv
<1>9. \A q, o \in Slots : state'[q] = "READY" /\ state'[o] = "READY" /\ q # o => pgd'[q] # pgd'[o]
  BY <1>4
<1> QED BY <1>6, <1>7, <1>8, <1>9 DEF MemInv

\* The first state.
LEMMA MemStart == Init => MemInv /\ ObeyInv
<1> SUFFICES ASSUME Init PROVE MemInv /\ ObeyInv
  OBVIOUS
<1>1. Sorted(<<>>) /\ <<>> \in Seq(vm_area)
  BY EmptySeq DEF Sorted
<1>2. /\ state \in [Slots -> {"UNUSED", "READY", "WAITING"}]
      /\ ppid \in [Slots -> 0 .. MAX_PROCESSES - 1] /\ pgd \in [Slots -> {0} \cup Spaces]
      /\ areas \in [Slots -> Seq(vm_area)] /\ next_free \in [Slots -> 1 .. DataEnd + 1]
      /\ pte \in [Spaces -> Tables] /\ FrameType
  <2>1. /\ 1 \in 1 .. DataEnd + 1 /\ EmptyTable \in Tables /\ 0 \in 0 .. 255 /\ 0 \in 0 .. MAX_PROCESSES - 1
        /\ 1 \in {0} \cup Spaces
    BY TableType, CowFacts, CowAssumption
  <2>2. pte \in [Spaces -> Tables] /\ FrameType
    BY <2>1 DEF Init, FrameType
  <2>3. /\ state \in [Slots -> {"UNUSED", "READY", "WAITING"}]
        /\ ppid \in [Slots -> 0 .. MAX_PROCESSES - 1] /\ pgd \in [Slots -> {0} \cup Spaces]
    BY <2>1 DEF Init
  <2>4. areas \in [Slots -> Seq(vm_area)] /\ next_free \in [Slots -> 1 .. DataEnd + 1]
    BY <1>1, <2>1 DEF Init
  <2> QED BY <2>2, <2>3, <2>4
<1>3. \A p \in Slots : /\ Sorted(areas[p]) /\ (state[p] # "UNUSED" => p = 1 /\ pgd[p] \in Spaces)
                       /\ state[p] = "READY" => pte[pgd[p]] = EmptyTable
  BY <1>1, CowFacts DEF Init
<1>4. \A l, n : Covers(EmptyTable, l, n) /\ Obeys(EmptyTable, l, n)
  <2>1. \A page \in AllPages : EmptyTable[page] = Absent /\ ~EmptyTable[page].rw
    BY DEF EmptyTable, Absent
  <2> QED BY <2>1 DEF Covers, Obeys
<1> QED BY <1>2, <1>3, <1>4 DEF MemInv, ObeyInv

\* Every step keeps the invariant.
LEMMA MemStep == MemInv /\ [Next]_vars => MemInv'
<1> SUFFICES ASSUME MemInv, [Next]_vars PROVE MemInv'
  OBVIOUS
<1>0. ASSUME NEW p, NEW t, NEW l, NEW n, Lawful(p, t, l, n) PROVE MemInv'
  BY <1>0, OwnKeeps DEF Lawful
<1>1. CASE exec_init
  BY <1>1, ExecKeeps
<1>2. ASSUME NEW p \in Slots, NEW addr \in Hints, NEW length \in Lengths, NEW prot \in Prots,
             NEW fixed \in BOOLEAN, NEW populate \in BOOLEAN, mmap(p, addr, length, prot, fixed, populate)
      PROVE  MemInv'
  BY <1>0, <1>2, MmapOwn
<1>3. ASSUME NEW p \in Slots, NEW addr \in Pages, NEW length \in UnmapLengths, munmap(p, addr, length)
      PROVE  MemInv'
  BY <1>0, <1>3, MunmapOwn
<1>4. ASSUME NEW p \in Slots, NEW addr \in Pages, NEW length \in ProtLengths, NEW prot \in Prots,
             mprotect(p, addr, length, prot)
      PROVE  MemInv'
  <2>1. PICK t, l : Own(p, t, l, next_free[p]) /\ Fit(t, l, next_free[p]) /\ FrameType'
    BY <1>4, MprotectOwn
  <2> QED BY <2>1, OwnKeeps
<1>5. ASSUME NEW p \in Slots, NEW size \in 1 .. DataEnd, do_expand(p, size) PROVE MemInv'
  BY <1>0, <1>5, ExpandOwn
<1>6. ASSUME NEW p \in Slots, NEW size \in 1 .. DataEnd, do_shrink(p, size) PROVE MemInv'
  BY <1>0, <1>6, ShrinkOwn
<1>7. ASSUME NEW p \in Slots, do_cfork(p) PROVE MemInv'
  BY <1>7, CforkKeeps
<1>8. ASSUME NEW p \in Slots, do_vfork(p) PROVE MemInv'
  BY <1>8, VforkKeeps
<1>9. ASSUME NEW p \in Slots, do_exit(p) PROVE MemInv'
  BY <1>9, ExitKeeps DEF do_exit
<1>10. ASSUME NEW p \in Slots, NEW page \in AllPages, NEW v \in Values, store(p, page, v) PROVE MemInv'
  BY <1>0, <1>10, StoreOwn
<1>11. CASE UNCHANGED vars
  BY <1>11 DEF vars, ctx, frames, MemInv, FrameType
<1>12. ASSUME NEW p \in Slots, NEW page \in AllPages, NEW write \in BOOLEAN, do_page_fault(p, page, write) PROVE MemInv'
  <2>1. /\ p \in Running
        /\ \/ Exit(p) \/ UNCHANGED vars \/ Filling(p, page, write) \/ Regaining(p, page)
           \/ \E f : Copying(p, page, f)
    BY <1>12, FaultCases
  <2>2. CASE Exit(p)
    BY <2>1, <2>2, ExitKeeps
  <2>3. CASE Filling(p, page, write) \/ Regaining(p, page) \/ \E f : Copying(p, page, f)
    <3>1. PICK t : Lawful(p, t, areas[p], next_free[p])
      BY <2>1, <2>3, FaultOwn
    <3> QED BY <1>0, <3>1
  <2> QED BY <1>11, <2>1, <2>2, <2>3
<1> QED BY <1>1, <1>2, <1>3, <1>4, <1>5, <1>6, <1>7, <1>8, <1>9, <1>10, <1>11, <1>12 DEF Next

\* A page a process can reach is one it has: "Any access to addresses within
\* the deleted vm_area result in invalid memory references", whatever munmap,
\* shrink, MAP_POPULATE, cfork and a vfork child did before, and whatever
\* frames shrink frees under other processes.  The processes are those of init,
\* cfork and vfork: a child of fork would share the vm_areas of its parent under
\* a page table of its own, and a munmap of one leave the other's entries.
THEOREM MappedOnly == Spec => []PresentOnlyMapped
BY MemStart, MemStep, MemMapped, PTL DEF Spec

-----------------------------------------------------------------------------
(***************************************************************************)
(* Counting the entries that name a frame                                   *)
(***************************************************************************)
\* The page tables of live processes, and the entries of some tables for a frame.
Tabs         == {pgd[p] : p \in Live}
Shr(T, t, f) == {e \in T \X AllPages : t[e[1]][e[2]].pfn = f}

\* The counts rc bound the entries of the tables T, frames that count are in
\* use, a frame an entry can write counts once, and a table has one page for
\* a frame.
Cnt(T, t, rc, bm) ==
  /\ T \subseteq Spaces /\ t \in [Spaces -> Tables] /\ rc \in [Frames -> 0 .. 255]
  /\ \A s \in T, a, b \in AllPages : t[s][a].pfn \in Frames /\ t[s][a].pfn = t[s][b].pfn => a = b
  /\ \A f \in Frames : Cardinality(Shr(T, t, f)) <= rc[f] /\ (rc[f] > 0 => f \in bm)
  /\ \A s \in T, a \in AllPages : t[s][a].rw => rc[t[s][a].pfn] = 1

CountInv == Cnt(Tabs, pte, refcount, bitmap)

\* Entries are counted by finite sets.
LEMMA ShrFinite ==
  ASSUME NEW T, T \subseteq Spaces, NEW t, NEW f
  PROVE  IsFiniteSet(Shr(T, t, f)) /\ Cardinality(Shr(T, t, f)) \in Nat
<1>1. IsFiniteSet(T) /\ IsFiniteSet(AllPages)
  BY CowFacts, FS_Subset
<1>2. IsFiniteSet(T \X AllPages)
  BY <1>1, FS_Product
<1>3. Shr(T, t, f) \subseteq T \X AllPages
  BY DEF Shr
<1> QED BY <1>2, <1>3, FS_Subset, FS_CardinalityType

\* What is in those sets.
LEMMA ShrHas ==
  ASSUME NEW T, NEW t, NEW f, NEW s \in T, NEW a \in AllPages, t[s][a].pfn = f
  PROVE  <<s, a>> \in Shr(T, t, f)
BY DEF Shr

\* And nothing else.
LEMMA ShrIn ==
  ASSUME NEW T, NEW t, NEW f, NEW e \in Shr(T, t, f)
  PROVE  \E s \in T, a \in AllPages : e = <<s, a>> /\ t[s][a].pfn = f
BY DEF Shr

\* Small sets.
LEMMA Small ==
  ASSUME NEW S, IsFiniteSet(S)
  PROVE  /\ Cardinality(S) <= 0 <=> S = {}
         /\ Cardinality(S) <= 1 => \A x, y \in S : x = y
         /\ \A x : S \subseteq {x} => Cardinality(S) <= 1
         /\ \A S2 : S2 \subseteq S => IsFiniteSet(S2) /\ Cardinality(S2) <= Cardinality(S)
<1>1. Cardinality(S) \in Nat
  BY FS_CardinalityType
<1>2. Cardinality(S) <= 0 <=> S = {}
  BY <1>1, FS_EmptySet
<1>3. ASSUME Cardinality(S) <= 1, NEW x \in S, NEW y \in S PROVE x = y
  <2>1. Cardinality(S) = 1
    BY <1>1, <1>2, <1>3
  <2>2. \E z : S = {z}
    BY <2>1, FS_Singleton
  <2> QED BY <2>2
<1>4. ASSUME NEW x, S \subseteq {x} PROVE Cardinality(S) <= 1
  <2>1. IsFiniteSet({x}) /\ Cardinality({x}) = 1
    BY FS_Singleton
  <2> QED BY <1>4, <2>1, FS_Subset
<1>5. ASSUME NEW S2, S2 \subseteq S PROVE IsFiniteSet(S2) /\ Cardinality(S2) <= Cardinality(S)
  BY <1>5, FS_Subset
<1> QED BY <1>2, <1>3, <1>4, <1>5

\* A frame out of use has no entry, one that is named has a positive count,
\* and the only entry of a frame counted once is its only one.
Said(T, t, rc, bm) ==
  \A s \in T, a \in AllPages : t[s][a].pfn \in Frames =>
     /\ t[s][a].pfn \in bm /\ rc[t[s][a].pfn] \in 1 .. 255
     /\ rc[t[s][a].pfn] = 1 => \A u \in T, b \in AllPages : t[u][b].pfn = t[s][a].pfn => u = s /\ b = a

\* The counts say so.
LEMMA Counts ==
  ASSUME NEW T, NEW t, NEW rc, NEW bm, Cnt(T, t, rc, bm)
  PROVE  Said(T, t, rc, bm)
<1> SUFFICES ASSUME NEW s \in T, NEW a \in AllPages, t[s][a].pfn \in Frames
             PROVE  /\ t[s][a].pfn \in bm /\ rc[t[s][a].pfn] \in 1 .. 255
                    /\ rc[t[s][a].pfn] = 1 =>
                         \A u \in T, b \in AllPages : t[u][b].pfn = t[s][a].pfn => u = s /\ b = a
  BY DEF Said
<1> DEFINE f == t[s][a].pfn
           S == Shr(T, t, f)
<1>1. <<s, a>> \in S /\ IsFiniteSet(S) /\ Cardinality(S) \in Nat /\ f \in Frames
  BY ShrFinite, ShrHas DEF Cnt
<1>2. Cardinality(S) <= rc[f] /\ (rc[f] > 0 => f \in bm) /\ rc[f] \in 0 .. 255
  BY <1>1 DEF Cnt
<1>3. \A u \in T, b \in AllPages : t[u][b].pfn = f => <<u, b>> \in S
  BY ShrHas DEF Cnt
<1> HIDE DEF f, S
<1>4. ~(Cardinality(S) <= 0)
  BY <1>1, Small
<1>5. rc[f] \in 1 .. 255 /\ f \in bm
  BY <1>1, <1>2, <1>4
<1>6. ASSUME rc[f] = 1, NEW u \in T, NEW b \in AllPages, t[u][b].pfn = f PROVE u = s /\ b = a
  <2>1. Cardinality(S) <= 1 /\ <<u, b>> \in S
    BY <1>2, <1>3, <1>6
  <2>2. \A x, y \in S : x = y
    BY <1>1, <2>1, Small
  <2>3. <<u, b>> = <<s, a>>
    BY <1>1, <2>1, <2>2
  <2> QED BY <2>3
<1> QED BY <1>5, <1>6 DEF f

\* Entries go or lose rights, or the only entry of a frame gains them.
LEMMA CntWeaker ==
  ASSUME NEW T, NEW t, NEW rc, NEW bm, Cnt(T, t, rc, bm), NEW T2, T2 \subseteq Spaces, NEW t2 \in [Spaces -> Tables],
         \A s \in T2, a \in AllPages : t2[s][a].pfn \in Frames => s \in T /\ t2[s][a].pfn = t[s][a].pfn,
         \A s \in T2, a \in AllPages : t2[s][a].rw => rc[t2[s][a].pfn] = 1
  PROVE  Cnt(T2, t2, rc, bm)
<1>1. ASSUME NEW f \in Frames PROVE Cardinality(Shr(T2, t2, f)) <= rc[f]
  <2>1. Shr(T2, t2, f) \subseteq Shr(T, t, f)
    <3> SUFFICES ASSUME NEW e \in Shr(T2, t2, f) PROVE e \in Shr(T, t, f)
      OBVIOUS
    <3>1. PICK s \in T2, a \in AllPages : e = <<s, a>> /\ t2[s][a].pfn = f
      BY ShrIn
    <3>2. s \in T /\ t[s][a].pfn = f
      BY <3>1
    <3> QED BY <3>1, <3>2, ShrHas
  <2>2. /\ IsFiniteSet(Shr(T, t, f)) /\ Cardinality(Shr(T, t, f)) \in Nat
        /\ IsFiniteSet(Shr(T2, t2, f)) /\ Cardinality(Shr(T2, t2, f)) \in Nat
    BY ShrFinite DEF Cnt
  <2>4. Cardinality(Shr(T, t, f)) <= rc[f] /\ rc[f] \in 0 .. 255
    BY DEF Cnt
  <2>3. Cardinality(Shr(T2, t2, f)) <= Cardinality(Shr(T, t, f))
    BY <2>1, <2>2, Small
  <2> QED BY <2>2, <2>3, <2>4
<1>2. \A s \in T2, a, b \in AllPages : t2[s][a].pfn \in Frames /\ t2[s][a].pfn = t2[s][b].pfn => a = b
  BY DEF Cnt
<1> QED BY <1>1, <1>2 DEF Cnt

\* New tables and counts: some pages of the table of s have the new frames F.
FilledTo(T, t, rc, bm, s, pages, new, rw, F, t2, rc2) ==
  /\ s \in T /\ rw \in BOOLEAN /\ new \in [pages -> Frames]
  /\ \A q \in pages : new[q] \notin bm
  /\ \A q, q2 \in pages : new[q] = new[q2] => q = q2
  /\ \A q \in pages : new[q] \in F
  /\ \A f \in F : \E q \in pages : new[q] = f
  /\ rc2 \in [Frames -> 0 .. 255]
  /\ \A f \in F : rc2[f] = 1
  /\ \A f \in Frames \ F : rc2[f] = rc[f]
  /\ t2 \in [Spaces -> Tables]
  /\ \A q \in AllPages : t2[s][q] = Filled(t[s], pages, new, rw)[q]
  /\ \A u \in T \ {s} : t2[u] = t[u]

\* Pages of a table get new frames.
LEMMA CntFilled ==
  ASSUME NEW T, NEW t, NEW rc, NEW bm, Cnt(T, t, rc, bm), NEW s, NEW pages, NEW new, NEW rw, NEW F, NEW t2, NEW rc2,
         FilledTo(T, t, rc, bm, s, pages, new, rw, F, t2, rc2)
  PROVE  Cnt(T, t2, rc2, bm \cup F)
<1>0. Said(T, t, rc, bm)
  BY Counts
<1> USE DEF FilledTo
<1>1. T \subseteq Spaces /\ s \in Spaces /\ t \in [Spaces -> Tables] /\ rc \in [Frames -> 0 .. 255]
  BY DEF Cnt
<1>2. rc2 \in [Frames -> 0 .. 255]
  BY <1>1
<1>3. ASSUME NEW u \in T, NEW a \in AllPages
      PROVE  /\ u = s /\ a \in pages => t2[u][a].pfn = new[a] /\ t2[u][a].pfn \in F
             /\ ~(u = s /\ a \in pages) => t2[u][a] = t[u][a] /\ t2[u][a].pfn \notin F
  <2>1. u = s /\ a \in pages => t2[u][a] = [pfn |-> new[a], rw |-> rw]
    BY <1>1, <1>3 DEF Filled
  <2>2. ~(u = s /\ a \in pages) => t2[u][a] = t[u][a]
    BY <1>1, <1>3 DEF Filled
  <2>3. t[u][a].pfn \notin F
    <3> SUFFICES ASSUME t[u][a].pfn \in F PROVE FALSE
      OBVIOUS
    <3>1. t[u][a].pfn \in Frames /\ t[u][a].pfn \notin bm
      OBVIOUS
    <3> HIDE DEF FilledTo
    <3> QED BY <1>0, <3>1 DEF Said
  <2> QED BY <2>1, <2>2, <2>3
<1>4. \A u \in T, a, b \in AllPages : t2[u][a].pfn \in Frames /\ t2[u][a].pfn = t2[u][b].pfn => a = b
  <2> SUFFICES ASSUME NEW u \in T, NEW a \in AllPages, NEW b \in AllPages, t2[u][a].pfn \in Frames, t2[u][a].pfn = t2[u][b].pfn
               PROVE  a = b
    OBVIOUS
  <2>1. CASE t2[u][a].pfn \in F
    BY <1>3, <2>1
  <2>2. CASE t2[u][a].pfn \notin F
    <3>1. t2[u][a] = t[u][a] /\ t2[u][b] = t[u][b]
      BY <1>3, <2>2
    <3> QED BY <3>1 DEF Cnt
  <2> QED BY <2>1, <2>2
<1>5. ASSUME NEW f \in Frames PROVE Cardinality(Shr(T, t2, f)) <= rc2[f]
  <2> DEFINE S2 == Shr(T, t2, f)
             S == Shr(T, t, f)
  <2>1. IsFiniteSet(S2) /\ IsFiniteSet(S) /\ Cardinality(S) \in Nat /\ Cardinality(S2) \in Nat
    BY <1>1, ShrFinite
  <2>4. ASSUME NEW e \in S2 PROVE \E u \in T, a \in AllPages : e = <<u, a>> /\ t2[u][a].pfn = f
    BY <2>4, ShrIn
  <2>5. \A u \in T, a \in AllPages : t[u][a].pfn = f => <<u, a>> \in S
    BY ShrHas
  <2>6. Cardinality(S) <= rc[f] /\ rc[f] \in 0 .. 255
    BY <1>1 DEF Cnt
  <2> HIDE DEF S2, S
  <2>2. CASE f \in F
    <3>1. PICK q \in pages : new[q] = f
      BY <2>2
    <3>2. \A e \in S2 : e = <<s, q>>
      BY <1>3, <2>4, <2>2, <3>1
    <3>3. Cardinality(S2) <= 1
      BY <2>1, <3>2, Small
    <3> QED BY <2>2, <3>3 DEF S2
  <2>3. CASE f \notin F
    <3>1. S2 \subseteq S
      BY <1>3, <2>4, <2>5, <2>3
    <3>2. Cardinality(S2) <= Cardinality(S)
      BY <2>1, <3>1, Small
    <3> QED BY <2>1, <2>6, <2>3, <3>2 DEF S2
  <2> QED BY <2>2, <2>3
<1>6. \A f \in Frames : rc2[f] > 0 => f \in bm \cup F
  BY <1>1 DEF Cnt
<1>7. ASSUME NEW u \in T, NEW a \in AllPages, t2[u][a].rw PROVE rc2[t2[u][a].pfn] = 1
  <2>1. t2[u] \in Tables
    BY <1>1, <1>2
  <2>2. t2[u][a].pfn \in Frames
    BY <1>7, <2>1, EntryIs
  <2> QED BY <1>3, <1>7, <2>2 DEF Cnt
<1> QED BY <1>1, <1>2, <1>4, <1>5, <1>6, <1>7 DEF Cnt

\* A table with pages taken out.
LEMMA ClearedIs ==
  ASSUME NEW t, NEW pages, NEW a \in AllPages
  PROVE  /\ a \in pages => Cleared(t, pages)[a] = Absent /\ Absent.pfn \notin Frames /\ ~Absent.rw
         /\ a \notin pages => Cleared(t, pages)[a] = t[a]
<1>1. Absent.pfn \notin Frames /\ ~Absent.rw
  BY CowFacts DEF Absent
<1> QED BY <1>1 DEF Cleared

\* New tables and counts: pages are taken out of the table of s, with the frames gone.
ClearedTo(T, t, s, pages, gone, t2, rc2) ==
  /\ s \in T
  /\ \A q \in pages \cap AllPages : t[s][q] # Absent => t[s][q].pfn \in gone
  /\ rc2 \in [Frames -> 0 .. 255]
  /\ t2 \in [Spaces -> Tables]
  /\ \A q \in AllPages : t2[s][q] = Cleared(t[s], pages)[q]
  /\ \A u \in T \ {s} : t2[u] = t[u]

\* Their frames are counted down.
DroppedTo(T, t, rc, bm, s, pages, gone, t2, rc2, bm2) ==
  /\ ClearedTo(T, t, s, pages, gone, t2, rc2)
  /\ \A f \in gone : \E q \in pages \cap AllPages : t[s][q] # Absent /\ t[s][q].pfn = f
  /\ \A f \in gone \cap Frames : rc2[f] = U8(rc[f] - 1)
  /\ \A f \in Frames \ gone : rc2[f] = rc[f]
  /\ \A f \in bm : f \in bm2 \/ (f \in gone /\ rc[f] = 1)

\* Pages of a table are taken out, and their frames counted down.
LEMMA CntDropped ==
  ASSUME NEW T, NEW t, NEW rc, NEW bm, Cnt(T, t, rc, bm), NEW s, NEW pages, NEW gone, NEW t2, NEW rc2, NEW bm2,
         DroppedTo(T, t, rc, bm, s, pages, gone, t2, rc2, bm2)
  PROVE  Cnt(T, t2, rc2, bm2)
<1>0. Said(T, t, rc, bm)
  BY Counts
<1>one. ASSUME NEW u \in T, NEW a \in AllPages, t[u][a].pfn \in Frames, rc[t[u][a].pfn] = 1
        PROVE  \A x \in T, b \in AllPages : t[x][b].pfn = t[u][a].pfn => x = u /\ b = a
  BY <1>0, <1>one DEF Said
<1> USE DEF ClearedTo, DroppedTo
<1>1. T \subseteq Spaces /\ s \in Spaces /\ t \in [Spaces -> Tables] /\ rc \in [Frames -> 0 .. 255]
  BY DEF Cnt
<1>2. ASSUME NEW f \in gone
      PROVE  /\ \E q \in pages \cap AllPages : t[s][q].pfn = f
             /\ f \in Frames /\ rc[f] \in 1 .. 255 /\ rc2[f] = rc[f] - 1 /\ f \in bm
  <2>1. PICK q \in pages \cap AllPages : t[s][q] # Absent /\ t[s][q].pfn = f
    OBVIOUS
  <2>2. t[s] \in Tables
    BY <1>1
  <2>3. f \in Frames
    BY <2>1, <2>2, EntryIs
  <2>4. rc[f] \in 1 .. 255 /\ f \in bm
    BY <2>1, <2>3, <1>0 DEF Said
  <2>5. rc[f] - 1 \in Int /\ 0 <= rc[f] - 1 /\ rc[f] - 1 <= 255
    BY <2>4
  <2>6. U8(rc[f] - 1) = rc[f] - 1
    BY <2>5, Byte
  <2> QED BY <2>1, <2>3, <2>4, <2>6
<1>3. \A f \in Frames : f \notin gone => rc2[f] = rc[f]
  OBVIOUS
<1>4. rc2 \in [Frames -> 0 .. 255]
  <2>1. \A f \in Frames : rc2[f] \in 0 .. 255
    <3> SUFFICES ASSUME NEW f \in Frames PROVE rc2[f] \in 0 .. 255
      OBVIOUS
    <3>1. CASE f \in gone
      <4>1. rc[f] \in 1 .. 255 /\ rc2[f] = rc[f] - 1
        BY <1>2, <3>1
      <4> QED BY <4>1
    <3>2. CASE f \notin gone
      BY <1>1, <1>3, <3>2
    <3> QED BY <3>1, <3>2
  <2> QED BY <2>1
<1>5. ASSUME NEW u \in T, NEW a \in AllPages
      PROVE  /\ u = s /\ a \in pages => t2[u][a] = Absent /\ t2[u][a].pfn \notin Frames /\ ~t2[u][a].rw
             /\ ~(u = s /\ a \in pages) => t2[u][a] = t[u][a]
  BY <1>5, ClearedIs
<1>6. \A u \in T, a, b \in AllPages : t2[u][a].pfn \in Frames /\ t2[u][a].pfn = t2[u][b].pfn => a = b
  BY <1>5 DEF Cnt
<1>7. ASSUME NEW f \in Frames PROVE Cardinality(Shr(T, t2, f)) <= rc2[f]
  <2> DEFINE S2 == Shr(T, t2, f)
             S == Shr(T, t, f)
  <2>1. IsFiniteSet(S2) /\ IsFiniteSet(S) /\ Cardinality(S) \in Nat /\ Cardinality(S2) \in Nat
    BY <1>1, ShrFinite
  <2>2. ASSUME NEW e \in S2
        PROVE  \E u \in T, a \in AllPages : e = <<u, a>> /\ t[u][a].pfn = f /\ e \in S /\ ~(u = s /\ a \in pages)
    <3>1. PICK u \in T, a \in AllPages : e = <<u, a>> /\ t2[u][a].pfn = f
      BY <2>2, ShrIn
    <3>2. t[u][a].pfn = f /\ ~(u = s /\ a \in pages)
      BY <1>5, <3>1
    <3> QED BY <3>1, <3>2, ShrHas
  <2>3. Cardinality(S) <= rc[f] /\ rc[f] \in 0 .. 255
    BY <1>1 DEF Cnt
  <2>4. CASE f \in gone
    <3>1. PICK q \in pages \cap AllPages : t[s][q].pfn = f
      BY <1>2, <2>4
    <3>2. <<s, q>> \in S
      BY <3>1, ShrHas
    <3> HIDE DEF S, S2
    <3>3. S2 \subseteq S \ {<<s, q>>}
      BY <2>2, <3>1
    <3>4. IsFiniteSet(S \ {<<s, q>>}) /\ Cardinality(S \ {<<s, q>>}) = Cardinality(S) - 1
      BY <2>1, <3>2, FS_RemoveElement
    <3>5. Cardinality(S2) <= Cardinality(S \ {<<s, q>>})
      BY <3>3, <3>4, Small
    <3>6. rc2[f] = rc[f] - 1
      BY <1>2, <2>4
    <3>7. Cardinality(S2) <= rc2[f]
      <4> DEFINE k == rc2[f]
                 m == rc[f]
      <4>1. k = m - 1 /\ m \in 0 .. 255 /\ Cardinality(S) <= m
        BY <2>3, <3>6
      <4> HIDE DEF k, m
      <4>2. Cardinality(S2) <= k
        BY <2>1, <3>4, <3>5, <4>1
      <4> QED BY <4>2 DEF k
    <3> QED BY <3>7 DEF S2
  <2>5. CASE f \notin gone
    <3> HIDE DEF S, S2
    <3>1. S2 \subseteq S
      BY <2>2
    <3>2. Cardinality(S2) <= Cardinality(S)
      BY <2>1, <3>1, Small
    <3>3. Cardinality(S2) <= rc2[f]
      BY <1>3, <2>1, <2>3, <2>5, <3>2
    <3> QED BY <3>3 DEF S2
  <2> QED BY <2>4, <2>5
<1>8. ASSUME NEW f \in Frames, rc2[f] > 0 PROVE f \in bm2
  <2>1. CASE f \in gone
    <3>1. rc[f] \in 1 .. 255 /\ rc2[f] = rc[f] - 1 /\ f \in bm
      BY <1>2, <2>1
    <3>2. rc[f] # 1
      BY <1>8, <3>1
    <3> QED BY <3>1, <3>2
  <2>2. CASE f \notin gone
    <3>1. rc[f] > 0
      BY <1>3, <1>8, <2>2
    <3> QED BY <2>2, <3>1 DEF Cnt
  <2> QED BY <2>1, <2>2
<1>9. ASSUME NEW u \in T, NEW a \in AllPages, t2[u][a].rw PROVE rc2[t2[u][a].pfn] = 1
  <2>1. ~(u = s /\ a \in pages) /\ t2[u][a] = t[u][a]
    BY <1>5, <1>9
  <2>2. rc[t[u][a].pfn] = 1 /\ t[u][a].pfn \in Frames
    <3>1. t[u] \in Tables
      BY <1>1
    <3>2. t[u][a].pfn \in Frames
      BY <1>9, <2>1, <3>1, EntryIs
    <3> QED BY <1>9, <2>1, <3>2 DEF Cnt
  <2>3. CASE t[u][a].pfn \in gone
    <3>1. PICK q \in pages \cap AllPages : t[s][q].pfn = t[u][a].pfn
      BY <1>2, <2>3
    <3>2. u = s /\ a = q
      <4>1. s \in T /\ q \in AllPages /\ t[s][q].pfn = t[u][a].pfn
        BY <3>1
      <4> HIDE DEF ClearedTo, DroppedTo
      <4>2. \A x \in T, b \in AllPages : t[x][b].pfn = t[u][a].pfn => x = u /\ b = a
        BY <1>one, <1>9, <2>2
      <4> QED BY <4>1, <4>2
    <3> QED BY <2>1, <3>2
  <2>4. CASE t[u][a].pfn \notin gone
    BY <1>3, <2>1, <2>2, <2>4
  <2> QED BY <2>3, <2>4
<1> QED BY <1>1, <1>4, <1>6, <1>7, <1>8, <1>9 DEF Cnt

\* Their frames, which no other entry names, are freed.
FreedTo(T, t, rc, s, last, freed, t2, rc2) ==
  /\ last \subseteq AllPages
  /\ ClearedTo(T, t, s, last, freed, t2, rc2)
  /\ \A f \in freed : \E q \in last : t[s][q].pfn = f
  /\ \A page \in last : t[s][page] # Absent => Cardinality(Shr(T, t, t[s][page].pfn)) = 1
  /\ \A f \in freed \cap Frames : rc2[f] = 0
  /\ \A f \in Frames \ freed : rc2[f] = rc[f]

\* Pages of a table whose frames nobody else maps are taken out, and the
\* frames are freed.
LEMMA CntFreed ==
  ASSUME NEW T, NEW t, NEW rc, NEW bm, Cnt(T, t, rc, bm), NEW s, NEW last, NEW freed, NEW t2, NEW rc2,
         FreedTo(T, t, rc, s, last, freed, t2, rc2)
  PROVE  Cnt(T, t2, rc2, bm \ freed)
<1> USE DEF ClearedTo, FreedTo
<1>1. T \subseteq Spaces /\ s \in Spaces /\ t \in [Spaces -> Tables] /\ rc \in [Frames -> 0 .. 255]
  BY DEF Cnt
<1>2. ASSUME NEW f \in freed \cap Frames, NEW u \in T, NEW a \in AllPages, t[u][a].pfn = f
      PROVE  u = s /\ a \in last
  <2>1. PICK q \in last : t[s][q].pfn = f
    OBVIOUS
  <2>2. t[s] \in Tables /\ q \in AllPages
    BY <1>1
  <2>3. t[s][q] # Absent
    BY <2>1, <2>2, EntryIs
  <2> DEFINE S == Shr(T, t, f)
  <2>4. Cardinality(S) = 1 /\ IsFiniteSet(S) /\ <<s, q>> \in S /\ <<u, a>> \in S
    BY <1>1, <1>2, <2>1, <2>2, <2>3, ShrFinite, ShrHas
  <2> HIDE DEF S
  <2>5. \A x, y \in S : x = y
    BY <2>4, Small
  <2>6. <<u, a>> = <<s, q>>
    BY <2>4, <2>5
  <2> QED BY <2>6
<1>3. rc2 \in [Frames -> 0 .. 255]
  BY <1>1
<1>4. ASSUME NEW u \in T, NEW a \in AllPages
      PROVE  /\ u = s /\ a \in last => t2[u][a] = Absent /\ t2[u][a].pfn \notin Frames /\ ~t2[u][a].rw
             /\ ~(u = s /\ a \in last) => t2[u][a] = t[u][a]
  BY <1>4, ClearedIs
<1>5. \A u \in T, a, b \in AllPages : t2[u][a].pfn \in Frames /\ t2[u][a].pfn = t2[u][b].pfn => a = b
  BY <1>4 DEF Cnt
<1>6. ASSUME NEW f \in Frames PROVE Cardinality(Shr(T, t2, f)) <= rc2[f]
  <2> DEFINE S2 == Shr(T, t2, f)
             S == Shr(T, t, f)
  <2>1. IsFiniteSet(S2) /\ IsFiniteSet(S) /\ Cardinality(S) \in Nat /\ Cardinality(S2) \in Nat
    BY <1>1, ShrFinite
  <2>2. ASSUME NEW e \in S2 PROVE e \in S /\ f \notin freed
    <3>1. PICK u \in T, a \in AllPages : e = <<u, a>> /\ t2[u][a].pfn = f
      BY <2>2, ShrIn
    <3>2. t[u][a].pfn = f /\ ~(u = s /\ a \in last)
      BY <1>4, <3>1
    <3>3. f \notin freed
      BY <1>2, <3>2
    <3> QED BY <3>1, <3>2, <3>3, ShrHas
  <2>3. Cardinality(S) <= rc[f] /\ rc[f] \in 0 .. 255
    BY <1>1 DEF Cnt
  <2> HIDE DEF S, S2
  <2>4. CASE f \in freed
    <3>1. S2 = {}
      BY <2>2, <2>4
    <3>2. Cardinality(S2) <= rc2[f]
      BY <2>4, <3>1, FS_EmptySet
    <3> QED BY <3>2 DEF S2
  <2>5. CASE f \notin freed
    <3>1. S2 \subseteq S
      BY <2>2
    <3>2. Cardinality(S2) <= Cardinality(S)
      BY <2>1, <3>1, Small
    <3>3. Cardinality(S2) <= rc2[f]
      BY <2>1, <2>3, <2>5, <3>2
    <3> QED BY <3>3 DEF S2
  <2> QED BY <2>4, <2>5
<1>7. \A f \in Frames : rc2[f] > 0 => f \in bm \ freed
  BY <1>1 DEF Cnt
<1>8. ASSUME NEW u \in T, NEW a \in AllPages, t2[u][a].rw PROVE rc2[t2[u][a].pfn] = 1
  <2>1. ~(u = s /\ a \in last) /\ t2[u][a] = t[u][a] /\ t[u] \in Tables
    BY <1>1, <1>4, <1>8
  <2>2. t[u][a].pfn \in Frames
    BY <1>8, <2>1, EntryIs
  <2>3. t[u][a].pfn \notin freed
    BY <1>2, <2>1, <2>2
  <2> QED BY <1>8, <2>1, <2>2, <2>3 DEF Cnt
<1> QED BY <1>1, <1>3, <1>5, <1>6, <1>7, <1>8 DEF Cnt

\* New tables and counts: the pages S of the table of s are shared with a new table g.
ForkedTo(T, t, rc, s, g, S, t2, rc2) ==
  /\ s \in T /\ g \in Spaces \ T /\ S \subseteq AllPages
  /\ \A q \in S : t[s][q].pfn \in Frames /\ rc[t[s][q].pfn] < 255
  /\ rc2 \in [Frames -> 0 .. 255]
  /\ \A f \in Frames : rc2[f] = U8(rc[f] + Cardinality({q \in S : t[s][q].pfn = f}))
  /\ t2 \in [Spaces -> Tables]
  /\ \A q \in S : /\ t2[s][q] = [pfn |-> t[s][q].pfn, rw |-> FALSE]
                  /\ t2[g][q] = [pfn |-> t[s][q].pfn, rw |-> FALSE]
  /\ \A q \in AllPages \ S : t2[s][q] = t[s][q] /\ t2[g][q] = Absent
  /\ \A u \in T \ {s} : t2[u] = t[u]

\* Pages of a table are shared with a new one, both without write permission.
LEMMA CntForked ==
  ASSUME NEW T, NEW t, NEW rc, NEW bm, Cnt(T, t, rc, bm), NEW s, NEW g, NEW S, NEW t2, NEW rc2,
         ForkedTo(T, t, rc, s, g, S, t2, rc2)
  PROVE  Cnt(T \cup {g}, t2, rc2, bm)
<1>0. Said(T, t, rc, bm)
  BY Counts
<1> USE DEF ForkedTo
<1>1. T \subseteq Spaces /\ s \in Spaces /\ t \in [Spaces -> Tables] /\ rc \in [Frames -> 0 .. 255] /\ g \in Spaces /\ g \notin T
  BY DEF Cnt
<1> DEFINE named == {t[s][q].pfn : q \in S}
<1>2. ASSUME NEW f \in Frames
      PROVE  /\ f \in named => rc2[f] = rc[f] + 1 /\ rc[f] > 0
             /\ f \notin named => rc2[f] = rc[f]
  <2> DEFINE M == {q \in S : t[s][q].pfn = f}
  <2>1. rc[f] \in 0 .. 255
    BY <1>1
  <2>2. CASE f \in named
    <3>1. PICK q \in S : t[s][q].pfn = f
      BY <2>2
    <3>2. rc[f] < 255 /\ rc[f] \in 1 .. 255
      BY <3>1, <1>0 DEF Said
    <3>3. M = {q}
      <4>1. \A x \in M : x = q
        BY <3>1 DEF Cnt
      <4> QED BY <3>1, <4>1
    <3>4. Cardinality(M) = 1
      BY <3>3, FS_Singleton
    <3>5. U8(rc[f] + 1) = rc[f] + 1
      BY <3>2, Byte
    <3>6. rc2[f] = U8(rc[f] + Cardinality(M))
      OBVIOUS
    <3> HIDE DEF M
    <3> QED BY <2>2, <3>2, <3>4, <3>5, <3>6
  <2>3. CASE f \notin named
    <3>1. M = {}
      BY <2>3
    <3>2. Cardinality(M) = 0
      BY <3>1, FS_EmptySet
    <3>3. U8(rc[f] + 0) = rc[f]
      BY <2>1, Byte
    <3>4. rc2[f] = U8(rc[f] + Cardinality(M))
      OBVIOUS
    <3> HIDE DEF M
    <3> QED BY <2>3, <3>2, <3>3, <3>4
  <2> QED BY <2>2, <2>3
<1>3. rc2 \in [Frames -> 0 .. 255]
  OBVIOUS
<1>4. ASSUME NEW u \in T \cup {g}, NEW a \in AllPages
      PROVE  /\ u = g => /\ a \in S => t2[u][a].pfn = t[s][a].pfn
                         /\ a \notin S => t2[u][a].pfn \notin Frames
                         /\ ~t2[u][a].rw
             /\ u # g => /\ u \in T /\ t2[u][a].pfn = t[u][a].pfn
                         /\ t2[u][a].rw => t[u][a].rw /\ ~(u = s /\ a \in S)
  <2>1. Absent.pfn \notin Frames /\ ~Absent.rw
    BY CowFacts DEF Absent
  <2> DEFINE e == [pfn |-> t[s][a].pfn, rw |-> FALSE]
  <2>2. e.pfn = t[s][a].pfn /\ ~e.rw
    OBVIOUS
  <2>3. /\ a \in S => t2[s][a] = e /\ t2[g][a] = e
        /\ a \notin S => t2[s][a] = t[s][a] /\ t2[g][a] = Absent
    BY <1>4
  <2> HIDE DEF e
  <2>4. CASE u = g
    BY <2>1, <2>2, <2>3, <2>4
  <2>5. CASE u # g /\ u = s
    BY <2>2, <2>3, <2>5
  <2>6. CASE u # g /\ u # s
    <3>1. u \in T \ {s}
      BY <2>6
    <3>2. t2[u] = t[u]
      BY <3>1
    <3> QED BY <2>6, <3>1, <3>2
  <2> QED BY <2>4, <2>5, <2>6
<1>5. \A u \in T \cup {g}, a, b \in AllPages : t2[u][a].pfn \in Frames /\ t2[u][a].pfn = t2[u][b].pfn => a = b
  <2> SUFFICES ASSUME NEW u \in T \cup {g}, NEW a \in AllPages, NEW b \in AllPages,
                      t2[u][a].pfn \in Frames, t2[u][a].pfn = t2[u][b].pfn
               PROVE  a = b
    OBVIOUS
  <2>1. PICK x \in T : t[x][a].pfn \in Frames /\ t[x][a].pfn = t[x][b].pfn
    BY <1>4
  <2> QED BY <2>1 DEF Cnt
<1>6. ASSUME NEW f \in Frames PROVE Cardinality(Shr(T \cup {g}, t2, f)) <= rc2[f]
  <2> DEFINE S2 == Shr(T \cup {g}, t2, f)
             S1 == Shr(T, t, f)
  <2>1. IsFiniteSet(S2) /\ IsFiniteSet(S1) /\ Cardinality(S1) \in Nat /\ Cardinality(S2) \in Nat
    BY <1>1, ShrFinite
  <2>2. ASSUME NEW e \in S2 PROVE e \in S1 \/ \E q \in S : e = <<g, q>> /\ t[s][q].pfn = f
    <3>1. PICK u \in T \cup {g}, a \in AllPages : e = <<u, a>> /\ t2[u][a].pfn = f
      BY <2>2, ShrIn
    <3>2. CASE u = g
      BY <1>4, <3>1, <3>2
    <3>3. CASE u # g
      BY <1>4, <3>1, <3>3, ShrHas
    <3> QED BY <3>2, <3>3
  <2>3. Cardinality(S1) <= rc[f] /\ rc[f] \in 0 .. 255
    BY <1>1 DEF Cnt
  <2> HIDE DEF S1, S2
  <2>4. CASE f \in named
    <3>1. PICK q \in S : t[s][q].pfn = f
      BY <2>4
    <3>2. \A q2 \in S : t[s][q2].pfn = f => q2 = q
      BY <3>1 DEF Cnt
    <3>3. S2 \subseteq S1 \cup {<<g, q>>}
      BY <2>2, <3>2
    <3>4. IsFiniteSet(S1 \cup {<<g, q>>}) /\ Cardinality(S1 \cup {<<g, q>>}) <= Cardinality(S1) + 1
          /\ Cardinality(S1 \cup {<<g, q>>}) \in Nat
      <4> DEFINE x == <<g, q>>
      <4> HIDE DEF x
      <4>1. IsFiniteSet(S1 \cup {x})
            /\ Cardinality(S1 \cup {x}) = IF x \in S1 THEN Cardinality(S1) ELSE Cardinality(S1) + 1
        BY <2>1, FS_AddElement
      <4>2. IsFiniteSet(S1 \cup {x}) /\ Cardinality(S1 \cup {x}) <= Cardinality(S1) + 1 /\ Cardinality(S1 \cup {x}) \in Nat
        BY <2>1, <4>1
      <4> QED BY <4>2 DEF x
    <3>5. Cardinality(S2) <= Cardinality(S1 \cup {<<g, q>>})
      BY <3>3, <3>4, Small
    <3> DEFINE k == rc2[f]
               m == rc[f]
    <3>6. k = m + 1 /\ m \in 0 .. 255 /\ Cardinality(S1) <= m
      BY <1>2, <2>3, <2>4
    <3> HIDE DEF k, m
    <3>7. Cardinality(S2) <= k
      BY <2>1, <3>4, <3>5, <3>6
    <3> QED BY <3>7 DEF S2, k
  <2>5. CASE f \notin named
    <3>1. S2 \subseteq S1
      BY <2>2, <2>5
    <3>2. Cardinality(S2) <= Cardinality(S1)
      BY <2>1, <3>1, Small
    <3>3. rc2[f] = rc[f]
      BY <1>2, <2>5
    <3>4. Cardinality(S2) <= rc2[f]
      BY <2>1, <2>3, <3>2, <3>3
    <3> QED BY <3>4 DEF S2
  <2> QED BY <2>4, <2>5
<1>7. \A f \in Frames : rc2[f] > 0 => f \in bm
  <2> SUFFICES ASSUME NEW f \in Frames, rc2[f] > 0 PROVE rc[f] > 0
    BY DEF Cnt
  <2> QED BY <1>2
<1>8. ASSUME NEW u \in T \cup {g}, NEW a \in AllPages, t2[u][a].rw PROVE rc2[t2[u][a].pfn] = 1
  <2>1. u # g /\ u \in T /\ t2[u][a].pfn = t[u][a].pfn /\ t[u][a].rw /\ ~(u = s /\ a \in S) /\ t[u] \in Tables
    BY <1>1, <1>4, <1>8
  <2>4. t[u][a].pfn \in Frames
    BY <2>1, EntryIs
  <2>2. t[u][a].pfn \in Frames /\ rc[t[u][a].pfn] = 1
    BY <2>1, <2>4 DEF Cnt
  <2>6. Cnt(T, t, rc, bm) /\ u \in T
    BY <2>1
  <2>5. \A x \in T, b \in AllPages : t[x][b].pfn = t[u][a].pfn => x = u /\ b = a
    <3> HIDE DEF ForkedTo
    <3> QED BY <1>0, <2>2, <2>6 DEF Said
  <2>3. t[u][a].pfn \notin named
    BY <2>1, <2>5
  <2> HIDE DEF named
  <2> QED BY <1>2, <2>1, <2>2, <2>3
<1>9. T \cup {g} \subseteq Spaces /\ t2 \in [Spaces -> Tables]
  BY <1>1
<1> DEFINE T2 == T \cup {g}
<1> HIDE DEF ForkedTo, named, T2
<1>10. Cnt(T2, t2, rc2, bm)
  BY <1>3, <1>5, <1>6, <1>7, <1>8, <1>9 DEF Cnt, T2
<1> QED BY <1>10 DEF T2

\* New tables and counts: a page of the table of s that shares o gets a frame f.
CopiedTo(T, t, rc, bm, s, page, o, f, t2, rc2) ==
  /\ s \in T /\ page \in AllPages /\ o \in Frames /\ t[s][page].pfn = o /\ rc[o] # 1 /\ f \in Frames \ bm
  /\ rc2 \in [Frames -> 0 .. 255] /\ rc2[f] = 1
  /\ o # f => rc2[o] = U8(rc[o] - 1)
  /\ \A x \in Frames \ {f, o} : rc2[x] = rc[x]
  /\ t2 \in [Spaces -> Tables] /\ t2[s][page].pfn = f
  /\ \A q \in AllPages \ {page} : t2[s][q] = t[s][q]
  /\ \A u \in T \ {s} : t2[u] = t[u]

\* A page gets a copy of a shared frame.
LEMMA CntCopied ==
  ASSUME NEW T, NEW t, NEW rc, NEW bm, Cnt(T, t, rc, bm), NEW s, NEW page, NEW o, NEW f, NEW t2, NEW rc2,
         CopiedTo(T, t, rc, bm, s, page, o, f, t2, rc2)
  PROVE  Cnt(T, t2, rc2, bm \cup {f})
<1>0. Said(T, t, rc, bm)
  BY Counts
<1> USE DEF CopiedTo
<1>1. T \subseteq Spaces /\ s \in Spaces /\ t \in [Spaces -> Tables] /\ rc \in [Frames -> 0 .. 255]
  BY DEF Cnt
<1>2. o \in bm /\ rc[o] \in 2 .. 255 /\ o # f /\ rc2[o] = rc[o] - 1
  <2>1. o \in bm /\ rc[o] \in 1 .. 255 /\ o # f
    BY <1>0 DEF Said
  <2>2. rc[o] - 1 \in Int /\ 0 <= rc[o] - 1 /\ rc[o] - 1 <= 255
    BY <2>1
  <2>3. U8(rc[o] - 1) = rc[o] - 1
    BY <2>2, Byte
  <2> QED BY <2>1, <2>3
<1>3. \A u \in T, a \in AllPages : t[u][a].pfn # f
  <2> SUFFICES ASSUME NEW u \in T, NEW a \in AllPages, t[u][a].pfn = f PROVE FALSE
    OBVIOUS
  <2>1. t[u][a].pfn \in Frames /\ t[u][a].pfn \notin bm
    OBVIOUS
  <2> HIDE DEF CopiedTo
  <2> QED BY <1>0, <2>1 DEF Said
<1>4. ASSUME NEW u \in T, NEW a \in AllPages
      PROVE  /\ u = s /\ a = page => t2[u][a].pfn = f
             /\ ~(u = s /\ a = page) => t2[u][a] = t[u][a]
  BY <1>4
<1>5. \A u \in T, a, b \in AllPages : t2[u][a].pfn \in Frames /\ t2[u][a].pfn = t2[u][b].pfn => a = b
  BY <1>3, <1>4 DEF Cnt
<1>6. ASSUME NEW x \in Frames PROVE Cardinality(Shr(T, t2, x)) <= rc2[x]
  <2> DEFINE S2 == Shr(T, t2, x)
             S == Shr(T, t, x)
  <2>1. IsFiniteSet(S2) /\ IsFiniteSet(S) /\ Cardinality(S) \in Nat /\ Cardinality(S2) \in Nat
    BY <1>1, ShrFinite
  <2>2. ASSUME NEW e \in S2
        PROVE  (x = f /\ e = <<s, page>>) \/ (x # f /\ e \in S /\ e # <<s, page>>)
    <3>1. PICK u \in T, a \in AllPages : e = <<u, a>> /\ t2[u][a].pfn = x
      BY <2>2, ShrIn
    <3>2. CASE u = s /\ a = page
      BY <1>4, <3>1, <3>2
    <3>3. CASE ~(u = s /\ a = page)
      <4>1. t[u][a].pfn = x
        BY <1>4, <3>1, <3>3
      <4>2. <<u, a>> \in S /\ x # f
        BY <1>3, <4>1, ShrHas
      <4> QED BY <3>1, <3>3, <4>2
    <3> QED BY <3>2, <3>3
  <2>3. Cardinality(S) <= rc[x] /\ rc[x] \in 0 .. 255
    BY <1>1 DEF Cnt
  <2>4. x = o => <<s, page>> \in S
    BY ShrHas
  <2> HIDE DEF S, S2
  <2>5. CASE x = f
    <3>1. S2 \subseteq {<<s, page>>}
      BY <2>2, <2>5
    <3>2. Cardinality(S2) <= 1
      BY <2>1, <3>1, Small
    <3> QED BY <2>5, <3>2 DEF S2
  <2>6. CASE x = o
    <3>1. S2 \subseteq S \ {<<s, page>>}
      BY <1>2, <2>2, <2>6
    <3>2. IsFiniteSet(S \ {<<s, page>>}) /\ Cardinality(S \ {<<s, page>>}) = Cardinality(S) - 1
      BY <2>1, <2>4, <2>6, FS_RemoveElement
    <3>3. Cardinality(S2) <= Cardinality(S \ {<<s, page>>})
      BY <3>1, <3>2, Small
    <3> DEFINE k == rc2[x]
               m == rc[x]
    <3>4. k = m - 1 /\ m \in 0 .. 255 /\ Cardinality(S) <= m
      BY <1>2, <2>3, <2>6
    <3> HIDE DEF k, m
    <3>5. Cardinality(S2) <= k
      BY <2>1, <3>2, <3>3, <3>4
    <3> QED BY <3>5 DEF S2, k
  <2>7. CASE x # f /\ x # o
    <3>1. S2 \subseteq S
      BY <2>2, <2>7
    <3>2. Cardinality(S2) <= Cardinality(S)
      BY <2>1, <3>1, Small
    <3>3. rc2[x] = rc[x]
      BY <2>7
    <3>4. Cardinality(S2) <= rc2[x]
      BY <2>1, <2>3, <3>2, <3>3
    <3> QED BY <3>4 DEF S2
  <2> QED BY <2>5, <2>6, <2>7
<1>7. \A x \in Frames : rc2[x] > 0 => x \in bm \cup {f}
  BY <1>2 DEF Cnt
<1>8. ASSUME NEW u \in T, NEW a \in AllPages, t2[u][a].rw PROVE rc2[t2[u][a].pfn] = 1
  <2>1. CASE u = s /\ a = page
    BY <1>4, <2>1
  <2>2. CASE ~(u = s /\ a = page)
    <3>1. t2[u][a] = t[u][a] /\ t[u] \in Tables
      BY <1>1, <1>4, <2>2
    <3>2. t[u][a].pfn \in Frames /\ rc[t[u][a].pfn] = 1
      BY <1>8, <3>1, EntryIs DEF Cnt
    <3>3. t[u][a].pfn # o /\ t[u][a].pfn # f
      BY <1>3, <3>2
    <3> QED BY <3>1, <3>2, <3>3
  <2> QED BY <2>1, <2>2
<1> QED BY <1>1, <1>5, <1>6, <1>7, <1>8 DEF Cnt

\* The tables in use: they are the same when nothing is scheduled, and a
\* process that runs has one.
LEMMA TabsAre ==
  ASSUME MemInv
  PROVE  /\ Tabs \subseteq Spaces /\ \A p \in Running : pgd[p] \in Tabs
         /\ UNCHANGED <<state, pgd>> => Tabs' = Tabs
         /\ \A f : Sharers(f) = Shr(Tabs, pte, f)
<1>1. Tabs \subseteq Spaces /\ \A p \in Running : pgd[p] \in Tabs
  BY DEF MemInv, Tabs, Live, Running
<1>2. UNCHANGED <<state, pgd>> => Tabs' = Tabs
  BY DEF Tabs, Live
<1>3. \A f : Sharers(f) = Shr(Tabs, pte, f)
  BY DEF Sharers, Shr, Tabs
<1> QED BY <1>1, <1>2, <1>3

\* Installing pages keeps the counts.
LEMMA CountInstall ==
  ASSUME MemInv, CountInv, NEW p \in Running, NEW pages, NEW rw \in BOOLEAN, Install(p, pages, rw),
         UNCHANGED <<state, pgd>>
  PROVE  CountInv'
<1> DEFINE s == pgd[p]
<1>1. s \in Tabs /\ s \in Spaces /\ Tabs' = Tabs /\ Tabs \subseteq Spaces
  BY TabsAre
<1>2. PICK new : /\ NewFrames(pages, new) /\ Filled(Entries(p), pages, new, rw) \in Tables
                 /\ pte' = [pte EXCEPT ![s] = Filled(Entries(p), pages, new, rw)]
                 /\ FrameType'
  BY InstallIs
<1> DEFINE F == {new[q] : q \in pages}
<1>3. /\ new \in [pages -> Frames] /\ (\A q \in pages : new[q] \notin bitmap)
      /\ \A q, q2 \in pages : new[q] = new[q2] => q = q2
      /\ bitmap' = bitmap \cup F /\ refcount' = [f \in Frames |-> IF f \in F THEN 1 ELSE refcount[f]]
  BY <1>2 DEF NewFrames
<1>4. pte \in [Spaces -> Tables] /\ Entries(p) = pte[s] /\ refcount' \in [Frames -> 0 .. 255]
  BY <1>2 DEF MemInv, Entries, FrameType
<1>5. /\ pte' \in [Spaces -> Tables]
      /\ \A q \in AllPages : pte'[s][q] = Filled(pte[s], pages, new, rw)[q]
      /\ \A u \in Tabs \ {s} : pte'[u] = pte[u]
  BY <1>1, <1>2, <1>4
<1>6. Cnt(Tabs, pte, refcount, bitmap)
  BY DEF CountInv
<1>7. \A q \in pages : new[q] \notin bitmap
  BY <1>3
<1>8. \A q, q2 \in pages : new[q] = new[q2] => q = q2
  BY <1>3
<1>9. (\A q \in pages : new[q] \in F) /\ \A f \in F : \E q \in pages : new[q] = f
  OBVIOUS
<1>10. (\A f \in F : refcount'[f] = 1) /\ \A f \in Frames \ F : refcount'[f] = refcount[f]
  <2>1. F \subseteq Frames
    BY <1>3
  <2> QED BY <1>3, <2>1
<1>11. new \in [pages -> Frames] /\ bitmap' = bitmap \cup F
  BY <1>3
<1> HIDE DEF F, s
<1>12. FilledTo(Tabs, pte, refcount, bitmap, s, pages, new, rw, F, pte', refcount')
  BY <1>1, <1>4, <1>5, <1>7, <1>8, <1>9, <1>10, <1>11 DEF FilledTo
<1>13. Cnt(Tabs, pte', refcount', bitmap \cup F)
  BY <1>6, <1>12, CntFilled
<1> QED BY <1>1, <1>11, <1>13 DEF CountInv

\* So does taking pages out.
LEMMA CountUnmap ==
  ASSUME MemInv, CountInv, NEW p \in Running, NEW pages, pfn_unmap(p, pages), UNCHANGED <<state, pgd>>
  PROVE  CountInv'
<1> DEFINE s == pgd[p]
           gone == {pte[s][page].pfn : page \in {q \in pages \cap AllPages : pte[s][q] # Absent}}
<1>1. s \in Tabs /\ s \in Spaces /\ Tabs' = Tabs
  BY TabsAre
<1>2. pte \in [Spaces -> Tables] /\ Entries(p) = pte[s]
  BY DEF MemInv, Entries
<1>3. /\ Dropped(pte[s], pages) /\ Cleared(pte[s], pages) \in Tables
      /\ pte' = [pte EXCEPT ![s] = Cleared(pte[s], pages)] /\ FrameType'
  BY <1>2, UnmapIs
<1>4. /\ pte' \in [Spaces -> Tables] /\ refcount' \in [Frames -> 0 .. 255]
      /\ \A q \in AllPages : pte'[s][q] = Cleared(pte[s], pages)[q]
      /\ \A u \in Tabs \ {s} : pte'[u] = pte[u]
  BY <1>1, <1>2, <1>3, TabsAre DEF FrameType
<1>5. /\ \A f \in gone \cap Frames : refcount'[f] = U8(refcount[f] - 1)
      /\ \A f \in Frames \ gone : refcount'[f] = refcount[f]
      /\ \A f \in bitmap : f \in bitmap' \/ (f \in gone /\ refcount[f] = 1)
  BY <1>3 DEF Dropped
<1>6. /\ \A q \in pages \cap AllPages : pte[s][q] # Absent => pte[s][q].pfn \in gone
      /\ \A f \in gone : \E q \in pages \cap AllPages : pte[s][q] # Absent /\ pte[s][q].pfn = f
  OBVIOUS
<1>7. Cnt(Tabs, pte, refcount, bitmap)
  BY DEF CountInv
<1> HIDE DEF gone, s
<1>8. Cnt(Tabs, pte', refcount', bitmap')
  <2>1. DroppedTo(Tabs, pte, refcount, bitmap, s, pages, gone, pte', refcount', bitmap')
    BY <1>1, <1>4, <1>5, <1>6 DEF ClearedTo, DroppedTo
  <2> QED BY <1>7, <2>1, CntDropped
<1> QED BY <1>1, <1>8 DEF CountInv

\* Steps that change no count: entries go, or rights, or the only entry of a
\* frame gains them.
LEMMA CountWeaker ==
  ASSUME MemInv, CountInv, UNCHANGED frames, pte' \in [Spaces -> Tables], Tabs' \subseteq Spaces,
         \A s \in Tabs', a \in AllPages : pte'[s][a].pfn \in Frames => s \in Tabs /\ pte'[s][a].pfn = pte[s][a].pfn,
         \A s \in Tabs', a \in AllPages : pte'[s][a].rw => refcount[pte'[s][a].pfn] = 1
  PROVE  CountInv'
<1>1. Cnt(Tabs, pte, refcount, bitmap) /\ bitmap' = bitmap /\ refcount' = refcount
  BY DEF CountInv, frames
<1>2. Cnt(Tabs', pte', refcount, bitmap)
  BY <1>1, CntWeaker
<1> QED BY <1>1, <1>2 DEF CountInv

\* Entries the counts allow stay so.
LEMMA WritersCounted ==
  ASSUME MemInv, CountInv, NEW s \in Tabs, NEW a \in AllPages, pte[s][a].rw
  PROVE  refcount[pte[s][a].pfn] = 1
BY DEF CountInv, Cnt

\* A change of rights of one page counted once.
LEMMA CountRights ==
  ASSUME MemInv, CountInv, NEW p \in Running, UNCHANGED <<state, pgd>>, UNCHANGED frames,
         NEW page \in AllPages, Entries(p)[page] # Absent, refcount[Entries(p)[page].pfn] = 1, NEW rw \in BOOLEAN,
         pte' = [pte EXCEPT ![pgd[p]] = WithRights(Entries(p), page, rw)]
  PROVE  CountInv'
<1> DEFINE s == pgd[p]
           u == WithRights(Entries(p), page, rw)
<1>1. s \in Tabs /\ s \in Spaces /\ Tabs' = Tabs /\ Tabs \subseteq Spaces
  BY TabsAre
<1>2. pte \in [Spaces -> Tables] /\ Entries(p) = pte[s] /\ Entries(p) \in Tables
  BY <1>1 DEF MemInv, Entries
<1>3. u \in Tables /\ u[page].pfn = pte[s][page].pfn /\ \A q \in AllPages \ {page} : u[q] = pte[s][q]
  <2>1. u = WithRights(Entries(p), page, rw)
    OBVIOUS
  <2> HIDE DEF u
  <2> QED BY <1>2, <2>1, RightsOnly
<1>4. pte' \in [Spaces -> Tables] /\ pte'[s] = u /\ \A x \in Spaces \ {s} : pte'[x] = pte[x]
  BY <1>1, <1>2, <1>3
<1>5. refcount[pte[s][page].pfn] = 1
  BY <1>2
<1> HIDE DEF u, s
<1>6. ASSUME NEW x \in Tabs, NEW a \in AllPages
      PROVE  pte'[x][a].pfn = pte[x][a].pfn /\ (pte'[x][a].rw => refcount[pte[x][a].pfn] = 1)
  <2>1. CASE x = s /\ a = page
    BY <1>3, <1>4, <1>5, <2>1
  <2>2. CASE ~(x = s /\ a = page)
    <3>1. pte'[x][a] = pte[x][a]
      BY <1>1, <1>3, <1>4, <2>2
    <3> QED BY <3>1, WritersCounted
  <2> QED BY <2>1, <2>2
<1> QED BY <1>1, <1>4, <1>6, CountWeaker

\* mprotect.
LEMMA CountMprotect ==
  ASSUME MemInv, CountInv, NEW p \in Slots, NEW addr \in Pages, NEW length \in ProtLengths, NEW prot \in Prots,
         mprotect(p, addr, length, prot)
  PROVE  CountInv'
<1>1. p \in Running /\ UNCHANGED <<state, pgd>> /\ UNCHANGED frames /\ addr \in AllPages
  BY CowFacts DEF mprotect
<1>2. pte' = pte \/ /\ addr \in Present(p) /\ refcount[Entries(p)[addr].pfn] = 1
                    /\ pte' = [pte EXCEPT ![pgd[p]][addr].rw = Writable(prot)]
  BY DEF mprotect, change_permissions
<1>3. CASE pte' = pte
  BY <1>1, <1>3, TabsAre DEF CountInv, frames
<1>4. CASE /\ addr \in Present(p) /\ refcount[Entries(p)[addr].pfn] = 1
           /\ pte' = [pte EXCEPT ![pgd[p]][addr].rw = Writable(prot)]
  <2>1. pte' = [pte EXCEPT ![pgd[p]] = WithRights(Entries(p), addr, Writable(prot))]
    BY <1>1, <1>4, RunningIs DEF WithRights, Entries, MemInv
  <2>2. Writable(prot) \in BOOLEAN /\ Entries(p)[addr] # Absent
    BY <1>4 DEF Writable, Present
  <2> QED BY <1>1, <1>4, <2>1, <2>2, CountRights
<1> QED BY <1>2, <1>3, <1>4

\* shrink, when nobody else maps the frames.
LEMMA CountShrink ==
  ASSUME MemInv, CountInv, ~ShrinkShared, NEW p \in Slots, NEW size \in 1 .. DataEnd, MayShrink(p, size), do_shrink(p, size)
  PROVE  CountInv'
<1> DEFINE s == pgd[p]
           last == LastPages(p, size)
           freed == {pte[s][page].pfn : page \in last}
<1>1. p \in Running /\ UNCHANGED <<state, pgd>>
  BY DEF do_shrink
<1>2. s \in Tabs /\ s \in Spaces /\ Tabs' = Tabs /\ Tabs \subseteq Spaces
  BY <1>1, TabsAre
<1>3. pte \in [Spaces -> Tables] /\ Entries(p) = pte[s]
  BY DEF MemInv, Entries
<1>4. /\ last \subseteq AllPages /\ Freed(freed) /\ Cleared(pte[s], last) \in Tables
      /\ pte' = [pte EXCEPT ![s] = Cleared(pte[s], last)] /\ FrameType'
  <2> DEFINE freed2 == {Entries(p)[page].pfn : page \in last}
             t == Cleared(Entries(p), last)
             n == next_free[p] - size
  <2>1. Lawful(p, t, areas[p], n) /\ Freed(freed2) /\ last \subseteq DataPages
    BY ShrinkOwn
  <2>2. freed2 = freed /\ t = Cleared(pte[s], last)
    BY <1>3
  <2> HIDE DEF freed, freed2, t, n, last, s
  <2>3. last \subseteq AllPages /\ Freed(freed)
    BY <2>1, <2>2, CowFacts
  <2>4. t \in Tables /\ pte' = [pte EXCEPT ![s] = t] /\ FrameType'
    BY <2>1 DEF Lawful, Own, Fit, s
  <2> QED BY <2>2, <2>3, <2>4
<1>5. /\ pte' \in [Spaces -> Tables] /\ refcount' \in [Frames -> 0 .. 255]
      /\ \A q \in AllPages : pte'[s][q] = Cleared(pte[s], last)[q]
      /\ \A u \in Tabs \ {s} : pte'[u] = pte[u]
  BY <1>2, <1>3, <1>4 DEF FrameType
<1>6. \A page \in last : pte[s][page] # Absent => Cardinality(Shr(Tabs, pte, pte[s][page].pfn)) = 1
  <2> SUFFICES ASSUME NEW page \in last, pte[s][page] # Absent
               PROVE  Cardinality(Shr(Tabs, pte, pte[s][page].pfn)) = 1
    OBVIOUS
  <2>1. page \in LastPages(p, size) \cap Present(p)
    BY <1>3, <1>4 DEF Present
  <2>2. Cardinality(Sharers(pte[s][page].pfn)) = 1
    BY <1>3, <2>1 DEF MayShrink
  <2> QED BY <2>2, TabsAre
<1>7. /\ bitmap' = bitmap \ freed /\ \A f \in freed \cap Frames : refcount'[f] = 0
      /\ \A f \in Frames \ freed : refcount'[f] = refcount[f]
  BY <1>4 DEF Freed
<1>8. /\ Cnt(Tabs, pte, refcount, bitmap)
      /\ \A q \in last : pte[s][q].pfn \in freed
      /\ \A f \in freed : \E q \in last : pte[s][q].pfn = f
  BY DEF CountInv
<1> HIDE DEF freed, last, s
<1>9. Cnt(Tabs, pte', refcount', bitmap \ freed)
  <2>1. FreedTo(Tabs, pte, refcount, s, last, freed, pte', refcount')
    BY <1>2, <1>4, <1>5, <1>6, <1>7, <1>8 DEF ClearedTo, FreedTo
  <2>2. Cnt(Tabs, pte, refcount, bitmap)
    BY <1>8
  <2> QED BY <2>1, <2>2, CntFreed
<1> QED BY <1>2, <1>7, <1>9 DEF CountInv

\* A page that faults gets a copy of a frame it shared.
LEMMA CountCopying ==
  ASSUME MemInv, CountInv, NEW p \in Running, NEW page \in AllPages, NEW f, Copying(p, page, f)
  PROVE  CountInv'
<1> DEFINE s == pgd[p]
           o == pte[s][page].pfn
<1>1. s \in Tabs /\ s \in Spaces /\ Tabs' = Tabs /\ Tabs \subseteq Spaces
  BY TabsAre DEF Copying, ctx
<1>2. /\ pte \in [Spaces -> Tables] /\ Entries(p) = pte[s] /\ refcount \in [Frames -> 0 .. 255]
      /\ bitmap \subseteq Frames
  BY DEF MemInv, Entries, FrameType
<1>3. pte[s] \in Tables /\ pte[s][page] # Absent /\ f \in Frames \ bitmap /\ refcount[o] # 1
  BY <1>1, <1>2 DEF Copying, Free
<1>4. o \in Frames /\ pte[s][page] = [pfn |-> o, rw |-> pte[s][page].rw]
  BY <1>3, EntryIs
<1>5. /\ refcount' = [refcount EXCEPT ![o] = U8(refcount[o] - 1), ![f] = 1] /\ bitmap' = bitmap \cup {f}
      /\ pte' = [pte EXCEPT ![s][page] = [pfn |-> f, rw |-> TRUE]]
  BY <1>2 DEF Copying
<1>6. refcount[o] - 1 \in Int
  <2>1. refcount[o] \in 0 .. 255
    BY <1>2, <1>4
  <2> HIDE DEF o
  <2> QED BY <2>1
<1>7. U8(refcount[o] - 1) \in 0 .. 255
  BY <1>6, Byte
<1>8. [pfn |-> f, rw |-> TRUE] \in Mapping /\ [pfn |-> f, rw |-> TRUE].pfn = f
  BY <1>3 DEF Mapping
<1> DEFINE e == [pfn |-> f, rw |-> TRUE]
<1> HIDE DEF o, s, e
<1>9. /\ refcount' \in [Frames -> 0 .. 255] /\ refcount'[f] = 1 /\ (o # f => refcount'[o] = U8(refcount[o] - 1))
      /\ \A x \in Frames \ {f, o} : refcount'[x] = refcount[x]
  BY <1>2, <1>3, <1>4, <1>5, <1>7
<1>10. /\ pte'[s] = [pte[s] EXCEPT ![page] = e] /\ \A u \in Spaces \ {s} : pte'[u] = pte[u]
       /\ pte' = [pte EXCEPT ![s] = [pte[s] EXCEPT ![page] = e]]
  BY <1>1, <1>2, <1>5 DEF e
<1>11. [pte[s] EXCEPT ![page] = e] \in Tables
  BY <1>3, <1>8 DEF Tables, e
<1>12. pte' \in [Spaces -> Tables]
  BY <1>1, <1>2, <1>10, <1>11
<1>13. pte'[s][page].pfn = f /\ \A q \in AllPages \ {page} : pte'[s][q] = pte[s][q]
  BY <1>3, <1>8, <1>10 DEF Tables, e
<1>14. CopiedTo(Tabs, pte, refcount, bitmap, s, page, o, f, pte', refcount')
  BY <1>1, <1>3, <1>4, <1>9, <1>10, <1>12, <1>13 DEF CopiedTo, o
<1>15. Cnt(Tabs, pte', refcount', bitmap \cup {f})
  BY <1>14, CntCopied DEF CountInv
<1> QED BY <1>1, <1>5, <1>15 DEF CountInv

\* cfork, when no count is at its limit.
LEMMA CountCfork ==
  ASSUME MemInv, CountInv, RefLimit <= 255, NEW p \in Slots, do_cfork(p)
  PROVE  CountInv'
<1> DEFINE c == NewCtx
           g == NewPgd
           s == pgd[p]
           S == Shared(p)
<1>1. p \in Running /\ Unused # {}
  BY DEF do_cfork
<1>2. s \in Tabs /\ s \in Spaces /\ Tabs \subseteq Spaces /\ pte \in [Spaces -> Tables] /\ Entries(p) = pte[s]
  BY <1>1, TabsAre DEF MemInv, Entries
<1>3. c \in Slots /\ c \notin Live /\ g \in Spaces /\ \A q \in Slots : q # c => pgd[q] # g
  BY <1>1, NewProcess DEF MemInv
<1>4. g \notin Tabs
  BY <1>3 DEF Tabs, Live
<1>5. state' = [state EXCEPT ![c] = "READY"] /\ pgd' = [pgd EXCEPT ![c] = g]
  BY DEF do_cfork, CopyContext
<1>6. Tabs' = Tabs \cup {g}
  <2>1. Live' = Live \cup {c}
    BY <1>3, <1>5 DEF Live, MemInv
  <2>2. \A q \in Live : pgd'[q] = pgd[q]
    BY <1>3, <1>5 DEF MemInv, Live
  <2>3. pgd'[c] = g
    BY <1>3, <1>5 DEF MemInv
  <2>4. Tabs' = {pgd'[q] : q \in Live'}
    BY DEF Tabs
  <2> HIDE DEF c, g
  <2> QED BY <2>1, <2>2, <2>3, <2>4 DEF Tabs
<1>7. /\ S \subseteq AllPages
      /\ \A q \in S : /\ pte[s][q].pfn \in Frames
                      /\ [pte[s][q] EXCEPT !.rw = FALSE] = [pfn |-> pte[s][q].pfn, rw |-> FALSE]
  BY <1>1, <1>2, SharedTables
<1>8. \A q \in S : refcount[pte[s][q].pfn] < 255
  <2>1. \A q \in S : q \in Present(p)
    BY DEF Shared
  <2>2. \A q \in S : refcount[pte[s][q].pfn] < RefLimit
    BY <1>2, <2>1 DEF do_cfork
  <2>3. \A q \in S : refcount[pte[s][q].pfn] \in 0 .. 255
    BY <1>7 DEF MemInv, FrameType
  <2> HIDE DEF S, s
  <2> QED BY <2>2, <2>3, CowAssumption, SMTT(30)
<1>9. refcount' \in [Frames -> 0 .. 255] /\ pte' \in [Spaces -> Tables]
  BY CforkKeeps DEF MemInv, FrameType
<1>10. \A f \in Frames : refcount'[f] = U8(refcount[f] + Cardinality({q \in S : pte[s][q].pfn = f}))
  BY <1>2 DEF do_cfork, cfork_copy_mm, Counted
<1>11. pte' = [pte EXCEPT ![s] = install_ptable(pte[s], p), ![g] = install_ptable(EmptyTable, p)]
  BY <1>2 DEF do_cfork, cfork_copy_mm
<1>12. s # g
  BY <1>2, <1>4
<1> HIDE DEF g
<1>13. /\ pte'[s] = install_ptable(pte[s], p) /\ pte'[g] = install_ptable(EmptyTable, p)
       /\ \A u \in Spaces \ {s, g} : pte'[u] = pte[u]
  BY <1>2, <1>3, <1>11, <1>12 DEF g
<1>14. \A q \in S : /\ pte'[s][q] = [pfn |-> pte[s][q].pfn, rw |-> FALSE]
                    /\ pte'[g][q] = [pfn |-> pte[s][q].pfn, rw |-> FALSE]
  <2>1. ASSUME NEW t, NEW q \in S PROVE install_ptable(t, p)[q] = [pfn |-> pte[s][q].pfn, rw |-> FALSE]
    <3>1. install_ptable(t, p)[q] = [pte[s][q] EXCEPT !.rw = FALSE]
      BY <1>2, <1>7 DEF install_ptable
    <3> QED BY <1>7, <3>1
  <2> DEFINE e == [q \in S |-> [pfn |-> pte[s][q].pfn, rw |-> FALSE]]
  <2>2. \A t : \A q \in S : install_ptable(t, p)[q] = e[q]
    BY <2>1
  <2>3. \A q \in S : e[q] = [pfn |-> pte[s][q].pfn, rw |-> FALSE]
    OBVIOUS
  <2> HIDE DEF s, S, e
  <2>4. \A q \in S : pte'[s][q] = e[q] /\ pte'[g][q] = e[q]
    BY <1>13, <2>2
  <2> QED BY <2>3, <2>4
<1>15. \A q \in AllPages \ S : pte'[s][q] = pte[s][q] /\ pte'[g][q] = Absent
  <2>1. \A t : \A q \in AllPages \ S : install_ptable(t, p)[q] = t[q]
    BY DEF install_ptable
  <2> HIDE DEF s, S
  <2> QED BY <1>13, <2>1, TableType
<1>16. \A u \in Tabs \ {s} : pte'[u] = pte[u]
  BY <1>2, <1>4, <1>13
<1> HIDE DEF s, S
<1>17. ForkedTo(Tabs, pte, refcount, s, g, S, pte', refcount')
  BY <1>2, <1>3, <1>4, <1>7, <1>8, <1>9, <1>10, <1>14, <1>15, <1>16 DEF ForkedTo, g
<1>18. Cnt(Tabs \cup {g}, pte', refcount', bitmap)
  BY <1>17, CntForked DEF CountInv
<1>19. bitmap' = bitmap
  BY DEF do_cfork
<1> QED BY <1>6, <1>18, <1>19 DEF CountInv, g

\* vfork: the child is one more process of a table.
LEMMA CountVfork ==
  ASSUME MemInv, CountInv, NEW p \in Slots, do_vfork(p)
  PROVE  CountInv'
<1> DEFINE c == NewCtx
<1>1. p \in Running /\ Unused # {}
  BY DEF do_vfork
<1>2. c \in Slots /\ c \notin Live /\ p \in Live
  BY <1>1, NewProcess DEF MemInv, Running, Live
<1>3. /\ state' = [state EXCEPT ![p] = "WAITING", ![c] = "READY"] /\ pgd' = [pgd EXCEPT ![c] = pgd[p]]
      /\ pte' = pte /\ UNCHANGED frames
  BY DEF do_vfork, CopyContext, frames
<1> HIDE DEF c
<1>4. ASSUME NEW q \in Slots, state'[q] # "UNUSED" PROVE pgd'[q] \in Tabs
  <2>1. CASE q = c
    BY <1>2, <1>3, <2>1 DEF MemInv, Tabs
  <2>2. CASE q # c
    <3>1. q \in Live /\ pgd'[q] = pgd[q]
      BY <1>2, <1>3, <1>4, <2>2 DEF MemInv, Live
    <3> QED BY <3>1 DEF Tabs
  <2> QED BY <2>1, <2>2
<1>5. Tabs' \subseteq Tabs
  BY <1>4 DEF Tabs, Live
<1>6. Tabs' \subseteq Spaces /\ pte' \in [Spaces -> Tables]
  BY <1>3, <1>5, TabsAre DEF MemInv
<1>7. \A s \in Tabs', a \in AllPages : pte'[s][a].rw => refcount[pte'[s][a].pfn] = 1
  BY <1>3, <1>5, WritersCounted
<1> QED BY <1>3, <1>5, <1>6, <1>7, CountWeaker

\* Exit: counts stay unless no process is left, and then there is nothing to count.
LEMMA CountExit ==
  ASSUME MemInv, CountInv, NEW p \in Running, Exit(p)
  PROVE  CountInv'
<1> DEFINE s == [q \in Slots |-> IF q = p THEN "UNUSED" ELSE IF q \in VforkParent(p) THEN "READY" ELSE state[q]]
           stays == \E q \in Slots : s[q] # "UNUSED" /\ pgd[q] = pgd[p]
<1>1. p \in Slots /\ state[p] = "READY" /\ pgd[p] \in Spaces /\ pgd[p] \in Tabs /\ Tabs \subseteq Spaces
  BY RunningIs, TabsAre
<1>2. state' = s /\ pgd' = pgd /\ pte' = IF stays THEN pte ELSE [pte EXCEPT ![pgd[p]] = EmptyTable]
  BY DEF Exit
<1>3. IF \A q \in Slots : s[q] = "UNUSED" THEN pt_cleanup(p) ELSE UNCHANGED frames
  BY DEF Exit
<1>4. ASSUME NEW q \in Slots, s[q] # "UNUSED" PROVE pgd[q] \in Tabs
  <2>1. CASE q \in VforkParent(p)
    BY <1>1, <2>1 DEF VforkParent
  <2>2. CASE q \notin VforkParent(p)
    <3>1. q \in Live
      BY <1>4, <2>2 DEF Live
    <3> QED BY <3>1 DEF Tabs
  <2> QED BY <2>1, <2>2
<1>5. pte' \in [Spaces -> Tables] /\ refcount' \in [Frames -> 0 .. 255]
  BY ExitKeeps DEF MemInv, FrameType
<1> HIDE DEF s
<1>6. Live' = {q \in Slots : s[q] # "UNUSED"} /\ Tabs' = {pgd[q] : q \in Live'}
  BY <1>2 DEF Live, Tabs
<1>7. Tabs' \subseteq Tabs
  BY <1>4, <1>6
<1>8. CASE \A q \in Slots : s[q] = "UNUSED"
  <2>1. pt_cleanup(p) /\ Tabs' = {}
    BY <1>3, <1>6, <1>8
  <2>2. PICK freed : os_pfn_free(freed)
    BY <2>1 DEF pt_cleanup
  <2>3. bitmap' = bitmap \ freed /\ refcount' = [f \in Frames |-> IF f \in freed THEN 0 ELSE refcount[f]]
    BY <2>2 DEF os_pfn_free
  <2>4. ASSUME NEW f \in Frames PROVE Cardinality(Shr({}, pte', f)) <= refcount'[f] /\ (refcount'[f] > 0 => f \in bitmap')
    <3>1. Shr({}, pte', f) = {}
      BY DEF Shr
    <3>2. Cardinality(Shr({}, pte', f)) = 0
      BY <3>1, FS_EmptySet
    <3>3. refcount'[f] \in 0 .. 255
      BY <1>5
    <3>4. refcount'[f] > 0 => f \in bitmap'
      BY <2>3 DEF CountInv, Cnt
    <3> HIDE DEF Shr
    <3> QED BY <3>2, <3>3, <3>4
  <2>5. Cnt({}, pte', refcount', bitmap')
    BY <1>5, <2>4 DEF Cnt
  <2> QED BY <2>1, <2>5 DEF CountInv
<1>9. CASE ~\A q \in Slots : s[q] = "UNUSED"
  <2>1. \A x \in Tabs' : pte'[x] = pte[x]
    <3> SUFFICES ASSUME NEW x \in Tabs' PROVE pte'[x] = pte[x]
      OBVIOUS
    <3>1. PICK q \in Slots : s[q] # "UNUSED" /\ x = pgd[q]
      BY <1>6
    <3>2. x # pgd[p] \/ stays
      BY <3>1
    <3>3. pte \in [Spaces -> Tables] /\ x \in Spaces
      BY <1>1, <1>7 DEF MemInv
    <3> HIDE DEF stays
    <3> QED BY <1>1, <1>2, <3>2, <3>3
  <2>2. UNCHANGED frames /\ Tabs' \subseteq Spaces
    BY <1>1, <1>3, <1>7, <1>9
  <2>3. \A x \in Tabs', a \in AllPages : pte'[x][a].rw => refcount[pte'[x][a].pfn] = 1
    BY <1>7, <2>1, WritersCounted
  <2>4. \A x \in Tabs', a \in AllPages : pte'[x][a].pfn \in Frames => x \in Tabs /\ pte'[x][a].pfn = pte[x][a].pfn
    BY <1>7, <2>1
  <2> QED BY <1>5, <2>2, <2>3, <2>4, CountWeaker
<1> QED BY <1>8, <1>9

\* The shell starts init again with an empty table.
LEMMA CountExec ==
  ASSUME MemInv, CountInv, exec_init
  PROVE  CountInv'
<1> DEFINE c == NewCtx
           g == NewPgd
<1>1. \A q \in Slots : state[q] = "UNUSED"
  BY DEF exec_init, Live
<1>2. c \in Slots /\ g \in Spaces
  <2>1. Unused # {}
    BY CowFacts DEF exec_init, Unused
  <2> QED BY <2>1, NewProcess DEF MemInv
<1>3. /\ state' = [state EXCEPT ![c] = "READY"] /\ pgd' = [pgd EXCEPT ![c] = g]
      /\ pte' = [pte EXCEPT ![g] = EmptyTable] /\ UNCHANGED frames
  BY DEF exec_init, frames
<1> HIDE DEF c, g
<1>4. \A q \in Slots : state'[q] # "UNUSED" => pgd'[q] = g
  BY <1>1, <1>2, <1>3 DEF MemInv
<1>5. \A x \in Tabs' : x = g
  BY <1>4 DEF Tabs, Live
<1>6. pte' \in [Spaces -> Tables] /\ pte'[g] = EmptyTable
  BY <1>2, <1>3, TableType DEF MemInv
<1>7. \A x \in Tabs', a \in AllPages : pte'[x][a].pfn \notin Frames /\ ~pte'[x][a].rw
  <2>1. \A a \in AllPages : EmptyTable[a].pfn \notin Frames /\ ~EmptyTable[a].rw
    BY CowFacts DEF EmptyTable, Absent
  <2> QED BY <1>5, <1>6, <2>1
<1>8. Tabs' \subseteq Spaces
  BY <1>2, <1>5
<1> QED BY <1>3, <1>6, <1>7, <1>8, CountWeaker

\* Steps that change no table, no frame and no process.
LEMMA CountSame ==
  ASSUME MemInv, CountInv, UNCHANGED <<state, pgd>>, UNCHANGED <<pte, frames>>
  PROVE  CountInv'
BY TabsAre DEF CountInv, frames

\* Every step keeps the counts, while programs shrink only what is theirs.
LEMMA CountStep ==
  ASSUME MemInv, CountInv, ~ShrinkShared, RefLimit <= 255, [Next]_vars
  PROVE  CountInv'
<1>1. CASE exec_init
  BY <1>1, CountExec
<1>2. ASSUME NEW p \in Slots, NEW addr \in Hints, NEW length \in Lengths, NEW prot \in Prots,
             NEW fixed \in BOOLEAN, NEW populate \in BOOLEAN, mmap(p, addr, length, prot, fixed, populate)
      PROVE  CountInv'
  <2>1. p \in Running /\ UNCHANGED <<state, pgd>>
    BY <1>2 DEF mmap
  <2>2. \/ \E pages : Install(p, pages, Writable(prot))
        \/ UNCHANGED <<pte, frames>>
    BY <1>2 DEF mmap
  <2>3. Writable(prot) \in BOOLEAN
    BY DEF Writable
  <2> QED BY <2>1, <2>2, <2>3, CountInstall, CountSame
<1>3. ASSUME NEW p \in Slots, NEW addr \in Pages, NEW length \in UnmapLengths, munmap(p, addr, length)
      PROVE  CountInv'
  <2>1. p \in Running /\ UNCHANGED <<state, pgd>>
    BY <1>3 DEF munmap
  <2>2. (\E pages : pfn_unmap(p, pages)) \/ UNCHANGED <<pte, frames>>
    BY <1>3 DEF munmap
  <2> QED BY <2>1, <2>2, CountUnmap, CountSame
<1>4. ASSUME NEW p \in Slots, NEW addr \in Pages, NEW length \in ProtLengths, NEW prot \in Prots,
             mprotect(p, addr, length, prot)
      PROVE  CountInv'
  BY <1>4, CountMprotect
<1>5. ASSUME NEW p \in Slots, NEW size \in 1 .. DataEnd, do_expand(p, size) PROVE CountInv'
  BY <1>5, CountSame DEF do_expand
<1>6. ASSUME NEW p \in Slots, NEW size \in 1 .. DataEnd, MayShrink(p, size), do_shrink(p, size) PROVE CountInv'
  BY <1>6, CountShrink
<1>7. ASSUME NEW p \in Slots, do_cfork(p) PROVE CountInv'
  BY <1>7, CountCfork
<1>8. ASSUME NEW p \in Slots, do_vfork(p) PROVE CountInv'
  BY <1>8, CountVfork
<1>9. ASSUME NEW p \in Slots, do_exit(p) PROVE CountInv'
  BY <1>9, CountExit DEF do_exit
<1>10. ASSUME NEW p \in Slots, NEW page \in AllPages, NEW v \in Values, store(p, page, v) PROVE CountInv'
  BY <1>10, CountSame DEF store, ctx
<1>11. CASE UNCHANGED vars
  BY <1>11, CountSame DEF vars, ctx
<1>12. ASSUME NEW p \in Slots, NEW page \in AllPages, NEW write \in BOOLEAN, do_page_fault(p, page, write) PROVE CountInv'
  <2>1. /\ p \in Running
        /\ \/ Exit(p) \/ UNCHANGED vars \/ Filling(p, page, write) \/ Regaining(p, page)
           \/ \E f : Copying(p, page, f)
    BY <1>12, FaultCases
  <2>2. CASE Exit(p)
    BY <2>1, <2>2, CountExit
  <2>3. CASE Filling(p, page, write)
    BY <2>1, <2>3, CountInstall DEF Filling, ctx
  <2>4. CASE Regaining(p, page)
    <3>1. PICK rw \in BOOLEAN : rw = TRUE
      OBVIOUS
    <3>2. pte' = [pte EXCEPT ![pgd[p]] = WithRights(Entries(p), page, rw)]
      BY <2>1, <2>4, <3>1, RunningIs DEF Regaining, WithRights, Entries, MemInv
    <3>3. /\ UNCHANGED <<state, pgd>> /\ UNCHANGED frames /\ Entries(p)[page] # Absent
          /\ refcount[Entries(p)[page].pfn] = 1
      BY <2>4 DEF Regaining, ctx
    <3> QED BY <2>1, <3>2, <3>3, CountRights
  <2>5. CASE \E f : Copying(p, page, f)
    BY <2>1, <2>5, CountCopying
  <2> QED BY <1>11, <2>1, <2>2, <2>3, <2>4, <2>5
<1> QED BY <1>1, <1>2, <1>3, <1>4, <1>5, <1>6, <1>7, <1>8, <1>9, <1>10, <1>11, <1>12 DEF Next

\* Before anything runs no frame is counted.
LEMMA CountStart == Init => CountInv
<1> SUFFICES ASSUME Init PROVE CountInv
  OBVIOUS
<1>1. MemInv
  BY MemStart
<1>2. Tabs \subseteq Spaces /\ pte \in [Spaces -> Tables] /\ refcount \in [Frames -> 0 .. 255]
  BY <1>1, TabsAre DEF MemInv, FrameType
<1>3. \A s \in Tabs, a \in AllPages : pte[s][a].pfn \notin Frames /\ ~pte[s][a].rw
  BY <1>2, CowFacts DEF Init, EmptyTable, Absent
<1>4. ASSUME NEW f \in Frames PROVE Cardinality(Shr(Tabs, pte, f)) <= refcount[f] /\ ~(refcount[f] > 0)
  <2>1. \A e : e \notin Shr(Tabs, pte, f)
    BY <1>3, <1>4, ShrIn
  <2>2. Shr(Tabs, pte, f) = {}
    BY <2>1
  <2>3. Cardinality(Shr(Tabs, pte, f)) = 0
    BY <2>2, FS_EmptySet
  <2>4. refcount[f] = 0
    BY DEF Init
  <2> QED BY <2>3, <2>4
<1> QED BY <1>2, <1>3, <1>4 DEF CountInv, Cnt

\* What the counts say of sharers.
LEMMA CountedSharers == MemInv /\ CountInv => SharersCounted
<1> SUFFICES ASSUME MemInv, CountInv, NEW f \in Frames
             PROVE  /\ Cardinality(Sharers(f)) <= refcount[f]
                    /\ refcount[f] > 0 => f \in bitmap
                    /\ (\E e \in Sharers(f) : pte[e[1]][e[2]].rw) => Cardinality(Sharers(f)) = 1
  BY DEF SharersCounted
<1> DEFINE S == Sharers(f)
<1>1. S = Shr(Tabs, pte, f) /\ Tabs \subseteq Spaces
  BY TabsAre
<1>2. IsFiniteSet(S) /\ Cardinality(S) \in Nat
  BY <1>1, ShrFinite
<1>3. Cardinality(S) <= refcount[f] /\ (refcount[f] > 0 => f \in bitmap)
  BY <1>1 DEF CountInv, Cnt
<1>4. ASSUME NEW e \in S, pte[e[1]][e[2]].rw PROVE refcount[f] = 1
  <2>1. PICK s \in Tabs, a \in AllPages : e = <<s, a>> /\ pte[s][a].pfn = f
    BY <1>1, ShrIn
  <2>2. pte[s][a].rw
    BY <1>4, <2>1
  <2> QED BY <2>1, <2>2, WritersCounted
<1> HIDE DEF S
<1>5. ASSUME NEW e \in S, pte[e[1]][e[2]].rw PROVE Cardinality(S) = 1
  <2>1. Cardinality(S) <= 1
    BY <1>3, <1>4, <1>5
  <2>2. ~(Cardinality(S) <= 0)
    BY <1>2, Small
  <2> QED BY <1>2, <2>1, <2>2
<1> QED BY <1>3, <1>5 DEF S

\* "refcount is used to maintain count of number of sharers for a physical
\* memory page": no count is below the entries that name the frame and no such
\* frame is free, whatever cforks, faults, unmaps and exits come in between, as
\* long as programs do not shrink over frames others map (do_unmap_user frees
\* them whatever the count) and no count can leave its u8.
THEOREM SharersStayCounted ==
  ASSUME ~ShrinkShared, RefLimit <= 255
  PROVE  Spec => []SharersCounted
<1>1. Init => MemInv /\ CountInv
  BY MemStart, CountStart
<1>2. MemInv /\ CountInv /\ [Next]_vars => MemInv' /\ CountInv'
  BY MemStep, CountStep
<1> QED BY <1>1, <1>2, CountedSharers, PTL DEF Spec

\* Entries obey segments and areas after every step: an mprotect of one page
\* changes the entry of that page, or leaves a shared one, which is read-only.
LEMMA ObeyStep ==
  ASSUME \A l \in ProtLengths : PagesOf(l) <= 1, MemInv, CountInv, ObeyInv, [Next]_vars
  PROVE  ObeyInv'
<1>0. ASSUME NEW p, NEW t, NEW l, NEW n, Lawful(p, t, l, n) PROVE ObeyInv'
  BY <1>0, OwnObeys
<1>1. CASE exec_init
  BY <1>1, ExecKeeps
<1>2. ASSUME NEW p \in Slots, NEW addr \in Hints, NEW length \in Lengths, NEW prot \in Prots,
             NEW fixed \in BOOLEAN, NEW populate \in BOOLEAN, mmap(p, addr, length, prot, fixed, populate)
      PROVE  ObeyInv'
  BY <1>0, <1>2, MmapOwn
<1>3. ASSUME NEW p \in Slots, NEW addr \in Pages, NEW length \in UnmapLengths, munmap(p, addr, length)
      PROVE  ObeyInv'
  BY <1>0, <1>3, MunmapOwn
<1>4. ASSUME NEW p \in Slots, NEW addr \in Pages, NEW length \in ProtLengths, NEW prot \in Prots,
             mprotect(p, addr, length, prot)
      PROVE  ObeyInv'
  <2>1. PagesOf(length) <= 1
    OBVIOUS
  <2>2. WritersAlone(Entries(p))
    <3>1. p \in Running
      BY <1>4 DEF mprotect
    <3>2. pgd[p] \in Tabs
      BY <3>1, TabsAre
    <3> QED BY <3>2, WritersCounted DEF WritersAlone, Entries
  <2>3. \E t, l : Lawful(p, t, l, next_free[p])
    BY <1>4, <2>1, <2>2, MprotectOwn
  <2> QED BY <1>0, <2>3
<1>5. ASSUME NEW p \in Slots, NEW size \in 1 .. DataEnd, do_expand(p, size) PROVE ObeyInv'
  BY <1>0, <1>5, ExpandOwn
<1>6. ASSUME NEW p \in Slots, NEW size \in 1 .. DataEnd, do_shrink(p, size) PROVE ObeyInv'
  BY <1>0, <1>6, ShrinkOwn
<1>7. ASSUME NEW p \in Slots, do_cfork(p) PROVE ObeyInv'
  BY <1>7, CforkKeeps
<1>8. ASSUME NEW p \in Slots, do_vfork(p) PROVE ObeyInv'
  BY <1>8, VforkKeeps
<1>9. ASSUME NEW p \in Slots, do_exit(p) PROVE ObeyInv'
  BY <1>9, ExitKeeps DEF do_exit
<1>10. ASSUME NEW p \in Slots, NEW page \in AllPages, NEW v \in Values, store(p, page, v) PROVE ObeyInv'
  BY <1>0, <1>10, StoreOwn
<1>11. CASE UNCHANGED vars
  BY <1>11 DEF vars, ctx, ObeyInv
<1>12. ASSUME NEW p \in Slots, NEW page \in AllPages, NEW write \in BOOLEAN, do_page_fault(p, page, write) PROVE ObeyInv'
  <2>1. /\ p \in Running
        /\ \/ Exit(p) \/ UNCHANGED vars \/ Filling(p, page, write) \/ Regaining(p, page)
           \/ \E f : Copying(p, page, f)
    BY <1>12, FaultCases
  <2>2. CASE Exit(p)
    BY <2>1, <2>2, ExitKeeps
  <2>3. CASE Filling(p, page, write) \/ Regaining(p, page) \/ \E f : Copying(p, page, f)
    <3>1. PICK t : Lawful(p, t, areas[p], next_free[p])
      BY <2>1, <2>3, FaultOwn
    <3> QED BY <1>0, <3>1
  <2> QED BY <1>11, <2>1, <2>2, <2>3
<1> QED BY <1>1, <1>2, <1>3, <1>4, <1>5, <1>6, <1>7, <1>8, <1>9, <1>10, <1>11, <1>12 DEF Next

\* What a program can write its segments and areas let it write.
LEMMA ObeyWritable == ObeyInv => WritableOnlyAllowed
<1> SUFFICES ASSUME ObeyInv, NEW p \in Live, NEW page \in AllPages, state[p] = "READY", Entries(p)[page].rw
             PROVE  CowAllowed(p, page)
  BY DEF WritableOnlyAllowed
<1> QED BY DEF ObeyInv, Live, Entries, Obeys, CowAllowed

\* What the page table grants is never more than the segments and vm_areas do,
\* after any memory calls, cforks, vforks, exits and faults (no fork and no
\* clone: see CowMemory), as long as an mprotect covers one page:
\* the loop at the end of vm_area_mprotect changes the entry of the first page
\* only, so longer ones leave stores their areas forbid.
THEOREM EntriesStayInside ==
  ASSUME ~ShrinkShared, RefLimit <= 255, \A l \in ProtLengths : PagesOf(l) <= 1
  PROVE  Spec => []EntriesFollowAreas
<1>1. Init => MemInv /\ CountInv /\ ObeyInv
  BY MemStart, CountStart
<1>2. MemInv /\ CountInv /\ ObeyInv /\ [Next]_vars => MemInv' /\ CountInv' /\ ObeyInv'
  BY MemStep, CountStep, ObeyStep
<1>3. MemInv /\ ObeyInv => EntriesFollowAreas
  BY MemMapped, ObeyWritable DEF EntriesFollowAreas
<1> QED BY <1>1, <1>2, <1>3, PTL DEF Spec

-----------------------------------------------------------------------------
(***************************************************************************)
(* Private contents                                                         *)
(***************************************************************************)
\* What page a of space s shows.
Seen(T, t, m, s, a) == IF s \in T /\ t[s][a] # Absent THEN m[t[s][a].pfn] ELSE NoValue

\* Contents of every page of every space.
ByPage(V) == V = [s \in Spaces |-> [a \in AllPages |-> V[s][a]]]

\* The tables and the view, page by page, before and after a step.
LEMMA ViewIs ==
  /\ InUse = Tabs /\ InUse' = Tabs'
  /\ ByPage(View) /\ \A s \in Spaces, a \in AllPages : View[s][a] = Seen(Tabs, pte, mem, s, a)
  /\ ByPage(View') /\ \A s \in Spaces, a \in AllPages : View'[s][a] = Seen(Tabs', pte', mem', s, a)
<1>1. InUse = Tabs
  BY DEF Tabs, InUse
<1>2. InUse' = Tabs'
  BY DEF Tabs, InUse
<1>3. View = [s \in Spaces |-> [a \in AllPages |-> Seen(Tabs, pte, mem, s, a)]]
  BY <1>1 DEF View, Seen
<1>4. View' = [s \in Spaces |-> [a \in AllPages |-> Seen(Tabs', pte', mem', s, a)]]
  BY <1>2 DEF View, Seen
<1> QED BY <1>1, <1>2, <1>3, <1>4 DEF ByPage

\* Contents that differ in one space.
LEMMA OneSpace ==
  ASSUME NEW V, ByPage(V), NEW W, ByPage(W), NEW s \in Spaces,
         \A u \in Spaces \ {s}, a \in AllPages : W[u][a] = V[u][a]
  PROVE  \A c : c = [a \in AllPages |-> W[s][a]] => W = [V EXCEPT ![s] = c]
<1> SUFFICES ASSUME NEW c, c = [a \in AllPages |-> W[s][a]] PROVE W = [V EXCEPT ![s] = c]
  OBVIOUS
<1>1. \A u \in Spaces \ {s} : W[u] = V[u]
  <2> SUFFICES ASSUME NEW u \in Spaces \ {s} PROVE W[u] = V[u]
    OBVIOUS
  <2>1. W[u] = [a \in AllPages |-> W[u][a]] /\ V[u] = [a \in AllPages |-> V[u][a]]
    BY DEF ByPage
  <2> QED BY <2>1
<1>2. W[s] = c
  BY DEF ByPage
<1>3. DOMAIN V = Spaces /\ DOMAIN W = Spaces /\ V = [u \in Spaces |-> V[u]] /\ W = [u \in Spaces |-> W[u]]
  BY DEF ByPage
<1> QED BY <1>1, <1>2, <1>3

\* The frames of entries hold a value.
HeldInv == \A s \in Tabs, a \in AllPages : pte[s][a] # Absent => mem[pte[s][a].pfn] \in Values

\* A step that is one of private contents and changes none of them.
Quiet == HeldInv' /\ Private!Next /\ KeepsContents

\* A frame that an entry names after a step keeps its contents.
LEMMA Carried ==
  ASSUME MemInv', NEW m, Contents(m)
  PROVE  \A u \in Tabs', a \in AllPages : pte'[u][a] # Absent =>
            pte'[u][a].pfn \in Frames /\ mem'[pte'[u][a].pfn] = m[pte'[u][a].pfn]
<1> SUFFICES ASSUME NEW u \in Tabs', NEW a \in AllPages, pte'[u][a] # Absent
             PROVE  pte'[u][a].pfn \in Frames /\ mem'[pte'[u][a].pfn] = m[pte'[u][a].pfn]
  OBVIOUS
<1>1. u \in Spaces /\ pte' \in [Spaces -> Tables]
  BY DEF MemInv, Tabs, Live
<1>2. PICK f \in Frames : f = pte'[u][a].pfn
  <2>1. pte'[u] \in Tables
    BY <1>1
  <2> QED BY <2>1, EntryIs
<1>3. <<u, a>> \in Sharers(f)'
  BY <1>2 DEF Sharers, Tabs
<1>4. mem'[f] = IF Sharers(f)' = {} THEN NoValue ELSE m[f]
  BY <1>2 DEF Contents
<1> QED BY <1>2, <1>3, <1>4

\* Steps by which pages of one space, or the whole space, may go, and all others
\* show what they did.
LEMMA Loses ==
  ASSUME HeldInv, NEW s \in Tabs, Tabs \subseteq Spaces, Tabs' = Tabs \/ Tabs' = Tabs \ {s},
         \A u \in Tabs', a \in AllPages : pte'[u][a] # Absent =>
            u \in Tabs /\ pte[u][a] # Absent /\ mem'[pte'[u][a].pfn] = mem[pte[u][a].pfn],
         \A u \in Tabs, a \in AllPages : u # s /\ pte[u][a] # Absent => u \in Tabs' /\ pte'[u][a] # Absent
  PROVE  Quiet
<1>1. HeldInv'
  BY DEF HeldInv
<1>2. \A u \in Spaces, a \in AllPages : View'[u][a] \in {NoValue, View[u][a]}
  BY ViewIs DEF Seen
<1>3. \A u \in Spaces \ {s}, a \in AllPages : View'[u][a] = View[u][a]
  BY ViewIs DEF Seen
<1>4. KeepsContents
  BY <1>2 DEF KeepsContents
<1>5. Private!Next
  <2> DEFINE gone == {a \in AllPages : View'[s][a] = NoValue}
             V == View
             W == View'
  <2>1. \A c : c = [a \in AllPages |-> W[s][a]] => W = [V EXCEPT ![s] = c]
    <3>1. ByPage(V) /\ ByPage(W) /\ \A u \in Spaces \ {s}, a \in AllPages : W[u][a] = V[u][a]
      BY <1>3, ViewIs
    <3> HIDE DEF V, W
    <3> QED BY <3>1, OneSpace
  <2>2. [a \in AllPages |-> IF a \in gone THEN NoValue ELSE V[s][a]] = [a \in AllPages |-> W[s][a]]
    BY <1>2
  <2>3. W = [V EXCEPT ![s] = [a \in AllPages |-> IF a \in gone THEN NoValue ELSE V[s][a]]]
    BY <2>1, <2>2
  <2>4. ByPage(V) /\ s \in InUse /\ InUse = Tabs /\ InUse' = Tabs'
    BY ViewIs
  <2>5. CASE Tabs' = Tabs
    <3>1. Private!Vanish(s)
      <4> HIDE DEF V, W
      <4>1. s \in DOMAIN V
        BY <2>4 DEF ByPage
      <4>2. W = [V EXCEPT ![s] = [a \in AllPages |-> IF a \in gone THEN NoValue ELSE @[a]]]
        BY <2>3, <4>1
      <4> QED BY <2>4, <2>5, <4>2 DEF Private!Vanish, V, W
    <3> QED BY <3>1 DEF Private!Next
  <2>6. CASE Tabs' = Tabs \ {s}
    <3>1. \A a \in AllPages : W[s][a] = NoValue
      BY <2>6, ViewIs DEF Seen
    <3>2. Private!End(s)
      <4> HIDE DEF V, W
      <4>1. [a \in AllPages |-> W[s][a]] = Private!Nothing
        BY <3>1 DEF Private!Nothing
      <4>2. W = [V EXCEPT ![s] = Private!Nothing]
        BY <2>1, <4>1
      <4> QED BY <2>4, <2>6, <4>2 DEF Private!End, V, W
    <3> QED BY <3>2 DEF Private!Next
  <2> QED BY <2>5, <2>6
<1> QED BY <1>1, <1>4, <1>5 DEF Quiet

\* Installing pages takes free frames, with some contents.
LEMMA InstallGets ==
  ASSUME MemInv, NEW p \in Running, NEW pages, NEW rw \in BOOLEAN, Install(p, pages, rw)
  PROVE  \E new, m : /\ new \in [pages -> Frames] /\ (\A q \in pages : new[q] \notin bitmap)
                     /\ pte' = [pte EXCEPT ![pgd[p]] = Filled(Entries(p), pages, new, rw)]
                     /\ Contents(m) /\ \A f \in bitmap : m[f] = mem[f]
                     /\ \A q \in pages : m[new[q]] \in Values
<1>1. PICK new \in Injection(pages, Free), v \in [pages -> Values] :
             /\ os_pfn_alloc(Range(new))
             /\ pte' = [pte EXCEPT ![pgd[p]] = [q \in AllPages |->
                          IF q \in pages THEN [pfn |-> new[q], rw |-> rw] ELSE @[q]]]
             /\ Contents([f \in Frames |-> IF f \in Range(new) THEN v[CHOOSE q \in pages : new[q] = f]
                                                               ELSE mem[f]])
  BY DEF Install
<1>2. new \in [pages -> Free]
  BY DEF Injection
<1>3. Range(new) = {new[q] : q \in pages}
  BY <1>2 DEF Range
<1>4. new \in [pages -> Frames] /\ \A q \in pages : new[q] \notin bitmap
  BY <1>2 DEF Free
<1>5. pgd[p] \in Spaces /\ Entries(p) = pte[pgd[p]] /\ pte \in [Spaces -> Tables] /\ bitmap \subseteq Frames
  BY RunningIs DEF MemInv, FrameType, Entries
<1>6. pte' = [pte EXCEPT ![pgd[p]] = Filled(Entries(p), pages, new, rw)]
  BY <1>1, <1>5 DEF Filled
<1> DEFINE m == [f \in Frames |-> IF f \in Range(new) THEN v[CHOOSE q \in pages : new[q] = f] ELSE mem[f]]
<1>7. Contents(m)
  BY <1>1
<1>8. \A f \in bitmap : m[f] = mem[f]
  BY <1>3, <1>4, <1>5
<1>9. ASSUME NEW q \in pages PROVE m[new[q]] \in Values
  <2>1. new[q] \in Frames /\ new[q] \in Range(new)
    BY <1>3, <1>4
  <2>2. (CHOOSE x \in pages : new[x] = new[q]) \in pages
    OBVIOUS
  <2> QED BY <2>1, <2>2
<1> HIDE DEF m
<1> QED BY <1>4, <1>6, <1>7, <1>8, <1>9

\* Pages that were not there get contents.
LEMMA QuietInstall ==
  ASSUME MemInv, MemInv', CountInv, HeldInv, NEW p \in Running, NEW pages, NEW rw \in BOOLEAN, Install(p, pages, rw),
         UNCHANGED <<state, pgd>>, \A a \in AllPages : a \in pages => Entries(p)[a] = Absent
  PROVE  Quiet
<1> DEFINE s == pgd[p]
<1>1. s \in Tabs /\ s \in Spaces /\ Tabs' = Tabs /\ Tabs \subseteq Spaces
  BY TabsAre
<1>2. Entries(p) = pte[s] /\ pte \in [Spaces -> Tables] /\ bitmap \subseteq Frames
  BY DEF Entries, MemInv, FrameType
<1>3. PICK new, m : /\ new \in [pages -> Frames] /\ (\A q \in pages : new[q] \notin bitmap)
                    /\ pte' = [pte EXCEPT ![s] = Filled(Entries(p), pages, new, rw)]
                    /\ Contents(m) /\ \A f \in bitmap : m[f] = mem[f]
                    /\ \A q \in pages : m[new[q]] \in Values
  BY InstallGets
<1>4. \A u \in Tabs, a \in AllPages : pte[u][a] # Absent => pte[u][a].pfn \in bitmap
  <2>1. Said(Tabs, pte, refcount, bitmap)
    BY Counts DEF CountInv
  <2>2. ASSUME NEW u \in Tabs, NEW a \in AllPages, pte[u][a] # Absent PROVE pte[u][a].pfn \in Frames
    <3>1. pte[u] \in Tables
      BY <1>1, <1>2
    <3> QED BY <2>2, <3>1, EntryIs
  <2> QED BY <2>1, <2>2 DEF Said
<1>5. \A u \in Spaces \ {s} : pte'[u] = pte[u]
  BY <1>1, <1>2, <1>3
<1>6. \A a \in AllPages : /\ a \in pages => pte'[s][a] = [pfn |-> new[a], rw |-> rw] /\ pte[s][a] = Absent
                          /\ a \notin pages => pte'[s][a] = pte[s][a]
  BY <1>1, <1>2, <1>3 DEF Filled
<1> HIDE DEF s
<1>7. ASSUME NEW u \in Tabs, NEW a \in AllPages, pte[u][a] # Absent
      PROVE  pte'[u][a] = pte[u][a] /\ mem'[pte'[u][a].pfn] = mem[pte[u][a].pfn]
  <2>1. pte'[u][a] = pte[u][a]
    BY <1>1, <1>5, <1>6, <1>7
  <2>2. mem'[pte'[u][a].pfn] = m[pte[u][a].pfn]
    BY <1>1, <1>3, <1>7, <2>1, Carried
  <2> QED BY <1>3, <1>4, <1>7, <2>1, <2>2
<1>8. ASSUME NEW u \in Tabs, NEW a \in AllPages, pte[u][a] = Absent, pte'[u][a] # Absent
      PROVE  u = s /\ mem'[pte'[u][a].pfn] \in Values
  <2>1. u = s /\ a \in pages /\ pte'[u][a].pfn = new[a]
    <3>1. u = s
      BY <1>1, <1>5, <1>8
    <3>2. a \in pages /\ pte'[s][a] = [pfn |-> new[a], rw |-> rw]
      BY <1>6, <1>8, <3>1
    <3> QED BY <3>1, <3>2
  <2>2. mem'[pte'[u][a].pfn] = m[new[a]]
    BY <1>1, <1>3, <1>8, <2>1, Carried
  <2> QED BY <1>3, <2>1, <2>2
<1>9. HeldInv'
  BY <1>1, <1>7, <1>8 DEF HeldInv
<1>10. ASSUME NEW u \in Spaces, NEW a \in AllPages
       PROVE  /\ View[u][a] # NoValue => View'[u][a] = View[u][a]
              /\ u # s => View'[u][a] = View[u][a]
              /\ View'[u][a] \in Values \cup {NoValue}
  <2>1. View[u][a] = Seen(Tabs, pte, mem, u, a) /\ View'[u][a] = Seen(Tabs, pte', mem', u, a)
    BY <1>1, ViewIs
  <2>2. CASE u \in Tabs /\ pte[u][a] # Absent
    <3>1. pte'[u][a] # Absent /\ mem'[pte'[u][a].pfn] = mem[pte[u][a].pfn] /\ mem[pte[u][a].pfn] \in Values
      BY <1>7, <2>2 DEF HeldInv
    <3> QED BY <2>1, <2>2, <3>1 DEF Seen
  <2>3. CASE u \in Tabs /\ pte[u][a] = Absent
    BY <1>8, <2>1, <2>3 DEF Seen
  <2>4. CASE u \notin Tabs
    BY <2>1, <2>4 DEF Seen
  <2> QED BY <2>2, <2>3, <2>4
<1>11. KeepsContents
  BY <1>10 DEF KeepsContents
<1>12. Private!Appear(s)
  <2> DEFINE V == View
             W == View'
  <2>1. ByPage(V) /\ ByPage(W) /\ \A u \in Spaces \ {s}, a \in AllPages : W[u][a] = V[u][a]
    BY <1>10, ViewIs
  <2>2. \A a \in AllPages : (V[s][a] # NoValue => W[s][a] = V[s][a]) /\ W[s][a] \in Values \cup {NoValue}
    BY <1>1, <1>10
  <2> HIDE DEF V, W
  <2>3. PICK c : c = [a \in AllPages |-> W[s][a]]
    OBVIOUS
  <2>4. W = [V EXCEPT ![s] = c]
    BY <1>1, <2>1, <2>3, OneSpace
  <2>5. c \in Private!Contents
    BY <2>2, <2>3 DEF Private!Contents
  <2>6. \A a \in AllPages : V[s][a] # NoValue => c[a] = V[s][a]
    BY <2>2, <2>3
  <2>7. s \in InUse /\ UNCHANGED InUse
    BY <1>1, ViewIs
  <2> QED BY <2>4, <2>5, <2>6, <2>7 DEF Private!Appear, V, W
<1> QED BY <1>1, <1>9, <1>11, <1>12 DEF Quiet, Private!Next

\* A store: the frame of an entry that can be written has no other entry.
LEMMA QuietStore ==
  ASSUME MemInv, CountInv, HeldInv, NEW p \in Slots, NEW page \in AllPages, NEW v \in Values, store(p, page, v)
  PROVE  HeldInv' /\ Private!Next
<1> DEFINE s == pgd[p]
<1>1. p \in Running /\ UNCHANGED <<state, pgd>> /\ pte' = pte
  BY DEF store, ctx
<1>2. s \in Tabs /\ s \in Spaces /\ Tabs' = Tabs /\ Tabs \subseteq Spaces
  BY <1>1, TabsAre
<1>3. Entries(p) = pte[s] /\ pte \in [Spaces -> Tables] /\ mem \in [Frames -> Values \cup {NoValue}]
  BY DEF Entries, MemInv, FrameType
<1>4. pte[s][page] # Absent /\ pte[s][page].rw
  BY <1>3 DEF store, Permits
<1>5. PICK f \in Frames : f = pte[s][page].pfn
  <2>1. pte[s] \in Tables
    BY <1>2, <1>3
  <2> QED BY <1>4, <2>1, EntryIs
<1>6. mem' = [mem EXCEPT ![f] = v]
  BY <1>3, <1>5 DEF store
<1>7. refcount[f] = 1
  BY <1>2, <1>4, <1>5, WritersCounted
<1> HIDE DEF s
<1>8. ASSUME NEW u \in Tabs, NEW a \in AllPages, pte[u][a] # Absent
      PROVE  mem'[pte[u][a].pfn] = IF u = s /\ a = page THEN v ELSE mem[pte[u][a].pfn]
  <2>1. Said(Tabs, pte, refcount, bitmap)
    BY Counts DEF CountInv
  <2>2. \A x \in Tabs, b \in AllPages : pte[x][b].pfn = f => x = s /\ b = page
    <3>1. refcount[pte[s][page].pfn] = 1 /\ pte[s][page].pfn \in Frames
      BY <1>5, <1>7
    <3>2. \A x \in Tabs, b \in AllPages : pte[x][b].pfn = pte[s][page].pfn => x = s /\ b = page
      BY <1>2, <2>1, <3>1 DEF Said
    <3> QED BY <1>5, <3>2
  <2>3. pte[u][a].pfn \in Frames
    <3>1. pte[u] \in Tables
      BY <1>2, <1>3
    <3> QED BY <1>8, <3>1, EntryIs
  <2>4. CASE pte[u][a].pfn = f
    BY <1>3, <1>6, <2>2, <2>4
  <2>5. CASE pte[u][a].pfn # f
    BY <1>3, <1>5, <1>6, <2>3, <2>5
  <2> QED BY <2>4, <2>5
<1>9. HeldInv'
  BY <1>1, <1>2, <1>8 DEF HeldInv
<1>10. ASSUME NEW u \in Spaces, NEW a \in AllPages
       PROVE  View'[u][a] = IF u = s /\ a = page THEN v ELSE View[u][a]
  <2>1. View[u][a] = Seen(Tabs, pte, mem, u, a) /\ View'[u][a] = Seen(Tabs, pte, mem', u, a)
    BY <1>1, <1>2, ViewIs
  <2> QED BY <1>2, <1>4, <1>8, <2>1 DEF Seen
<1>11. View[s][page] # NoValue
  <2>1. View[s][page] = mem[pte[s][page].pfn]
    BY <1>2, <1>4, ViewIs DEF Seen
  <2> QED BY <1>2, <1>4, <2>1, CowFacts DEF HeldInv
<1>12. Private!Store(s, page, v)
  <2> DEFINE V == View
             W == View'
  <2>1. ByPage(V) /\ ByPage(W) /\ \A u \in Spaces \ {s}, a \in AllPages : W[u][a] = V[u][a]
    BY <1>10, ViewIs
  <2>2. \A a \in AllPages : W[s][a] = IF a = page THEN v ELSE V[s][a]
    BY <1>2, <1>10
  <2> HIDE DEF V, W
  <2>3. W = [V EXCEPT ![s] = [a \in AllPages |-> W[s][a]]]
    <3>1. PICK c : c = [a \in AllPages |-> W[s][a]]
      OBVIOUS
    <3>2. W = [V EXCEPT ![s] = c]
      BY <1>2, <2>1, <3>1, OneSpace
    <3> QED BY <3>1, <3>2
  <2>4. V[s] = [a \in AllPages |-> V[s][a]] /\ s \in DOMAIN V
    BY <1>2, <2>1 DEF ByPage
  <2>5. [a \in AllPages |-> W[s][a]] = [V[s] EXCEPT ![page] = v]
    BY <2>2, <2>4
  <2>6. W = [V EXCEPT ![s] = [V[s] EXCEPT ![page] = v]]
    BY <2>3, <2>5
  <2>7. W = [V EXCEPT ![s][page] = v]
    BY <2>6
  <2>8. s \in InUse /\ UNCHANGED InUse
    BY <1>2, ViewIs
  <2> QED BY <1>11, <2>7, <2>8 DEF Private!Store, V, W
<1> QED BY <1>2, <1>9, <1>12 DEF Private!Next

\* cfork: the child finds what the parent has.
LEMMA QuietCfork ==
  ASSUME MemInv, HeldInv, NEW p \in Slots, do_cfork(p)
  PROVE  Quiet
<1> DEFINE c == NewCtx
           g == NewPgd
           s == pgd[p]
           S == Shared(p)
<1>1. p \in Running /\ Unused # {}
  BY DEF do_cfork
<1>2. s \in Tabs /\ s \in Spaces /\ Tabs \subseteq Spaces /\ pte \in [Spaces -> Tables] /\ Entries(p) = pte[s]
  BY <1>1, TabsAre DEF MemInv, Entries
<1>3. c \in Slots /\ c \notin Live /\ g \in Spaces /\ \A q \in Slots : q # c => pgd[q] # g
  BY <1>1, NewProcess DEF MemInv
<1>4. g \notin Tabs
  BY <1>3 DEF Tabs, Live
<1>5. state' = [state EXCEPT ![c] = "READY"] /\ pgd' = [pgd EXCEPT ![c] = g] /\ mem' = mem
  BY DEF do_cfork, CopyContext
<1>6. Tabs' = Tabs \cup {g}
  <2>1. Live' = Live \cup {c}
    BY <1>3, <1>5 DEF Live, MemInv
  <2>2. \A q \in Live : pgd'[q] = pgd[q]
    BY <1>3, <1>5 DEF MemInv, Live
  <2>3. pgd'[c] = g
    BY <1>3, <1>5 DEF MemInv
  <2>4. Tabs' = {pgd'[q] : q \in Live'}
    BY DEF Tabs
  <2> HIDE DEF c, g
  <2> QED BY <2>1, <2>2, <2>3, <2>4 DEF Tabs
<1>7. \A a \in AllPages : a \in S <=> pte[s][a] # Absent
  <2>1. Covers(pte[s], areas[p], next_free[p])
    BY <1>1, <1>2, RunningIs DEF Fit
  <2>2. \A a \in AllPages : pte[s][a] # Absent => Covered(p, a)
    BY <2>1 DEF Covers, Covered
  <2> HIDE DEF s
  <2> QED BY <1>2, <2>2 DEF Shared, Present
<1>8. \A q \in S : /\ pte[s][q].pfn \in Frames
                   /\ [pte[s][q] EXCEPT !.rw = FALSE] = [pfn |-> pte[s][q].pfn, rw |-> FALSE]
  BY <1>1, <1>2, SharedTables
<1>9. s # g
  BY <1>2, <1>4
<1>10. pte' = [pte EXCEPT ![s] = install_ptable(pte[s], p), ![g] = install_ptable(EmptyTable, p)]
  BY <1>2 DEF do_cfork, cfork_copy_mm
<1> HIDE DEF g
<1>11. /\ pte'[s] = install_ptable(pte[s], p) /\ pte'[g] = install_ptable(EmptyTable, p)
       /\ \A u \in Spaces \ {s, g} : pte'[u] = pte[u]
  BY <1>2, <1>3, <1>9, <1>10 DEF g
<1>12. \A t : \A q \in AllPages : install_ptable(t, p)[q] = IF q \in S THEN [pfn |-> pte[s][q].pfn, rw |-> FALSE] ELSE t[q]
  BY <1>2, <1>8 DEF install_ptable
<1>13. \A a \in S : [pfn |-> pte[s][a].pfn, rw |-> FALSE] # Absent
  BY <1>8, MappingIs
<1> HIDE DEF s, S
<1>14. ASSUME NEW a \in AllPages
       PROVE  /\ pte[s][a] # Absent => /\ pte'[s][a] # Absent /\ pte'[s][a].pfn = pte[s][a].pfn
                                       /\ pte'[g][a] # Absent /\ pte'[g][a].pfn = pte[s][a].pfn
              /\ pte[s][a] = Absent => pte'[s][a] = Absent /\ pte'[g][a] = Absent
  <2>1. pte'[s][a] = IF a \in S THEN [pfn |-> pte[s][a].pfn, rw |-> FALSE] ELSE pte[s][a]
    BY <1>11, <1>12
  <2>2. pte'[g][a] = IF a \in S THEN [pfn |-> pte[s][a].pfn, rw |-> FALSE] ELSE Absent
    <3>1. install_ptable(EmptyTable, p)[a] = IF a \in S THEN [pfn |-> pte[s][a].pfn, rw |-> FALSE] ELSE EmptyTable[a]
      BY <1>12
    <3> QED BY <1>11, <3>1, TableType
  <2>3. CASE a \in S
    <3>1. pte'[s][a] = [pfn |-> pte[s][a].pfn, rw |-> FALSE] /\ pte'[g][a] = [pfn |-> pte[s][a].pfn, rw |-> FALSE]
      BY <2>1, <2>2, <2>3
    <3>2. pte'[s][a].pfn = pte[s][a].pfn /\ pte'[g][a].pfn = pte[s][a].pfn
      BY <3>1
    <3> QED BY <1>7, <1>13, <2>3, <3>1, <3>2
  <2>4. CASE a \notin S
    BY <1>7, <2>1, <2>2, <2>4
  <2> QED BY <2>3, <2>4
<1>15. ASSUME NEW u \in Spaces, NEW a \in AllPages
       PROVE  /\ View'[u][a] = View[IF u = g THEN s ELSE u][a]
              /\ View[g][a] = NoValue
  <2>1. \A x \in Spaces : View[x][a] = Seen(Tabs, pte, mem, x, a) /\ View'[x][a] = Seen(Tabs \cup {g}, pte', mem, x, a)
    BY <1>5, <1>6, ViewIs
  <2>2. View[g][a] = NoValue
    BY <1>3, <1>4, <2>1 DEF Seen, g
  <2>3. View'[g][a] = View[s][a]
    BY <1>2, <1>3, <1>14, <2>1 DEF Seen, g
  <2>4. View'[s][a] = View[s][a]
    BY <1>2, <1>14, <2>1 DEF Seen
  <2>5. ASSUME u # g, u # s PROVE View'[u][a] = View[u][a]
    BY <1>11, <2>1, <2>5 DEF Seen
  <2> QED BY <2>2, <2>3, <2>4, <2>5
<1>16. HeldInv'
  <2> SUFFICES ASSUME NEW u \in Tabs', NEW a \in AllPages, pte'[u][a] # Absent PROVE mem'[pte'[u][a].pfn] \in Values
    BY DEF HeldInv
  <2>1. CASE u \in {s, g}
    BY <1>2, <1>5, <1>14, <2>1 DEF HeldInv
  <2>2. CASE u \notin {s, g}
    <3>1. u \in Tabs /\ pte'[u] = pte[u]
      BY <1>2, <1>6, <1>11, <2>2
    <3> QED BY <1>5, <3>1 DEF HeldInv
  <2> QED BY <2>1, <2>2
<1>17. KeepsContents
  BY <1>15 DEF KeepsContents
<1>18. Private!Fork(s, g)
  <2> DEFINE V == View
             W == View'
  <2>0. g \in Spaces
    BY <1>3 DEF g
  <2>1. ByPage(V) /\ ByPage(W) /\ \A u \in Spaces \ {g}, a \in AllPages : W[u][a] = V[u][a]
    BY <1>15, ViewIs
  <2>2. \A a \in AllPages : W[g][a] = V[s][a] /\ V[g][a] = NoValue
    BY <1>15, <2>0
  <2> HIDE DEF V, W
  <2>3. W = [V EXCEPT ![g] = [a \in AllPages |-> W[g][a]]]
    <3>1. PICK x : x = [a \in AllPages |-> W[g][a]]
      OBVIOUS
    <3>2. W = [V EXCEPT ![g] = x]
      BY <2>0, <2>1, <3>1, OneSpace
    <3> QED BY <3>1, <3>2
  <2>4. V[s] = [a \in AllPages |-> V[s][a]]
    BY <1>2, <2>1 DEF ByPage
  <2>5. [a \in AllPages |-> W[g][a]] = V[s]
    BY <2>2, <2>4
  <2>6. W = [V EXCEPT ![g] = V[s]]
    BY <2>3, <2>5
  <2>7. s \in InUse /\ g \notin InUse /\ InUse' = InUse \cup {g}
    BY <1>2, <1>4, <1>6, ViewIs DEF g
  <2> QED BY <2>6, <2>7 DEF Private!Fork, V, W
<1>19. Private!Next
  <2>1. g \in Spaces /\ s \in Spaces
    BY <1>2, <1>3 DEF g
  <2> QED BY <1>18, <2>1 DEF Private!Next
<1> QED BY <1>16, <1>17, <1>19 DEF Quiet

\* A step of a running process on its own table, after which entries that are
\* there have the contents they had.
LEMMA OwnLoses ==
  ASSUME MemInv, HeldInv, NEW p \in Running, UNCHANGED <<state, pgd>>,
         \A u \in Spaces \ {pgd[p]} : pte'[u] = pte[u],
         \A u \in Tabs, a \in AllPages : pte'[u][a] # Absent =>
            pte[u][a] # Absent /\ mem'[pte'[u][a].pfn] = mem[pte[u][a].pfn]
  PROVE  Quiet
<1>1. pgd[p] \in Tabs /\ Tabs \subseteq Spaces /\ Tabs' = Tabs
  BY TabsAre
<1>2. \A u \in Tabs, a \in AllPages : u # pgd[p] /\ pte[u][a] # Absent => u \in Tabs' /\ pte'[u][a] # Absent
  BY <1>1
<1>3. \A u \in Tabs', a \in AllPages : pte'[u][a] # Absent =>
         u \in Tabs /\ pte[u][a] # Absent /\ mem'[pte'[u][a].pfn] = mem[pte[u][a].pfn]
  BY <1>1
<1> QED BY <1>1, <1>2, <1>3, Loses

\* Pages go: munmap and shrink.
LEMMA QuietCleared ==
  ASSUME MemInv, MemInv', HeldInv, NEW p \in Running, UNCHANGED <<state, pgd>>, NEW pages,
         pte' = [pte EXCEPT ![pgd[p]] = Cleared(Entries(p), pages)], Contents(mem)
  PROVE  Quiet
<1>1. pgd[p] \in Spaces /\ Tabs \subseteq Spaces /\ Tabs' = Tabs /\ Entries(p) = pte[pgd[p]] /\ pte \in [Spaces -> Tables]
  BY TabsAre DEF Entries, MemInv
<1>2. /\ \A u \in Spaces \ {pgd[p]} : pte'[u] = pte[u]
      /\ \A a \in AllPages : pte'[pgd[p]][a] = IF a \in pages THEN Absent ELSE pte[pgd[p]][a]
  BY <1>1 DEF Cleared
<1>3. ASSUME NEW u \in Tabs, NEW a \in AllPages, pte'[u][a] # Absent
      PROVE  pte[u][a] # Absent /\ mem'[pte'[u][a].pfn] = mem[pte[u][a].pfn]
  <2>1. pte'[u][a] = pte[u][a]
    BY <1>1, <1>2, <1>3
  <2>2. mem'[pte'[u][a].pfn] = mem[pte'[u][a].pfn]
    BY <1>1, <1>3, Carried
  <2> QED BY <1>3, <2>1, <2>2
<1> QED BY <1>2, <1>3, OwnLoses

\* Rights change, or nothing of tables and contents does.
LEMMA QuietRights ==
  ASSUME MemInv, HeldInv, NEW p \in Running, UNCHANGED <<state, pgd, mem>>,
         \/ pte' = pte
         \/ \E page \in AllPages, rw \in BOOLEAN :
              Entries(p)[page] # Absent /\ pte' = [pte EXCEPT ![pgd[p]][page].rw = rw]
  PROVE  Quiet
<1>1. pgd[p] \in Spaces /\ Tabs \subseteq Spaces /\ Entries(p) = pte[pgd[p]] /\ pte \in [Spaces -> Tables]
  BY RunningIs, TabsAre DEF Entries, MemInv
<1>2. CASE pte' = pte
  BY <1>2, OwnLoses
<1>3. ASSUME NEW page \in AllPages, NEW rw \in BOOLEAN, Entries(p)[page] # Absent,
             pte' = [pte EXCEPT ![pgd[p]][page].rw = rw]
      PROVE  Quiet
  <2>1. PICK t : t = WithRights(Entries(p), page, rw)
    OBVIOUS
  <2>2. pte' = [pte EXCEPT ![pgd[p]] = t]
    BY <1>1, <1>3, <2>1 DEF WithRights
  <2>3. /\ t[page].pfn = Entries(p)[page].pfn /\ t[page] # Absent
        /\ \A q \in AllPages \ {page} : t[q] = Entries(p)[q]
    BY <1>1, <1>3, <2>1, RightsOnly
  <2>4. \A u \in Spaces \ {pgd[p]} : pte'[u] = pte[u]
    BY <1>1, <2>2
  <2>5. pte'[pgd[p]] = t
    BY <1>1, <2>2
  <2>6. \A a \in AllPages : t[a] # Absent => pte[pgd[p]][a] # Absent /\ t[a].pfn = pte[pgd[p]][a].pfn
    BY <1>1, <1>3, <2>3
  <2>7. \A u \in Tabs, a \in AllPages : pte'[u][a] # Absent =>
           pte[u][a] # Absent /\ mem'[pte'[u][a].pfn] = mem[pte[u][a].pfn]
    BY <1>1, <2>4, <2>5, <2>6
  <2> QED BY <2>4, <2>7, OwnLoses
<1> QED BY <1>2, <1>3

\* A copy shows what the shared frame did.
LEMMA QuietCopying ==
  ASSUME MemInv, MemInv', CountInv, HeldInv, NEW p \in Running, NEW page \in AllPages, NEW f, Copying(p, page, f)
  PROVE  Quiet
<1> DEFINE s == pgd[p]
<1>1. s \in Spaces /\ Tabs \subseteq Spaces /\ Tabs' = Tabs /\ Entries(p) = pte[s] /\ pte \in [Spaces -> Tables]
      /\ mem \in [Frames -> Values \cup {NoValue}] /\ s \in Tabs /\ UNCHANGED <<state, pgd>>
  BY TabsAre DEF Entries, MemInv, FrameType, Copying, ctx
<1>2. PICK o : o = pte[s][page].pfn
  OBVIOUS
<1>3. /\ pte[s][page] # Absent /\ f \in Frames \ bitmap /\ Contents(CopyOf(o, f))
      /\ pte' = [pte EXCEPT ![s][page] = [pfn |-> f, rw |-> TRUE]]
  BY <1>1, <1>2 DEF Copying, Free
<1>4. \A u \in Spaces \ {s} : pte'[u] = pte[u]
  BY <1>1, <1>3
<1>5. pte'[s][page].pfn = f /\ \A a \in AllPages \ {page} : pte'[s][a] = pte[s][a]
  <2>1. pte[s] \in [AllPages -> {Absent} \cup Mapping]
    BY <1>1 DEF Tables
  <2>2. pte'[s] = [pte[s] EXCEPT ![page] = [pfn |-> f, rw |-> TRUE]]
    BY <1>1, <1>3
  <2>3. pte'[s][page] = [pfn |-> f, rw |-> TRUE]
    BY <2>1, <2>2
  <2> QED BY <2>1, <2>2, <2>3
<1>6. CopyOf(o, f)[f] = mem[o] /\ \A g \in Frames \ {f} : CopyOf(o, f)[g] = mem[g]
  BY <1>1, <1>3 DEF CopyOf
<1> HIDE DEF s
<1>7. ASSUME NEW u \in Tabs, NEW a \in AllPages, pte'[u][a] # Absent
      PROVE  pte[u][a] # Absent /\ mem'[pte'[u][a].pfn] = mem[pte[u][a].pfn]
  <2>1. mem'[pte'[u][a].pfn] = CopyOf(o, f)[pte'[u][a].pfn]
    BY <1>1, <1>3, <1>7, Carried
  <2>2. CASE u = s /\ a = page
    BY <1>2, <1>3, <1>5, <1>6, <2>1, <2>2
  <2>3. CASE ~(u = s /\ a = page)
    <3>1. pte'[u][a] = pte[u][a]
      BY <1>1, <1>4, <1>5, <2>3
    <3>2. pte[u][a].pfn \in Frames
      <4>1. pte[u] \in Tables
        BY <1>1
      <4> QED BY <1>7, <3>1, <4>1, EntryIs
    <3>3. pte[u][a].pfn \in bitmap
      <4>1. Said(Tabs, pte, refcount, bitmap)
        BY Counts DEF CountInv
      <4> QED BY <3>2, <4>1 DEF Said
    <3>4. CopyOf(o, f)[pte[u][a].pfn] = mem[pte[u][a].pfn]
      BY <1>3, <1>6, <3>2, <3>3
    <3> QED BY <1>7, <2>1, <3>1, <3>4
  <2> QED BY <2>2, <2>3
<1> QED BY <1>1, <1>4, <1>7, OwnLoses DEF s

\* vfork: the child works on the space of its parent.
LEMMA QuietVfork ==
  ASSUME MemInv, HeldInv, NEW p \in Slots, do_vfork(p)
  PROVE  Quiet
<1> DEFINE c == NewCtx
<1>1. p \in Running /\ Unused # {}
  BY DEF do_vfork
<1>2. c \in Slots /\ c \notin Live /\ p \in Live /\ pgd[p] \in Tabs /\ Tabs \subseteq Spaces
  BY <1>1, NewProcess, TabsAre DEF MemInv, Running, Live
<1>3. /\ state' = [state EXCEPT ![p] = "WAITING", ![c] = "READY"] /\ pgd' = [pgd EXCEPT ![c] = pgd[p]]
      /\ pte' = pte /\ mem' = mem
  BY DEF do_vfork, CopyContext, frames
<1> HIDE DEF c
<1>4. Live' = Live \cup {c}
  BY <1>2, <1>3 DEF Live, MemInv
<1>5. \A q \in Live : pgd'[q] = pgd[q]
  BY <1>2, <1>3 DEF MemInv, Live
<1>6. pgd'[c] = pgd[p]
  BY <1>2, <1>3 DEF MemInv
<1>7. Tabs' = Tabs
  <2>1. Tabs' = {pgd'[q] : q \in Live'}
    BY DEF Tabs
  <2> QED BY <1>2, <1>4, <1>5, <1>6, <2>1 DEF Tabs
<1> QED BY <1>2, <1>3, <1>7, Loses

\* The space of the last process of a table goes with it.
LEMMA QuietExit ==
  ASSUME MemInv, MemInv', HeldInv, NEW p \in Running, Exit(p)
  PROVE  Quiet
<1> DEFINE s == [q \in Slots |-> IF q = p THEN "UNUSED" ELSE IF q \in VforkParent(p) THEN "READY" ELSE state[q]]
           stays == \E q \in Slots : s[q] # "UNUSED" /\ pgd[q] = pgd[p]
<1>1. p \in Slots /\ pgd[p] \in Spaces /\ pgd[p] \in Tabs /\ Tabs \subseteq Spaces /\ pte \in [Spaces -> Tables]
  BY RunningIs, TabsAre DEF MemInv
<1>2. state' = s /\ pgd' = pgd /\ pte' = (IF stays THEN pte ELSE [pte EXCEPT ![pgd[p]] = EmptyTable]) /\ Contents(mem)
  BY DEF Exit
<1>3. ASSUME NEW q \in Slots, s[q] # "UNUSED" PROVE pgd[q] \in Tabs
  <2>1. CASE q \in VforkParent(p)
    BY <1>1, <2>1 DEF VforkParent
  <2>2. CASE q \notin VforkParent(p)
    <3>1. q \in Live
      BY <1>3, <2>2 DEF Live
    <3> QED BY <3>1 DEF Tabs
  <2> QED BY <2>1, <2>2
<1>4. ASSUME NEW q \in Live, pgd[q] # pgd[p] PROVE q \in Slots /\ s[q] # "UNUSED"
  BY <1>4 DEF Live
<1> HIDE DEF s
<1>5. Live' = {q \in Slots : s[q] # "UNUSED"} /\ Tabs' = {pgd[q] : q \in Live'}
  BY <1>2 DEF Live, Tabs
<1>6. Tabs' \subseteq Tabs /\ \A u \in Tabs : u # pgd[p] => u \in Tabs'
  BY <1>3, <1>4, <1>5 DEF Tabs
<1>7. stays <=> pgd[p] \in Tabs'
  BY <1>5
<1> HIDE DEF stays
<1>8. \A u \in Tabs' : pte'[u] = pte[u]
  BY <1>1, <1>2, <1>6, <1>7
<1>9. ASSUME NEW u \in Tabs', NEW a \in AllPages, pte'[u][a] # Absent
      PROVE  u \in Tabs /\ pte[u][a] # Absent /\ mem'[pte'[u][a].pfn] = mem[pte[u][a].pfn]
  <2>1. mem'[pte'[u][a].pfn] = mem[pte'[u][a].pfn]
    BY <1>2, <1>9, Carried
  <2> QED BY <1>6, <1>8, <1>9, <2>1
<1>10. \A u \in Tabs, a \in AllPages : u # pgd[p] /\ pte[u][a] # Absent => u \in Tabs' /\ pte'[u][a] # Absent
  BY <1>6, <1>8
<1>11. Tabs' = Tabs \/ Tabs' = Tabs \ {pgd[p]}
  BY <1>6
<1> QED BY <1>1, <1>9, <1>10, <1>11, Loses

\* init starts with nothing.
LEMMA QuietExec ==
  ASSUME MemInv, MemInv', HeldInv, exec_init
  PROVE  Quiet
<1> DEFINE c == NewCtx
           g == NewPgd
<1>1. \A q \in Slots : state[q] = "UNUSED"
  BY DEF exec_init, Live
<1>2. c \in Slots /\ g \in Spaces
  <2>1. Unused # {}
    BY CowFacts DEF exec_init, Unused
  <2> QED BY <2>1, NewProcess DEF MemInv
<1>3. /\ state' = [state EXCEPT ![c] = "READY"] /\ pgd' = [pgd EXCEPT ![c] = g]
      /\ pte' = [pte EXCEPT ![g] = EmptyTable]
  BY DEF exec_init
<1> HIDE DEF c, g
<1>4. \A q \in Slots : state'[q] # "UNUSED" => pgd'[q] = g
  BY <1>1, <1>2, <1>3 DEF MemInv
<1>5. (\A x \in Tabs' : x = g) /\ Tabs = {}
  BY <1>1, <1>4 DEF Tabs, Live
<1>6. pte'[g] = EmptyTable
  BY <1>2, <1>3 DEF MemInv
<1>7. \A u \in Tabs', a \in AllPages : pte'[u][a] = Absent
  BY <1>5, <1>6, TableType
<1>8. Tabs' = {g}
  <2>1. c \in Live'
    BY <1>2, <1>3 DEF Live, MemInv
  <2>2. pgd'[c] \in Tabs'
    BY <2>1 DEF Tabs
  <2> QED BY <1>5, <2>2
<1>9. \A u \in Spaces, a \in AllPages : View[u][a] = NoValue /\ View'[u][a] = NoValue
  BY <1>5, <1>7, ViewIs DEF Seen
<1>10. View' = View
  <2>1. ByPage(View) /\ ByPage(View')
    BY ViewIs
  <2> QED BY <1>9, <2>1 DEF ByPage
<1>11. Private!Start(g)
  BY <1>5, <1>8, <1>10, ViewIs DEF Private!Start
<1>12. HeldInv' /\ KeepsContents
  BY <1>7, <1>10 DEF HeldInv, KeepsContents
<1> QED BY <1>2, <1>11, <1>12 DEF Quiet, Private!Next

\* Without a hint mmap finds pages that are not there.
LEMMA QuietMmap ==
  ASSUME MemInv, MemInv', CountInv, HeldInv, Hints \subseteq {0}, NEW p \in Slots, NEW addr \in Hints, NEW length \in Lengths,
         NEW prot \in Prots, NEW fixed \in BOOLEAN, NEW populate \in BOOLEAN,
         mmap(p, addr, length, prot, fixed, populate)
  PROVE  Quiet
<1> DEFINE r == vm_area_map(areas[p], addr, length, prot, fixed)
           s == areas[p]
           n == PagesOf(length)
<1>1. p \in Running /\ UNCHANGED <<state, pgd>>
  BY DEF mmap
<1>2. addr = 0 /\ addr \in Nat /\ length \in Nat \ {0} /\ Fit(Entries(p), s, next_free[p]) /\ Sorted(s)
  BY <1>1, RunningIs, Arguments DEF Fit
<1>3. MapResult(s, addr, n, prot, fixed, r)
  BY <1>2, MapRight
<1>4. CASE r.ret # -1 /\ populate
  <2>1. Install(p, Run(r.ret, n), Writable(prot))
    BY <1>4 DEF mmap
  <2> HIDE DEF r, n, s
  <2>2. n \in Nat \ {0} /\ r.ret \in Int /\ \E i : Gap(s, i, r.ret, n)
    BY <1>2, <1>3, <1>4 DEF MapResult
  <2>3. ASSUME NEW a \in AllPages, a \in Run(r.ret, n) PROVE Entries(p)[a] = Absent
    <3>1. a \in Int /\ r.ret <= a /\ a < r.ret + n
      BY <2>2, <2>3, RunPages
    <3>2. a \in Pages /\ \A k \in 1 .. Len(s) : ~In(s[k], a)
      BY <1>2, <2>2, <3>1, GapFree
    <3>3. a \notin DataPages
      BY <3>2, CowFacts
    <3>4. ProtOf(s, a) = 0
      BY <1>2, <3>1, <3>2, ProtHas DEF Has
    <3> QED BY <1>2, <3>3, <3>4 DEF Fit, Covers
  <2>4. Writable(prot) \in BOOLEAN
    BY DEF Writable
  <2>5. PICK pages : pages = Run(r.ret, n)
    OBVIOUS
  <2> QED BY <1>1, <2>1, <2>3, <2>4, <2>5, QuietInstall
<1>5. CASE ~(r.ret # -1 /\ populate)
  <2>1. UNCHANGED <<pte, mem>>
    BY <1>5 DEF mmap
  <2> QED BY <1>1, <2>1, QuietRights
<1> QED BY <1>4, <1>5

\* A page fault.
LEMMA QuietFault ==
  ASSUME MemInv, MemInv', CountInv, HeldInv, NEW p \in Slots, NEW page \in AllPages, NEW write \in BOOLEAN,
         do_page_fault(p, page, write)
  PROVE  Quiet \/ UNCHANGED vars
<1>1. /\ p \in Running
      /\ \/ Exit(p) \/ UNCHANGED vars \/ Filling(p, page, write) \/ Regaining(p, page)
         \/ \E f : Copying(p, page, f)
  BY FaultCases
<1>2. CASE Exit(p)
  BY <1>1, <1>2, QuietExit
<1>3. CASE Filling(p, page, write)
  <2>1. Install(p, {page}, write) /\ UNCHANGED <<state, pgd>> /\ \A a \in AllPages : a \in {page} => Entries(p)[a] = Absent
    BY <1>3 DEF Filling, ctx
  <2> QED BY <1>1, <2>1, QuietInstall
<1>4. CASE Regaining(p, page)
  <2>1. /\ UNCHANGED <<state, pgd, mem>> /\ Entries(p)[page] # Absent
        /\ pte' = [pte EXCEPT ![pgd[p]][page].rw = TRUE]
    BY <1>4 DEF Regaining, ctx
  <2> QED BY <1>1, <2>1, QuietRights
<1>5. CASE \E f : Copying(p, page, f)
  BY <1>1, <1>5, QuietCopying
<1> QED BY <1>1, <1>2, <1>3, <1>4, <1>5

\* A step of the kernel or of a program, seen by the programs.
LEMMA PrivateStep ==
  ASSUME MemInv, MemInv', CountInv, HeldInv, Hints \subseteq {0}, Next
  PROVE  \/ Quiet \/ UNCHANGED vars
         \/ HeldInv' /\ Private!Next /\ \E p \in Slots, page \in AllPages, v \in Values : store(p, page, v)
<1>1. CASE exec_init
  BY <1>1, QuietExec
<1>2. ASSUME NEW p \in Slots, NEW addr \in Hints, NEW length \in Lengths, NEW prot \in Prots,
             NEW fixed \in BOOLEAN, NEW populate \in BOOLEAN, mmap(p, addr, length, prot, fixed, populate)
      PROVE  Quiet
  BY <1>2, QuietMmap
<1>3. ASSUME NEW p \in Slots, NEW addr \in Pages, NEW length \in UnmapLengths, munmap(p, addr, length)
      PROVE  Quiet
  <2>1. p \in Running /\ UNCHANGED <<state, pgd>>
    BY <1>3 DEF munmap
  <2>2. (\E pages : pfn_unmap(p, pages)) \/ UNCHANGED <<pte, mem>>
    BY <1>3 DEF munmap
  <2>3. ASSUME NEW pages, pfn_unmap(p, pages) PROVE Quiet
    <3>1. pte' = [pte EXCEPT ![pgd[p]] = Cleared(Entries(p), pages)] /\ Contents(mem)
      BY <2>1, <2>3, UnmapIs DEF pfn_unmap
    <3> QED BY <2>1, <3>1, QuietCleared
  <2> QED BY <2>1, <2>2, <2>3, QuietRights
<1>4. ASSUME NEW p \in Slots, NEW addr \in Pages, NEW length \in ProtLengths, NEW prot \in Prots,
             mprotect(p, addr, length, prot)
      PROVE  Quiet
  <2>1. p \in Running /\ UNCHANGED <<state, pgd, mem>> /\ addr \in AllPages /\ Writable(prot) \in BOOLEAN
    BY <1>4, CowFacts DEF mprotect, Writable
  <2>2. pte' = pte \/ (Entries(p)[addr] # Absent /\ pte' = [pte EXCEPT ![pgd[p]][addr].rw = Writable(prot)])
    BY <1>4 DEF mprotect, change_permissions, Present
  <2>3. pte' = pte \/ \E page \in AllPages, rw \in BOOLEAN :
           Entries(p)[page] # Absent /\ pte' = [pte EXCEPT ![pgd[p]][page].rw = rw]
    BY <2>1, <2>2
  <2> QED BY <2>1, <2>3, QuietRights
<1>5. ASSUME NEW p \in Slots, NEW size \in 1 .. DataEnd, do_expand(p, size) PROVE Quiet
  <2>1. p \in Running /\ UNCHANGED <<state, pgd, pte, mem>>
    BY <1>5 DEF do_expand
  <2> QED BY <2>1, QuietRights
<1>6. ASSUME NEW p \in Slots, NEW size \in 1 .. DataEnd, do_shrink(p, size) PROVE Quiet
  <2>1. p \in Running /\ UNCHANGED <<state, pgd>> /\ Contents(mem)
    BY <1>6 DEF do_shrink
  <2>2. pte' = [pte EXCEPT ![pgd[p]] = Cleared(Entries(p), LastPages(p, size))]
    BY <1>6, ShrinkOwn DEF Lawful, Own
  <2> QED BY <2>1, <2>2, QuietCleared
<1>7. ASSUME NEW p \in Slots, do_cfork(p) PROVE Quiet
  BY <1>7, QuietCfork
<1>8. ASSUME NEW p \in Slots, do_vfork(p) PROVE Quiet
  BY <1>8, QuietVfork
<1>9. ASSUME NEW p \in Slots, do_exit(p) PROVE Quiet
  BY <1>9, QuietExit DEF do_exit
<1>10. ASSUME NEW p \in Slots, NEW page \in AllPages, NEW v \in Values, store(p, page, v)
       PROVE  HeldInv' /\ Private!Next
  BY <1>10, QuietStore
<1>11. ASSUME NEW p \in Slots, NEW page \in AllPages, NEW write \in BOOLEAN, do_page_fault(p, page, write)
       PROVE  Quiet \/ UNCHANGED vars
  BY <1>11, QuietFault
<1> QED BY <1>1, <1>2, <1>3, <1>4, <1>5, <1>6, <1>7, <1>8, <1>9, <1>10, <1>11 DEF Next

\* At first nothing is there.
LEMMA PrivateStart == Init => HeldInv /\ Private!Init
<1> SUFFICES ASSUME Init PROVE HeldInv /\ Private!Init
  OBVIOUS
<1>1. \A s \in Spaces, a \in AllPages : pte[s][a] = Absent
  BY DEF Init, EmptyTable
<1>2. Tabs \subseteq Spaces
  BY MemStart, TabsAre
<1>3. View = [s \in Spaces |-> Private!Nothing]
  BY <1>1 DEF View, Private!Nothing
<1>4. InUse = {1} /\ 1 \in Spaces
  BY CowFacts DEF Init, InUse, Live
<1> QED BY <1>1, <1>2, <1>3, <1>4 DEF HeldInv, Private!Init

\* Copy-on-write is invisible: "The child and the parent process run in separate
\* memory spaces", each of which changes by the stores of its own programs only,
\* whatever cfork, vfork, faults, mprotect, munmap and exits share, copy and free.
\* mmap without hints: behind the last area a hint makes MAP_POPULATE replace
\* pages that are there.
THEOREM MemoryIsPrivate ==
  ASSUME ~ShrinkShared, RefLimit <= 255, Hints \subseteq {0}
  PROVE  Spec => SeparateMemory
<1> DEFINE Inv == MemInv /\ CountInv /\ HeldInv
           Stored == \E p \in Slots, page \in AllPages, v \in Values : store(p, page, v)
<1>1. Init => Inv /\ Private!Init
  BY MemStart, CountStart, PrivateStart
<1>2. Inv /\ [Next]_vars => Inv' /\ [Private!Next]_(Private!vars) /\ [Stored \/ KeepsContents]_vars
  <2> SUFFICES ASSUME Inv, [Next]_vars PROVE Inv' /\ [Private!Next]_(Private!vars) /\ [Stored \/ KeepsContents]_vars
    OBVIOUS
  <2>1. MemInv' /\ CountInv'
    BY MemStep, CountStep
  <2>2. CASE UNCHANGED vars
    <3>1. HeldInv' /\ UNCHANGED Private!vars
      BY <2>2 DEF vars, ctx, HeldInv, View, Tabs, InUse, Live, Private!vars
    <3> QED BY <2>1, <2>2, <3>1
  <2>3. CASE Next
    <3>1. Quiet \/ UNCHANGED vars \/ (HeldInv' /\ Private!Next /\ Stored)
      BY <2>1, <2>3, PrivateStep
    <3> QED BY <2>1, <2>2, <3>1 DEF Quiet
  <2> QED BY <2>2, <2>3
<1> HIDE DEF Inv, Stored
<1>3. Spec => Private!Spec /\ [][Stored \/ KeepsContents]_vars
  BY <1>1, <1>2, PTL DEF Spec, Private!Spec
<1> QED BY <1>3 DEF SeparateMemory, Stored
=============================================================================
