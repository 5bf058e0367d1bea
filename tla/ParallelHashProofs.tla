------------------------- MODULE ParallelHashProofs -------------------------
(***************************************************************************)
(* Proofs about ParallelHash, for any number of threads that read_op scans, *)
(* a table of any size, any keys and any inputs.                            *)
(*                                                                          *)
(* Four layers.  The input lock: a thread at work has the earliest          *)
(* operation on its key that anybody has taken (Registered, InOrder), so no *)
(* two threads work on one key.  The table: keys are found by probing and   *)
(* are there once, and what a thread has passed while it probes stays       *)
(* passed, because only it may bring its key in and no entry becomes empty  *)
(* again (TableOK, Probing, Counting).  The counts (Counted, PutsDone).     *)
(* Last, the serial program: its run is solved as a recursion, and the      *)
(* parallel one never leaves it (SameInv).                                  *)
(***************************************************************************)
EXTENDS ParallelHash, FiniteSetTheorems, SequenceTheorems, WellFoundedInduction, TLAPS

Taken   == {"wait", "woken", "start", "probe", "count", "done_one"}
Active  == {"start", "probe", "count", "done_one"}
Waiting == {"wait", "woken", "start", "probe"}

\* TypeOK without the sign of the count, which the counting of entries gives.
Typed == /\ input \in Inputs
         /\ curr \in 1 .. Len(input) + 2
         /\ being_processed \in [Threads -> 0 .. Len(input)]
         /\ op \in [Threads -> 0 .. Len(input)]
         /\ pc \in [Threads -> PCs]
         /\ ctr \in [Threads -> Entries]
         /\ cnt \in [Threads -> {0, 1}]
         /\ table \in [Entries -> [key : Keys \cup {0}, id : -1 .. Len(input)]]
         /\ used \in Int
         /\ result \in [DOMAIN input -> -2 .. Len(input)]
         /\ aborted \in BOOLEAN

\* A thread with an operation has registered it, and nobody else has it.
Registered ==
  /\ \A t \in Threads : pc[t] \in Taken => /\ op[t] \in 1 .. Len(input)
                                           /\ being_processed[t] = op[t] /\ op[t] < curr
  /\ \A t \in Threads : pc[t] \notin Taken => being_processed[t] = NoOp
  /\ \A t, u \in Threads : pc[t] \in Taken /\ pc[u] \in Taken /\ op[t] = op[u] => t = u

\* A thread at work has the earliest operation on its key.
InOrder == \A t, u \in Threads :
  pc[t] \in Active /\ pc[u] \in Taken /\ KeyOf(op[u]) = KeyOf(op[t]) => op[t] <= op[u]

\* An operation has no result while nobody has taken it or a thread has yet to
\* find its entry.
ResultsKnown == \A i \in DOMAIN input :
  result[i] = Pending <=> \/ i >= curr
                          \/ \E t \in Threads : pc[t] \in Waiting /\ op[t] = i

\* An entry never used, a deleted one, or one with the id of a PUT; a key is
\* there once and no entry on its path is empty.
TableOK(tab) ==
  /\ \A e \in Entries : tab[e].key = 0 => tab[e].id \in {0, Deleted}
  /\ \A e \in Entries : tab[e].key # 0 =>
       tab[e].id > 0 /\ \A d \in PathTo(tab[e].key, e) : tab[d] # Empty
  /\ \A d, e \in Entries : tab[e].key # 0 /\ tab[d].key = tab[e].key => d = e

\* The entries a probe for key has left behind when it stands at e; c tells
\* whether it has moved.
Visited(key, e, c) == IF c = 1 /\ e = hashfunc(key) THEN Entries ELSE PathTo(key, e)

\* Neither the key nor an empty entry is where a probe has passed.
Probing == \A t \in Threads : pc[t] = "probe" =>
  /\ cnt[t] = 0 => ctr[t] = hashfunc(KeyOf(op[t]))
  /\ \A d \in Visited(KeyOf(op[t]), ctr[t], cnt[t]) :
       table[d] # Empty /\ table[d].key # KeyOf(op[t])

\* The entries that are locked for counting, each by one thread.
Counting ==
  /\ \A t \in Threads : pc[t] = "count" =>
       \/ TypeOf(op[t]) = "PUT" /\ table[ctr[t]].key # 0
       \/ TypeOf(op[t]) = "DEL" /\ table[ctr[t]] = [key |-> 0, id |-> Deleted]
  /\ \A t, u \in Threads : pc[t] = "count" /\ pc[u] = "count" /\ ctr[t] = ctr[u] => t = u

Full        == {e \in Entries : table[e].key # 0}
NonEmpty    == {e \in Entries : table[e] # Empty}
InCount(ty) == {t \in Threads : pc[t] = "count" /\ TypeOf(op[t]) = ty}
Puts        == {i \in DOMAIN input : TypeOf(i) = "PUT"}
DonePuts    == {i \in Puts : result[i] # Pending}

\* used counts the keys, up to the updates in flight.
Counted == used = Cardinality(Full) - Cardinality(InCount("PUT")) + Cardinality(InCount("DEL"))

\* Every entry in use was taken by a PUT of its own.
PutsDone == Cardinality(NonEmpty) <= Cardinality(DonePuts)

NoFail == Cardinality(Puts) <= table_size => ~aborted

IInv == /\ Typed /\ Registered /\ InOrder /\ ResultsKnown
        /\ TableOK(table) /\ Probing /\ Counting
        /\ Counted /\ PutsDone /\ NoFail

-----------------------------------------------------------------------------
\* What the constants and the input say about operations.
LEMMA Ops ==
  ASSUME input \in Inputs
  PROVE  /\ Len(input) \in Nat /\ DOMAIN input = 1 .. Len(input)
         /\ \A i \in 1 .. Len(input) : /\ KeyOf(i) \in Keys /\ KeyOf(i) # 0 /\ KeyOf(i) \in Nat
                                       /\ TypeOf(i) \in {"PUT", "GET", "DEL"}
<1>1. input \in Seq([op_type : {"PUT", "GET", "DEL"}, key : Keys])
  BY InputsAssumption
<1>2. \A i \in 1 .. Len(input) : input[i] \in [op_type : {"PUT", "GET", "DEL"}, key : Keys]
  BY <1>1, ElementOfSeq
<1> QED
  BY <1>1, <1>2, LenProperties, HashAssumption DEF KeyOf, TypeOf

\* hashfunc gives an entry.
LEMMA Hashes ==
  ASSUME NEW key \in Nat
  PROVE  hashfunc(key) \in Entries
<1>1. key \div Half \in Nat /\ key % Half \in Nat
  BY HashAssumption
<1>2. (key \div Half) + (key % Half) \in Nat
  BY <1>1
<1> QED
  BY <1>2, HashAssumption DEF hashfunc, Entries

\* The way from h to e around the table.
LEMMA Ring ==
  ASSUME NEW h \in Entries, NEW e \in Entries
  PROVE  /\ (e - h) % table_size \in 0 .. table_size - 1
         /\ (e - h) % table_size = IF e >= h THEN e - h ELSE (e - h) + table_size
         /\ (e + 1) % table_size = IF e = table_size - 1 THEN 0 ELSE e + 1
<1>1. h \in 0 .. table_size - 1 /\ e \in 0 .. table_size - 1 /\ table_size \in Nat \ {0}
  BY HashAssumption DEF Entries
<1>2. CASE e >= h
  BY <1>1, <1>2
<1>3. CASE ~(e >= h)
  BY <1>1, <1>3
<1>4. (e + 1) % table_size = IF e = table_size - 1 THEN 0 ELSE e + 1
  BY <1>1
<1> QED
  BY <1>2, <1>3, <1>4

\* The path of a key: it grows entry by entry, up to the whole table.
LEMMA Paths ==
  ASSUME NEW key \in Nat, NEW e \in Entries
  PROVE  /\ PathTo(key, e) \subseteq Entries /\ e \notin PathTo(key, e)
         /\ PathTo(key, hashfunc(key)) = {}
         /\ \A d \in Entries : d # e => d \in PathTo(key, e) \/ e \in PathTo(key, d)
         /\ (e + 1) % table_size \in Entries
         /\ (e + 1) % table_size # hashfunc(key) =>
              PathTo(key, (e + 1) % table_size) = PathTo(key, e) \cup {e}
         /\ (e + 1) % table_size = hashfunc(key) => Entries = PathTo(key, e) \cup {e}
<1> DEFINE h == hashfunc(key)
           D(d) == IF d >= h THEN d - h ELSE (d - h) + table_size
           n == (e + 1) % table_size
<1>1. h \in Entries /\ table_size \in Nat \ {0}
  BY Hashes, HashAssumption
<1>2. \A d \in Entries : (d - h) % table_size = D(d) /\ D(d) \in 0 .. table_size - 1
  BY <1>1, Ring
<1>3. n \in Entries /\ n = IF e = table_size - 1 THEN 0 ELSE e + 1
  BY <1>1, Ring DEF Entries
<1>4. \A f \in Entries : PathTo(key, f) = {d \in Entries : D(d) < D(f)}
  BY <1>2 DEF PathTo
<1> HIDE DEF h, n
<1>5. n # h => D(n) = D(e) + 1
  BY <1>1, <1>3 DEF Entries
<1>6. n = h => D(e) = table_size - 1
  BY <1>1, <1>3 DEF Entries
<1>7. \A d \in Entries : D(d) = D(e) => d = e
  BY <1>1 DEF Entries
<1>8. D(h) = 0
  BY <1>1 DEF Entries
<1> HIDE DEF D
<1>9. \A d \in Entries : D(d) \in Nat /\ D(d) <= table_size - 1
  BY <1>2, <1>1
<1>10. PathTo(key, h) = {}
  BY <1>1, <1>4, <1>8, <1>9
<1>11. PathTo(key, e) \subseteq Entries /\ e \notin PathTo(key, e)
  BY <1>4, <1>9
<1>12. \A d \in Entries : d # e => d \in PathTo(key, e) \/ e \in PathTo(key, d)
  BY <1>4, <1>7, <1>9
<1>13. n # h => PathTo(key, n) = PathTo(key, e) \cup {e}
  <2> SUFFICES ASSUME n # h PROVE PathTo(key, n) = PathTo(key, e) \cup {e}
    OBVIOUS
  <2>1. PathTo(key, n) = {d \in Entries : D(d) < D(e) + 1}
    BY <1>3, <1>4, <1>5
  <2>2. \A d \in Entries : D(d) < D(e) + 1 <=> D(d) < D(e) \/ d = e
    BY <1>7, <1>9
  <2> QED BY <1>4, <2>1, <2>2
<1>14. n = h => Entries = PathTo(key, e) \cup {e}
  <2> SUFFICES ASSUME n = h PROVE Entries = PathTo(key, e) \cup {e}
    OBVIOUS
  <2>1. \A d \in Entries : D(d) < D(e) \/ d = e
    BY <1>1, <1>6, <1>7, <1>9
  <2> QED BY <1>4, <2>1
<1> QED
  BY <1>3, <1>10, <1>11, <1>12, <1>13, <1>14 DEF h, n

\* The sets that are counted are finite.
LEMMA Finite ==
  /\ \A S \in SUBSET Threads : IsFiniteSet(S) /\ Cardinality(S) \in Nat
  /\ \A S \in SUBSET Entries : IsFiniteSet(S) /\ Cardinality(S) \in Nat
  /\ Cardinality(Entries) = table_size
<1>1. IsFiniteSet(Threads) /\ IsFiniteSet(Entries) /\ Cardinality(Entries) = table_size
  BY HashAssumption, FS_Interval DEF Threads, Entries
<1> QED
  BY <1>1, FS_Subset, FS_CardinalityType

\* The same for sets of operations.
LEMMA FinitePuts ==
  ASSUME input \in Inputs
  PROVE  /\ IsFiniteSet(Puts) /\ IsFiniteSet(DonePuts)
         /\ Cardinality(Puts) \in Nat /\ Cardinality(DonePuts) \in Nat
<1>1. Puts \subseteq 1 .. Len(input) /\ DonePuts \subseteq 1 .. Len(input) /\ IsFiniteSet(1 .. Len(input))
  BY Ops, FS_Interval DEF Puts, DonePuts
<1> QED
  BY <1>1, FS_Subset, FS_CardinalityType

-----------------------------------------------------------------------------
\* Two threads at work have different keys.
LEMMA Exclusive ==
  ASSUME IInv, NEW t \in Threads, NEW u \in Threads, t # u, pc[t] \in Active, pc[u] \in Active
  PROVE  KeyOf(op[t]) # KeyOf(op[u])
<1>1. pc[t] \in Taken /\ pc[u] \in Taken
  BY DEF Active, Taken
<1>2. op[t] \in Int /\ op[u] \in Int
  BY Ops DEF IInv, Typed
<1> QED
  BY <1>1, <1>2 DEF IInv, InOrder, Registered

\* What a thread at work has.
LEMMA AtWork ==
  ASSUME IInv, NEW t \in Threads, pc[t] \in Active
  PROVE  /\ op[t] \in 1 .. Len(input) /\ op[t] \in DOMAIN input /\ op[t] \in Nat
         /\ KeyOf(op[t]) \in Keys /\ KeyOf(op[t]) # 0 /\ KeyOf(op[t]) \in Nat
         /\ TypeOf(op[t]) \in {"PUT", "GET", "DEL"}
         /\ ctr[t] \in Entries /\ hashfunc(KeyOf(op[t])) \in Entries
         /\ cnt[t] \in {0, 1}
<1>1. op[t] \in 1 .. Len(input) /\ input \in Inputs /\ ctr[t] \in Entries /\ cnt[t] \in {0, 1}
  BY DEF IInv, Typed, Registered, Active, Taken
<1> QED
  BY <1>1, Ops, Hashes

\* A probe stops at its key, at an empty entry, or after a round over a table
\* that has neither; if it does not stop at the key, the key is nowhere.
LEMMA Stopped ==
  ASSUME IInv, NEW t \in Threads, pc[t] = "probe", ~ProbeOn(t)
  PROVE  /\ KeyHere(t) \/ table[ctr[t]] = Empty \/ (ctr[t] = hashfunc(KeyOf(op[t])) /\ cnt[t] = 1)
         /\ ~KeyHere(t) => \A d \in Entries : table[d].key # KeyOf(op[t])
         /\ ctr[t] = hashfunc(KeyOf(op[t])) /\ cnt[t] = 1 => /\ ~KeyHere(t)
                                                          /\ \A d \in Entries : table[d] # Empty
         /\ \A d \in PathTo(KeyOf(op[t]), ctr[t]) : table[d] # Empty
<1> DEFINE k == KeyOf(op[t])
           e == ctr[t]
<1>1. e \in Entries /\ k \in Nat /\ k # 0 /\ cnt[t] \in {0, 1}
  BY AtWork DEF Active
<1>2. table[e] \in [key : Keys \cup {0}, id : -1 .. Len(input)]
  BY <1>1 DEF IInv, Typed
<1>3. \A d \in Visited(k, e, cnt[t]) : table[d] # Empty /\ table[d].key # k
  BY DEF IInv, Probing
<1>4. KeyHere(t) <=> table[e].key = k
  BY DEF KeyHere
<1>5. \/ table[e].key = 0 /\ table[e].id # Deleted
      \/ table[e].key = k
      \/ e = hashfunc(k) /\ cnt[t] = 1
  BY <1>1 DEF ProbeOn
<1>6. table[e].key = 0 /\ table[e].id # Deleted => table[e] = Empty
  <2>1. table[e].key = 0 => table[e].id \in {0, Deleted}
    BY <1>1 DEF IInv, TableOK
  <2> QED BY <1>2, <2>1 DEF Empty
<1> HIDE DEF k, e
<1>7. e = hashfunc(k) /\ cnt[t] = 1 => \A d \in Entries : table[d] # Empty /\ table[d].key # k
  BY <1>3 DEF Visited
<1>8. \A d \in PathTo(k, e) : table[d] # Empty /\ table[d].key # k
  BY <1>1, <1>3, Paths DEF Visited
<1>9. ASSUME table[e] = Empty, NEW d \in Entries PROVE table[d].key # k
  <2>1. table[e].key # k
    BY <1>1, <1>9 DEF Empty
  <2>2. CASE e \in PathTo(k, d)
    BY <1>1, <1>9, <2>2 DEF IInv, TableOK
  <2>3. CASE d \in PathTo(k, e)
    BY <1>8, <2>3
  <2> QED BY <1>1, <2>1, <2>2, <2>3, Paths
<1>10. ~KeyHere(t) => \A d \in Entries : table[d].key # k
  BY <1>4, <1>5, <1>6, <1>7, <1>9
<1>11. e = hashfunc(k) /\ cnt[t] = 1 => ~KeyHere(t) /\ \A d \in Entries : table[d] # Empty
  BY <1>1, <1>4, <1>7
<1>12. KeyHere(t) \/ table[e] = Empty \/ (e = hashfunc(k) /\ cnt[t] = 1)
  BY <1>4, <1>5, <1>6
<1> QED
  BY <1>8, <1>10, <1>11, <1>12 DEF k, e

Entry(L)      == [key : Keys \cup {0}, id : -1 .. L]
Put(tab, e, v) == [tab EXCEPT ![e] = v]

\* The mark of a deleted entry, or a key that is nowhere else and whose path
\* to e is used.
Fits(tab, e, v) ==
  /\ v.key = 0 => v.id = Deleted
  /\ v.key # 0 => /\ v.id > 0
                  /\ \A d \in PathTo(v.key, e) : tab[d] # Empty
                  /\ \A d \in Entries : d # e => tab[d].key # v.key

\* Writing an entry with a key whose path is used and that is nowhere else, or
\* with the mark of a deleted one, keeps the table sound.
LEMMA Written ==
  ASSUME NEW tab, TableOK(tab), NEW L \in Nat, tab \in [Entries -> Entry(L)],
         NEW e \in Entries, NEW v \in Entry(L), Fits(tab, e, v),
         NEW new, new = Put(tab, e, v)
  PROVE  /\ new \in [Entries -> Entry(L)]
         /\ new[e] = v /\ v # Empty /\ \A d \in Entries : d # e => new[d] = tab[d]
         /\ TableOK(new)
<1> USE DEF Put, Fits, Entry
<1>1. /\ new \in [Entries -> [key : Keys \cup {0}, id : -1 .. L]]
      /\ new[e] = v /\ \A d \in Entries : d # e => new[d] = tab[d]
  OBVIOUS
<1>2. v # Empty
  BY DEF Empty, Deleted
<1>3. \A d \in Entries : tab[d] # Empty => new[d] # Empty
  BY <1>1, <1>2
<1>4. \A d \in Entries : new[d].key = 0 => new[d].id \in {0, Deleted}
  BY <1>1 DEF TableOK
<1>5. \A d \in Entries : new[d].key # 0 => new[d].id > 0 /\ \A c \in PathTo(new[d].key, d) : new[c] # Empty
  <2> SUFFICES ASSUME NEW d \in Entries, new[d].key # 0
               PROVE  new[d].id > 0 /\ \A c \in PathTo(new[d].key, d) : new[c] # Empty
    OBVIOUS
  <2>1. PathTo(new[d].key, d) \subseteq Entries
    BY DEF PathTo
  <2>2. new[d].id > 0 /\ \A c \in PathTo(new[d].key, d) : tab[c] # Empty
    BY <1>1 DEF TableOK
  <2> QED BY <1>3, <2>1, <2>2
<1>6. \A d, c \in Entries : new[c].key # 0 /\ new[d].key = new[c].key => d = c
  BY <1>1 DEF TableOK
<1> QED
  BY <1>1, <1>2, <1>4, <1>5, <1>6 DEF TableOK

-----------------------------------------------------------------------------
\* The registrations are kept by steps that take no operation and end none.
LEMMA SameOps ==
  ASSUME IInv, UNCHANGED <<input, curr, being_processed, op, result>>,
         \A u \in Threads : /\ pc'[u] \in Taken <=> pc[u] \in Taken
                            /\ pc'[u] \in Waiting <=> pc[u] \in Waiting
                            /\ pc'[u] \in Active => pc[u] \in Active
  PROVE  Registered' /\ InOrder' /\ ResultsKnown'
<1>1. Registered'
  BY DEF IInv, Registered
<1>2. InOrder'
  BY DEF IInv, InOrder, KeyOf
<1>3. ResultsKnown'
  BY DEF IInv, ResultsKnown
<1> QED
  BY <1>1, <1>2, <1>3

\* An operation gets its result.
LEMMA GotResult ==
  ASSUME IInv, NEW t \in Threads, pc[t] = "probe", NEW l \in {"count", "done_one"},
         Goto(t, l), NEW r \in -1 .. Len(input), Return(t, r),
         UNCHANGED <<input, curr, being_processed, op>>
  PROVE  /\ Registered' /\ InOrder' /\ ResultsKnown'
         /\ pc' \in [Threads -> PCs] /\ result' \in [DOMAIN input -> -2 .. Len(input)]
         /\ result[op[t]] = Pending /\ result'[op[t]] = r /\ r # Pending
         /\ \A i \in DOMAIN input : i # op[t] => result'[i] = result[i]
         /\ pc'[t] = l /\ \A u \in Threads : u # t => pc'[u] = pc[u]
<1>1. pc' \in [Threads -> PCs] /\ pc'[t] = l /\ \A u \in Threads : u # t => pc'[u] = pc[u]
  BY DEF Goto, IInv, Typed, PCs
<1>2. op[t] \in DOMAIN input /\ Len(input) \in Nat
  BY AtWork, Ops DEF Active, IInv, Typed
<1>3. /\ result' \in [DOMAIN input -> -2 .. Len(input)] /\ result'[op[t]] = r /\ r # Pending
      /\ \A i \in DOMAIN input : i # op[t] => result'[i] = result[i]
  BY <1>2 DEF Return, IInv, Typed, Pending
<1>4. result[op[t]] = Pending
  BY <1>2 DEF IInv, ResultsKnown, Waiting
<1>5. \A u \in Threads : /\ pc'[u] \in Taken <=> pc[u] \in Taken
                         /\ pc'[u] \in Active => pc[u] \in Active
                         /\ pc'[u] \in Waiting <=> pc[u] \in Waiting /\ u # t
  BY <1>1 DEF Taken, Active, Waiting
<1>6. Registered'
  BY <1>5 DEF IInv, Registered
<1>7. InOrder'
  BY <1>5 DEF IInv, InOrder, KeyOf
<1>8. ResultsKnown'
  <2>1. \A u \in Threads : pc[u] \in Waiting /\ op[u] = op[t] => u = t
    BY DEF IInv, Registered, Taken, Waiting
  <2>2. op[t] < curr
    BY DEF IInv, Registered, Taken
  <2>3. op[t] \in Nat /\ curr \in Nat
    BY <1>2, AtWork DEF IInv, Typed, Active
  <2> SUFFICES ASSUME NEW i \in DOMAIN input
               PROVE  result'[i] = Pending <=> i >= curr \/ \E u \in Threads : pc'[u] \in Waiting /\ op[u] = i
    BY DEF ResultsKnown
  <2>4. CASE i = op[t]
    BY <1>3, <1>5, <2>1, <2>2, <2>3, <2>4
  <2>5. CASE i # op[t]
    <3>1. result[i] = Pending <=> i >= curr \/ \E u \in Threads : pc[u] \in Waiting /\ op[u] = i
      BY DEF IInv, ResultsKnown
    <3>2. \A u \in Threads : op[u] = i => (pc'[u] \in Waiting <=> pc[u] \in Waiting)
      BY <1>5, <2>5
    <3> QED BY <1>3, <2>5, <3>1, <3>2
  <2> QED BY <2>4, <2>5
<1> QED
  BY <1>1, <1>3, <1>4, <1>6, <1>7, <1>8

\* Locked entries are kept by steps that lock none and change none.
LEMMA SameCounting ==
  ASSUME IInv, UNCHANGED <<input, table>>,
         \A u \in Threads : pc'[u] = "count" => pc[u] = "count" /\ op'[u] = op[u] /\ ctr'[u] = ctr[u]
  PROVE  Counting'
BY DEF IInv, Counting, TypeOf

\* Probes are kept by steps that start, move and disturb none.
LEMMA SameProbing ==
  ASSUME IInv, UNCHANGED <<input, table>>,
         \A u \in Threads : pc'[u] = "probe" => /\ pc[u] = "probe" /\ op'[u] = op[u]
                                                /\ ctr'[u] = ctr[u] /\ cnt'[u] = cnt[u]
  PROVE  Probing'
BY DEF IInv, Probing, KeyOf

\* The counts are kept by steps that change neither the table nor who counts.
LEMMA SameCounts ==
  ASSUME IInv, UNCHANGED <<input, table, used>>,
         \A u \in Threads : pc'[u] = "count" <=> pc[u] = "count",
         \A u \in Threads : pc[u] = "count" => op'[u] = op[u]
  PROVE  Counted'
<1>1. Full' = Full
  BY DEF Full
<1>2. InCount("PUT")' = InCount("PUT") /\ InCount("DEL")' = InCount("DEL")
  BY DEF InCount, TypeOf
<1> QED
  BY <1>1, <1>2 DEF IInv, Counted

\* The PUTs that are done stay while no result is given and no entry used.
LEMMA SamePuts ==
  ASSUME IInv, UNCHANGED <<input, table, result>>
  PROVE  PutsDone' /\ Puts' = Puts
<1>1. NonEmpty' = NonEmpty /\ Puts' = Puts /\ DonePuts' = DonePuts
  BY DEF NonEmpty, Puts, DonePuts, TypeOf
<1> QED
  BY <1>1 DEF IInv, PutsDone

\* There are more used entries than keys and deletions in flight, and as many
\* keys as insertions in flight.
LEMMA UsedBound ==
  ASSUME IInv
  PROVE  used \in Nat /\ used <= Cardinality(NonEmpty)
<1> DEFINE P == InCount("PUT")
           D == InCount("DEL")
           G == NonEmpty \ Full
<1>1. /\ P \subseteq Threads /\ D \subseteq Threads
      /\ Full \subseteq NonEmpty /\ NonEmpty \subseteq Entries /\ G \subseteq Entries
  BY DEF InCount, Full, NonEmpty, Empty
<1>2. /\ IsFiniteSet(P) /\ IsFiniteSet(D) /\ IsFiniteSet(Full) /\ IsFiniteSet(G) /\ IsFiniteSet(NonEmpty)
      /\ Cardinality(P) \in Nat /\ Cardinality(D) \in Nat /\ Cardinality(Full) \in Nat
      /\ Cardinality(G) \in Nat /\ Cardinality(NonEmpty) \in Nat
  BY <1>1, Finite
<1>3. Cardinality(P) <= Cardinality(Full)
  <2> DEFINE f == [t \in P |-> ctr[t]]
  <2>1. \A t \in P : ctr[t] \in Full
    BY DEF IInv, Typed, Counting, InCount, Full
  <2>2. \A t, u \in P : ctr[t] = ctr[u] => t = u
    BY DEF IInv, Counting, InCount
  <2>3. f \in Injection(P, Full)
    BY <2>1, <2>2 DEF Injection, IsInjective
  <2> QED BY <1>2, <2>3, FS_Injection
<1>4. Cardinality(D) <= Cardinality(G)
  <2> DEFINE f == [t \in D |-> ctr[t]]
  <2>1. \A t \in D : ctr[t] \in G
    BY DEF IInv, Typed, Counting, InCount, Full, NonEmpty, Empty, Deleted
  <2>2. \A t, u \in D : ctr[t] = ctr[u] => t = u
    BY DEF IInv, Counting, InCount
  <2>3. f \in Injection(D, G)
    BY <2>1, <2>2 DEF Injection, IsInjective
  <2> QED BY <1>2, <2>3, FS_Injection
<1>5. Cardinality(G) = Cardinality(NonEmpty) - Cardinality(Full)
  <2>1. NonEmpty \cap Full = Full
    BY <1>1
  <2> QED BY <1>2, <2>1, FS_Difference
<1>6. used = Cardinality(Full) - Cardinality(P) + Cardinality(D)
  BY DEF IInv, Counted
<1> HIDE DEF P, D, G
<1> QED
  BY <1>2, <1>3, <1>4, <1>5, <1>6

\* While a PUT has no result, not all PUTs are done.
LEMMA PutLeft ==
  ASSUME IInv, NEW i \in DOMAIN input, TypeOf(i) = "PUT", result[i] = Pending,
         Cardinality(Puts) <= table_size
  PROVE  Cardinality(NonEmpty) < table_size
<1>1. i \in Puts /\ i \notin DonePuts /\ DonePuts \subseteq Puts
  BY DEF Puts, DonePuts
<1>2. IsFiniteSet(Puts) /\ Cardinality(Puts) \in Nat /\ Cardinality(DonePuts) \in Nat
  BY FinitePuts DEF IInv, Typed
<1>3. Cardinality(DonePuts) <= Cardinality(Puts) /\ Cardinality(DonePuts) # Cardinality(Puts)
  BY <1>1, <1>2, FS_Subset
<1>4. Cardinality(NonEmpty) \in Nat
  BY Finite DEF NonEmpty
<1> QED
  BY <1>2, <1>3, <1>4, HashAssumption DEF IInv, PutsDone

-----------------------------------------------------------------------------
\* read_op: the operation that is taken is later than all others, and work
\* on it starts only when no earlier one on its key is registered.
LEMMA ReadStep ==
  ASSUME NThreads <= Scanned, IInv, NEW t \in Threads, read_op(t)
  PROVE  IInv'
<1>1. /\ pc[t] = "read" /\ input \in Inputs
      /\ UNCHANGED <<input, ctr, cnt, table, used, result, aborted>>
  BY DEF read_op, probe, IInv, Typed
<1>2. Len(input) \in Nat /\ DOMAIN input = 1 .. Len(input)
  BY <1>1, Ops
<1>3. CASE curr > Len(input)
  <2>1. curr' = Len(input) + 2 /\ pc' = [pc EXCEPT ![t] = "exit"] /\ UNCHANGED <<being_processed, op>>
    BY <1>3 DEF read_op, Goto
  <2>2. pc' \in [Threads -> PCs] /\ pc'[t] = "exit" /\ \A u \in Threads : u # t => pc'[u] = pc[u]
    BY <2>1 DEF IInv, Typed, PCs
  <2>3. \A u \in Threads : /\ pc'[u] \in Taken <=> pc[u] \in Taken
                           /\ pc'[u] \in Waiting <=> pc[u] \in Waiting
                           /\ pc'[u] \in Active <=> pc[u] \in Active
                           /\ pc'[u] = "count" <=> pc[u] = "count"
                           /\ pc'[u] = "probe" <=> pc[u] = "probe"
    BY <1>1, <2>2 DEF Taken, Waiting, Active
  <2>4. Typed'
    BY <1>1, <1>2, <2>1, <2>2 DEF IInv, Typed
  <2>5. Registered'
    <3>1. \A u \in Threads : op[u] \in 0 .. Len(input)
      BY DEF IInv, Typed
    <3> QED BY <1>1, <1>2, <2>1, <2>3, <3>1 DEF IInv, Registered
  <2>6. InOrder'
    BY <1>1, <2>1, <2>3 DEF IInv, InOrder, KeyOf
  <2>7. ResultsKnown'
    BY <1>1, <1>2, <1>3, <2>1, <2>3 DEF IInv, Typed, ResultsKnown
  <2>8. TableOK(table') /\ Probing' /\ Counting' /\ Counted'
    BY <1>1, <2>1, <2>3, SameProbing, SameCounting, SameCounts DEF IInv
  <2>9. PutsDone' /\ NoFail'
    BY <1>1, SamePuts DEF IInv, NoFail
  <2> QED BY <2>4, <2>5, <2>6, <2>7, <2>8, <2>9 DEF IInv
<1>4. CASE ~(curr > Len(input))
  <2> DEFINE l == IF Conflict(being_processed', curr) THEN "wait" ELSE "start"
  <2>1. /\ curr' = curr + 1 /\ op' = [op EXCEPT ![t] = curr]
        /\ being_processed' = [being_processed EXCEPT ![t] = curr]
        /\ pc' = [pc EXCEPT ![t] = l] /\ l \in {"wait", "start"}
    BY <1>4 DEF read_op, Goto
  <2>2. curr \in 1 .. Len(input) /\ curr \in Nat
    BY <1>2, <1>4 DEF IInv, Typed
  <2> HIDE DEF l
  <2>3. /\ pc' \in [Threads -> PCs] /\ pc'[t] = l /\ \A u \in Threads : u # t => pc'[u] = pc[u]
        /\ op' \in [Threads -> 0 .. Len(input)] /\ op'[t] = curr
        /\ \A u \in Threads : u # t => op'[u] = op[u]
        /\ being_processed' \in [Threads -> 0 .. Len(input)] /\ being_processed'[t] = curr
        /\ \A u \in Threads : u # t => being_processed'[u] = being_processed[u]
    BY <1>2, <2>1, <2>2 DEF IInv, Typed, PCs
  <2>4. \A u \in Threads : u # t => /\ pc'[u] \in Taken <=> pc[u] \in Taken
                                    /\ pc'[u] \in Waiting <=> pc[u] \in Waiting
                                    /\ pc'[u] \in Active <=> pc[u] \in Active
    BY <2>3
  <2>5. /\ pc'[t] \in Taken /\ pc'[t] \in Waiting /\ (pc'[t] \in Active => l = "start")
        /\ pc[t] \notin Taken /\ pc[t] \notin Waiting
    BY <1>1, <2>1, <2>3 DEF Taken, Waiting, Active
  <2>6. \A u \in Threads : pc[u] \in Taken => op[u] \in Nat /\ op[u] < curr
    BY DEF IInv, Registered
  <2>7. Typed'
    BY <1>1, <1>2, <2>1, <2>2, <2>3 DEF IInv, Typed
  <2>8. Registered'
    <3>1. ASSUME NEW u \in Threads, pc'[u] \in Taken
          PROVE  op'[u] \in 1 .. Len(input) /\ being_processed'[u] = op'[u] /\ op'[u] < curr'
      <4>1. CASE u = t
        BY <2>1, <2>2, <2>3, <4>1
      <4>2. CASE u # t
        BY <2>1, <2>2, <2>3, <2>4, <2>6, <3>1, <4>2 DEF IInv, Registered
      <4> QED BY <4>1, <4>2
    <3>2. \A u \in Threads : pc'[u] \notin Taken => being_processed'[u] = NoOp
      BY <2>3, <2>4, <2>5 DEF IInv, Registered
    <3>3. \A u, v \in Threads : pc'[u] \in Taken /\ pc'[v] \in Taken /\ op'[u] = op'[v] => u = v
      <4>1. \A u \in Threads : u # t /\ pc'[u] \in Taken => op'[u] # op'[t]
        BY <2>2, <2>3, <2>4, <2>6
      <4>2. \A u, v \in Threads : u # t /\ v # t /\ pc'[u] \in Taken /\ pc'[v] \in Taken
                                    /\ op'[u] = op'[v] => u = v
        BY <2>3, <2>4 DEF IInv, Registered
      <4> QED BY <4>1, <4>2
    <3> QED BY <1>1, <3>1, <3>2, <3>3 DEF Registered
  <2>9. InOrder'
    <3> SUFFICES ASSUME NEW u \in Threads, NEW v \in Threads, pc'[u] \in Active, pc'[v] \in Taken,
                        KeyOf(op'[v]) = KeyOf(op'[u])
                 PROVE  op'[u] <= op'[v]
      BY <1>1 DEF InOrder, KeyOf
    <3>1. CASE u # t /\ v # t
      BY <2>3, <2>4, <3>1 DEF IInv, InOrder
    <3>2. CASE u # t /\ v = t
      <4>1. pc[u] \in Taken
        BY <2>4, <3>2 DEF Active, Taken
      <4> QED BY <2>2, <2>3, <2>6, <3>2, <4>1
    <3>3. CASE u = t /\ v # t
      <4>1. ~Conflict(being_processed', curr)
        BY <2>5, <3>3 DEF l
      <4>2. v <= Scanned /\ being_processed'[v] = op'[v] /\ op'[v] \in Nat /\ op'[v] # NoOp
        BY <2>8, HashAssumption DEF Registered, Threads, NoOp
      <4>3. ~(op'[v] < curr)
        BY <2>3, <3>3, <4>1, <4>2 DEF Conflict
      <4> QED BY <2>2, <2>3, <3>3, <4>2, <4>3
    <3>4. CASE u = t /\ v = t
      BY <2>2, <2>3, <3>4
    <3> QED BY <3>1, <3>2, <3>3, <3>4
  <2>10. ResultsKnown'
    <3> SUFFICES ASSUME NEW i \in DOMAIN input
                 PROVE  result[i] = Pending <=> i >= curr' \/ \E u \in Threads : pc'[u] \in Waiting /\ op'[u] = i
      BY <1>1 DEF ResultsKnown
    <3>1. result[i] = Pending <=> i >= curr \/ \E u \in Threads : pc[u] \in Waiting /\ op[u] = i
      BY DEF IInv, ResultsKnown
    <3>2. (\E u \in Threads : pc'[u] \in Waiting /\ op'[u] = i)
            <=> i = curr \/ \E u \in Threads : pc[u] \in Waiting /\ op[u] = i
      BY <2>3, <2>4, <2>5
    <3> QED BY <1>2, <2>1, <2>2, <3>1, <3>2
  <2>11. \A u \in Threads : /\ pc'[u] = "count" <=> pc[u] = "count"
                            /\ pc'[u] = "probe" <=> pc[u] = "probe"
                            /\ pc[u] = "count" \/ pc[u] = "probe" => op'[u] = op[u]
    BY <1>1, <2>1, <2>3
  <2>12. TableOK(table') /\ Probing' /\ Counting' /\ Counted'
    BY <1>1, <2>11, SameProbing, SameCounting, SameCounts DEF IInv
  <2>13. PutsDone' /\ NoFail'
    BY <1>1, SamePuts DEF IInv, NoFail
  <2> QED BY <2>7, <2>8, <2>9, <2>10, <2>12, <2>13 DEF IInv
<1> QED
  BY <1>3, <1>4

\* The steps that wait: the scan after pthread_cond_wait, and its wake-ups.
LEMMA WaitStep ==
  ASSUME NThreads <= Scanned, IInv, NEW t \in Threads, recheck(t) \/ spurious_wakeup(t)
  PROVE  IInv'
<1>1. /\ pc[t] \in {"wait", "woken"} /\ input \in Inputs
      /\ UNCHANGED <<input, curr, being_processed, op, ctr, cnt, table, used, result, aborted>>
  BY DEF recheck, spurious_wakeup, probe, IInv, Typed
<1>2. PICK l \in {"wait", "woken", "start"} :
        pc' = [pc EXCEPT ![t] = l] /\ (l = "start" => ~Conflict(being_processed, op[t]))
  BY DEF recheck, spurious_wakeup, Goto
<1>3. pc' \in [Threads -> PCs] /\ pc'[t] = l /\ \A u \in Threads : u # t => pc'[u] = pc[u]
  BY <1>2 DEF IInv, Typed, PCs
<1>4. \A u \in Threads : /\ pc'[u] \in Taken <=> pc[u] \in Taken
                         /\ pc'[u] \in Waiting <=> pc[u] \in Waiting
                         /\ pc'[u] = "count" <=> pc[u] = "count"
                         /\ pc'[u] = "probe" <=> pc[u] = "probe"
  BY <1>1, <1>3 DEF Taken, Waiting
<1>5. Typed'
  BY <1>1, <1>3 DEF IInv, Typed
<1>6. Registered' /\ ResultsKnown'
  BY <1>1, <1>4 DEF IInv, Registered, ResultsKnown
<1>7. InOrder'
  <2> SUFFICES ASSUME NEW u \in Threads, NEW v \in Threads, pc'[u] \in Active, pc'[v] \in Taken,
                      KeyOf(op[v]) = KeyOf(op[u])
               PROVE  op[u] <= op[v]
    BY <1>1 DEF InOrder, KeyOf
  <2>1. CASE u # t
    BY <1>3, <1>4, <2>1 DEF IInv, InOrder
  <2>2. CASE u = t
    <3>1. ~Conflict(being_processed, op[t])
      BY <1>2, <1>3, <2>2 DEF Active
    <3>2. v <= Scanned /\ being_processed[v] = op[v] /\ op[v] \in Nat /\ op[v] # NoOp /\ op[t] \in Nat
      BY <1>1, <1>4, HashAssumption DEF IInv, Registered, Threads, NoOp, Taken
    <3>3. ~(op[v] < op[t])
      BY <2>2, <3>1, <3>2 DEF Conflict
    <3> QED BY <2>2, <3>2, <3>3
  <2> QED BY <2>1, <2>2
<1>8. TableOK(table') /\ Probing' /\ Counting' /\ Counted'
  BY <1>1, <1>4, SameProbing, SameCounting, SameCounts DEF IInv
<1>9. PutsDone' /\ NoFail'
  BY <1>1, SamePuts DEF IInv, NoFail
<1> QED
  BY <1>5, <1>6, <1>7, <1>8, <1>9 DEF IInv

\* The start of a probe; the first assertion of insert_update.
LEMMA StartStep ==
  ASSUME IInv, NEW t \in Threads, start(t)
  PROVE  IInv'
<1> DEFINE h == hashfunc(KeyOf(op[t]))
<1>1. /\ pc[t] = "start" /\ pc' = [pc EXCEPT ![t] = "probe"]
      /\ ctr' = [ctr EXCEPT ![t] = h] /\ cnt' = [cnt EXCEPT ![t] = 0]
      /\ aborted' = (TypeOf(op[t]) = "PUT" /\ used >= table_size)
      /\ UNCHANGED <<input, curr, being_processed, op, table, used, result>>
  BY DEF start, Goto
<1>2. h \in Entries /\ KeyOf(op[t]) \in Nat /\ op[t] \in DOMAIN input
  BY <1>1, AtWork DEF Active
<1> HIDE DEF h
<1>3. pc' \in [Threads -> PCs] /\ pc'[t] = "probe" /\ \A u \in Threads : u # t => pc'[u] = pc[u]
  BY <1>1 DEF IInv, Typed, PCs
<1>4. /\ ctr' \in [Threads -> Entries] /\ ctr'[t] = h /\ \A u \in Threads : u # t => ctr'[u] = ctr[u]
      /\ cnt' \in [Threads -> {0, 1}] /\ cnt'[t] = 0 /\ \A u \in Threads : u # t => cnt'[u] = cnt[u]
  BY <1>1, <1>2 DEF IInv, Typed
<1>5. Typed'
  BY <1>1, <1>3, <1>4 DEF IInv, Typed
<1>6. \A u \in Threads : /\ pc'[u] \in Taken <=> pc[u] \in Taken
                         /\ pc'[u] \in Waiting <=> pc[u] \in Waiting
                         /\ pc'[u] \in Active => pc[u] \in Active
                         /\ pc'[u] = "count" <=> pc[u] = "count"
                         /\ pc[u] = "count" => u # t
  BY <1>1, <1>3 DEF Taken, Waiting, Active
<1>7. Registered' /\ InOrder' /\ ResultsKnown'
  BY <1>1, <1>6, SameOps
<1>8. Probing'
  <2> SUFFICES ASSUME NEW u \in Threads, pc'[u] = "probe"
               PROVE  /\ cnt'[u] = 0 => ctr'[u] = hashfunc(KeyOf(op[u]))
                      /\ \A d \in Visited(KeyOf(op[u]), ctr'[u], cnt'[u]) :
                           table[d] # Empty /\ table[d].key # KeyOf(op[u])
    BY <1>1 DEF Probing, KeyOf
  <2>1. CASE u = t
    <3>1. Visited(KeyOf(op[u]), ctr'[u], cnt'[u]) = {}
      BY <1>2, <1>4, <2>1, Paths DEF Visited, h
    <3> QED BY <1>4, <2>1, <3>1 DEF h
  <2>2. CASE u # t
    BY <1>3, <1>4, <2>2 DEF IInv, Probing
  <2> QED BY <2>1, <2>2
<1>9. TableOK(table') /\ Counting' /\ Counted'
  BY <1>1, <1>4, <1>6, SameCounting, SameCounts DEF IInv
<1>10. PutsDone' /\ Puts' = Puts
  BY <1>1, SamePuts
<1>11. NoFail'
  <2> SUFFICES ASSUME Cardinality(Puts) <= table_size, TypeOf(op[t]) = "PUT", used >= table_size
               PROVE  FALSE
    BY <1>1, <1>10 DEF NoFail
  <2>1. result[op[t]] = Pending
    BY <1>1, <1>2 DEF IInv, ResultsKnown, Waiting
  <2>2. Cardinality(NonEmpty) < table_size
    BY <1>2, <2>1, PutLeft
  <2>3. Cardinality(NonEmpty) \in Nat
    BY Finite DEF NonEmpty
  <2> QED BY <2>2, <2>3, UsedBound, HashAssumption
<1> QED
  BY <1>5, <1>7, <1>8, <1>9, <1>10, <1>11 DEF IInv

\* A probe goes on to the next entry.
LEMMA ProbeStep ==
  ASSUME IInv, NEW t \in Threads, probe_next(t)
  PROVE  IInv'
<1> DEFINE e == ctr[t]
           n == (ctr[t] + 1) % table_size
           k == KeyOf(op[t])
<1>1. /\ pc[t] = "probe" /\ ProbeOn(t)
      /\ ctr' = [ctr EXCEPT ![t] = n] /\ cnt' = [cnt EXCEPT ![t] = 1]
      /\ UNCHANGED <<input, curr, being_processed, op, pc, table, used, result, aborted>>
  BY DEF probe_next
<1>2. e \in Entries /\ k \in Nat /\ k # 0 /\ cnt[t] \in {0, 1}
  BY <1>1, AtWork DEF Active
<1>3. /\ n \in Entries
      /\ n # hashfunc(k) => PathTo(k, n) = PathTo(k, e) \cup {e}
      /\ n = hashfunc(k) => Entries = PathTo(k, e) \cup {e}
  BY <1>2, Paths
<1>4. /\ table[e].key # 0 \/ table[e].id = Deleted
      /\ table[e].key # k
      /\ e # hashfunc(k) \/ cnt[t] = 0
  BY <1>1 DEF ProbeOn
<1>5. \A d \in Visited(k, e, cnt[t]) : table[d] # Empty /\ table[d].key # k
  BY <1>1 DEF IInv, Probing
<1> HIDE DEF e, n, k
<1>6. table[e] # Empty
  BY <1>4 DEF Empty, Deleted
<1>7. \A d \in PathTo(k, e) \cup {e} : table[d] # Empty /\ table[d].key # k
  BY <1>4, <1>5, <1>6 DEF Visited
<1>8. \A d \in Visited(k, n, 1) : table[d] # Empty /\ table[d].key # k
  BY <1>3, <1>7 DEF Visited
<1>9. /\ ctr' \in [Threads -> Entries] /\ ctr'[t] = n /\ \A u \in Threads : u # t => ctr'[u] = ctr[u]
      /\ cnt' \in [Threads -> {0, 1}] /\ cnt'[t] = 1 /\ \A u \in Threads : u # t => cnt'[u] = cnt[u]
  BY <1>1, <1>3 DEF IInv, Typed
<1>10. Typed'
  BY <1>1, <1>9 DEF IInv, Typed
<1>11. Registered' /\ InOrder' /\ ResultsKnown'
  BY <1>1, SameOps
<1>12. Probing'
  <2> SUFFICES ASSUME NEW u \in Threads, pc[u] = "probe"
               PROVE  /\ cnt'[u] = 0 => ctr'[u] = hashfunc(KeyOf(op[u]))
                      /\ \A d \in Visited(KeyOf(op[u]), ctr'[u], cnt'[u]) :
                           table[d] # Empty /\ table[d].key # KeyOf(op[u])
    BY <1>1 DEF Probing, KeyOf
  <2>1. CASE u = t
    BY <1>8, <1>9, <2>1 DEF k
  <2>2. CASE u # t
    BY <1>9, <2>2 DEF IInv, Probing
  <2> QED BY <2>1, <2>2
<1>13. TableOK(table') /\ Counting' /\ Counted'
  BY <1>1, <1>9, SameCounting, SameCounts DEF IInv
<1>14. PutsDone' /\ NoFail'
  BY <1>1, SamePuts DEF IInv, NoFail
<1> QED
  BY <1>10, <1>11, <1>12, <1>13, <1>14 DEF IInv

\* lookup.
LEMMA LookupStep ==
  ASSUME IInv, NEW t \in Threads, lookup(t)
  PROVE  IInv'
<1> DEFINE r == IF KeyHere(t) THEN table[ctr[t]].id ELSE -1
<1>1. /\ pc[t] = "probe" /\ TypeOf(op[t]) = "GET" /\ Return(t, r) /\ Goto(t, "done_one")
      /\ UNCHANGED <<input, curr, being_processed, op, ctr, cnt, table, used, aborted>>
  BY DEF lookup, Found, probe
<1>2. ctr[t] \in Entries /\ Len(input) \in Nat
  BY <1>1, AtWork, Ops DEF Active, IInv, Typed
<1>3. r \in -1 .. Len(input)
  BY <1>2 DEF IInv, Typed
<1> HIDE DEF r
<1>4. /\ Registered' /\ InOrder' /\ ResultsKnown'
      /\ pc' \in [Threads -> PCs] /\ result' \in [DOMAIN input -> -2 .. Len(input)]
      /\ \A i \in DOMAIN input : i # op[t] => result'[i] = result[i]
      /\ pc'[t] = "done_one" /\ \A u \in Threads : u # t => pc'[u] = pc[u]
  BY <1>1, <1>3, GotResult
<1>5. Typed'
  BY <1>1, <1>4 DEF IInv, Typed
<1>6. TableOK(table') /\ Probing' /\ Counting' /\ Counted'
  BY <1>1, <1>4, SameProbing, SameCounting, SameCounts DEF IInv
<1>7. NonEmpty' = NonEmpty /\ Puts' = Puts /\ DonePuts' = DonePuts
  BY <1>1, <1>4 DEF NonEmpty, Puts, DonePuts, TypeOf
<1>8. PutsDone' /\ NoFail'
  BY <1>1, <1>7 DEF IInv, PutsDone, NoFail
<1> QED
  BY <1>4, <1>5, <1>6, <1>8 DEF IInv

\* atomic_add on h->used.
LEMMA AddStep ==
  ASSUME IInv, NEW t \in Threads, atomic_add(t)
  PROVE  IInv'
<1>1. /\ pc[t] = "count" /\ pc' = [pc EXCEPT ![t] = "done_one"]
      /\ used' = used + (IF TypeOf(op[t]) = "PUT" THEN 1 ELSE -1)
      /\ UNCHANGED <<input, curr, being_processed, op, ctr, cnt, table, result, aborted>>
  BY DEF atomic_add, Goto, probe
<1>2. pc' \in [Threads -> PCs] /\ pc'[t] = "done_one" /\ \A u \in Threads : u # t => pc'[u] = pc[u]
  BY <1>1 DEF IInv, Typed, PCs
<1>3. Typed'
  BY <1>1, <1>2 DEF IInv, Typed
<1>4. \A u \in Threads : /\ pc'[u] \in Taken <=> pc[u] \in Taken
                         /\ pc'[u] \in Waiting <=> pc[u] \in Waiting
                         /\ pc'[u] \in Active => pc[u] \in Active
                         /\ pc'[u] = "count" <=> pc[u] = "count" /\ u # t
                         /\ pc'[u] = "probe" <=> pc[u] = "probe"
  BY <1>1, <1>2 DEF Taken, Waiting, Active
<1>5. Registered' /\ InOrder' /\ ResultsKnown'
  BY <1>1, <1>4, SameOps
<1>6. TableOK(table') /\ Probing' /\ Counting'
  BY <1>1, <1>4, SameProbing, SameCounting DEF IInv
<1>7. Counted'
  <2> DEFINE P == InCount("PUT")
             D == InCount("DEL")
  <2>1. Full' = Full
    BY <1>1 DEF Full
  <2>2. P' = P \ {t} /\ D' = D \ {t}
    BY <1>1, <1>4 DEF InCount, TypeOf
  <2>3. IsFiniteSet(P) /\ IsFiniteSet(D) /\ Cardinality(P) \in Nat /\ Cardinality(D) \in Nat
    BY Finite DEF InCount
  <2>4. used = Cardinality(Full) - Cardinality(P) + Cardinality(D) /\ Cardinality(Full) \in Nat
    BY Finite DEF IInv, Counted, Full
  <2>5. \/ TypeOf(op[t]) = "PUT" /\ t \in P /\ t \notin D
        \/ TypeOf(op[t]) = "DEL" /\ t \in D /\ t \notin P
    BY <1>1 DEF IInv, Counting, InCount
  <2> HIDE DEF P, D
  <2>6. /\ Cardinality(P') = IF t \in P THEN Cardinality(P) - 1 ELSE Cardinality(P)
        /\ Cardinality(D') = IF t \in D THEN Cardinality(D) - 1 ELSE Cardinality(D)
    BY <2>2, <2>3, FS_RemoveElement
  <2>7. used' = Cardinality(Full) - Cardinality(P') + Cardinality(D')
    BY <1>1, <2>3, <2>4, <2>5, <2>6
  <2> QED BY <2>1, <2>7 DEF Counted, P, D
<1>8. PutsDone' /\ NoFail'
  BY <1>1, SamePuts DEF IInv, NoFail
<1> QED
  BY <1>3, <1>5, <1>6, <1>7, <1>8 DEF IInv

\* done_one.
LEMMA DoneStep ==
  ASSUME IInv, NEW t \in Threads, done_one(t)
  PROVE  IInv'
<1>1. /\ pc[t] = "done_one" /\ being_processed' = [being_processed EXCEPT ![t] = NoOp]
      /\ pc' = [u \in Threads |-> IF u = t THEN "read" ELSE IF pc[u] = "wait" THEN "woken" ELSE pc[u]]
      /\ UNCHANGED <<input, curr, op, ctr, cnt, table, used, result, aborted>>
  BY DEF done_one, probe
<1>2. pc' \in [Threads -> PCs] /\ pc'[t] = "read"
  BY <1>1 DEF IInv, Typed, PCs
<1>3. \A u \in Threads : /\ pc'[u] \in Taken <=> pc[u] \in Taken /\ u # t
                         /\ pc'[u] \in Waiting <=> pc[u] \in Waiting
                         /\ pc'[u] \in Active => pc[u] \in Active
                         /\ pc'[u] = "count" <=> pc[u] = "count"
                         /\ pc'[u] = "probe" <=> pc[u] = "probe"
  BY <1>1 DEF Taken, Waiting, Active
<1>4. /\ being_processed' \in [Threads -> 0 .. Len(input)] /\ being_processed'[t] = NoOp
      /\ \A u \in Threads : u # t => being_processed'[u] = being_processed[u]
  BY <1>1, Ops DEF IInv, Typed, NoOp
<1>5. Typed'
  BY <1>1, <1>2, <1>4 DEF IInv, Typed
<1>6. Registered'
  BY <1>1, <1>3, <1>4 DEF IInv, Registered
<1>7. InOrder' /\ ResultsKnown'
  BY <1>1, <1>3 DEF IInv, InOrder, ResultsKnown, KeyOf
<1>8. TableOK(table') /\ Probing' /\ Counting' /\ Counted'
  BY <1>1, <1>3, SameProbing, SameCounting, SameCounts DEF IInv
<1>9. PutsDone' /\ NoFail'
  BY <1>1, SamePuts DEF IInv, NoFail
<1> QED
  BY <1>5, <1>6, <1>7, <1>8, <1>9 DEF IInv

-----------------------------------------------------------------------------
\* A thread that writes the entry it has stopped at disturbs neither the probes
\* nor the counting of the others: their keys differ, and no entry is emptied.
LEMMA WroteEntry ==
  ASSUME IInv, NEW t \in Threads, pc[t] = "probe", ~Locked(ctr[t]),
         NEW v, v # Empty, v.key \in {0, KeyOf(op[t])},
         table'[ctr[t]] = v, \A d \in Entries : d # ctr[t] => table'[d] = table[d],
         NEW l \in {"count", "done_one"}, pc'[t] = l, \A u \in Threads : u # t => pc'[u] = pc[u],
         UNCHANGED <<input, op, ctr, cnt>>,
         l = "count" => \/ TypeOf(op[t]) = "PUT" /\ v.key # 0
                        \/ TypeOf(op[t]) = "DEL" /\ v = [key |-> 0, id |-> Deleted]
  PROVE  Probing' /\ Counting'
<1>1. Probing'
  <2> SUFFICES ASSUME NEW u \in Threads, pc'[u] = "probe"
               PROVE  /\ cnt[u] = 0 => ctr[u] = hashfunc(KeyOf(op[u]))
                      /\ \A d \in Visited(KeyOf(op[u]), ctr[u], cnt[u]) :
                           table'[d] # Empty /\ table'[d].key # KeyOf(op[u])
    BY DEF Probing, KeyOf
  <2>1. u # t /\ pc[u] = "probe"
    OBVIOUS
  <2>2. KeyOf(op[u]) # KeyOf(op[t]) /\ KeyOf(op[u]) # 0
    BY <2>1, Exclusive, AtWork DEF Active
  <2>3. Visited(KeyOf(op[u]), ctr[u], cnt[u]) \subseteq Entries
    BY DEF Visited, PathTo
  <2>4. /\ cnt[u] = 0 => ctr[u] = hashfunc(KeyOf(op[u]))
        /\ \A d \in Visited(KeyOf(op[u]), ctr[u], cnt[u]) :
             table[d] # Empty /\ table[d].key # KeyOf(op[u])
    BY <2>1 DEF IInv, Probing
  <2> QED BY <2>2, <2>3, <2>4
<1>2. \A u \in Threads : u # t /\ pc'[u] = "count" => pc[u] = "count" /\ ctr[u] # ctr[t] /\ ctr[u] \in Entries
  BY DEF Locked, IInv, Typed
<1>3. Counting'
  BY <1>2 DEF IInv, Counting, TypeOf
<1> QED
  BY <1>1, <1>3

\* insert_update: an update, a fresh insertion, or its second assertion.
LEMMA InsertStep ==
  ASSUME IInv, NEW t \in Threads, insert_update(t)
  PROVE  IInv'
<1> DEFINE e == ctr[t]
           k == KeyOf(op[t])
<1>1. /\ pc[t] = "probe" /\ ~Locked(e) /\ ~ProbeOn(t) /\ TypeOf(op[t]) = "PUT"
      /\ UNCHANGED <<input, curr, being_processed, op, ctr, cnt, used>>
  BY DEF insert_update, Found, probe
<1>2. /\ op[t] \in 1 .. Len(input) /\ op[t] \in DOMAIN input /\ k \in Keys /\ k # 0 /\ k \in Nat
      /\ e \in Entries /\ Len(input) \in Nat
  BY <1>1, AtWork, Ops DEF Active, IInv, Typed
<1>3. /\ KeyHere(t) \/ table[e] = Empty \/ (e = hashfunc(k) /\ cnt[t] = 1)
      /\ ~KeyHere(t) => \A d \in Entries : table[d].key # k
      /\ e = hashfunc(k) /\ cnt[t] = 1 => ~KeyHere(t) /\ \A d \in Entries : table[d] # Empty
      /\ \A d \in PathTo(k, e) : table[d] # Empty
  BY <1>1, Stopped
<1>4. KeyHere(t) <=> table[e].key = k
  BY DEF KeyHere
<1>5. result[op[t]] = Pending
  BY <1>1, <1>2 DEF IInv, ResultsKnown, Waiting
<1>6. CASE e = hashfunc(k) /\ cnt[t] = 1
  <2>1. aborted' = TRUE /\ UNCHANGED <<table, result, pc>>
    BY <1>6 DEF insert_update
  <2>2. Typed'
    BY <1>1, <2>1 DEF IInv, Typed
  <2>3. Registered' /\ InOrder' /\ ResultsKnown'
    BY <1>1, <2>1, SameOps
  <2>4. TableOK(table') /\ Probing' /\ Counting' /\ Counted'
    BY <1>1, <2>1, SameProbing, SameCounting, SameCounts DEF IInv
  <2>5. PutsDone' /\ Puts' = Puts
    BY <1>1, <2>1, SamePuts
  <2>6. NoFail'
    <3>1. NonEmpty = Entries
      BY <1>3, <1>6 DEF NonEmpty
    <3>2. ~(Cardinality(Puts) <= table_size)
      BY <1>1, <1>2, <1>5, <3>1, PutLeft, Finite, HashAssumption
    <3> QED BY <2>5, <3>2 DEF NoFail
  <2> QED BY <2>2, <2>3, <2>4, <2>5, <2>6 DEF IInv
<1>7. CASE ~(e = hashfunc(k) /\ cnt[t] = 1)
  <2> DEFINE v == [key |-> k, id |-> op[t]]
             l == IF KeyHere(t) THEN "done_one" ELSE "count"
  <2>1. /\ table' = [table EXCEPT ![e] = v] /\ Return(t, 0) /\ Goto(t, l) /\ aborted' = aborted
        /\ l \in {"count", "done_one"}
    BY <1>7 DEF insert_update
  <2>2. v \in [key : Keys \cup {0}, id : -1 .. Len(input)] /\ v.key = k /\ v.id = op[t]
    BY <1>2
  <2>3. v.id > 0 /\ \A d \in Entries : d # e => table[d].key # v.key
    <3>1. v.id > 0
      BY <1>2, <2>2
    <3>2. \A d \in Entries : d # e => table[d].key # k
      BY <1>2, <1>3, <1>4 DEF IInv, TableOK
    <3> QED BY <2>2, <3>1, <3>2
  <2> HIDE DEF v, l
  <2>4. /\ table' \in [Entries -> [key : Keys \cup {0}, id : -1 .. Len(input)]]
        /\ table'[e] = v /\ v # Empty /\ \A d \in Entries : d # e => table'[d] = table[d]
        /\ TableOK(table')
    <3>1. TableOK(table) /\ table \in [Entries -> [key : Keys \cup {0}, id : -1 .. Len(input)]]
      BY DEF IInv, Typed
    <3>2. Fits(table, e, v)
      BY <1>2, <1>3, <2>2, <2>3 DEF Fits
    <3>3. table' = Put(table, e, v)
      BY <2>1 DEF Put
    <3>4. table \in [Entries -> Entry(Len(input))] /\ v \in Entry(Len(input))
      BY <2>2, <3>1 DEF Entry
    <3> HIDE DEF e
    <3>5. /\ table' \in [Entries -> Entry(Len(input))]
          /\ table'[e] = v /\ v # Empty /\ \A d \in Entries : d # e => table'[d] = table[d]
          /\ TableOK(table')
      BY <1>2, <3>1, <3>2, <3>3, <3>4, Written
    <3> QED BY <3>5 DEF Entry
  <2>5. /\ Registered' /\ InOrder' /\ ResultsKnown'
        /\ pc' \in [Threads -> PCs] /\ result' \in [DOMAIN input -> -2 .. Len(input)]
        /\ result'[op[t]] # Pending
        /\ \A i \in DOMAIN input : i # op[t] => result'[i] = result[i]
        /\ pc'[t] = l /\ \A u \in Threads : u # t => pc'[u] = pc[u]
    <3>1. 0 \in -1 .. Len(input)
      BY <1>2
    <3> QED BY <1>1, <2>1, <3>1, GotResult
  <2>6. Typed'
    BY <1>1, <2>1, <2>4, <2>5 DEF IInv, Typed
  <2>7. Probing' /\ Counting'
    <3>1. v.key \in {0, KeyOf(op[t])} /\ v.key # 0
      BY <1>2, <2>2
    <3> QED BY <1>1, <2>1, <2>4, <2>5, <3>1, WroteEntry
  <2>8. l = "count" <=> ~KeyHere(t)
    BY DEF l
  <2>9. InCount("DEL")' = InCount("DEL")
    BY <1>1, <2>5 DEF InCount, TypeOf
  <2>10. DonePuts' = DonePuts \cup {op[t]} /\ op[t] \notin DonePuts /\ Puts' = Puts
    BY <1>1, <1>2, <1>5, <2>5 DEF DonePuts, Puts, TypeOf
  <2>11. /\ IsFiniteSet(DonePuts) /\ Cardinality(DonePuts) \in Nat
         /\ Cardinality(DonePuts') = Cardinality(DonePuts) + 1
    <3>1. IsFiniteSet(DonePuts) /\ Cardinality(DonePuts) \in Nat
      BY FinitePuts DEF IInv, Typed
    <3> QED BY <2>10, <3>1, FS_AddElement
  <2>12. Cardinality(NonEmpty) \in Nat /\ Cardinality(NonEmpty) <= Cardinality(DonePuts)
    BY Finite DEF NonEmpty, IInv, PutsDone
  <2>13. used = Cardinality(Full) - Cardinality(InCount("PUT")) + Cardinality(InCount("DEL"))
    BY DEF IInv, Counted
  <2>14. CASE KeyHere(t)
    <3>1. Full' = Full /\ NonEmpty' = NonEmpty
      <4>1. table[e].key # 0 /\ table[e] # Empty /\ v.key # 0
        BY <1>2, <1>4, <2>2, <2>14 DEF Empty
      <4> QED BY <2>4, <4>1 DEF Full, NonEmpty
    <3>2. InCount("PUT")' = InCount("PUT")
      BY <1>1, <2>5, <2>8, <2>14 DEF InCount, TypeOf, l
    <3>3. Counted'
      BY <1>1, <2>9, <2>13, <3>1, <3>2 DEF Counted
    <3>4. PutsDone'
      BY <2>11, <2>12, <3>1 DEF PutsDone
    <3> QED BY <2>1, <2>4, <2>5, <2>6, <2>7, <2>10, <3>3, <3>4 DEF IInv, NoFail
  <2>15. CASE ~KeyHere(t)
    <3>1. table[e] = Empty
      BY <1>3, <1>7, <2>15
    <3>2. Full' = Full \cup {e} /\ NonEmpty' = NonEmpty \cup {e} /\ e \notin Full /\ e \notin NonEmpty
      BY <1>2, <2>2, <2>4, <3>1 DEF Full, NonEmpty, Empty
    <3>3. InCount("PUT")' = InCount("PUT") \cup {t} /\ t \notin InCount("PUT")
      BY <1>1, <2>5, <2>8, <2>15 DEF InCount, TypeOf
    <3>4. /\ IsFiniteSet(Full) /\ IsFiniteSet(NonEmpty) /\ IsFiniteSet(InCount("PUT"))
          /\ Cardinality(Full) \in Nat /\ Cardinality(InCount("PUT")) \in Nat
          /\ Cardinality(InCount("DEL")) \in Nat
      BY Finite DEF Full, NonEmpty, InCount
    <3>5. /\ Cardinality(Full') = Cardinality(Full) + 1
          /\ Cardinality(NonEmpty') = Cardinality(NonEmpty) + 1
          /\ Cardinality(InCount("PUT")') = Cardinality(InCount("PUT")) + 1
      <4>1. Cardinality(Full') = Cardinality(Full) + 1
        BY <3>2, <3>4, FS_AddElement
      <4>2. Cardinality(NonEmpty') = Cardinality(NonEmpty) + 1
        BY <3>2, <3>4, FS_AddElement
      <4> DEFINE P == InCount("PUT")
      <4>3. Cardinality(P') = Cardinality(P) + 1
        <5> HIDE DEF P
        <5> QED BY <3>3, <3>4, FS_AddElement DEF P
      <4> QED BY <4>1, <4>2, <4>3
    <3>6. Counted'
      <4> DEFINE F == Cardinality(Full)
                 P == Cardinality(InCount("PUT"))
                 D == Cardinality(InCount("DEL"))
      <4>1. used = F - P + D /\ F \in Nat /\ P \in Nat /\ D \in Nat
        BY <2>13, <3>4
      <4>2. used' = used /\ F' = F + 1 /\ P' = P + 1 /\ D' = D
        BY <1>1, <2>9, <3>5
      <4> HIDE DEF F, P, D
      <4>3. used' = F' - P' + D'
        BY <4>1, <4>2
      <4> QED BY <4>3 DEF Counted, F, P, D
    <3>7. PutsDone'
      <4> HIDE DEF NonEmpty, DonePuts
      <4> QED BY <2>11, <2>12, <3>5 DEF PutsDone
    <3> QED BY <2>1, <2>4, <2>5, <2>6, <2>7, <2>10, <3>6, <3>7 DEF IInv, NoFail
  <2> QED BY <2>14, <2>15
<1> QED
  BY <1>6, <1>7

\* purge_key: the entry keeps the mark of a deleted one.
LEMMA PurgeStep ==
  ASSUME IInv, NEW t \in Threads, purge_key(t)
  PROVE  IInv'
<1> DEFINE e == ctr[t]
           k == KeyOf(op[t])
<1>1. /\ pc[t] = "probe" /\ ~Locked(e) /\ TypeOf(op[t]) = "DEL"
      /\ UNCHANGED <<input, curr, being_processed, op, ctr, cnt, used, aborted>>
  BY DEF purge_key, Found, probe
<1>2. k # 0 /\ e \in Entries /\ Len(input) \in Nat
  BY <1>1, AtWork, Ops DEF Active, IInv, Typed
<1>3. -1 \in -1 .. Len(input) /\ 0 \in -1 .. Len(input)
  BY <1>2
<1>4. CASE KeyHere(t)
  <2> DEFINE v == [key |-> 0, id |-> Deleted]
  <2>1. table' = [table EXCEPT ![e] = v] /\ Return(t, 0) /\ Goto(t, "count")
    BY <1>4 DEF purge_key
  <2>2. v \in [key : Keys \cup {0}, id : -1 .. Len(input)] /\ v.key = 0 /\ v.id = Deleted
    BY <1>3 DEF Deleted
  <2>3. v = [key |-> 0, id |-> Deleted]
    OBVIOUS
  <2> HIDE DEF v
  <2>4. /\ table' \in [Entries -> [key : Keys \cup {0}, id : -1 .. Len(input)]]
        /\ table'[e] = v /\ v # Empty /\ \A d \in Entries : d # e => table'[d] = table[d]
        /\ TableOK(table')
    <3>1. TableOK(table) /\ table \in [Entries -> [key : Keys \cup {0}, id : -1 .. Len(input)]]
      BY DEF IInv, Typed
    <3>2. Fits(table, e, v)
      BY <2>2 DEF Fits
    <3>3. table' = Put(table, e, v)
      BY <2>1 DEF Put
    <3>4. table \in [Entries -> Entry(Len(input))] /\ v \in Entry(Len(input))
      BY <2>2, <3>1 DEF Entry
    <3> HIDE DEF e
    <3>5. /\ table' \in [Entries -> Entry(Len(input))]
          /\ table'[e] = v /\ v # Empty /\ \A d \in Entries : d # e => table'[d] = table[d]
          /\ TableOK(table')
      BY <1>2, <3>1, <3>2, <3>3, <3>4, Written
    <3> QED BY <3>5 DEF Entry
  <2>5. /\ Registered' /\ InOrder' /\ ResultsKnown'
        /\ pc' \in [Threads -> PCs] /\ result' \in [DOMAIN input -> -2 .. Len(input)]
        /\ \A i \in DOMAIN input : i # op[t] => result'[i] = result[i]
        /\ pc'[t] = "count" /\ \A u \in Threads : u # t => pc'[u] = pc[u]
    BY <1>1, <1>3, <2>1, GotResult
  <2>6. Typed'
    BY <1>1, <2>4, <2>5 DEF IInv, Typed
  <2>7. Probing' /\ Counting'
    BY <1>1, <2>2, <2>3, <2>4, <2>5, WroteEntry
  <2>8. table[e].key # 0 /\ table[e] # Empty
    BY <1>2, <1>4 DEF KeyHere, Empty
  <2>9. Full' = Full \ {e} /\ NonEmpty' = NonEmpty /\ e \in Full
    BY <1>2, <2>2, <2>4, <2>8 DEF Full, NonEmpty
  <2>10. /\ InCount("DEL")' = InCount("DEL") \cup {t} /\ t \notin InCount("DEL")
         /\ InCount("PUT")' = InCount("PUT")
    BY <1>1, <2>5 DEF InCount, TypeOf
  <2>11. Puts' = Puts /\ DonePuts' = DonePuts
    BY <1>1, <2>5 DEF Puts, DonePuts, TypeOf
  <2>12. Counted'
    <3> DEFINE P == InCount("PUT")
               D == InCount("DEL")
    <3>1. /\ IsFiniteSet(Full) /\ IsFiniteSet(D) /\ Cardinality(Full) \in Nat
          /\ Cardinality(P) \in Nat /\ Cardinality(D) \in Nat
      BY Finite DEF Full, InCount
    <3>2. used = Cardinality(Full) - Cardinality(P) + Cardinality(D)
      BY DEF IInv, Counted
    <3> HIDE DEF P, D
    <3>3. Cardinality(Full') = Cardinality(Full) - 1
      BY <2>9, <3>1, FS_RemoveElement
    <3>4. Cardinality(D') = Cardinality(D) + 1
      BY <2>10, <3>1, FS_AddElement DEF D
    <3>5. P' = P
      BY <2>10 DEF P
    <3>6. used' = Cardinality(Full') - Cardinality(P') + Cardinality(D')
      BY <1>1, <3>1, <3>2, <3>3, <3>4, <3>5
    <3> QED BY <3>6 DEF Counted, P, D
  <2>13. PutsDone' /\ NoFail'
    BY <1>1, <2>9, <2>11 DEF IInv, PutsDone, NoFail
  <2> QED BY <2>4, <2>5, <2>6, <2>7, <2>12, <2>13 DEF IInv
<1>5. CASE ~KeyHere(t)
  <2>1. Return(t, -1) /\ Goto(t, "done_one") /\ UNCHANGED table
    BY <1>5 DEF purge_key
  <2>2. /\ Registered' /\ InOrder' /\ ResultsKnown'
        /\ pc' \in [Threads -> PCs] /\ result' \in [DOMAIN input -> -2 .. Len(input)]
        /\ \A i \in DOMAIN input : i # op[t] => result'[i] = result[i]
        /\ pc'[t] = "done_one" /\ \A u \in Threads : u # t => pc'[u] = pc[u]
    BY <1>1, <1>3, <2>1, GotResult
  <2>3. Typed'
    BY <1>1, <2>1, <2>2 DEF IInv, Typed
  <2>4. TableOK(table') /\ Probing' /\ Counting' /\ Counted'
    BY <1>1, <2>1, <2>2, SameProbing, SameCounting, SameCounts DEF IInv
  <2>5. NonEmpty' = NonEmpty /\ Puts' = Puts /\ DonePuts' = DonePuts
    BY <1>1, <2>1, <2>2 DEF NonEmpty, Puts, DonePuts, TypeOf
  <2>6. PutsDone' /\ NoFail'
    BY <1>1, <2>5 DEF IInv, PutsDone, NoFail
  <2> QED BY <2>2, <2>3, <2>4, <2>6 DEF IInv
<1> QED
  BY <1>4, <1>5

-----------------------------------------------------------------------------
\* The initial state: an empty table and nothing taken.
LEMMA InitIInv ==
  ASSUME Init
  PROVE  IInv
<1>1. input \in Inputs /\ Len(input) \in Nat /\ DOMAIN input = 1 .. Len(input)
  BY Ops DEF Init
<1>2. Typed
  <2>1. /\ curr \in 1 .. Len(input) + 2 /\ 0 \in Entries /\ 0 \in 0 .. Len(input)
        /\ table \in [Entries -> [key : Keys \cup {0}, id : -1 .. Len(input)]]
    BY <1>1, HashAssumption DEF Init, Entries, Empty
  <2>2. result \in [DOMAIN input -> -2 .. Len(input)]
    BY <1>1 DEF Init, Pending
  <2>3. /\ being_processed \in [Threads -> 0 .. Len(input)] /\ op \in [Threads -> 0 .. Len(input)]
        /\ ctr \in [Threads -> Entries] /\ cnt \in [Threads -> {0, 1}]
    BY <2>1 DEF Init, NoOp
  <2>4. "read" \in PCs
    BY DEF PCs
  <2>5. pc \in [Threads -> PCs]
    BY <2>4 DEF Init
  <2>6. used \in Int /\ aborted \in BOOLEAN
    <3>1. used = 0 /\ aborted = FALSE
      BY DEF Init
    <3>2. used \in Int
      BY <3>1
    <3>3. aborted \in BOOLEAN
      BY <3>1
    <3> QED BY <3>2, <3>3
  <2> QED BY <1>1, <2>1, <2>2, <2>3, <2>5, <2>6 DEF Typed
<1>3. Registered /\ InOrder /\ Probing /\ Counting
  BY DEF Init, Registered, InOrder, Probing, Counting, Taken, Active
<1>4. ResultsKnown
  BY <1>1 DEF Init, ResultsKnown
<1>5. TableOK(table)
  BY DEF Init, TableOK, Empty
<1>6. Full = {} /\ NonEmpty = {} /\ InCount("PUT") = {} /\ InCount("DEL") = {}
  BY DEF Init, Full, NonEmpty, InCount, Empty
<1>7. Counted /\ PutsDone
  <2>1. Cardinality(DonePuts) \in Nat
    BY <1>1, FinitePuts
  <2> QED BY <1>6, <2>1, FS_EmptySet DEF Init, Counted, PutsDone
<1>8. NoFail
  BY DEF Init, NoFail
<1> QED
  BY <1>2, <1>3, <1>4, <1>5, <1>7, <1>8 DEF IInv

\* Every step keeps the invariant.
LEMMA Steps ==
  ASSUME NThreads <= Scanned, IInv, [Next]_vars
  PROVE  IInv'
<1>1. CASE UNCHANGED vars
  <2>1. /\ UNCHANGED <<input, curr, being_processed, op, pc, ctr, cnt, table, used, result, aborted>>
    BY <1>1 DEF vars, probe
  <2>2. Typed' /\ Registered' /\ InOrder' /\ ResultsKnown'
    BY <2>1, SameOps DEF IInv, Typed
  <2>3. TableOK(table') /\ Probing' /\ Counting' /\ Counted'
    BY <2>1, SameProbing, SameCounting, SameCounts DEF IInv
  <2>4. PutsDone' /\ NoFail'
    BY <2>1, SamePuts DEF IInv, NoFail
  <2> QED BY <2>2, <2>3, <2>4 DEF IInv
<1>2. ASSUME NEW t \in Threads, Step(t) \/ spurious_wakeup(t)
      PROVE  IInv'
  BY <1>2, ReadStep, WaitStep, StartStep, ProbeStep, LookupStep, InsertStep, PurgeStep, AddStep, DoneStep
     DEF Step
<1> QED
  BY <1>1, <1>2 DEF Next, Ended

\* IInv is an invariant of the parallel program, with as many threads as the
\* scan of read_op covers.
THEOREM Inductive ==
  ASSUME NThreads <= Scanned
  PROVE  Spec => []IInv
<1>1. IInv /\ [Next]_vars => IInv'
  BY Steps
<1> QED
  BY InitIInv, <1>1, PTL DEF Spec

\* The shared table is sound at every moment, whatever races the threads run.
THEOREM Sound ==
  ASSUME NThreads <= Scanned
  PROVE  Spec => []TableSound
<1>1. ASSUME IInv PROVE TableSound
  <2>1. TypeOK
    BY <1>1, UsedBound DEF IInv, Typed, TypeOK
  <2>2. \A e \in Full : /\ \A d \in PathTo(table[e].key, e) : table[d] # Empty
                        /\ \A d \in Full \ {e} : table[d].key # table[e].key
    BY <1>1 DEF IInv, TableOK, Full
  <2>3. used = Cardinality(Full) - Cardinality(InCount("PUT")) + Cardinality(InCount("DEL"))
    BY <1>1 DEF IInv, Counted
  <2> QED BY <2>1, <2>2, <2>3 DEF TableSound, Full, InCount
<1> QED
  BY <1>1, Inductive, PTL

\* The assertions of insert_update never fail while the input has no more PUTs
\* than the table has entries.
THEOREM AssertionsHold ==
  ASSUME NThreads <= Scanned
  PROVE  Spec => []AssertsHold
<1>1. ASSUME IInv PROVE AssertsHold
  BY <1>1 DEF IInv, NoFail, AssertsHold, Puts
<1> QED
  BY <1>1, Inductive, PTL

-----------------------------------------------------------------------------
\* The store that a table implements.
StoreOf(tab) ==
  [k \in Keys |-> Max({0} \cup {tab[e].id : e \in {d \in Entries : tab[d].key = k}})]

\* It holds the id of the one entry with the key.
LEMMA Stored ==
  ASSUME NEW tab, TableOK(tab), NEW L \in Nat, tab \in [Entries -> Entry(L)], NEW k \in Keys
  PROVE  /\ (\A d \in Entries : tab[d].key # k) => StoreOf(tab)[k] = 0
         /\ \A e \in Entries : tab[e].key = k => StoreOf(tab)[k] = tab[e].id /\ tab[e].id \in Nat \ {0}
<1> DEFINE S == {0} \cup {tab[e].id : e \in {d \in Entries : tab[d].key = k}}
<1>1. StoreOf(tab)[k] = Max(S)
  BY DEF StoreOf
<1>2. k # 0
  BY HashAssumption
<1>3. ASSUME \A d \in Entries : tab[d].key # k PROVE Max(S) = 0
  <2>1. S = {0}
    BY <1>3
  <2> HIDE DEF S
  <2>2. Max(S) \in S
    BY <2>1 DEF Max
  <2> QED BY <2>1, <2>2
<1>4. ASSUME NEW e \in Entries, tab[e].key = k PROVE Max(S) = tab[e].id /\ tab[e].id \in Nat \ {0}
  <2>1. tab[e].id > 0 /\ \A d \in Entries : tab[d].key = k => d = e
    BY <1>2, <1>4 DEF TableOK
  <2>2. tab[e].id \in Nat \ {0}
    BY <2>1 DEF Entry
  <2>3. S = {0, tab[e].id}
    BY <1>4, <2>1
  <2> HIDE DEF S
  <2>4. Max(S) \in S /\ Max(S) >= tab[e].id
    BY <2>2, <2>3 DEF Max
  <2> QED BY <2>2, <2>3, <2>4
<1> QED
  BY <1>1, <1>3, <1>4

\* What an operation does to the store: S is stored for its key, R returned.
LEMMA Effect ==
  ASSUME NEW i \in DOMAIN input, result[i] = Pending, input' = input,
         \A j \in 1 .. i - 1 : KeyOf(j) = KeyOf(i) => result[j] # Pending,
         NEW s, s = StoreOf(table), NEW S, StoreOf(table') = [s EXCEPT ![KeyOf(i)] = S],
         NEW R, result' = [result EXCEPT ![i] = R],
         TypeOf(i) \in {"PUT", "GET", "DEL"},
         TypeOf(i) = "PUT" => S = i /\ R = 0,
         TypeOf(i) = "DEL" => S = 0 /\ R = IF s[KeyOf(i)] = 0 THEN -1 ELSE 0,
         TypeOf(i) = "GET" => S = s[KeyOf(i)] /\ R = IF s[KeyOf(i)] = 0 THEN -1 ELSE s[KeyOf(i)]
  PROVE  Abs!Next
<1>1. S = CASE TypeOf(i) = "PUT" -> i [] TypeOf(i) = "DEL" -> 0 [] OTHER -> s[KeyOf(i)]
  OBVIOUS
<1>2. R = CASE TypeOf(i) = "PUT" -> 0
            [] TypeOf(i) = "DEL" -> IF s[KeyOf(i)] = 0 THEN -1 ELSE 0
            [] OTHER -> IF s[KeyOf(i)] = 0 THEN -1 ELSE s[KeyOf(i)]
  OBVIOUS
<1>3. Abs!TakeEffect(i)
  BY <1>1, <1>2 DEF Abs!TakeEffect, Abs!Pending, Pending, StoreOf, KeyOf, TypeOf
<1> QED
  BY <1>3 DEF Abs!Next

\* The earlier operations on the key of a thread that probes have results.
LEMMA EarlierDone ==
  ASSUME IInv, NEW t \in Threads, pc[t] = "probe"
  PROVE  \A j \in 1 .. op[t] - 1 : KeyOf(j) = KeyOf(op[t]) => result[j] # Pending
<1>1. op[t] \in 1 .. Len(input) /\ op[t] < curr /\ Len(input) \in Nat /\ DOMAIN input = 1 .. Len(input)
      /\ curr \in Nat
  BY Ops DEF IInv, Typed, Registered, Taken
<1> SUFFICES ASSUME NEW j \in 1 .. op[t] - 1, KeyOf(j) = KeyOf(op[t]), result[j] = Pending
             PROVE  FALSE
  OBVIOUS
<1>2. j \in DOMAIN input /\ j < op[t] /\ ~(j >= curr)
  BY <1>1
<1>3. PICK u \in Threads : pc[u] \in Waiting /\ op[u] = j
  BY <1>2 DEF IInv, ResultsKnown
<1>4. op[t] <= op[u]
  BY <1>3 DEF IInv, InOrder, Active, Taken, Waiting
<1> QED
  BY <1>1, <1>2, <1>3, <1>4

\* Writing the one entry that may hold key k changes the store at k only.
LEMMA StoreWritten ==
  ASSUME NEW L \in Nat, NEW tab \in [Entries -> Entry(L)], NEW new \in [Entries -> Entry(L)],
         TableOK(tab), TableOK(new), NEW k \in Keys, NEW e \in Entries,
         \A d \in Entries : d # e => new[d] = tab[d] /\ tab[d].key # k,
         tab[e].key \in {0, k}, new[e].key \in {0, k}
  PROVE  StoreOf(new) = [StoreOf(tab) EXCEPT ![k] = IF new[e].key = k THEN new[e].id ELSE 0]
<1>1. StoreOf(new)[k] = IF new[e].key = k THEN new[e].id ELSE 0
  <2>1. CASE new[e].key = k
    BY <2>1, Stored
  <2>2. CASE new[e].key # k
    <3>1. \A d \in Entries : new[d].key # k
      BY <2>2
    <3> QED BY <2>2, <3>1, Stored
  <2> QED BY <2>1, <2>2
<1>2. ASSUME NEW j \in Keys, j # k PROVE StoreOf(new)[j] = StoreOf(tab)[j]
  <2>1. j # 0 /\ k # 0
    BY HashAssumption
  <2>2. \A d \in Entries : tab[d].key = j <=> new[d].key = j
    BY <1>2, <2>1
  <2>3. CASE \E d \in Entries : tab[d].key = j
    <3>1. PICK d \in Entries : tab[d].key = j
      BY <2>3
    <3>2. d # e /\ new[d] = tab[d]
      BY <1>2, <2>1, <3>1
    <3> QED BY <3>1, <3>2, Stored
  <2>4. CASE ~ \E d \in Entries : tab[d].key = j
    BY <2>2, <2>4, Stored
  <2> QED BY <2>3, <2>4
<1>3. /\ StoreOf(new) = [j \in Keys |-> StoreOf(new)[j]]
      /\ StoreOf(tab) = [j \in Keys |-> StoreOf(tab)[j]]
  BY DEF StoreOf
<1> DEFINE s == StoreOf(tab)
           n == StoreOf(new)
           x == IF new[e].key = k THEN new[e].id ELSE 0
<1>4. n[k] = x /\ (\A j \in Keys : j # k => n[j] = s[j])
      /\ n = [j \in Keys |-> n[j]] /\ s = [j \in Keys |-> s[j]]
  BY <1>1, <1>2, <1>3
<1> HIDE DEF s, n, x
<1>5. n = [s EXCEPT ![k] = x]
  BY <1>4
<1> QED
  BY <1>5 DEF s, n, x

\* What the three operations do to the store when they find their entry.
LEMMA Effects ==
  ASSUME IInv, IInv', NEW t \in Threads, lookup(t) \/ insert_update(t) \/ purge_key(t)
  PROVE  Abs!Next \/ UNCHANGED <<input, StoreOf(table), result>>
<1> DEFINE e == ctr[t]
           i == op[t]
           k == KeyOf(i)
           s == StoreOf(table)
<1>1. pc[t] = "probe" /\ ~ProbeOn(t) /\ input' = input
  BY DEF lookup, insert_update, purge_key, Found
<1>2. /\ i \in DOMAIN input /\ i \in Nat /\ k \in Keys /\ k # 0 /\ e \in Entries
      /\ TypeOf(i) \in {"PUT", "GET", "DEL"}
  BY <1>1, AtWork DEF Active
<1>3. /\ KeyHere(t) \/ table[e] = Empty \/ (e = hashfunc(k) /\ cnt[t] = 1)
      /\ ~KeyHere(t) => \A d \in Entries : table[d].key # k
      /\ KeyHere(t) <=> table[e].key = k
  BY <1>1, Stopped DEF KeyHere
<1>4. /\ Len(input) \in Nat /\ table \in [Entries -> Entry(Len(input))] /\ TableOK(table)
      /\ table' \in [Entries -> Entry(Len(input))] /\ TableOK(table')
  BY <1>1, Ops DEF IInv, Typed, Entry
<1>5. /\ KeyHere(t) => s[k] = table[e].id /\ s[k] # 0
      /\ ~KeyHere(t) => s[k] = 0
  <2>1. CASE KeyHere(t)
    BY <1>2, <1>3, <1>4, <2>1, Stored
  <2>2. CASE ~KeyHere(t)
    BY <1>2, <1>3, <1>4, <2>2, Stored
  <2> QED BY <2>1, <2>2
<1>6. result[i] = Pending
  BY <1>1, <1>2 DEF IInv, ResultsKnown, Waiting
<1>7. \A j \in 1 .. i - 1 : KeyOf(j) = k => result[j] # Pending
  BY <1>1, EarlierDone
<1>8. s = [s EXCEPT ![k] = s[k]]
  BY <1>2 DEF StoreOf
<1>9. \A d \in Entries : d # e => table[d].key # k
  BY <1>2, <1>3 DEF IInv, TableOK
<1> HIDE DEF s, i, k, e
<1>10. CASE lookup(t)
  <2> DEFINE r == IF KeyHere(t) THEN table[e].id ELSE -1
  <2>1. TypeOf(i) = "GET" /\ result' = [result EXCEPT ![i] = r] /\ table' = table
    BY <1>10 DEF lookup, Found, Return, i, e
  <2>2. r = IF s[k] = 0 THEN -1 ELSE s[k]
    BY <1>5
  <2>3. StoreOf(table') = [s EXCEPT ![k] = s[k]]
    BY <1>8, <2>1 DEF s
  <2> HIDE DEF r
  <2> QED BY <1>1, <1>2, <1>6, <1>7, <2>1, <2>2, <2>3, Effect DEF s, k
<1>11. CASE purge_key(t)
  <2>1. TypeOf(i) = "DEL"
    BY <1>11 DEF purge_key, Found, i
  <2>2. CASE KeyHere(t)
    <3>1. table' = [table EXCEPT ![e] = [key |-> 0, id |-> Deleted]] /\ result' = [result EXCEPT ![i] = 0]
      BY <1>11, <2>2 DEF purge_key, Return, i, e
    <3>2. table'[e].key = 0 /\ \A d \in Entries : d # e => table'[d] = table[d]
      BY <1>2, <1>4, <3>1
    <3>3. StoreOf(table') = [StoreOf(table) EXCEPT ![k] = IF table'[e].key = k THEN table'[e].id ELSE 0]
      <4>1. table[e].key \in {0, k} /\ table'[e].key \in {0, k}
        BY <1>3, <2>2, <3>2
      <4> QED BY <1>2, <1>4, <1>9, <3>2, <4>1, StoreWritten
    <3>4. StoreOf(table') = [s EXCEPT ![k] = 0]
      BY <1>2, <3>2, <3>3 DEF s
    <3>5. s[k] # 0
      BY <1>5, <2>2
    <3> QED BY <1>1, <1>2, <1>6, <1>7, <2>1, <3>1, <3>4, <3>5, Effect DEF s, k
  <2>3. CASE ~KeyHere(t)
    <3>1. table' = table /\ result' = [result EXCEPT ![i] = -1] /\ s[k] = 0
      BY <1>5, <1>11, <2>3 DEF purge_key, Return, i
    <3>2. StoreOf(table') = [s EXCEPT ![k] = 0]
      BY <1>8, <3>1 DEF s
    <3> QED BY <1>1, <1>2, <1>6, <1>7, <2>1, <3>1, <3>2, Effect DEF s, k
  <2> QED BY <2>2, <2>3
<1>12. CASE insert_update(t)
  <2>1. TypeOf(i) = "PUT"
    BY <1>12 DEF insert_update, Found, i
  <2>2. CASE e = hashfunc(k) /\ cnt[t] = 1
    BY <1>1, <1>12, <2>2 DEF insert_update, i, k, e
  <2>3. CASE ~(e = hashfunc(k) /\ cnt[t] = 1)
    <3>1. table' = [table EXCEPT ![e] = [key |-> k, id |-> i]] /\ result' = [result EXCEPT ![i] = 0]
      BY <1>12, <2>3 DEF insert_update, Return, i, k, e
    <3>2. table'[e].key = k /\ table'[e].id = i /\ \A d \in Entries : d # e => table'[d] = table[d]
      BY <1>2, <1>4, <3>1
    <3>3. StoreOf(table') = [StoreOf(table) EXCEPT ![k] = IF table'[e].key = k THEN table'[e].id ELSE 0]
      <4>1. table[e].key \in {0, k} /\ table'[e].key \in {0, k}
        BY <1>3, <2>3, <3>2 DEF Empty
      <4> QED BY <1>2, <1>4, <1>9, <3>2, <4>1, StoreWritten
    <3>4. StoreOf(table') = [s EXCEPT ![k] = i]
      BY <3>2, <3>3 DEF s
    <3> QED BY <1>1, <1>2, <1>6, <1>7, <2>1, <3>1, <3>4, Effect DEF s, k
  <2> QED BY <2>2, <2>3
<1> QED
  BY <1>10, <1>11, <1>12

\* Every step is one of the store or leaves it alone.
LEMMA StoreStep ==
  ASSUME IInv, IInv', [Next]_vars
  PROVE  Abs!Next \/ UNCHANGED <<input, StoreOf(table), result>>
<1>1. CASE UNCHANGED vars
  BY <1>1 DEF vars, StoreOf
<1>2. ASSUME NEW t \in Threads, lookup(t) \/ insert_update(t) \/ purge_key(t)
      PROVE  Abs!Next \/ UNCHANGED <<input, StoreOf(table), result>>
  BY <1>2, Effects
<1>3. ASSUME NEW t \in Threads,
             \/ read_op(t) \/ recheck(t) \/ spurious_wakeup(t) \/ start(t) \/ probe_next(t)
             \/ atomic_add(t) \/ done_one(t)
      PROVE  UNCHANGED <<input, StoreOf(table), result>>
  <2>1. UNCHANGED <<input, table, result>>
    BY <1>3 DEF read_op, recheck, spurious_wakeup, start, probe_next, atomic_add, done_one
  <2> QED BY <2>1 DEF StoreOf
<1> QED BY <1>1, <1>2, <1>3 DEF Next, Step, Ended

\* The parallel program implements the store on which operations on the same
\* key take effect in the order of the input: each takes effect when its
\* thread finds the entry.
THEOREM TakesEffectInOrder ==
  ASSUME NThreads <= Scanned
  PROVE  Spec => SerialOrder
<1>1. Init => Abs!Init
  <2> SUFFICES ASSUME Init PROVE Abs!Init
    OBVIOUS
  <2>1. IInv /\ table = [e \in Entries |-> Empty] /\ input \in Inputs
        /\ result = [i \in DOMAIN input |-> Pending]
    BY InitIInv DEF Init
  <2>2. \A k \in Keys : StoreOf(table)[k] = 0
    <3>1. TableOK(table) /\ table \in [Entries -> Entry(Len(input))] /\ Len(input) \in Nat
      BY <2>1, Ops DEF IInv, Typed, Entry
    <3>2. \A k \in Keys : \A d \in Entries : table[d].key # k
      BY <2>1, HashAssumption DEF Empty
    <3> QED BY <3>1, <3>2, Stored
  <2>3. StoreOf(table) = [k \in Keys |-> 0]
    <3>1. StoreOf(table) = [k \in Keys |-> StoreOf(table)[k]]
      BY DEF StoreOf
    <3> QED BY <2>2, <3>1
  <2> QED BY <2>1, <2>3 DEF Abs!Init, Abs!Pending, Pending, StoreOf
<1>2. IInv /\ IInv' /\ [Next]_vars => [Abs!Next]_<<input, StoreOf(table), result>>
  BY StoreStep
<1>3. IInv /\ IInv' /\ [Next]_vars => [Abs!Next]_<<input, [k \in Keys |-> Max({0} \cup {table[e].id : e \in {d \in Entries : table[d].key = k}})], result>>
  BY <1>2 DEF StoreOf
<1> QED
  BY <1>1, <1>3, Inductive, PTL DEF Spec, SerialOrder, Abs!Spec
-----------------------------------------------------------------------------
(***************************************************************************)
(* The serial program.  Its run is a function f: f[i] is what it has        *)
(* printed and the table after i operations.                                *)
(***************************************************************************)

\* A non-empty set of naturals has the minimum that Min chooses.
LEMMA MinOf ==
  ASSUME NEW S \in SUBSET Nat, S # {}
  PROVE  Serial!Min(S) \in S /\ \A y \in S : Serial!Min(S) <= y
<1>1. PICK x \in S : \A y \in S : ~(<<y, x>> \in OpToRel(<, Nat))
  BY NatLessThanWellFounded, WFMin
<1>2. \A y \in S : ~(y < x)
  BY <1>1, Zenon DEF OpToRel
<1>3. \A y \in S : x <= y
  BY <1>2
<1> QED
  BY <1>3 DEF Serial!Min

\* Induction up to n, with a set for the property.
LEMMA Induct ==
  ASSUME NEW S, NEW n \in Nat, 0 \in S, \A i \in 1 .. n : i - 1 \in S => i \in S
  PROVE  \A i \in 0 .. n : i \in S
<1> DEFINE Bad == {i \in 0 .. n : i \notin S}
<1>1. SUFFICES ASSUME Bad # {} PROVE FALSE
  OBVIOUS
<1>2. PICK b \in Bad : \A y \in Bad : b <= y
  <2>1. Bad \in SUBSET Nat
    OBVIOUS
  <2> HIDE DEF Bad
  <2>2. Serial!Min(Bad) \in Bad /\ \A y \in Bad : Serial!Min(Bad) <= y
    BY <1>1, <2>1, MinOf
  <2> QED BY <2>2
<1>3. b \in 1 .. n
  BY <1>2
<1>4. b - 1 \in S
  BY <1>2, <1>3
<1> QED
  BY <1>2, <1>3, <1>4

\* The entries of a table that hold a key.
FullOf(tab) == {e \in Entries : tab[e].key # 0}

\* A table of the serial program, in the terms of the parallel one.
TableIs(h, L) == /\ h \in [table : [Entries -> Entry(L)], used : Int, failed : BOOLEAN]
               /\ TableOK(h.table)
               /\ h.used = Cardinality(FullOf(h.table))

\* The probe of the serial program stops at the key, at an empty entry, or
\* after a round over a table that has neither; what it has passed is in use.
Stops(tab, key, e) ==
  /\ e \in Entries
  /\ tab[e].key = key \/ tab[e] = Empty \/ (e = hashfunc(key) /\ \A d \in Entries : tab[d] # Empty)
  /\ tab[e].key # key => \A d \in Entries : tab[d].key # key
  /\ \A d \in PathTo(key, e) : tab[d] # Empty

\* Where the loop of the serial program stops.
LEMMA SerialStops ==
  ASSUME NEW L \in Nat, NEW h, h.table \in [Entries -> Entry(L)], TableOK(h.table), NEW key \in Keys
  PROVE  Stops(h.table, key, Serial!Stop(h, key))
<1> DEFINE tab == h.table
           s == hashfunc(key)
           at(i) == (s + i) % table_size
           stops(i) == \/ tab[at(i)].key = 0 /\ tab[at(i)].id # Deleted
                       \/ tab[at(i)].key = key
                       \/ i = table_size
           S == {i \in 0 .. table_size : stops(i)}
           m == Serial!Min(S)
           e == at(m)
<1>1. key \in Nat /\ key # 0 /\ s \in Entries /\ table_size \in Nat \ {0}
  BY HashAssumption, Hashes
<1>2. Serial!Stop(h, key) = e
  BY DEF Serial!Stop, Serial!hashfunc, hashfunc, Serial!Deleted, Deleted
<1>3. m \in 0 .. table_size /\ stops(m) /\ \A i \in 0 .. table_size : i < m => ~stops(i)
  <2>1. table_size \in S /\ S \in SUBSET Nat
    BY <1>1
  <2>2. m \in S /\ \A y \in S : m <= y
    BY <2>1, MinOf
  <2> HIDE DEF m, stops
  <2>3. m \in 0 .. table_size /\ stops(m)
    BY <2>2
  <2>4. ASSUME NEW i \in 0 .. table_size, i < m PROVE ~stops(i)
    BY <1>1, <2>2, <2>3, <2>4
  <2> QED BY <2>3, <2>4
<1> HIDE DEF m, s, S, tab
<1>4. \A i \in 0 .. table_size : at(i) = IF s + i < table_size THEN s + i ELSE s + i - table_size
  BY <1>1 DEF Entries
<1>5. /\ \A i \in 0 .. table_size : at(i) \in Entries
      /\ at(table_size) = s
  BY <1>1, <1>4 DEF Entries
<1>6. \A d \in Entries : LET i == (d - s) % table_size IN i \in 0 .. table_size - 1 /\ at(i) = d
  <2> SUFFICES ASSUME NEW d \in Entries
               PROVE  (d - s) % table_size \in 0 .. table_size - 1 /\ at((d - s) % table_size) = d
    OBVIOUS
  <2> DEFINE i == (d - s) % table_size
  <2>1. i \in 0 .. table_size - 1 /\ i = IF d >= s THEN d - s ELSE (d - s) + table_size
    BY <1>1, Ring
  <2> HIDE DEF i
  <2>2. at(i) = d
    BY <1>1, <1>4, <2>1 DEF Entries
  <2> QED BY <2>1, <2>2 DEF i
<1>7. \A i \in 0 .. table_size - 1 : (at(i) - s) % table_size = i
  <2> SUFFICES ASSUME NEW i \in 0 .. table_size - 1 PROVE (at(i) - s) % table_size = i
    OBVIOUS
  <2>0. i \in 0 .. table_size
    BY <1>1
  <2> DEFINE a == at(i)
  <2>1. a \in Entries /\ a = IF s + i < table_size THEN s + i ELSE s + i - table_size
    BY <2>0, <1>4, <1>5
  <2> HIDE DEF a
  <2>2. (a - s) % table_size = IF a >= s THEN a - s ELSE (a - s) + table_size
    BY <1>1, <2>1, Ring
  <2>3. (a - s) % table_size = i
    BY <1>1, <2>1, <2>2 DEF Entries
  <2> QED BY <2>3 DEF a
<1> HIDE DEF at
<1>8. \A i \in 0 .. table_size : i < m => tab[at(i)] # Empty /\ tab[at(i)].key # key
  BY <1>3 DEF Empty, Deleted
<1>9. CASE m = table_size
  <2>1. e = s
    BY <1>5, <1>9
  <2>2. ASSUME NEW d \in Entries PROVE tab[d] # Empty /\ tab[d].key # key
    BY <1>1, <1>6, <1>8, <1>9
  <2>3. PathTo(key, e) \subseteq Entries /\ e \in Entries
    BY <1>1, <2>1 DEF PathTo
  <2> QED BY <1>2, <2>1, <2>2, <2>3 DEF Stops, tab, s
<1>10. CASE m # table_size
  <2>1. m \in 0 .. table_size - 1 /\ e \in Entries
    BY <1>1, <1>3, <1>5, <1>10
  <2>2. \A d \in PathTo(key, e) : tab[d] # Empty /\ tab[d].key # key
    <3> SUFFICES ASSUME NEW d \in PathTo(key, e) PROVE tab[d] # Empty /\ tab[d].key # key
      OBVIOUS
    <3>1. d \in Entries /\ (d - s) % table_size < (e - s) % table_size
      BY DEF PathTo, s
    <3>2. (e - s) % table_size = m
      BY <2>1, <1>7
    <3> DEFINE i == (d - s) % table_size
    <3>3. i \in 0 .. table_size - 1 /\ at(i) = d /\ i < m
      BY <1>6, <3>1, <3>2
    <3> HIDE DEF i
    <3> QED BY <1>1, <1>8, <3>3
  <2>3. (tab[e].key = 0 /\ tab[e].id # Deleted) \/ tab[e].key = key
    BY <1>3, <1>10
  <2>4. tab[e].key # key => tab[e] = Empty
    <3>1. tab[e] \in Entry(L) /\ (tab[e].key = 0 => tab[e].id \in {0, Deleted})
      BY <2>1 DEF TableOK, tab
    <3> QED BY <2>3, <3>1 DEF Empty, Entry
  <2>5. ASSUME tab[e] = Empty, NEW d \in Entries PROVE tab[d].key # key
    <3>1. tab[e].key # key
      BY <1>1, <2>5 DEF Empty
    <3>2. CASE e \in PathTo(key, d)
      BY <1>1, <2>5, <3>2 DEF TableOK, tab
    <3>3. CASE d \in PathTo(key, e)
      BY <2>2, <3>3
    <3> QED BY <1>1, <2>1, <3>1, <3>2, <3>3, Paths
  <2> QED BY <1>2, <2>1, <2>2, <2>4, <2>5 DEF Stops, tab
<1> QED BY <1>9, <1>10

\* What an operation does to the value v of its key, and what it returns.
Leaves(i, v)  == CASE TypeOf(i) = "PUT" -> i [] TypeOf(i) = "DEL" -> 0 [] OTHER -> v
Returns(i, v) == CASE TypeOf(i) = "PUT" -> 0
                   [] TypeOf(i) = "DEL" -> IF v = 0 THEN -1 ELSE 0
                   [] OTHER -> IF v = 0 THEN -1 ELSE v

\* The serial program executes operation i on table h without a failed
\* assertion: the table stays sound and only the key of i changes.
Executes(i, h, step) ==
  LET k == KeyOf(i)
      v == StoreOf(h.table)[k]
  IN  /\ TableIs(step.h, Len(input))
      /\ StoreOf(step.h.table) = [StoreOf(h.table) EXCEPT ![k] = Leaves(i, v)]
      /\ step.ret = Returns(i, v)

\* The serial program writes v for key k at e: an entry for k, or its deletion.
Writes(h, L, k, e, v, new) ==
  /\ TableIs(h, L) /\ Stops(h.table, k, e) /\ v \in Entry(L)
  /\ \/ v.key = k /\ v.id > 0 /\ h.table[e].key \in {0, k}
     \/ v.key = 0 /\ v.id = Deleted /\ h.table[e].key = k
  /\ new = [h.table EXCEPT ![e] = v]

\* The table after it.
AfterWrite(h, L, k, e, v, new) ==
  /\ new \in [Entries -> Entry(L)] /\ TableOK(new)
  /\ StoreOf(new) = [StoreOf(h.table) EXCEPT ![k] = IF v.key = k THEN v.id ELSE 0]
  /\ Cardinality(FullOf(new)) =
       h.used + (IF v.key = k THEN IF h.table[e].key = k THEN 0 ELSE 1 ELSE -1)

\* An entry that is written where the probe stopped keeps the table sound.
LEMMA SerialWrites ==
  ASSUME NEW L \in Nat, NEW h, NEW k \in Keys, NEW e, NEW v, NEW new,
         Writes(h, L, k, e, v, new)
  PROVE  AfterWrite(h, L, k, e, v, new)
<1>0. /\ TableIs(h, L) /\ Stops(h.table, k, e) /\ v \in Entry(L)
      /\ \/ v.key = k /\ v.id > 0 /\ h.table[e].key \in {0, k}
         \/ v.key = 0 /\ v.id = Deleted /\ h.table[e].key = k
      /\ new = [h.table EXCEPT ![e] = v]
  BY DEF Writes
<1> DEFINE tab == h.table
<1>1. e \in Entries /\ k # 0 /\ tab \in [Entries -> Entry(L)] /\ TableOK(tab)
  BY <1>0, HashAssumption DEF TableIs, Stops
<1>2. \A d \in Entries : d # e => tab[d].key # k
  BY <1>0, <1>1 DEF Stops, TableOK
<1>3. Fits(tab, e, v)
  BY <1>0, <1>1, <1>2 DEF Fits, Stops
<1>4. /\ new \in [Entries -> Entry(L)] /\ TableOK(new)
      /\ new[e] = v /\ \A d \in Entries : d # e => new[d] = tab[d]
  BY <1>0, <1>1, <1>3, Written DEF Put
<1>5. StoreOf(new) = [StoreOf(tab) EXCEPT ![k] = IF new[e].key = k THEN new[e].id ELSE 0]
  <2>1. tab[e].key \in {0, k} /\ new[e].key \in {0, k}
    BY <1>0, <1>4
  <2> HIDE DEF tab
  <2> QED BY <1>1, <1>2, <1>4, <2>1, StoreWritten
<1>6. h.used = Cardinality(FullOf(tab)) /\ IsFiniteSet(FullOf(tab)) /\ Cardinality(FullOf(tab)) \in Nat
  BY <1>0, Finite DEF TableIs, FullOf
<1>7. CASE v.key = k /\ tab[e].key = k
  <2>1. FullOf(new) = FullOf(tab)
    BY <1>0, <1>1, <1>4, <1>7 DEF FullOf
  <2>2. Cardinality(FullOf(new)) = h.used + 0
    BY <1>6, <2>1
  <2>3. StoreOf(new) = [StoreOf(tab) EXCEPT ![k] = IF v.key = k THEN v.id ELSE 0]
    BY <1>4, <1>5
  <2> QED BY <1>4, <1>7, <2>2, <2>3 DEF AfterWrite
<1>8. CASE v.key = k /\ tab[e].key # k
  <2>1. FullOf(new) = FullOf(tab) \cup {e} /\ e \notin FullOf(tab)
    BY <1>0, <1>1, <1>4, <1>8 DEF FullOf
  <2>2. Cardinality(FullOf(new)) = Cardinality(FullOf(tab)) + 1
    BY <1>6, <2>1, FS_AddElement
  <2> QED BY <1>4, <1>5, <1>6, <1>8, <2>2 DEF AfterWrite
<1>9. CASE v.key # k
  <2>1. FullOf(new) = FullOf(tab) \ {e} /\ e \in FullOf(tab)
    BY <1>0, <1>1, <1>4, <1>9 DEF FullOf
  <2>2. Cardinality(FullOf(new)) = Cardinality(FullOf(tab)) - 1
    BY <1>6, <2>1, FS_RemoveElement
  <2> QED BY <1>0, <1>1, <1>4, <1>5, <1>6, <1>9, <2>2 DEF AfterWrite
<1> QED BY <1>7, <1>8, <1>9

\* Every operation executes.
LEMMA SerialExecutes ==
  ASSUME input \in Inputs, NEW i \in 1 .. Len(input), NEW h, TableIs(h, Len(input)),
         NEW step, step = Serial!process(h, Serial!read_op(input, i)), ~step.h.failed
  PROVE  Executes(i, h, step)
<1> DEFINE k == KeyOf(i)
           L == Len(input)
           e == Serial!Stop(h, k)
           tab == h.table
           s == StoreOf(tab)
<1>1. k \in Keys /\ k # 0 /\ L \in Nat /\ TypeOf(i) \in {"PUT", "GET", "DEL"} /\ i \in Nat \ {0} /\ i <= L
  BY Ops
<1>2. tab \in [Entries -> Entry(L)] /\ TableOK(tab) /\ TableIs(h, L) /\ h.used \in Int
  BY DEF TableIs
<1>3. Stops(tab, k, e)
  BY <1>1, <1>2, SerialStops
<1>4. step = CASE TypeOf(i) = "GET" -> Serial!lookup(h, i, k)
               [] TypeOf(i) = "PUT" -> Serial!insert_update(h, i, k)
               [] TypeOf(i) = "DEL" -> Serial!purge_key(h, i, k)
  BY DEF Serial!process, Serial!read_op, TypeOf, KeyOf
<1>5. /\ tab[e].key = k => s[k] = tab[e].id /\ s[k] # 0
      /\ tab[e].key # k => s[k] = 0
  <2>1. CASE tab[e].key = k
    BY <1>1, <1>2, <1>3, <2>1, Stored DEF Stops
  <2>2. CASE tab[e].key # k
    BY <1>1, <1>2, <1>3, <2>2, Stored DEF Stops
  <2> QED BY <2>1, <2>2
<1>6. s = [s EXCEPT ![k] = s[k]]
  BY DEF StoreOf
<1> HIDE DEF e, s, k
<1>7. CASE TypeOf(i) = "GET"
  <2>1. step.h = h /\ step.ret = IF tab[e].key = k THEN tab[e].id ELSE -1
    BY <1>4, <1>7 DEF Serial!lookup, e
  <2>2. Leaves(i, s[k]) = s[k] /\ Returns(i, s[k]) = step.ret
    BY <1>5, <1>7, <2>1 DEF Leaves, Returns
  <2> QED BY <1>6, <2>1, <2>2 DEF Executes, s, k
<1>8. CASE TypeOf(i) = "DEL"
  <2> DEFINE v == [key |-> 0, id |-> Deleted]
  <2>1. CASE tab[e].key = k
    <3>1. step.ret = 0 /\ step.h = [h EXCEPT !.table = [@ EXCEPT ![e] = v], !.used = @ - 1]
      BY <1>4, <1>8, <2>1 DEF Serial!purge_key, Serial!Deleted, Deleted, e
    <3>2. /\ step.h \in [table : {[tab EXCEPT ![e] = v]}, used : {h.used - 1}, failed : BOOLEAN]
      BY <3>1 DEF TableIs
    <3>3. v \in Entry(L) /\ v.key = 0 /\ v.id = Deleted
      BY <1>1 DEF Entry, Deleted
    <3>4. step.h.table = [tab EXCEPT ![e] = v] /\ step.h.used = h.used - 1
      BY <3>2
    <3> HIDE DEF v, L
    <3> DEFINE new == step.h.table
    <3>5. /\ new \in [Entries -> Entry(L)] /\ TableOK(new)
          /\ StoreOf(new) = [StoreOf(tab) EXCEPT ![k] = 0]
          /\ Cardinality(FullOf(new)) = h.used - 1
      <4> HIDE DEF new
      <4>1. new = [tab EXCEPT ![e] = v]
        BY <3>4 DEF new
      <4>2. /\ new \in [Entries -> Entry(L)] /\ TableOK(new)
            /\ StoreOf(new) = [StoreOf(tab) EXCEPT ![k] = IF v.key = k THEN v.id ELSE 0]
            /\ Cardinality(FullOf(new)) =
                 h.used + (IF v.key = k THEN IF tab[e].key = k THEN 0 ELSE 1 ELSE -1)
        <5>1. Writes(h, L, k, e, v, new)
          BY <1>2, <1>3, <2>1, <3>3, <4>1 DEF Writes
        <5> QED BY <1>1, <5>1, SerialWrites DEF AfterWrite
      <4>3. v.key # k
        BY <1>1, <3>3
      <4> QED BY <1>2, <4>2, <4>3
    <3>6. Leaves(i, s[k]) = 0 /\ Returns(i, s[k]) = 0
      BY <1>5, <1>8, <2>1 DEF Leaves, Returns
    <3>7. TableIs(step.h, L)
      BY <3>2, <3>4, <3>5 DEF TableIs
    <3> QED BY <3>1, <3>5, <3>6, <3>7 DEF Executes, s, k, L
  <2>2. CASE tab[e].key # k
    <3>1. step = [ret |-> -1, h |-> h]
      BY <1>4, <1>8, <2>2 DEF Serial!purge_key, e
    <3>2. Leaves(i, s[k]) = s[k] /\ Returns(i, s[k]) = step.ret
      BY <1>5, <1>8, <2>2, <3>1 DEF Leaves, Returns
    <3> QED BY <1>6, <3>1, <3>2 DEF Executes, s, k
  <2> QED BY <2>1, <2>2
<1>9. CASE TypeOf(i) = "PUT"
  <2> DEFINE v == [key |-> k, id |-> i]
             fresh == tab[e].key # k
             failing == h.used >= table_size \/ e = Serial!hashfunc(k) - 1 \/ (fresh /\ tab[e].key # 0)
  <2>1. step = [ret |-> 0, h |-> [table |-> [tab EXCEPT ![e] = v],
                                  used |-> h.used + (IF fresh THEN 1 ELSE 0), failed |-> failing]]
    BY <1>4, <1>9 DEF Serial!insert_update, e
  <2> DEFINE new == step.h.table
  <2>2. /\ step.ret = 0 /\ new = [tab EXCEPT ![e] = v] /\ step.h.failed = failing
        /\ step.h.used = h.used + IF fresh THEN 1 ELSE 0
    BY <2>1
  <2>3. tab[e].key \in {0, k}
    BY <2>2
  <2>4. v \in Entry(L) /\ v.key = k /\ v.id = i /\ v.id > 0
    BY <1>1 DEF Entry
  <2>5. /\ new \in [Entries -> Entry(L)] /\ TableOK(new)
        /\ StoreOf(new) = [StoreOf(tab) EXCEPT ![k] = i]
        /\ Cardinality(FullOf(new)) = h.used + IF tab[e].key = k THEN 0 ELSE 1
    <3> HIDE DEF v, L, new
    <3>0. new = [tab EXCEPT ![e] = v]
      BY <2>2 DEF new
    <3>1. /\ new \in [Entries -> Entry(L)] /\ TableOK(new)
          /\ StoreOf(new) = [StoreOf(tab) EXCEPT ![k] = IF v.key = k THEN v.id ELSE 0]
          /\ Cardinality(FullOf(new)) =
               h.used + (IF v.key = k THEN IF tab[e].key = k THEN 0 ELSE 1 ELSE -1)
      <4>1. Writes(h, L, k, e, v, new)
        BY <1>2, <1>3, <2>3, <2>4, <3>0 DEF Writes
      <4> QED BY <1>1, <4>1, SerialWrites DEF AfterWrite
    <3> QED BY <1>2, <2>4, <3>1
  <2>6. Leaves(i, s[k]) = i /\ Returns(i, s[k]) = 0
    BY <1>9 DEF Leaves, Returns
  <2>7. step.h \in [table : [Entries -> Entry(L)], used : Int, failed : BOOLEAN]
    <3>1. h.used + (IF fresh THEN 1 ELSE 0) \in Int /\ failing \in BOOLEAN /\ [tab EXCEPT ![e] = v] \in [Entries -> Entry(L)]
      BY <2>2, <2>5 DEF TableIs
    <3> HIDE DEF failing, fresh, v
    <3> QED BY <2>1, <3>1
  <2>8. TableIs(step.h, L)
    BY <2>2, <2>5, <2>7 DEF TableIs
  <2> QED BY <2>2, <2>5, <2>6, <2>8 DEF Executes, s, k, L
<1> QED BY <1>1, <1>7, <1>8, <1>9

\* The serial program after operation i, from what it was before.
SerialStep(i, x) ==
  IF x.h.failed THEN x
  ELSE LET step == Serial!process(x.h, Serial!read_op(input, i))
       IN  [result |-> Append(x.result, step.ret), h |-> step.h]

SerialStart == [result |-> <<>>, h |-> Serial!init_hashtable]

\* f is the run of the serial program over the first n operations.
SerialRun(f, n) == /\ f = [i \in 0 .. n |-> f[i]] /\ f[0] = SerialStart
                   /\ \A i \in 1 .. n : f[i] = SerialStep(i, f[i - 1])

\* The serial program runs, and Serial!Run is where its run ends.
LEMMA SerialRuns ==
  ASSUME input \in Inputs
  PROVE  \E f : SerialRun(f, Len(input)) /\ Serial!Run(input) = f[Len(input)]
<1> DEFINE n == Len(input)
           E == {m \in 0 .. n : \E f : SerialRun(f, m)}
           body(f) == [i \in 0 .. n |-> IF i = 0 THEN SerialStart ELSE SerialStep(i, f[i - 1])]
<1>1. n \in Nat
  BY Ops
<1>c. Serial!Run(input) = (CHOOSE f : f = body(f))[n]
  BY DEF Serial!Run, SerialStep, SerialStart
<1> HIDE DEF n
<1>2. 0 \in E
  <2> DEFINE f == [i \in 0 .. 0 |-> SerialStart]
  <2>1. SerialRun(f, 0)
    BY DEF SerialRun
  <2> HIDE DEF f
  <2> QED BY <1>1, <2>1
<1>3. ASSUME NEW m \in 1 .. n, m - 1 \in E PROVE m \in E
  <2>1. PICK f : SerialRun(f, m - 1)
    BY <1>3
  <2> DEFINE g == [i \in 0 .. m |-> IF i = m THEN SerialStep(m, f[m - 1]) ELSE f[i]]
  <2>2. g[0] = SerialStart /\ g = [i \in 0 .. m |-> g[i]]
    BY <2>1 DEF SerialRun
  <2>3. ASSUME NEW i \in 1 .. m PROVE g[i] = SerialStep(i, g[i - 1])
    <3>1. g[i - 1] = f[i - 1] /\ i - 1 \in 0 .. m
      BY <2>3
    <3>2. CASE i = m
      BY <3>1, <3>2
    <3>3. CASE i # m
      <4>1. i \in 1 .. m - 1 /\ i \in 0 .. m /\ g[i] = f[i]
        BY <1>1, <3>3
      <4>2. f[i] = SerialStep(i, f[i - 1])
        BY <2>1, <4>1 DEF SerialRun
      <4> QED BY <3>1, <4>1, <4>2
    <3> QED BY <3>2, <3>3
  <2> HIDE DEF g
  <2>4. SerialRun(g, m)
    BY <2>2, <2>3 DEF SerialRun
  <2> QED BY <1>1, <2>4
<1> HIDE DEF E
<1>4. n \in E
  <2>1. \A i \in 0 .. n : i \in E
    BY <1>1, <1>2, <1>3, Induct
  <2> QED BY <1>1, <2>1
<1>5. PICK f : SerialRun(f, n)
  BY <1>4 DEF E
<1>6. f = body(f)
  <2>1. ASSUME NEW i \in 0 .. n PROVE f[i] = IF i = 0 THEN SerialStart ELSE SerialStep(i, f[i - 1])
    <3>1. i # 0 => i \in 1 .. n
      BY <1>1
    <3> QED BY <1>5, <3>1 DEF SerialRun
  <2>2. f = [i \in 0 .. n |-> f[i]]
    BY <1>5 DEF SerialRun
  <2> QED BY <2>1, <2>2
<1>7. ASSUME NEW h, h = body(h) PROVE h[n] = f[n]
  <2> DEFINE S == {i \in 0 .. n : h[i] = f[i]}
  <2>1. 0 \in S
    BY <1>1, <1>5, <1>7 DEF SerialRun
  <2>2. ASSUME NEW i \in 1 .. n, i - 1 \in S PROVE i \in S
    <3>1. i \in 0 .. n /\ i # 0
      BY <1>1
    <3>2. h[i] = SerialStep(i, h[i - 1])
      BY <1>7, <3>1
    <3>3. h[i - 1] = f[i - 1]
      BY <2>2
    <3> QED BY <1>5, <3>1, <3>2, <3>3 DEF SerialRun
  <2> HIDE DEF S
  <2>3. \A i \in 0 .. n : i \in S
    BY <1>1, <2>1, <2>2, Induct
  <2> QED BY <1>1, <2>3 DEF S
<1> HIDE DEF body
<1>8. Serial!Run(input) = f[n]
  BY <1>c, <1>6, <1>7
<1> QED BY <1>5, <1>8 DEF n

\* What the run f of the serial program says of the input, when no assertion
\* fails in it: how each operation changes its key, what it returns, and the
\* table at the end.
SerialFacts(f) ==
  LET n == Len(input)
      s(i) == StoreOf(f[i].h.table)
  IN  /\ \A k \in Keys : s(0)[k] = 0
      /\ \A i \in 1 .. n : s(i) = [s(i - 1) EXCEPT ![KeyOf(i)] = Leaves(i, s(i - 1)[KeyOf(i)])]
      /\ f[n].result \in Seq(Int) /\ Len(f[n].result) = n
      /\ \A i \in 1 .. n : f[n].result[i] = Returns(i, s(i - 1)[KeyOf(i)])
      /\ TableIs(f[n].h, n)

\* They follow step by step.
LEMMA SerialRight ==
  ASSUME input \in Inputs, NEW f, SerialRun(f, Len(input)), ~f[Len(input)].h.failed
  PROVE  SerialFacts(f)
<1> DEFINE n == Len(input)
           s(i) == StoreOf(f[i].h.table)
           r(i) == Returns(i, s(i - 1)[KeyOf(i)])
<1>1. n \in Nat
  BY Ops
<1>2. /\ f[0] = SerialStart
      /\ \A i \in 1 .. n : f[i] = SerialStep(i, f[i - 1])
  BY DEF SerialRun
<1>3. ASSUME NEW i \in 0 .. n PROVE ~f[i].h.failed
  <2> DEFINE S == {j \in 0 .. n : ~f[n - j].h.failed}
  <2>1. 0 \in S
    BY <1>1
  <2>2. ASSUME NEW j \in 1 .. n, j - 1 \in S PROVE j \in S
    <3>1. n - (j - 1) \in 1 .. n /\ (n - (j - 1)) - 1 = n - j /\ j \in 0 .. n
      BY <1>1
    <3>2. f[n - (j - 1)] = SerialStep(n - (j - 1), f[n - j])
      BY <1>2, <3>1
    <3>3. ~f[n - (j - 1)].h.failed
      BY <2>2
    <3>4. ~f[n - j].h.failed
      BY <3>2, <3>3 DEF SerialStep
    <3> QED BY <3>1, <3>4
  <2> HIDE DEF S
  <2>3. \A j \in 0 .. n : j \in S
    BY <1>1, <2>1, <2>2, Induct
  <2>4. n - i \in S /\ n - (n - i) = i
    BY <1>1, <2>3
  <2> QED BY <2>4 DEF S
<1> DEFINE T == {i \in 0 .. n : TableIs(f[i].h, n)}
<1>4. ASSUME NEW i \in 1 .. n, i - 1 \in T
      PROVE  /\ i \in T /\ s(i) = [s(i - 1) EXCEPT ![KeyOf(i)] = Leaves(i, s(i - 1)[KeyOf(i)])]
             /\ f[i].result = Append(f[i - 1].result, r(i))
  <2> DEFINE step == Serial!process(f[i - 1].h, Serial!read_op(input, i))
  <2>1. i - 1 \in 0 .. n /\ i \in 0 .. n
    BY <1>1
  <2>2. ~f[i - 1].h.failed /\ ~f[i].h.failed /\ TableIs(f[i - 1].h, n)
    BY <1>3, <1>4, <2>1
  <2>3. f[i].h = step.h /\ f[i].result = Append(f[i - 1].result, step.ret)
    <3>1. f[i] = [result |-> Append(f[i - 1].result, step.ret), h |-> step.h]
      BY <1>2, <2>2 DEF SerialStep
    <3> HIDE DEF step
    <3> QED BY <3>1
  <2> HIDE DEF step
  <2>4. ~step.h.failed
    BY <2>2, <2>3
  <2>5. Executes(i, f[i - 1].h, step)
    BY <2>2, <2>4, SerialExecutes DEF step
  <2> QED BY <2>1, <2>3, <2>5 DEF Executes
<1>5. 0 \in T /\ f[0].result = <<>> /\ \A k \in Keys : s(0)[k] = 0
  <2> DEFINE none == [e \in Entries |-> Empty]
  <2>1. f[0].result = <<>> /\ f[0].h = [table |-> none, used |-> 0, failed |-> FALSE]
    BY <1>2 DEF SerialStart, Serial!init_hashtable, Serial!Entries, Entries, Serial!Empty, Empty
  <2>2. none \in [Entries -> Entry(n)] /\ TableOK(none)
    BY <1>1 DEF Entry, TableOK, Empty
  <2>3. FullOf(none) = {} /\ Cardinality({}) = 0
    BY FS_EmptySet DEF FullOf, Empty
  <2>4. TableIs(f[0].h, n)
    <3> HIDE DEF none
    <3>1. f[0].h \in [table : [Entries -> Entry(n)], used : Int, failed : BOOLEAN]
      BY <2>1, <2>2
    <3>2. f[0].h.table = none /\ f[0].h.used = 0
      BY <2>1
    <3> QED BY <2>2, <2>3, <3>1, <3>2 DEF TableIs
  <2>5. ASSUME NEW k \in Keys PROVE StoreOf(none)[k] = 0
    <3>1. \A e \in Entries : none[e].key # k
      BY HashAssumption DEF Empty
    <3> QED BY <1>1, <2>2, <3>1, Stored
  <2> QED BY <1>1, <2>1, <2>4, <2>5
<1> HIDE DEF T, s, r
<1>6. \A i \in 0 .. n : i \in T
  BY <1>1, <1>4, <1>5, Induct
<1>7. \A i \in 1 .. n : /\ s(i) = [s(i - 1) EXCEPT ![KeyOf(i)] = Leaves(i, s(i - 1)[KeyOf(i)])]
                        /\ f[i].result = Append(f[i - 1].result, r(i))
  <2> SUFFICES ASSUME NEW i \in 1 .. n
               PROVE  /\ s(i) = [s(i - 1) EXCEPT ![KeyOf(i)] = Leaves(i, s(i - 1)[KeyOf(i)])]
                      /\ f[i].result = Append(f[i - 1].result, r(i))
    OBVIOUS
  <2>1. i - 1 \in T
    BY <1>1, <1>6
  <2> QED BY <1>4, <2>1
<1>8. \A i \in 1 .. n : r(i) \in Int
  <2> SUFFICES ASSUME NEW i \in 1 .. n PROVE r(i) \in Int
    OBVIOUS
  <2> DEFINE tab == f[i - 1].h.table
  <2>1. tab \in [Entries -> Entry(n)] /\ TableOK(tab)
    <3>1. i - 1 \in T
      BY <1>1, <1>6
    <3> QED BY <3>1 DEF T, TableIs
  <2>2. KeyOf(i) \in Keys
    BY Ops
  <2> HIDE DEF tab, n
  <2>3. StoreOf(tab)[KeyOf(i)] \in Int
    <3>1. CASE \A d \in Entries : tab[d].key # KeyOf(i)
      BY <1>1, <2>1, <2>2, <3>1, Stored
    <3>2. CASE \E d \in Entries : tab[d].key = KeyOf(i)
      BY <1>1, <2>1, <2>2, <3>2, Stored
    <3> QED BY <3>1, <3>2
  <2> QED BY <2>3 DEF r, s, tab, Returns
<1> DEFINE Upto(m) == /\ f[m].result \in Seq(Int) /\ Len(f[m].result) = m
                      /\ \A i \in 1 .. m : f[m].result[i] = r(i)
           R == {m \in 0 .. n : Upto(m)}
<1>9. 0 \in R
  <2>1. f[0].result \in Seq(Int) /\ Len(f[0].result) = 0
    BY <1>5
  <2>2. Upto(0)
    BY <2>1
  <2> HIDE DEF Upto
  <2> QED BY <1>1, <2>2
<1>10. ASSUME NEW m \in 1 .. n, m - 1 \in R PROVE m \in R
  <2> DEFINE old == f[m - 1].result
             new == f[m].result
  <2>1. old \in Seq(Int) /\ Len(old) = m - 1 /\ \A i \in 1 .. m - 1 : old[i] = r(i)
    BY <1>10
  <2>2. new = Append(old, r(m)) /\ r(m) \in Int /\ m \in 0 .. n
    BY <1>1, <1>7, <1>8
  <2> HIDE DEF old, new
  <2>3. new \in Seq(Int) /\ Len(new) = m /\ new[m] = r(m) /\ \A i \in 1 .. m - 1 : new[i] = old[i]
    BY <1>1, <2>1, <2>2, AppendProperties
  <2>4. ASSUME NEW i \in 1 .. m PROVE new[i] = r(i)
    <3>1. i = m \/ i \in 1 .. m - 1
      BY <1>1
    <3> QED BY <2>1, <2>3, <3>1
  <2>5. Upto(m)
    BY <2>3, <2>4 DEF new
  <2> HIDE DEF Upto
  <2> QED BY <2>2, <2>5
<1> HIDE DEF R
<1>11. \A m \in 0 .. n : m \in R
  BY <1>1, <1>9, <1>10, Induct
<1>12. n \in T /\ Upto(n)
  BY <1>1, <1>6, <1>11 DEF R
<1> QED BY <1>5, <1>7, <1>12 DEF SerialFacts, T, s, r, n

-----------------------------------------------------------------------------
(***************************************************************************)
(* The parallel program against the run of the serial one                   *)
(***************************************************************************)

\* The operations on key k that have a result are those up to n.
DoneUpto(k, n) == \A j \in DOMAIN input : KeyOf(j) = k => (result[j] # Pending <=> j <= n)

\* The results so far are those of the serial program, an operation has a
\* result after the earlier ones on its key, and a key holds what it holds in
\* the serial program after the same operations on it.
Agrees(f) ==
  /\ \A i \in DOMAIN input : result[i] # Pending => result[i] = f[Len(input)].result[i]
  /\ \A i, j \in DOMAIN input :
       j < i /\ KeyOf(j) = KeyOf(i) /\ result[i] # Pending => result[j] # Pending
  /\ \A k \in Keys : \A n \in 0 .. Len(input) :
       DoneUpto(k, n) => StoreOf(table)[k] = StoreOf(f[n].h.table)[k]

Finishes(f) == SerialRun(f, Len(input)) /\ ~f[Len(input)].h.failed

SameInv == \A f : Finishes(f) => Agrees(f)

\* In the serial program a key keeps its value until the next operation on it.
LEMMA ValueStays ==
  ASSUME input \in Inputs, NEW f, SerialFacts(f), NEW k \in Keys,
         NEW n \in 0 .. Len(input), NEW i \in 0 .. n, \A j \in i + 1 .. n : KeyOf(j) # k
  PROVE  StoreOf(f[n].h.table)[k] = StoreOf(f[i].h.table)[k]
<1> DEFINE s(m) == StoreOf(f[m].h.table)
           S == {m \in 0 .. n : m < i \/ s(m)[k] = s(i)[k]}
<1>1. n \in Nat /\ i \in Nat /\ Len(input) \in Nat /\ n <= Len(input)
  BY Ops
<1>2. 0 \in S
  BY <1>1
<1>3. ASSUME NEW m \in 1 .. n, m - 1 \in S PROVE m \in S
  <2>1. m \in 0 .. n /\ m \in 1 .. Len(input)
    BY <1>1
  <2>2. CASE m < i
    BY <2>1, <2>2
  <2>3. CASE m = i
    BY <2>1, <2>3
  <2>4. CASE m > i
    <3>1. m \in i + 1 .. n /\ ~(m - 1 < i)
      BY <1>1, <2>4
    <3>2. s(m - 1)[k] = s(i)[k] /\ KeyOf(m) # k
      BY <1>3, <3>1
    <3>3. s(m) = [s(m - 1) EXCEPT ![KeyOf(m)] = Leaves(m, s(m - 1)[KeyOf(m)])]
      BY <2>1 DEF SerialFacts
    <3>4. s(m)[k] = s(m - 1)[k]
      BY <3>2, <3>3 DEF StoreOf
    <3> QED BY <2>1, <3>2, <3>4
  <2> QED BY <1>1, <2>2, <2>3, <2>4
<1> HIDE DEF S
<1>4. \A m \in 0 .. n : m \in S
  BY <1>1, <1>2, <1>3, Induct
<1>5. n \in S /\ ~(n < i)
  BY <1>1, <1>4
<1> QED BY <1>5 DEF S

\* Operation i takes effect.
Takes(i) ==
  LET v == StoreOf(table)[KeyOf(i)]
  IN  /\ result[i] = Pending
      /\ \A j \in 1 .. i - 1 : KeyOf(j) = KeyOf(i) => result[j] # Pending
      /\ StoreOf(table') = [StoreOf(table) EXCEPT ![KeyOf(i)] = Leaves(i, v)]
      /\ result' = [result EXCEPT ![i] = Returns(i, v)]
      /\ input' = input

\* A step of the store is that of one operation.
LEMMA StepTakes ==
  ASSUME Abs!Next
  PROVE  \E i \in DOMAIN input : Takes(i)
<1>1. PICK i \in DOMAIN input : Abs!TakeEffect(i)
  BY DEF Abs!Next
<1>2. Takes(i)
  BY <1>1 DEF Abs!TakeEffect, Abs!Pending, Pending, Takes, Leaves, Returns, KeyOf, TypeOf, StoreOf
<1> QED BY <1>1, <1>2

\* What takes effect agrees with the serial program.
LEMMA TakesAgrees ==
  ASSUME IInv, NEW f, SerialFacts(f), Agrees(f), NEW i \in DOMAIN input, Takes(i)
  PROVE  Agrees(f)'
<1> DEFINE N == Len(input)
           k == KeyOf(i)
           s(m) == StoreOf(f[m].h.table)
           old == StoreOf(table)
           new == StoreOf(table')
<1>1. /\ N \in Nat /\ DOMAIN input = 1 .. N /\ k \in Keys /\ i \in Nat /\ i - 1 \in 0 .. N /\ i \in 0 .. N
      /\ input' = input
  <2>1. input \in Inputs
    BY DEF IInv, Typed
  <2>2. N \in Nat /\ DOMAIN input = 1 .. N /\ \A j \in 1 .. N : KeyOf(j) \in Keys
    BY <2>1, Ops
  <2> HIDE DEF N
  <2>3. i \in 1 .. N /\ k \in Keys
    BY <2>2
  <2> QED BY <2>2, <2>3 DEF Takes
<1>v. old[k] \in Nat /\ input \in Inputs /\ result \in [DOMAIN input -> -2 .. Len(input)]
  <2>1. TableOK(table) /\ table \in [Entries -> Entry(N)] /\ input \in Inputs
        /\ result \in [DOMAIN input -> -2 .. Len(input)]
    BY DEF IInv, Typed, Entry
  <2>2. CASE \E d \in Entries : table[d].key = k
    BY <1>1, <2>1, <2>2, Stored
  <2>3. CASE \A d \in Entries : table[d].key # k
    BY <1>1, <2>1, <2>3, Stored
  <2> QED BY <2>1, <2>2, <2>3
<1>2. /\ result[i] = Pending /\ \A j \in 1 .. i - 1 : KeyOf(j) = k => result[j] # Pending
      /\ new = [old EXCEPT ![k] = Leaves(i, old[k])]
      /\ result' = [result EXCEPT ![i] = Returns(i, old[k])]
  BY DEF Takes
<1>3. \A j \in DOMAIN input : j > i /\ KeyOf(j) = k => result[j] = Pending
  BY <1>2 DEF Agrees
<1>4. DoneUpto(k, i - 1)
  <2> SUFFICES ASSUME NEW j \in DOMAIN input, KeyOf(j) = k PROVE result[j] # Pending <=> j <= i - 1
    BY DEF DoneUpto
  <2>1. j \in Nat
    BY <1>1
  <2>2. CASE j < i
    BY <1>1, <1>2, <2>1, <2>2
  <2>3. CASE j = i
    BY <1>1, <1>2, <2>3
  <2>4. CASE j > i
    BY <1>1, <1>3, <2>1, <2>4
  <2> QED BY <1>1, <2>1, <2>2, <2>3, <2>4
<1>5. old[k] = s(i - 1)[k]
  BY <1>1, <1>4 DEF Agrees
<1>6. /\ s(i) = [s(i - 1) EXCEPT ![k] = Leaves(i, s(i - 1)[k])]
      /\ f[N].result[i] = Returns(i, s(i - 1)[k])
  BY <1>1 DEF SerialFacts
<1>7. new[k] = s(i)[k] /\ \A q \in Keys : q # k => new[q] = old[q]
  <2>1. old = [q \in Keys |-> old[q]] /\ s(i - 1) = [q \in Keys |-> s(i - 1)[q]]
    BY DEF StoreOf
  <2> HIDE DEF old, new, s, k
  <2> QED BY <1>1, <1>2, <1>5, <1>6, <2>1
<1>8. /\ result'[i] = f[N].result[i] /\ result'[i] # Pending
      /\ \A j \in DOMAIN input : j # i => result'[j] = result[j]
  <2>1. result'[i] = f[N].result[i] /\ \A j \in DOMAIN input : j # i => result'[j] = result[j]
    BY <1>2, <1>5, <1>6, <1>v
  <2>2. Returns(i, old[k]) # Pending
    BY <1>v DEF Returns, Pending
  <2>3. result'[i] = Returns(i, old[k])
    BY <1>2, <1>v
  <2> QED BY <2>1, <2>2, <2>3
<1> HIDE DEF N, k, s, old, new
<1>9. \A j \in DOMAIN input : result'[j] # Pending <=> result[j] # Pending \/ j = i
  BY <1>8
<1>10. \A a, b \in DOMAIN input : b < a /\ KeyOf(b) = KeyOf(a) /\ result'[a] # Pending => result'[b] # Pending
  <2> SUFFICES ASSUME NEW a \in DOMAIN input, NEW b \in DOMAIN input, b < a, KeyOf(b) = KeyOf(a),
                      result'[a] # Pending
               PROVE  result'[b] # Pending
    OBVIOUS
  <2>1. CASE a = i
    <3>1. b \in 1 .. i - 1
      BY <1>1, <2>1
    <3> QED BY <1>2, <1>9, <2>1, <3>1 DEF k
  <2>2. CASE a # i
    BY <1>9, <2>2 DEF Agrees
  <2> QED BY <2>1, <2>2
<1>11. ASSUME NEW q \in Keys, NEW n \in 0 .. N, DoneUpto(q, n)' PROVE new[q] = s(n)[q]
  <2>0. \A j \in DOMAIN input : KeyOf(j) = q => (result'[j] # Pending <=> j <= n)
    BY <1>1, <1>11 DEF DoneUpto, KeyOf
  <2>1. CASE q = k
    <3>1. i <= n
      BY <1>8, <2>0, <2>1 DEF k
    <3>2. ASSUME NEW j \in i + 1 .. n PROVE KeyOf(j) # k
      <4>1. j \in DOMAIN input /\ j > i /\ j <= n /\ j # i
        BY <1>1
      <4>2. CASE KeyOf(j) = k
        BY <1>3, <1>9, <2>0, <2>1, <4>1, <4>2
      <4> QED BY <4>2
    <3>3. i \in 0 .. n
      BY <1>1, <3>1
    <3>4. s(n)[k] = s(i)[k]
      BY <1>1, <1>v, <3>2, <3>3, ValueStays DEF s, N
    <3> QED BY <1>7, <2>1, <3>4
  <2>2. CASE q # k
    <3>1. \A j \in DOMAIN input : KeyOf(j) = q => (result[j] # Pending <=> j <= n)
      BY <1>8, <2>0, <2>2 DEF k
    <3>2. old[q] = s(n)[q]
      BY <3>1 DEF Agrees, DoneUpto, old, s, N
    <3> QED BY <1>7, <2>2, <3>2
  <2> QED BY <2>1, <2>2
<1>12. \A j \in DOMAIN input : result'[j] # Pending => result'[j] = f[N].result[j]
  BY <1>8 DEF Agrees, N
<1> QED BY <1>1, <1>10, <1>11, <1>12 DEF Agrees, N, new, s, KeyOf

\* A thread exits only when all operations have been taken.
Exited == \A t \in Threads : pc[t] = "exit" => curr > Len(input)

LEMMA ExitedStep ==
  ASSUME IInv, Exited, [Next]_vars
  PROVE  Exited'
<1>0. Len(input) \in Nat /\ curr \in Nat
  BY Ops DEF IInv, Typed
<1>1. CASE UNCHANGED vars
  BY <1>1 DEF vars, Exited
<1>2. ASSUME NEW t \in Threads, read_op(t) PROVE Exited'
  <2>1. CASE curr > Len(input)
    BY <1>0, <1>2, <2>1 DEF read_op, Exited
  <2>2. CASE ~(curr > Len(input))
    <3>1. \A u \in Threads : pc'[u] # "exit"
      BY <1>2, <2>2 DEF read_op, Exited, Goto, IInv, Typed
    <3> QED BY <3>1 DEF Exited
  <2> QED BY <2>1, <2>2
<1>3. ASSUME NEW t \in Threads,
             \/ recheck(t) \/ spurious_wakeup(t) \/ start(t) \/ probe_next(t)
             \/ lookup(t) \/ insert_update(t) \/ purge_key(t) \/ atomic_add(t) \/ done_one(t)
      PROVE  Exited'
  <2>1. curr' = curr /\ input' = input
    BY <1>3 DEF recheck, spurious_wakeup, start, probe_next, lookup, insert_update, purge_key, atomic_add, done_one
  <2>2. \A u \in Threads : pc'[u] = "exit" => pc[u] = "exit"
    BY <1>3 DEF recheck, spurious_wakeup, start, probe_next, lookup, insert_update, purge_key, atomic_add,
                done_one, Goto, IInv, Typed
  <2> QED BY <2>1, <2>2 DEF Exited
<1> QED BY <1>1, <1>2, <1>3 DEF Next, Step, Ended

\* No step leaves the serial program.
LEMMA AgreesStep ==
  ASSUME IInv, IInv', SameInv, [Next]_vars
  PROVE  SameInv'
<1>0. input' = input /\ input \in Inputs
  BY DEF Next, Step, Ended, vars, read_op, recheck, spurious_wakeup, start, probe_next, lookup,
         insert_update, purge_key, atomic_add, done_one, IInv, Typed
<1> SUFFICES ASSUME NEW f, Finishes(f)' PROVE Agrees(f)'
  BY DEF SameInv
<1>1. Finishes(f)
  BY <1>0 DEF Finishes, SerialRun, SerialStep, Serial!read_op
<1>2. Agrees(f) /\ SerialFacts(f)
  BY <1>0, <1>1, SerialRight DEF SameInv, Finishes
<1>3. CASE Abs!Next
  BY <1>2, <1>3, StepTakes, TakesAgrees
<1>4. CASE UNCHANGED <<input, StoreOf(table), result>>
  BY <1>2, <1>4 DEF Agrees, DoneUpto, KeyOf
<1> QED BY <1>3, <1>4, StoreStep

\* At the start no operation has a result and no key is in the table.
LEMMA AgreesInit ==
  ASSUME Init
  PROVE  SameInv
<1> SUFFICES ASSUME NEW f, Finishes(f) PROVE Agrees(f)
  BY DEF SameInv
<1>1. /\ input \in Inputs /\ table = [e \in Entries |-> Empty] /\ IInv
      /\ \A i \in DOMAIN input : result[i] = Pending
  BY InitIInv DEF Init
<1>2. SerialFacts(f) /\ Len(input) \in Nat /\ DOMAIN input = 1 .. Len(input)
  BY <1>1, Ops, SerialRight DEF Finishes
<1>3. ASSUME NEW k \in Keys, NEW n \in 0 .. Len(input), DoneUpto(k, n)
      PROVE  StoreOf(table)[k] = StoreOf(f[n].h.table)[k]
  <2>1. StoreOf(table)[k] = 0
    <3>1. TableOK(table) /\ table \in [Entries -> Entry(Len(input))]
      BY <1>1 DEF IInv, Typed, Entry
    <3>2. \A d \in Entries : table[d].key # k
      BY <1>1, HashAssumption DEF Empty
    <3> QED BY <1>2, <3>1, <3>2, Stored
  <2>2. StoreOf(f[0].h.table)[k] = 0
    BY <1>2 DEF SerialFacts
  <2>3. \A j \in 0 + 1 .. n : KeyOf(j) # k
    BY <1>1, <1>2, <1>3 DEF DoneUpto
  <2>4. StoreOf(f[n].h.table)[k] = StoreOf(f[0].h.table)[k]
    <3>1. 0 \in 0 .. n
      BY <1>2
    <3> QED BY <1>1, <1>2, <2>3, <3>1, ValueStays
  <2> QED BY <2>1, <2>2, <2>4
<1> QED BY <1>1, <1>3 DEF Agrees

\* What a table holds and how many keys, from the store it implements.
LEMMA ContentsOf ==
  ASSUME NEW L \in Nat, NEW tab \in [Entries -> Entry(L)], TableOK(tab)
  PROVE  /\ Serial!Contents(tab) =
              {[key |-> k, id |-> StoreOf(tab)[k]] : k \in {q \in Keys : StoreOf(tab)[q] # 0}}
         /\ Cardinality(FullOf(tab)) = Cardinality(Serial!Contents(tab))
<1> DEFINE C == Serial!Contents(tab)
           s == StoreOf(tab)
           K == {q \in Keys : s[q] # 0}
<1>1. C = {tab[e] : e \in FullOf(tab)}
  BY DEF Serial!Contents, FullOf, Serial!Entries, Entries
<1>2. \A e \in FullOf(tab) : /\ tab[e].key \in K /\ tab[e] = [key |-> tab[e].key, id |-> s[tab[e].key]]
  <2> SUFFICES ASSUME NEW e \in FullOf(tab)
               PROVE  tab[e].key \in K /\ tab[e] = [key |-> tab[e].key, id |-> s[tab[e].key]]
    OBVIOUS
  <2>1. e \in Entries /\ tab[e] \in Entry(L) /\ tab[e].key # 0
    BY DEF FullOf
  <2>2. tab[e].key \in Keys /\ tab[e] = [key |-> tab[e].key, id |-> tab[e].id]
    BY <2>1 DEF Entry
  <2>3. s[tab[e].key] = tab[e].id /\ tab[e].id \in Nat \ {0}
    BY <2>1, <2>2, Stored
  <2> HIDE DEF s
  <2> QED BY <2>2, <2>3
<1>3. \A k \in K : \E e \in FullOf(tab) : tab[e].key = k
  <2> SUFFICES ASSUME NEW k \in K PROVE \E e \in FullOf(tab) : tab[e].key = k
    OBVIOUS
  <2>1. k \in Keys /\ s[k] # 0 /\ k # 0
    BY HashAssumption
  <2>2. \E e \in Entries : tab[e].key = k
    BY <2>1, Stored
  <2> QED BY <2>1, <2>2 DEF FullOf
<1> HIDE DEF C, s, K
<1>4. C = {[key |-> k, id |-> s[k]] : k \in K}
  <2>1. ASSUME NEW e \in FullOf(tab) PROVE \E k \in K : tab[e] = [key |-> k, id |-> s[k]]
    BY <1>2
  <2>2. ASSUME NEW k \in K PROVE \E e \in FullOf(tab) : tab[e] = [key |-> k, id |-> s[k]]
    BY <1>2, <1>3
  <2> DEFINE D == {[key |-> k, id |-> s[k]] : k \in K}
  <2>3. ASSUME NEW c \in C PROVE c \in D
    <3>1. PICK e \in FullOf(tab) : c = tab[e]
      BY <1>1, <2>3
    <3>2. PICK k \in K : c = [key |-> k, id |-> s[k]]
      BY <2>1, <3>1
    <3> QED BY <3>2
  <2>4. ASSUME NEW c \in D PROVE c \in C
    <3>1. PICK k \in K : c = [key |-> k, id |-> s[k]]
      BY <2>4
    <3>2. PICK e \in FullOf(tab) : c = tab[e]
      BY <2>2, <3>1
    <3> QED BY <1>1, <3>2
  <2> HIDE DEF D
  <2>5. C = D
    BY <2>3, <2>4
  <2> QED BY <2>5 DEF D
<1>5. Cardinality(FullOf(tab)) = Cardinality(C)
  <2> DEFINE g == [e \in FullOf(tab) |-> tab[e]]
  <2>1. \A d, e \in FullOf(tab) : tab[d] = tab[e] => d = e
    BY DEF TableOK, FullOf
  <2>2. g \in Bijection(FullOf(tab), C)
    BY <1>1, <2>1 DEF Bijection, Injection, IsInjective, Surjection
  <2>3. IsFiniteSet(FullOf(tab))
    BY Finite DEF FullOf
  <2> QED BY <2>2, <2>3, FS_Bijection DEF ExistsBijection
<1> QED BY <1>4, <1>5 DEF C, s, K

\* When all threads have ended, every operation has its result and the two
\* programs have the same table.
LEMMA EndsSame ==
  ASSUME IInv, SameInv, Exited
  PROVE  SameAsSerial
<1> SUFFICES ASSUME AllDone, ~Serial!Run(input).h.failed
             PROVE  /\ result = Serial!Run(input).result
                    /\ used = Serial!Run(input).h.used
                    /\ Serial!Contents(table) = Serial!Contents(Serial!Run(input).h.table)
  BY DEF SameAsSerial
<1> DEFINE n == Len(input)
<1>1. /\ input \in Inputs /\ n \in Nat /\ DOMAIN input = 1 .. n
      /\ TableOK(table) /\ table \in [Entries -> Entry(n)] /\ result \in [1 .. n -> -2 .. n] /\ curr \in Nat
  BY Ops DEF IInv, Typed, Entry
<1>2. PICK f : SerialRun(f, n) /\ Serial!Run(input) = f[n]
  BY <1>1, SerialRuns
<1>3. Agrees(f) /\ SerialFacts(f)
  BY <1>1, <1>2, SerialRight DEF SameInv, Finishes
<1>4. \A i \in DOMAIN input : result[i] # Pending
  <2>1. 1 \in Threads
    BY HashAssumption DEF Threads
  <2>2. curr > n
    BY <2>1 DEF Exited, AllDone
  <2>3. \A t \in Threads : pc[t] \notin Waiting
    BY DEF AllDone, Waiting
  <2>4. \A i \in DOMAIN input : ~(i >= curr)
    BY <1>1, <2>2
  <2> QED BY <2>3, <2>4 DEF IInv, ResultsKnown
<1>5. result = f[n].result
  <2>1. f[n].result \in Seq(Int) /\ Len(f[n].result) = n
    BY <1>3 DEF SerialFacts
  <2>2. \A i \in 1 .. n : result[i] = f[n].result[i]
    BY <1>1, <1>3, <1>4 DEF Agrees
  <2> HIDE DEF n
  <2>3. f[n].result = [i \in 1 .. n |-> f[n].result[i]]
    BY <1>1, <2>1
  <2> QED BY <1>1, <2>2, <2>3
<1> DEFINE tab == f[n].h.table
<1>6. TableOK(tab) /\ tab \in [Entries -> Entry(n)] /\ f[n].h.used = Cardinality(FullOf(tab))
  BY <1>3 DEF SerialFacts, TableIs
<1>7. \A k \in Keys : StoreOf(table)[k] = StoreOf(tab)[k]
  <2> SUFFICES ASSUME NEW k \in Keys PROVE StoreOf(table)[k] = StoreOf(tab)[k]
    OBVIOUS
  <2>1. DoneUpto(k, n) /\ n \in 0 .. n
    BY <1>1, <1>4 DEF DoneUpto
  <2> QED BY <1>3, <2>1 DEF Agrees
<1> HIDE DEF n, tab
<1>8. Serial!Contents(table) = Serial!Contents(tab)
  <2>1. {q \in Keys : StoreOf(table)[q] # 0} = {q \in Keys : StoreOf(tab)[q] # 0}
    BY <1>7
  <2>2. Serial!Contents(table) = {[key |-> k, id |-> StoreOf(table)[k]] : k \in {q \in Keys : StoreOf(tab)[q] # 0}}
    BY <1>1, <2>1, ContentsOf
  <2>3. Serial!Contents(tab) = {[key |-> k, id |-> StoreOf(tab)[k]] : k \in {q \in Keys : StoreOf(tab)[q] # 0}}
    BY <1>1, <1>6, ContentsOf
  <2> QED BY <1>7, <2>2, <2>3
<1>9. used = Cardinality(FullOf(table))
  <2>1. InCount("PUT") = {} /\ InCount("DEL") = {} /\ Full = FullOf(table)
    BY DEF InCount, AllDone, Full, FullOf
  <2>2. used = Cardinality(FullOf(table)) - Cardinality({}) + Cardinality({})
    BY <2>1 DEF IInv, Counted
  <2>3. Cardinality({}) = 0 /\ Cardinality(FullOf(table)) \in Nat
    BY Finite, FS_EmptySet DEF FullOf
  <2> QED BY <2>2, <2>3
<1>10. used = f[n].h.used
  BY <1>1, <1>6, <1>8, <1>9, ContentsOf
<1> QED BY <1>2, <1>5, <1>8, <1>10 DEF tab, n

\* When all threads have ended and no assertion fails in the serial program,
\* both have given the same results, counted the same number of keys and left
\* the same keys with the same data in their tables.
THEOREM PrintsTheSame ==
  ASSUME NThreads <= Scanned
  PROVE  Spec => []SameAsSerial
<1>1. Init => SameInv /\ Exited
  <2>1. Init => Exited
    BY DEF Init, Exited
  <2> QED BY <2>1, AgreesInit
<1>2. IInv /\ IInv' /\ SameInv /\ Exited /\ [Next]_vars => SameInv' /\ Exited'
  BY AgreesStep, ExitedStep
<1>3. IInv /\ SameInv /\ Exited => SameAsSerial
  BY EndsSame
<1> QED
  BY <1>1, <1>2, <1>3, Inductive, PTL DEF Spec
=============================================================================
