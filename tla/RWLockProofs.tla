---------------------------- MODULE RWLockProofs ----------------------------
(***************************************************************************)
(* Proofs about RWLock, for every finite set of threads smaller than W and  *)
(* every number of iterations.                                              *)
(*                                                                          *)
(* Mutual exclusion is not inductive by itself: that a writer is admitted   *)
(* only when it is alone follows from what the counter says, so the         *)
(* inductive invariant IInv adds that the counter accounts for every        *)
(* thread whose subtraction is in it.                                       *)
(***************************************************************************)
EXTENDS RWLock, FiniteSetTheorems, TLAPS

\* The inductive invariant: each conjunct is an invariant of the MCRWLock run.
IInv == /\ TypeOK
        /\ CounterAccounts
        /\ MutualExclusion
        /\ NoStaleWrite

-----------------------------------------------------------------------------
\* The in-flight sets are finite and smaller than W.
LEMMA InFlightBounds ==
  /\ IsFiniteSet(WritersIn) /\ Cardinality(WritersIn) \in Nat
  /\ IsFiniteSet(ReadersIn) /\ Cardinality(ReadersIn) \in Nat
  /\ Cardinality(ReadersIn) < W
  /\ Cardinality(WritersIn) = 0 <=> WritersIn = {}
  /\ Cardinality(ReadersIn) = 0 <=> ReadersIn = {}
  /\ W \in Nat
<1>1. WritersIn \subseteq Threads /\ ReadersIn \subseteq Threads
  BY DEF WritersIn, ReadersIn
<1>2. /\ IsFiniteSet(WritersIn) /\ IsFiniteSet(ReadersIn)
      /\ Cardinality(ReadersIn) <= Cardinality(Threads)
  BY <1>1, FS_Subset, ThreadsAssumption
<1>3. /\ Cardinality(WritersIn) \in Nat /\ Cardinality(ReadersIn) \in Nat
      /\ Cardinality(Threads) \in Nat
  BY <1>2, FS_CardinalityType, ThreadsAssumption
<1>4. /\ Cardinality(WritersIn) = 0 <=> WritersIn = {}
      /\ Cardinality(ReadersIn) = 0 <=> ReadersIn = {}
  BY <1>2, FS_EmptySet
<1> QED
  BY <1>2, <1>3, <1>4, WAssumption

\* atomic_add(-W) yields 0 exactly when nothing else is in the counter.
LEMMA WriterAdmitted ==
  ASSUME TypeOK, CounterAccounts
  PROVE  value - W = 0 <=> WritersIn = {} /\ ReadersIn = {}
<1> DEFINE w == Cardinality(WritersIn)
           r == Cardinality(ReadersIn)
<1>1. w \in Nat /\ r \in Nat /\ r < W /\ W \in Nat
  BY InFlightBounds
<1>2. value = W * (1 - w) - r
  BY DEF CounterAccounts
<1>3. CASE w = 0
  BY <1>1, <1>2, <1>3, InFlightBounds
<1>4. CASE w # 0
  <2>1. W * (1 - w) <= 0
    <3> HIDE DEF w
    <3> QED BY <1>1, <1>4
  <2>2. WritersIn # {}
    BY <1>4, InFlightBounds
  <2> QED
    <3> HIDE DEF w, r
    <3>1. W * (1 - w) \in Int BY <1>1
    <3> QED BY <1>1, <1>2, <2>1, <2>2, <3>1
<1> QED
  BY <1>3, <1>4

\* atomic_add(-1) yields a negative result exactly when a writer, admitted or
\* failing, is in the counter.
LEMMA ReaderRefused ==
  ASSUME TypeOK, CounterAccounts
  PROVE  value - 1 < 0 <=> WritersIn # {}
<1> DEFINE w == Cardinality(WritersIn)
           r == Cardinality(ReadersIn)
<1>1. w \in Nat /\ r \in Nat /\ r < W /\ W \in Nat
  BY InFlightBounds
<1>2. value = W * (1 - w) - r
  BY DEF CounterAccounts
<1>3. CASE w = 0
  BY <1>1, <1>2, <1>3, InFlightBounds
<1>4. CASE w # 0
  <2>1. W * (1 - w) <= 0
    <3> HIDE DEF w
    <3> QED BY <1>1, <1>4
  <2>2. WritersIn # {}
    BY <1>4, InFlightBounds
  <2> QED
    <3> HIDE DEF w, r
    <3>1. W * (1 - w) \in Int BY <1>1
    <3> QED BY <1>1, <1>2, <2>1, <2>2, <3>1
<1> QED
  BY <1>3, <1>4

-----------------------------------------------------------------------------
\* How the counter's account moves when one thread enters or leaves a set of
\* in-flight threads.
LEMMA CountMoves ==
  ASSUME NEW S, IsFiniteSet(S), NEW t
  PROVE  /\ t \notin S => Cardinality(S \cup {t}) = Cardinality(S) + 1
         /\ t \in S => Cardinality(S \ {t}) = Cardinality(S) - 1
         /\ Cardinality(S) \in Nat
BY FS_AddElement, FS_RemoveElement, FS_CardinalityType

LEMMA Worth ==
  ASSUME NEW c \in Nat
  PROVE  /\ W * (1 - (c + 1)) = W * (1 - c) - W
         /\ W * (1 - (c - 1)) = W * (1 - c) + W
BY WAssumption

\* Init establishes the inductive invariant.
LEMMA InitIInv == Init => IInv
<1> SUFFICES ASSUME Init PROVE IInv
  OBVIOUS
<1>1. TypeOK
  BY WAssumption DEF Init, TypeOK, PCs, Start
<1>2. WritersIn = {} /\ ReadersIn = {}
  BY DEF Init, Start, WritersIn, ReadersIn, WriterIn, ReaderIn, HoldsWrite, HoldsRead
<1>3. CounterAccounts
  BY <1>2, InFlightBounds DEF Init, CounterAccounts
<1>4. MutualExclusion /\ NoStaleWrite
  BY DEF Init, Start, MutualExclusion, NoStaleWrite, HoldsWrite
<1> QED
  BY <1>1, <1>3, <1>4 DEF IInv

\* The type invariant is inductive on its own.
LEMMA TypeStep == TypeOK /\ [Next]_vars => TypeOK'
<1> SUFFICES ASSUME TypeOK, [Next]_vars PROVE TypeOK'
  OBVIOUS
<1> USE WAssumption DEF TypeOK, PCs, Goto, atomic_add, Start
<1>1. ASSUME NEW t \in Threads, write_lock_try(t) PROVE TypeOK'
  BY <1>1 DEF write_lock_try
<1>2. ASSUME NEW t \in Threads, write_lock_undo(t) PROVE TypeOK'
  BY <1>2 DEF write_lock_undo
<1>3. ASSUME NEW t \in Threads, write_lock_spin(t) PROVE TypeOK'
  BY <1>3 DEF write_lock_spin
<1>4. ASSUME NEW t \in Threads, write_unlock(t) PROVE TypeOK'
  BY <1>4 DEF write_unlock
<1>5. ASSUME NEW t \in Threads, read_lock_try(t) PROVE TypeOK'
  BY <1>5 DEF read_lock_try
<1>6. ASSUME NEW t \in Threads, read_lock_undo(t) PROVE TypeOK'
  BY <1>6 DEF read_lock_undo
<1>7. ASSUME NEW t \in Threads, read_unlock(t) PROVE TypeOK'
  BY <1>7, ItersAssumption DEF read_unlock
<1>8. ASSUME NEW t \in Threads, wr_load(t) PROVE TypeOK'
  BY <1>8 DEF wr_load
<1>9. ASSUME NEW t \in Threads, wr_store(t) PROVE TypeOK'
  BY <1>9 DEF wr_store
<1>10. ASSUME NEW t \in Threads, rd_load(t) PROVE TypeOK'
  BY <1>10 DEF rd_load
<1>11. ASSUME NEW t \in Threads, rd_store(t) PROVE TypeOK'
  BY <1>11 DEF rd_store
<1>12. CASE UNCHANGED vars
  BY <1>12 DEF vars
<1> QED
  BY <1>1, <1>2, <1>3, <1>4, <1>5, <1>6, <1>7, <1>8, <1>9, <1>10, <1>11, <1>12
  DEF Next, Step, joined

\* The in-flight sets after each kind of step: the try steps add the thread,
\* the undo and unlock steps remove it, all others leave the sets alone.
LEMMA InFlightMoves ==
  ASSUME TypeOK, NEW t \in Threads
  PROVE  /\ write_lock_try(t) => /\ t \notin WritersIn
                                 /\ WritersIn' = WritersIn \cup {t}
                                 /\ ReadersIn' = ReadersIn
         /\ write_lock_undo(t) \/ write_unlock(t) =>
                /\ t \in WritersIn
                /\ WritersIn' = WritersIn \ {t}
                /\ ReadersIn' = ReadersIn
         /\ read_lock_try(t) => /\ t \notin ReadersIn
                                /\ ReadersIn' = ReadersIn \cup {t}
                                /\ WritersIn' = WritersIn
         /\ read_lock_undo(t) \/ read_unlock(t) =>
                /\ t \in ReadersIn
                /\ ReadersIn' = ReadersIn \ {t}
                /\ WritersIn' = WritersIn
         /\ write_lock_spin(t) \/ wr_load(t) \/ wr_store(t) \/ rd_load(t) \/ rd_store(t) =>
                /\ ReadersIn' = ReadersIn
                /\ WritersIn' = WritersIn
<1> USE DEF TypeOK, WritersIn, ReadersIn, WriterIn, ReaderIn, HoldsWrite, HoldsRead, Goto
<1>1. write_lock_try(t) => /\ t \notin WritersIn
                           /\ WritersIn' = WritersIn \cup {t}
                           /\ ReadersIn' = ReadersIn
  BY DEF write_lock_try
<1>2. write_lock_undo(t) \/ write_unlock(t) =>
                /\ t \in WritersIn
                /\ WritersIn' = WritersIn \ {t}
                /\ ReadersIn' = ReadersIn
  BY DEF write_lock_undo, write_unlock
<1>3. read_lock_try(t) => /\ t \notin ReadersIn
                          /\ ReadersIn' = ReadersIn \cup {t}
                          /\ WritersIn' = WritersIn
  BY DEF read_lock_try
<1>4. read_lock_undo(t) \/ read_unlock(t) =>
                /\ t \in ReadersIn
                /\ ReadersIn' = ReadersIn \ {t}
                /\ WritersIn' = WritersIn
  BY DEF read_lock_undo, read_unlock, Start
<1>5. write_lock_spin(t) \/ wr_load(t) \/ wr_store(t) \/ rd_load(t) \/ rd_store(t) =>
                /\ ReadersIn' = ReadersIn
                /\ WritersIn' = WritersIn
  BY DEF write_lock_spin, wr_load, wr_store, rd_load, rd_store
<1> QED
  BY <1>1, <1>2, <1>3, <1>4, <1>5

-----------------------------------------------------------------------------
\* Every step keeps the account: an attempt enters the counter and the
\* in-flight set together and leaves them together.
LEMMA AccountStep ==
  TypeOK /\ CounterAccounts /\ [Next]_vars => CounterAccounts'
<1> SUFFICES ASSUME TypeOK, CounterAccounts, [Next]_vars PROVE CounterAccounts'
  OBVIOUS
<1> DEFINE w == Cardinality(WritersIn)
           r == Cardinality(ReadersIn)
<1>a. /\ w \in Nat /\ r \in Nat /\ W \in Nat /\ value \in Int
      /\ IsFiniteSet(WritersIn) /\ IsFiniteSet(ReadersIn)
      /\ value = W * (1 - w) - r
  BY InFlightBounds DEF CounterAccounts, TypeOK
<1>b. SUFFICES value' = W * (1 - w') - r'
  BY DEF CounterAccounts
<1>c. /\ W * (1 - w) \in Int
      /\ W * (1 - (w + 1)) = W * (1 - w) - W
      /\ W * (1 - (w - 1)) = W * (1 - w) + W
  BY <1>a, Worth
<1>1. ASSUME NEW t \in Threads, write_lock_try(t) PROVE value' = W * (1 - w') - r'
  <2>1. w' = w + 1 /\ r' = r /\ value' = value - W
    BY <1>1, <1>a, InFlightMoves, CountMoves DEF write_lock_try, atomic_add
  <2> QED
    <3> HIDE DEF w, r
    <3> QED BY <2>1, <1>a, <1>c
<1>2. ASSUME NEW t \in Threads, write_lock_undo(t) \/ write_unlock(t)
      PROVE value' = W * (1 - w') - r'
  <2>1. w' = w - 1 /\ r' = r /\ value' = value + W
    BY <1>2, <1>a, InFlightMoves, CountMoves DEF write_lock_undo, write_unlock, atomic_add
  <2> QED
    <3> HIDE DEF w, r
    <3> QED BY <2>1, <1>a, <1>c
<1>3. ASSUME NEW t \in Threads, read_lock_try(t) PROVE value' = W * (1 - w') - r'
  <2>1. w' = w /\ r' = r + 1 /\ value' = value - 1
    BY <1>3, <1>a, InFlightMoves, CountMoves DEF read_lock_try, atomic_add
  <2> QED
    <3> HIDE DEF w, r
    <3> QED BY <2>1, <1>a, <1>c
<1>4. ASSUME NEW t \in Threads, read_lock_undo(t) \/ read_unlock(t)
      PROVE value' = W * (1 - w') - r'
  <2>1. w' = w /\ r' = r - 1 /\ value' = value + 1
    BY <1>4, <1>a, InFlightMoves, CountMoves DEF read_lock_undo, read_unlock, atomic_add
  <2> QED
    <3> HIDE DEF w, r
    <3> QED BY <2>1, <1>a, <1>c
<1>5. ASSUME NEW t \in Threads,
             write_lock_spin(t) \/ wr_load(t) \/ wr_store(t) \/ rd_load(t) \/ rd_store(t)
      PROVE value' = W * (1 - w') - r'
  <2>1. w' = w /\ r' = r /\ value' = value
    BY <1>5, InFlightMoves DEF write_lock_spin, wr_load, wr_store, rd_load, rd_store
  <2> QED
    BY <2>1, <1>a
<1>6. CASE UNCHANGED vars
  BY <1>6, <1>a DEF vars, WritersIn, ReadersIn, WriterIn, ReaderIn, HoldsWrite, HoldsRead
<1> QED
  BY <1>1, <1>2, <1>3, <1>4, <1>5, <1>6 DEF Next, Step, joined

\* Every step keeps mutual exclusion: only the two try steps admit a thread,
\* and what the counter says then rules out a conflicting holder.
LEMMA ExclusionStep ==
  IInv /\ [Next]_vars => MutualExclusion'
<1> SUFFICES ASSUME IInv, [Next]_vars PROVE MutualExclusion'
  OBVIOUS
<1>a. TypeOK /\ CounterAccounts /\ MutualExclusion
  BY DEF IInv
<1>1. ASSUME NEW t \in Threads, write_lock_try(t) PROVE MutualExclusion'
  <2>1. CASE value - W = 0
    <3>1. WritersIn = {} /\ ReadersIn = {}
      BY <1>a, <2>1, WriterAdmitted
    <3>2. \A u \in Threads : u # t => pc'[u] = pc[u] /\ ~HoldsWrite(u) /\ ~HoldsRead(u)
      BY <1>a, <1>1, <3>1
      DEF write_lock_try, Goto, TypeOK, WritersIn, ReadersIn, WriterIn, ReaderIn
    <3> QED
      BY <3>2 DEF MutualExclusion, HoldsWrite, HoldsRead
  <2>2. CASE value - W # 0
    <3>0. value' # 0
      BY <1>1, <1>a, <2>2, WAssumption DEF write_lock_try, atomic_add, TypeOK
    <3>1. pc' = [pc EXCEPT ![t] = "w_undo"]
      BY <1>1, <3>0 DEF write_lock_try, Goto, Sign
    <3> QED
      BY <3>1, <1>a DEF MutualExclusion, HoldsWrite, HoldsRead, TypeOK
  <2> QED
    BY <2>1, <2>2
<1>2. ASSUME NEW t \in Threads, read_lock_try(t) PROVE MutualExclusion'
  <2>1. CASE value - 1 < 0
    <3>1. pc' = [pc EXCEPT ![t] = "r_undo"]
      BY <1>2, <1>a, <2>1 DEF read_lock_try, Goto, atomic_add, Sign, TypeOK
    <3> QED
      BY <3>1, <1>a DEF MutualExclusion, HoldsWrite, HoldsRead, TypeOK
  <2>2. CASE ~(value - 1 < 0)
    <3>1. WritersIn = {}
      BY <1>a, <2>2, ReaderRefused
    <3>2. pc' = [pc EXCEPT ![t] = "r_load"]
      BY <1>2, <1>a, <2>2 DEF read_lock_try, Goto, atomic_add, Sign, TypeOK
    <3>3. \A u \in Threads : ~(HoldsWrite(u)')
      BY <3>1, <3>2, <1>a DEF WritersIn, WriterIn, HoldsWrite, TypeOK
    <3> QED
      BY <3>3 DEF MutualExclusion
  <2> QED
    BY <2>1, <2>2
<1>3. ASSUME NEW t \in Threads,
             \/ write_lock_undo(t) \/ write_lock_spin(t) \/ write_unlock(t)
             \/ read_lock_undo(t) \/ read_unlock(t)
      PROVE MutualExclusion'
  BY <1>3, <1>a DEF MutualExclusion, HoldsWrite, HoldsRead, TypeOK, Goto, Start,
     write_lock_undo, write_lock_spin, write_unlock, read_lock_undo, read_unlock
<1>4. ASSUME NEW t \in Threads, wr_load(t) \/ wr_store(t) \/ rd_load(t) \/ rd_store(t)
      PROVE MutualExclusion'
  BY <1>4, <1>a DEF MutualExclusion, HoldsWrite, HoldsRead, TypeOK, Goto,
     wr_load, wr_store, rd_load, rd_store
<1>5. CASE UNCHANGED vars
  BY <1>5, <1>a DEF vars, MutualExclusion, HoldsWrite, HoldsRead
<1> QED
  BY <1>1, <1>2, <1>3, <1>4, <1>5 DEF Next, Step, joined

\* No store of wr_ctr uses a stale load: a store by another thread would need
\* a second writer.
LEMMA FreshStep ==
  IInv /\ [Next]_vars => NoStaleWrite'
<1> SUFFICES ASSUME IInv, [Next]_vars PROVE NoStaleWrite'
  OBVIOUS
<1>a. TypeOK /\ MutualExclusion /\ NoStaleWrite
  BY DEF IInv
<1>1. ASSUME NEW t \in Threads,
             \/ write_lock_try(t) \/ write_lock_undo(t) \/ write_lock_spin(t)
             \/ write_unlock(t)
      PROVE NoStaleWrite'
  BY <1>1, <1>a DEF NoStaleWrite, TypeOK, Goto,
     write_lock_try, write_lock_undo, write_lock_spin, write_unlock
<1>2. ASSUME NEW t \in Threads,
             \/ read_lock_try(t) \/ read_lock_undo(t) \/ read_unlock(t)
             \/ rd_load(t) \/ rd_store(t) \/ wr_load(t)
      PROVE NoStaleWrite'
  BY <1>2, <1>a DEF NoStaleWrite, TypeOK, Goto, Start,
     read_lock_try, read_lock_undo, read_unlock, rd_load, rd_store, wr_load
<1>3. ASSUME NEW t \in Threads, wr_store(t) PROVE NoStaleWrite'
  <2>1. \A u \in Threads : u # t => pc'[u] = pc[u] /\ pc[u] # "w_store"
    BY <1>3, <1>a DEF MutualExclusion, HoldsWrite, TypeOK, Goto, wr_store
  <2> QED
    BY <2>1, <1>3, <1>a DEF NoStaleWrite, TypeOK, Goto, wr_store
<1>4. CASE UNCHANGED vars
  BY <1>4, <1>a DEF vars, NoStaleWrite
<1> QED
  BY <1>1, <1>2, <1>3, <1>4 DEF Next, Step, joined

-----------------------------------------------------------------------------
\* The values of thfunc's variables and of the lock keep their types.
THEOREM TypeCorrect == Spec => []TypeOK
<1>1. Init => TypeOK
  BY InitIInv DEF IInv
<1> QED
  BY <1>1, TypeStep, PTL DEF Spec

\* The inductive invariant holds in every reachable state.
THEOREM Inductive == Spec => []IInv
<1>1. IInv /\ [Next]_vars => IInv'
  BY TypeStep, AccountStep, ExclusionStep, FreshStep DEF IInv
<1> QED
  BY InitIInv, <1>1, PTL DEF Spec

\* The counter accounts for every attempt in flight, for any number of threads.
THEOREM Accounting == Spec => []CounterAccounts
BY Inductive, PTL DEF IInv

\* write_lock excludes every other holder, for any number of threads below W.
THEOREM Exclusion == Spec => []MutualExclusion
BY Inductive, PTL DEF IInv

\* No update of wr_ctr by thfunc is lost.
THEOREM FreshWrites == Spec => []NoStaleWrite
BY Inductive, PTL DEF IInv

-----------------------------------------------------------------------------
(***************************************************************************)
(* The total that main prints.  WriteTotal speaks of the end only; on the   *)
(* way wr_ctr is 5 times the number of pairs <<thread, iteration>> whose    *)
(* store has been made.                                                     *)
(***************************************************************************)
Stored(t) == pc[t] \in {"w_unlock", "r_try", "r_undo", "r_load", "r_store", "r_unlock"}
Rounds    == Threads \X (0 .. Iters - 1)
Written   == {x \in Rounds : x[2] < ctr[x[1]] \/ (x[2] = ctr[x[1]] /\ Stored(x[1]))}

TotalInv == /\ \A t \in Threads : IF pc[t] = "done" THEN ctr[t] = Iters ELSE ctr[t] < Iters
            /\ wr_ctr = 5 * Cardinality(Written)

\* The pairs are finitely many: every thread makes Iters rounds.
LEMMA RoundsFinite ==
  /\ IsFiniteSet(Rounds) /\ Cardinality(Rounds) = Cardinality(Threads) * Iters
  /\ IsFiniteSet(Written) /\ Cardinality(Written) \in Nat
<1>1. IsFiniteSet(0 .. Iters - 1) /\ Cardinality(0 .. Iters - 1) = Iters
  BY FS_Interval, ItersAssumption
<1>2. IsFiniteSet(Rounds) /\ Cardinality(Rounds) = Cardinality(Threads) * Iters
  BY <1>1, FS_Product, ThreadsAssumption DEF Rounds
<1>3. Written \in SUBSET Rounds
  BY DEF Written
<1> QED
  BY <1>2, <1>3, FS_Subset, FS_CardinalityType

\* A store adds the thread's current round to those written; no other step
\* adds or removes one, the increment of the loop counter included.
LEMMA TotalStep ==
  IInv /\ TotalInv /\ [Next]_vars => TotalInv'
<1> SUFFICES ASSUME IInv, TotalInv, [Next]_vars PROVE TotalInv'
  OBVIOUS
<1> DEFINE Bounds == \A t \in Threads : IF pc[t] = "done" THEN ctr[t] = Iters ELSE ctr[t] < Iters
<1>a. TypeOK /\ NoStaleWrite /\ Bounds /\ wr_ctr = 5 * Cardinality(Written)
  BY DEF IInv, TotalInv
<1>b. SUFFICES Bounds' /\ wr_ctr' = 5 * Cardinality(Written')
  BY DEF TotalInv
<1>1. ASSUME NEW t \in Threads,
             \/ write_lock_try(t) \/ write_lock_undo(t) \/ write_lock_spin(t) \/ write_unlock(t)
             \/ read_lock_try(t) \/ read_lock_undo(t) \/ wr_load(t) \/ rd_load(t) \/ rd_store(t)
      PROVE  Bounds' /\ wr_ctr' = 5 * Cardinality(Written')
  <2>1. /\ \A u \in Threads : Stored(u)' = Stored(u) /\ (pc'[u] = "done") = (pc[u] = "done")
        /\ ctr' = ctr /\ wr_ctr' = wr_ctr
    BY <1>1, <1>a DEF TypeOK, Stored, Goto, write_lock_try, write_lock_undo, write_lock_spin,
       write_unlock, read_lock_try, read_lock_undo, wr_load, rd_load, rd_store
  <2>2. Written' = Written
    <3>1. \A x \in Rounds : x[1] \in Threads
      BY DEF Rounds
    <3> QED BY <2>1, <3>1 DEF Written
  <2> QED
    BY <2>1, <2>2, <1>a
<1>2. ASSUME NEW t \in Threads, wr_store(t)
      PROVE  Bounds' /\ wr_ctr' = 5 * Cardinality(Written')
  <2>1. /\ pc[t] = "w_store" /\ pc' = [pc EXCEPT ![t] = "w_unlock"] /\ ctr' = ctr
        /\ wr_ctr' = wr_ctr + 5
    BY <1>2, <1>a DEF wr_store, Goto, NoStaleWrite
  <2>2. Bounds'
    BY <2>1, <1>a DEF TypeOK
  <2> DEFINE now == <<t, ctr[t]>>
  <2>3. now \in Rounds /\ now \notin Written
    BY <2>1, <1>a, ItersAssumption DEF TypeOK, Rounds, Written, Stored
  <2>4. Written' = Written \cup {now}
    <3>1. ASSUME NEW x \in Rounds
          PROVE  x \in Written' <=> x \in Written \/ x = now
      <4>1. x = <<x[1], x[2]>> /\ x[1] \in Threads /\ x[2] \in Int
        BY ItersAssumption DEF Rounds
      <4>2. CASE x[1] = t
        <5>1. x \in Written' <=> x[2] < ctr[t] \/ x[2] = ctr[t]
          BY <4>1, <4>2, <2>1, <1>a DEF Written, Stored, TypeOK
        <5>2. x \in Written <=> x[2] < ctr[t]
          BY <4>1, <4>2, <2>1, <1>a DEF Written, Stored, TypeOK
        <5>3. x = now <=> x[2] = ctr[t]
          BY <4>1, <4>2
        <5> QED BY <5>1, <5>2, <5>3
      <4>3. CASE x[1] # t
        <5>1. pc'[x[1]] = pc[x[1]]
          BY <4>1, <4>3, <2>1, <1>a DEF TypeOK
        <5> QED BY <5>1, <4>3, <2>1 DEF Written, Stored
      <4> QED BY <4>2, <4>3
    <3>2. Written \subseteq Rounds /\ Written' \subseteq Rounds
      BY DEF Written, Rounds
    <3> HIDE DEF now
    <3> QED BY <3>1, <3>2, <2>3
  <2>5. Cardinality(Written') = Cardinality(Written) + 1
    BY <2>3, <2>4, RoundsFinite, CountMoves
  <2> QED
    BY <2>1, <2>2, <2>5, <1>a, RoundsFinite
<1>3. ASSUME NEW t \in Threads, read_unlock(t)
      PROVE  Bounds' /\ wr_ctr' = 5 * Cardinality(Written')
  <2>1. /\ pc[t] = "r_unlock" /\ ctr[t] < Iters /\ ctr' = [ctr EXCEPT ![t] = ctr[t] + 1]
        /\ pc' = [pc EXCEPT ![t] = IF ctr[t] + 1 < Iters THEN "w_try" ELSE "done"]
        /\ wr_ctr' = wr_ctr
    BY <1>3, <1>a DEF read_unlock, Goto, Start, TypeOK
  <2>2. Bounds'
    BY <2>1, <1>a, ItersAssumption DEF TypeOK
  <2>3. Written' = Written
    <3>1. ASSUME NEW x \in Rounds
          PROVE  x \in Written' <=> x \in Written
      <4>1. x[1] \in Threads /\ x[2] \in Int
        BY ItersAssumption DEF Rounds
      <4>2. CASE x[1] = t
        <5>1. x \in Written' <=> x[2] < ctr[t] + 1
          BY <4>1, <4>2, <2>1, <1>a DEF Written, Stored, TypeOK
        <5>2. x \in Written <=> x[2] < ctr[t] \/ x[2] = ctr[t]
          BY <4>1, <4>2, <2>1, <1>a DEF Written, Stored, TypeOK
        <5> QED BY <5>1, <5>2, <4>1, <1>a DEF TypeOK
      <4>3. CASE x[1] # t
        <5>1. pc'[x[1]] = pc[x[1]] /\ ctr'[x[1]] = ctr[x[1]]
          BY <4>1, <4>3, <2>1, <1>a DEF TypeOK
        <5> QED BY <5>1 DEF Written, Stored
      <4> QED BY <4>2, <4>3
    <3>2. Written \subseteq Rounds /\ Written' \subseteq Rounds
      BY DEF Written, Rounds
    <3> QED BY <3>1, <3>2
  <2> QED
    BY <2>1, <2>2, <2>3, <1>a
<1>4. CASE UNCHANGED vars
  BY <1>4, <1>a DEF vars, Written, Stored
<1> QED
  BY <1>1, <1>2, <1>3, <1>4 DEF Next, Step, joined

\* main's "should be" is what wr_ctr is when all threads are joined, for any
\* number of threads and of iterations.
THEOREM Total == Spec => []WriteTotal
<1>1. Init => TotalInv
  <2> SUFFICES ASSUME Init PROVE TotalInv
    OBVIOUS
  <2>1. Written = {}
    BY ItersAssumption DEF Init, Start, Written, Rounds, Stored
  <2> QED
    BY <2>1, FS_EmptySet, ItersAssumption DEF Init, Start, TotalInv
<1>2. TotalInv => WriteTotal
  <2> SUFFICES ASSUME TotalInv, AllJoined PROVE wr_ctr = 5 * Iters * Cardinality(Threads)
    BY DEF WriteTotal
  <2>1. Written = Rounds
    <3>1. \A x \in Rounds : x[1] \in Threads /\ x[2] \in Int /\ x[2] < Iters
      BY ItersAssumption DEF Rounds
    <3>2. \A t \in Threads : ctr[t] = Iters
      BY DEF TotalInv, AllJoined
    <3> QED BY <3>1, <3>2 DEF Written
  <2> DEFINE c == Cardinality(Threads)
  <2>2. c \in Nat
    BY ThreadsAssumption, FS_CardinalityType
  <2>3. wr_ctr = 5 * (c * Iters)
    BY <2>1, RoundsFinite DEF TotalInv
  <2> HIDE DEF c
  <2>4. 5 * (c * Iters) = 5 * Iters * c
    BY <2>2, ItersAssumption
  <2> QED
    BY <2>3, <2>4 DEF c
<1> QED
  BY <1>1, <1>2, TotalStep, Inductive, PTL DEF Spec

-----------------------------------------------------------------------------
\* The counter-based lock implements the one-step lock: a successful try is an
\* acquisition, an unlock a release, every other step (failed attempts and
\* their undo included) is invisible to the callers.
THEOREM Implements == Spec => Refinement
<1> DEFINE R == {t \in Threads : HoldsRead(t)}
           V == {t \in Threads : HoldsWrite(t)}
<1>1. Init => Abs!Init
  BY DEF Init, Abs!Init, Start, HoldsRead, HoldsWrite
<1>2. IInv /\ [Next]_vars => [Abs!Next]_(Abs!vars)
  <2> SUFFICES ASSUME IInv, [Next]_vars PROVE [Abs!Next]_(Abs!vars)
    OBVIOUS
  <2>a. TypeOK /\ CounterAccounts
    BY DEF IInv
  <2>b. R' = R /\ V' = V => UNCHANGED Abs!vars
    BY DEF Abs!vars
  <2>1. ASSUME NEW t \in Threads, write_lock_try(t) PROVE [Abs!Next]_(Abs!vars)
    <3>1. CASE value - W = 0
      <4>1. WritersIn = {} /\ ReadersIn = {}
        BY <2>a, <3>1, WriterAdmitted
      <4>2. R = {} /\ V = {}
        BY <4>1 DEF WritersIn, ReadersIn, WriterIn, ReaderIn
      <4>3. pc' = [pc EXCEPT ![t] = "w_load"]
        <5>1. value' = 0
          BY <2>1, <2>a, <3>1, WAssumption DEF write_lock_try, atomic_add, TypeOK
        <5> QED
          BY <2>1, <5>1 DEF write_lock_try, Goto, Sign
      <4>4. R' = R /\ V' = {t}
        BY <4>2, <4>3, <2>a DEF HoldsRead, HoldsWrite, TypeOK
      <4> QED
        BY <4>2, <4>4 DEF Abs!Next, Abs!AcquireWrite
    <3>2. CASE value - W # 0
      <4>0. value' # 0
        BY <2>1, <2>a, <3>2, WAssumption DEF write_lock_try, atomic_add, TypeOK
      <4>1. pc[t] = "w_try" /\ pc' = [pc EXCEPT ![t] = "w_undo"]
        BY <2>1, <4>0 DEF write_lock_try, Goto, Sign
      <4>2. R' = R /\ V' = V
        BY <4>1, <2>a DEF HoldsRead, HoldsWrite, TypeOK
      <4> QED
        BY <4>2, <2>b
    <3> QED
      BY <3>1, <3>2
  <2>2. ASSUME NEW t \in Threads, read_lock_try(t) PROVE [Abs!Next]_(Abs!vars)
    <3>1. CASE ~(value - 1 < 0)
      <4>1. V = {}
        BY <2>a, <3>1, ReaderRefused DEF WritersIn, WriterIn
      <4>2. pc[t] = "r_try" /\ pc' = [pc EXCEPT ![t] = "r_load"]
        BY <2>2, <2>a, <3>1 DEF read_lock_try, Goto, atomic_add, Sign, TypeOK
      <4>3. t \notin R /\ R' = R \cup {t} /\ V' = V
        BY <4>2, <2>a DEF HoldsRead, HoldsWrite, TypeOK
      <4> QED
        BY <4>1, <4>3 DEF Abs!Next, Abs!AcquireRead
    <3>2. CASE value - 1 < 0
      <4>1. pc[t] = "r_try" /\ pc' = [pc EXCEPT ![t] = "r_undo"]
        BY <2>2, <2>a, <3>2 DEF read_lock_try, Goto, atomic_add, Sign, TypeOK
      <4>2. R' = R /\ V' = V
        BY <4>1, <2>a DEF HoldsRead, HoldsWrite, TypeOK
      <4> QED
        BY <4>2, <2>b
    <3> QED
      BY <3>1, <3>2
  <2>3. ASSUME NEW t \in Threads, write_unlock(t) PROVE [Abs!Next]_(Abs!vars)
    <3>1. t \in V /\ V' = V \ {t} /\ R' = R
      BY <2>3, <2>a DEF write_unlock, Goto, HoldsRead, HoldsWrite, TypeOK
    <3> QED
      BY <3>1 DEF Abs!Next, Abs!ReleaseWrite
  <2>4. ASSUME NEW t \in Threads, read_unlock(t) PROVE [Abs!Next]_(Abs!vars)
    <3>1. t \in R /\ R' = R \ {t} /\ V' = V
      BY <2>4, <2>a DEF read_unlock, Goto, Start, HoldsRead, HoldsWrite, TypeOK
    <3> QED
      BY <3>1 DEF Abs!Next, Abs!ReleaseRead
  <2>5. ASSUME NEW t \in Threads,
               \/ write_lock_undo(t) \/ write_lock_spin(t) \/ read_lock_undo(t)
               \/ wr_load(t) \/ wr_store(t) \/ rd_load(t) \/ rd_store(t)
        PROVE [Abs!Next]_(Abs!vars)
    <3>1. R' = R /\ V' = V
      BY <2>5, <2>a DEF write_lock_undo, write_lock_spin, read_lock_undo,
         wr_load, wr_store, rd_load, rd_store, Goto, HoldsRead, HoldsWrite, TypeOK
    <3> QED
      BY <3>1, <2>b
  <2>6. CASE UNCHANGED vars
    BY <2>6 DEF vars, Abs!vars, HoldsRead, HoldsWrite
  <2> QED
    BY <2>1, <2>2, <2>3, <2>4, <2>5, <2>6 DEF Next, Step, joined
<1> QED
  BY <1>1, <1>2, Inductive, PTL DEF Spec, Refinement, Abs!Spec
=============================================================================
