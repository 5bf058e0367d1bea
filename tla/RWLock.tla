------------------------------- MODULE RWLock -------------------------------
(***************************************************************************)
(* The reader-writer lock of Assignment4/ass4/part-2 (rwlock.c, common.h)   *)
(* driven by the threads of its test program (main.c, thfunc).              *)
(*                                                                          *)
(* The lock is one counter.  It starts at W (2^48 in the code); a writer    *)
(* subtracts W and owns the lock if the result is exactly 0; a reader       *)
(* subtracts 1 and owns the lock if the result is not negative.  A failed   *)
(* attempt is undone by a second atomic operation, so between the two the   *)
(* counter is visibly wrong: that window is what the properties are about.  *)
(* Each atomic_add is one step, each plain load or store of a shared        *)
(* variable is one step.                                                    *)
(***************************************************************************)
EXTENDS Integers, FiniteSets

CONSTANTS Threads,   \* the threads main creates (at most MAX_THREADS = 64)
          W,         \* 0x1000000000000, what one writer is worth
          Iters      \* ITERS, iterations of thfunc

\* The counter can tell readers from a writer only while fewer than W threads
\* exist: 64 < 2^48 in the program.
ASSUME WAssumption == W \in Nat /\ Cardinality(Threads) < W
ASSUME ThreadsAssumption == IsFiniteSet(Threads)
ASSUME ItersAssumption == Iters \in Nat

VARIABLES value,     \* lock->value
          pc,        \* where each thread is inside thfunc and the lock code
          ctr,       \* thfunc's loop counter
          tmp,       \* the register of a read-modify-write of wr_ctr or rd_ctr
          wr_ctr, rd_ctr

vars == <<value, pc, ctr, tmp, wr_ctr, rd_ctr>>

\* Writers: try (line 21), failed and about to undo (22), spinning (23-24),
\* inside the write section, about to unlock.  Readers alike.
PCs == {"w_try", "w_undo", "w_spin", "w_load", "w_store", "w_unlock",
        "r_try", "r_undo", "r_load", "r_store", "r_unlock", "done"}

\* Threads that own the lock, and threads whose subtraction is in the counter.
HoldsWrite(t) == pc[t] \in {"w_load", "w_store", "w_unlock"}
HoldsRead(t)  == pc[t] \in {"r_load", "r_store", "r_unlock"}
WriterIn(t)   == HoldsWrite(t) \/ pc[t] = "w_undo"
ReaderIn(t)   == HoldsRead(t) \/ pc[t] = "r_undo"
WritersIn     == {t \in Threads : WriterIn(t)}
ReadersIn     == {t \in Threads : ReaderIn(t)}

-----------------------------------------------------------------------------
\* Mutant: one iteration too many.
Start_inclusive(n) == IF n <= Iters THEN "w_try" ELSE "done"

Start(n) == IF n < Iters THEN "w_try" ELSE "done"

\* init_rwlock, then every thread at the top of thfunc's loop.
Init == /\ value = W
        /\ pc = [t \in Threads |-> Start(0)]
        /\ ctr = [t \in Threads |-> 0]
        /\ tmp = [t \in Threads |-> 0]
        /\ wr_ctr = 0
        /\ rd_ctr = 0

\* atomic_add: one locked instruction adds and sets the flags, from which the
\* sign of the result is taken.
atomic_add(v) == value' = value + v

Goto(t, l) == pc' = [pc EXCEPT ![t] = l]

Sign(n) == IF n < 0 THEN -1 ELSE IF n = 0 THEN 0 ELSE 1

write_lock_try(t) ==
  /\ pc[t] = "w_try"
  /\ atomic_add(-W)
  /\ Goto(t, IF Sign(value') # 0 THEN "w_undo" ELSE "w_load")
  /\ UNCHANGED <<ctr, tmp, wr_ctr, rd_ctr>>

\* Mutants: the failed attempt is not undone; the writer tries again at once.
write_lock_undo_lost(t) ==
  /\ pc[t] = "w_undo"
  /\ Goto(t, "w_spin")
  /\ UNCHANGED <<value, ctr, tmp, wr_ctr, rd_ctr>>

write_lock_undo_no_backoff(t) ==
  /\ pc[t] = "w_undo"
  /\ atomic_add(W)
  /\ Goto(t, "w_try")
  /\ UNCHANGED <<ctr, tmp, wr_ctr, rd_ctr>>

write_lock_undo(t) ==
  /\ pc[t] = "w_undo"
  /\ atomic_add(W)
  /\ Goto(t, "w_spin")
  /\ UNCHANGED <<ctr, tmp, wr_ctr, rd_ctr>>

\* The inner while: the thread leaves it in a step that reads value >= W; a
\* step that reads less is sched_yield and changes nothing.
write_lock_spin(t) ==
  /\ pc[t] = "w_spin"
  /\ value >= W
  /\ Goto(t, "w_try")
  /\ UNCHANGED <<value, ctr, tmp, wr_ctr, rd_ctr>>

\* Mutant: the unlock keeps a reader's share and goes on as a reader.
write_unlock_downgrades(t) ==
  /\ pc[t] = "w_unlock"
  /\ atomic_add(W - 1)
  /\ Goto(t, "r_load")
  /\ UNCHANGED <<ctr, tmp, wr_ctr, rd_ctr>>

write_unlock(t) ==
  /\ pc[t] = "w_unlock"
  /\ atomic_add(W)
  /\ Goto(t, "r_try")
  /\ UNCHANGED <<ctr, tmp, wr_ctr, rd_ctr>>

\* Mutant: the result of the attempt is not tested.
read_lock_try_untested(t) ==
  /\ pc[t] = "r_try"
  /\ atomic_add(-1)
  /\ Goto(t, "r_load")
  /\ UNCHANGED <<ctr, tmp, wr_ctr, rd_ctr>>

read_lock_try(t) ==
  /\ pc[t] = "r_try"
  /\ atomic_add(-1)
  /\ Goto(t, IF Sign(value') = -1 THEN "r_undo" ELSE "r_load")
  /\ UNCHANGED <<ctr, tmp, wr_ctr, rd_ctr>>

read_lock_undo(t) ==
  /\ pc[t] = "r_undo"
  /\ atomic_add(1)
  /\ Goto(t, "r_try")
  /\ UNCHANGED <<ctr, tmp, wr_ctr, rd_ctr>>

\* read_unlock is the last call of thfunc's loop body.
read_unlock(t) ==
  /\ pc[t] = "r_unlock"
  /\ atomic_add(1)
  /\ ctr' = [ctr EXCEPT ![t] = @ + 1]
  /\ Goto(t, Start(ctr'[t]))
  /\ UNCHANGED <<tmp, wr_ctr, rd_ctr>>

\* Mutant: the value is the one in a register from before the lock was taken.
wr_load_cached(t) ==
  /\ pc[t] = "w_load"
  /\ Goto(t, "w_store")
  /\ UNCHANGED <<value, ctr, tmp, wr_ctr, rd_ctr>>

\* wr_ctr += 5 and rd_ctr += 5: a load, an addition in a register, a store.
wr_load(t) ==
  /\ pc[t] = "w_load"
  /\ tmp' = [tmp EXCEPT ![t] = wr_ctr]
  /\ Goto(t, "w_store")
  /\ UNCHANGED <<value, ctr, wr_ctr, rd_ctr>>

wr_store(t) ==
  /\ pc[t] = "w_store"
  /\ wr_ctr' = tmp[t] + 5
  /\ Goto(t, "w_unlock")
  /\ UNCHANGED <<value, ctr, tmp, rd_ctr>>

rd_load(t) ==
  /\ pc[t] = "r_load"
  /\ tmp' = [tmp EXCEPT ![t] = rd_ctr]
  /\ Goto(t, "r_store")
  /\ UNCHANGED <<value, ctr, wr_ctr, rd_ctr>>

rd_store(t) ==
  /\ pc[t] = "r_store"
  /\ rd_ctr' = tmp[t] + 5
  /\ Goto(t, "r_unlock")
  /\ UNCHANGED <<value, ctr, tmp, wr_ctr>>

\* main joins every thread, prints the counters and exits.
AllJoined == \A t \in Threads : pc[t] = "done"

joined == AllJoined /\ UNCHANGED vars

Step(t) == \/ write_lock_try(t) \/ write_lock_undo(t) \/ write_lock_spin(t)
           \/ write_unlock(t)
           \/ read_lock_try(t) \/ read_lock_undo(t) \/ read_unlock(t)
           \/ wr_load(t) \/ wr_store(t) \/ rd_load(t) \/ rd_store(t)

Next == (\E t \in Threads : Step(t)) \/ joined

Spec == Init /\ [][Next]_vars

\* Every thread is a kernel-scheduled pthread and sched_yield only gives the
\* processor away, so each thread keeps running: weak fairness per thread.
FairSpec == Spec /\ \A t \in Threads : WF_vars(Step(t))

-----------------------------------------------------------------------------
(***************************************************************************)
(* Properties                                                               *)
(***************************************************************************)
TypeOK == /\ value \in Int
          /\ pc \in [Threads -> PCs]
          /\ ctr \in [Threads -> Nat]
          /\ tmp \in [Threads -> Nat]
          /\ wr_ctr \in Nat
          /\ rd_ctr \in Nat

\* The counter accounts for every attempt in flight, failed ones included:
\* read_lock and write_lock never lose or double an undo.
CounterAccounts ==
  value = W * (1 - Cardinality(WritersIn)) - Cardinality(ReadersIn)

\* A thread that returned from write_lock shares the lock with nobody, however
\* many failed attempts of others are passing through the counter.
MutualExclusion ==
  \A t, u \in Threads :
    (t # u /\ HoldsWrite(t)) => ~HoldsWrite(u) /\ ~HoldsRead(u)

\* When thfunc stores wr_ctr the value it loaded is still current: no update
\* of wr_ctr is lost.
NoStaleWrite ==
  \A t \in Threads : pc[t] = "w_store" => tmp[t] = wr_ctr

\* What main prints as "should be", for the counter updated under write_lock.
WriteTotal == AllJoined => wr_ctr = 5 * Iters * Cardinality(Threads)

\* Neither the writers' back-off nor the readers' immediate retry can keep all
\* threads failing against each other for ever: pthread_join returns.
Termination == <>AllJoined

\* The code implements the one-step lock of RWLockAbstract.
Abs == INSTANCE RWLockAbstract WITH
         readers <- {t \in Threads : HoldsRead(t)},
         writers <- {t \in Threads : HoldsWrite(t)}

Refinement == Abs!Spec
=============================================================================
