------------------------------ MODULE BlockHash -----------------------------
(***************************************************************************)
(* The parallel block hash of Assignment4/ass4/part-1 (thread_func.c,       *)
(* main.c): threads take blocks of a file from a shared pointer under a     *)
(* mutex and store each block's hash, computed without the mutex, in the    *)
(* output slot taken with it.  Pointers are byte offsets into the file and  *)
(* indices of the output array.  A hash is the set of words it sums.        *)
(***************************************************************************)
EXTENDS Integers, FiniteSets

CONSTANTS Threads,
          Sizes,         \* file sizes a run may be started with
          BLOCK_SIZE,    \* 64
          WORD           \* sizeof(unsigned long)

ASSUME BlockAssumption == /\ WORD \in Nat \ {0} /\ BLOCK_SIZE \in Nat \ {0}
                          /\ BLOCK_SIZE % WORD = 0
                          /\ Sizes \subseteq Nat \ {0}      \* mmap refuses size 0

VARIABLES size,            \* endptr - buff
          lock,            \* the thread that holds the mutex, or Nobody
          dataptr, optr,   \* the shared pointers
          pc, cptr, chash, \* per thread: position, its block, its slot
          hashes           \* the output array

vars == <<size, lock, dataptr, optr, pc, cptr, chash, hashes>>

Nobody == "nobody"

\* main refuses a number of threads below 1.
ASSUME ThreadsAssumption == Threads # {} /\ Nobody \notin Threads

PCs    == {"lock", "check", "take_block", "take_slot", "unlock", "hash", "unlock_exit", "exit"}
Unset  == {-1}

\* main: one output slot per block, the last one perhaps partial.
hash_count == (size \div BLOCK_SIZE) + (IF size % BLOCK_SIZE # 0 THEN 1 ELSE 0)

Init == /\ size \in Sizes
        /\ lock = Nobody
        /\ dataptr = 0
        /\ optr = 0
        /\ pc = [t \in Threads |-> "lock"]
        /\ cptr = [t \in Threads |-> 0]
        /\ chash = [t \in Threads |-> 0]
        /\ hashes = [i \in 0 .. hash_count - 1 |-> Unset]

Goto(t, from, to) == pc[t] = from /\ pc' = [pc EXCEPT ![t] = to]

\* Mutant: no mutual exclusion.
mutex_lock_open(t) == /\ Goto(t, "lock", "check")
                      /\ lock' = t
                      /\ UNCHANGED <<size, dataptr, optr, cptr, chash, hashes>>

mutex_lock(t) == /\ Goto(t, "lock", "check")
                 /\ lock = Nobody
                 /\ lock' = t
                 /\ UNCHANGED <<size, dataptr, optr, cptr, chash, hashes>>

check(t) == /\ Goto(t, "check", IF dataptr >= size THEN "unlock_exit" ELSE "take_block")
            /\ UNCHANGED <<size, lock, dataptr, optr, cptr, chash, hashes>>

take_block(t) == /\ Goto(t, "take_block", "take_slot")
                 /\ cptr' = [cptr EXCEPT ![t] = dataptr]
                 /\ dataptr' = dataptr + BLOCK_SIZE
                 /\ UNCHANGED <<size, lock, optr, chash, hashes>>

take_slot(t) == /\ Goto(t, "take_slot", "unlock")
                /\ chash' = [chash EXCEPT ![t] = optr]
                /\ optr' = optr + 1
                /\ UNCHANGED <<size, lock, dataptr, cptr, hashes>>

\* Mutant: a thread that found no block tries again.
mutex_unlock_no_break(t) == /\ \/ Goto(t, "unlock", "hash")
                               \/ Goto(t, "unlock_exit", "lock")
                            /\ lock' = Nobody
                            /\ UNCHANGED <<size, dataptr, optr, cptr, chash, hashes>>

mutex_unlock(t) == /\ \/ Goto(t, "unlock", "hash")
                      \/ Goto(t, "unlock_exit", "exit")
                   /\ lock' = Nobody
                   /\ UNCHANGED <<size, dataptr, optr, cptr, chash, hashes>>

\* The words of a block that lie completely inside the file.
calculate_and_store_hash(ptr) ==
  {ptr + WORD * k : k \in {n \in 0 .. (BLOCK_SIZE \div WORD) - 1 : ptr + WORD * (n + 1) <= size}}

hash(t) == /\ Goto(t, "hash", "lock")
           /\ hashes' = [hashes EXCEPT ![chash[t]] = calculate_and_store_hash(cptr[t])]
           /\ UNCHANGED <<size, lock, dataptr, optr, cptr, chash>>

Step(t) == \/ mutex_lock(t) \/ check(t) \/ take_block(t) \/ take_slot(t)
           \/ mutex_unlock(t) \/ hash(t)

AllExited == \A t \in Threads : pc[t] = "exit"

joined == AllExited /\ UNCHANGED vars

Next == (\E t \in Threads : Step(t)) \/ joined

Spec == Init /\ [][Next]_vars

\* Threads are scheduled by the kernel.  The mutex need not be fair: a thread
\* that is passed over waits at most until the others have run out of blocks.
FairSpec == Spec /\ \A t \in Threads : WF_vars(Step(t))

-----------------------------------------------------------------------------
(***************************************************************************)
(* Properties                                                               *)
(***************************************************************************)
TypeOK == /\ size \in Sizes
          /\ lock \in Threads \cup {Nobody}
          /\ dataptr \in Nat /\ optr \in Nat
          /\ pc \in [Threads -> PCs]
          /\ cptr \in [Threads -> Nat]
          /\ chash \in [Threads -> Nat]
          /\ DOMAIN hashes = 0 .. hash_count - 1

\* No two threads ever hold the same slot, and none holds one outside the array.
OwnSlot ==
  \A t \in Threads : pc[t] = "hash" =>
       /\ chash[t] \in 0 .. hash_count - 1
       /\ \A u \in Threads \ {t} : pc[u] = "hash" => chash[u] # chash[t]

\* When main prints, slot i holds the hash of block i: together the slots cover
\* every whole word of the file, each once, and nothing behind its end.
BlocksCovered ==
  AllExited => \A i \in 0 .. hash_count - 1 :
     hashes[i] = {w \in 0 .. size - WORD : /\ w % WORD = 0
                                           /\ w \div BLOCK_SIZE = i
                                           /\ w + WORD <= size}

\* What the threads of thread_func write while they run without the mutex is
\* one slot per block, never shared, and in the end what one thread alone
\* would have written.
SerialHashes == TypeOK /\ OwnSlot /\ BlocksCovered

\* Every thread finishes.
Termination == <>AllExited
=============================================================================
