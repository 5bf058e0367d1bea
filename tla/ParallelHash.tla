---------------------------- MODULE ParallelHash ----------------------------
(***************************************************************************)
(* The multi-threaded hash table of Assignment4/ass4/part-3                 *)
(* (parallel_hash.c, common.h, main.c).  Threads take operations from one   *)
(* input under the input lock; an operation waits while another thread      *)
(* processes an earlier one on the same key; the table is probed linearly   *)
(* with one lock per entry; a deleted entry keeps the mark id = -1.         *)
(*                                                                          *)
(* A critical section without a visible intermediate state is one step.     *)
(* The update of h->used is a step of its own, made with the entry locked,  *)
(* because insert_update reads h->used without a lock.                      *)
(***************************************************************************)
EXTENDS Integers, Sequences, FiniteSets, FiniteSetsExt

CONSTANTS NThreads,      \* num_threads, at most THREADS = 33
          Scanned,       \* slots of being_processed that read_op looks at: 32
          table_size,
          Half,          \* 2^32 in hashfunc
          Keys,          \* keys of the operations; 0 is the empty key
          Inputs         \* the operation sequences a run may be started with

ASSUME HashAssumption ==
  /\ NThreads \in Nat \ {0} /\ Scanned \in Nat
  /\ table_size \in Nat \ {0} /\ Half \in Nat \ {0}
  /\ Keys \subseteq Nat \ {0}

\* inputgen numbers the operations 1, 2, ... in the order it writes them, so
\* the id of an operation is its position.
ASSUME InputsAssumption ==
  Inputs \subseteq Seq([op_type : {"PUT", "GET", "DEL"}, key : Keys])

VARIABLES input, curr,       \* the input, and the next operation (in->curr)
          being_processed,   \* per thread the id of its registered operation
          op,                \* per thread the id in its op buffer
          pc,
          ctr, cnt,          \* the probe: entry index, "has moved" flag
          table, used,       \* the entries [key, id] and h->used
          result,            \* ret of each operation; for a GET the PUT it saw
          aborted            \* an assert has failed

probe == <<ctr, cnt>>
vars  == <<input, curr, being_processed, op, pc, probe, table, used, result, aborted>>

Threads == 1 .. NThreads
Entries == 0 .. table_size - 1
NoOp    == 0                 \* a NULL slot of being_processed
Pending == -2
Deleted == -1                \* (unsigned) -1
Empty   == [key |-> 0, id |-> 0]

PCs == {"read", "wait", "woken", "start", "probe", "count", "done_one", "exit"}

hashfunc(key) == ((key \div Half) + (key % Half)) % table_size

KeyOf(i) == input[i].key
TypeOf(i) == input[i].op_type

Goto(t, l) == pc' = [pc EXCEPT ![t] = l]

-----------------------------------------------------------------------------
\* init_input_manager, init_hashtable, and every thread at the top of process.
Init == /\ input \in Inputs
        /\ curr = 1
        /\ being_processed = [t \in Threads |-> NoOp]
        /\ op = [t \in Threads |-> NoOp]
        /\ pc = [t \in Threads |-> "read"]
        /\ ctr = [t \in Threads |-> 0]
        /\ cnt = [t \in Threads |-> 0]
        /\ table = [e \in Entries |-> Empty]
        /\ used = 0
        /\ result = [i \in DOMAIN input |-> Pending]
        /\ aborted = FALSE

\* Mutant: the slot of the last thread is not scanned.
Conflict_short(b, i) == \E u \in Threads : /\ u < Scanned
                                           /\ b[u] # NoOp
                                           /\ KeyOf(b[u]) = KeyOf(i)
                                           /\ b[u] < i

\* The scan over being_processed: some earlier operation on the key of i is
\* registered in a slot that is looked at.
Conflict(b, i) == \E u \in Threads : /\ u <= Scanned
                                     /\ b[u] # NoOp
                                     /\ KeyOf(b[u]) = KeyOf(i)
                                     /\ b[u] < i

\* At the end of the input (curr = size) the first check passes, the zeroes
\* after the end are read as an operation and the second check catches it.
read_op(t) ==
  /\ pc[t] = "read"
  /\ IF curr > Len(input)
     THEN /\ curr' = Len(input) + 2
          /\ Goto(t, "exit")
          /\ UNCHANGED <<being_processed, op>>
     ELSE /\ op' = [op EXCEPT ![t] = curr]
          /\ curr' = curr + 1
          /\ being_processed' = [being_processed EXCEPT ![t] = curr]
          /\ Goto(t, IF Conflict(being_processed', curr) THEN "wait" ELSE "start")
  /\ UNCHANGED <<input, probe, table, used, result, aborted>>

\* pthread_cond_wait returns after a broadcast: scan again.
recheck(t) ==
  /\ pc[t] = "woken"
  /\ Goto(t, IF Conflict(being_processed, op[t]) THEN "wait" ELSE "start")
  /\ UNCHANGED <<input, curr, being_processed, op, probe, table, used, result, aborted>>

\* pthread_cond_wait may also return for no reason.
spurious_wakeup(t) ==
  /\ pc[t] = "wait"
  /\ Goto(t, "woken")
  /\ UNCHANGED <<input, curr, being_processed, op, probe, table, used, result, aborted>>

\* Mutant: one entry is kept back.
start_early(t) ==
  /\ pc[t] = "start"
  /\ aborted' = (TypeOf(op[t]) = "PUT" /\ used + 1 >= table_size)
  /\ ctr' = [ctr EXCEPT ![t] = hashfunc(KeyOf(op[t]))]
  /\ cnt' = [cnt EXCEPT ![t] = 0]
  /\ Goto(t, "probe")
  /\ UNCHANGED <<input, curr, being_processed, op, table, used, result>>

\* The call of lookup, insert_update or purge_key up to the first entry lock.
\* insert_update asserts that the table has room.
start(t) ==
  /\ pc[t] = "start"
  /\ aborted' = (TypeOf(op[t]) = "PUT" /\ used >= table_size)
  /\ ctr' = [ctr EXCEPT ![t] = hashfunc(KeyOf(op[t]))]
  /\ cnt' = [cnt EXCEPT ![t] = 0]
  /\ Goto(t, "probe")
  /\ UNCHANGED <<input, curr, being_processed, op, table, used, result>>

Locked(e) == \E u \in Threads : pc[u] = "count" /\ ctr[u] = e

\* The condition of the while loop that the three operations share.
ProbeOn(t) ==
  LET e == table[ctr[t]]
      k == KeyOf(op[t])
  IN  /\ e.key # 0 \/ e.id = Deleted
      /\ e.key # k
      /\ ctr[t] # hashfunc(k) \/ cnt[t] = 0

probe_next(t) ==
  /\ pc[t] = "probe" /\ ~Locked(ctr[t])
  /\ ProbeOn(t)
  /\ ctr' = [ctr EXCEPT ![t] = (@ + 1) % table_size]
  /\ cnt' = [cnt EXCEPT ![t] = 1]
  /\ UNCHANGED <<input, curr, being_processed, op, pc, table, used, result, aborted>>

\* The loop has stopped at an entry, which is locked.
Found(t, type) == /\ pc[t] = "probe" /\ ~Locked(ctr[t])
                  /\ ~ProbeOn(t)
                  /\ TypeOf(op[t]) = type

KeyHere(t) == table[ctr[t]].key = KeyOf(op[t])

Return(t, r) == result' = [result EXCEPT ![op[t]] = r]

lookup(t) ==
  /\ Found(t, "GET")
  /\ Return(t, IF KeyHere(t) THEN table[ctr[t]].id ELSE -1)
  /\ Goto(t, "done_one")
  /\ UNCHANGED <<input, curr, being_processed, op, probe, table, used, aborted>>

\* Wrapping around to the first entry fails the assertion; otherwise an
\* update of the entry with the key, or a fresh insertion.
insert_update(t) ==
  /\ Found(t, "PUT")
  /\ IF ctr[t] = hashfunc(KeyOf(op[t])) /\ cnt[t] = 1
     THEN aborted' = TRUE /\ UNCHANGED <<table, result, pc>>
     ELSE /\ table' = [table EXCEPT ![ctr[t]] = [key |-> KeyOf(op[t]), id |-> op[t]]]
          /\ Return(t, 0)
          /\ Goto(t, IF KeyHere(t) THEN "done_one" ELSE "count")
          /\ UNCHANGED aborted
  /\ UNCHANGED <<input, curr, being_processed, op, probe, used>>

\* Mutant: the entry is emptied without the mark of a deleted one.
purge_key_unmarked(t) ==
  /\ Found(t, "DEL")
  /\ IF KeyHere(t)
     THEN /\ table' = [table EXCEPT ![ctr[t]] = Empty]
          /\ Return(t, 0)
          /\ Goto(t, "count")
     ELSE /\ Return(t, -1)
          /\ Goto(t, "done_one")
          /\ UNCHANGED table
  /\ UNCHANGED <<input, curr, being_processed, op, probe, used, aborted>>

purge_key(t) ==
  /\ Found(t, "DEL")
  /\ IF KeyHere(t)
     THEN /\ table' = [table EXCEPT ![ctr[t]] = [key |-> 0, id |-> Deleted]]
          /\ Return(t, 0)
          /\ Goto(t, "count")
     ELSE /\ Return(t, -1)
          /\ Goto(t, "done_one")
          /\ UNCHANGED table
  /\ UNCHANGED <<input, curr, being_processed, op, probe, used, aborted>>

\* atomic_add on h->used, then the unlock of the entry.
atomic_add(t) ==
  /\ pc[t] = "count"
  /\ used' = used + (IF TypeOf(op[t]) = "PUT" THEN 1 ELSE -1)
  /\ Goto(t, "done_one")
  /\ UNCHANGED <<input, curr, being_processed, op, probe, table, result, aborted>>

\* Mutant: no broadcast.
done_one_silent(t) ==
  /\ pc[t] = "done_one"
  /\ being_processed' = [being_processed EXCEPT ![t] = NoOp]
  /\ Goto(t, "read")
  /\ UNCHANGED <<input, curr, op, probe, table, used, result, aborted>>

\* The slot is cleared and every waiting thread woken; process then writes
\* the result and goes back to read_op.
done_one(t) ==
  /\ pc[t] = "done_one"
  /\ being_processed' = [being_processed EXCEPT ![t] = NoOp]
  /\ pc' = [u \in Threads |-> IF u = t THEN "read"
                              ELSE IF pc[u] = "wait" THEN "woken" ELSE pc[u]]
  /\ UNCHANGED <<input, curr, op, probe, table, used, result, aborted>>

Step(t) == /\ ~aborted
           /\ \/ read_op(t) \/ recheck(t) \/ start(t) \/ probe_next(t)
              \/ lookup(t) \/ insert_update(t) \/ purge_key(t)
              \/ atomic_add(t) \/ done_one(t)

AllDone == \A t \in Threads : pc[t] = "exit"

\* main joins the threads and dumps the table, or abort ends the process.
Ended == (AllDone \/ aborted) /\ UNCHANGED vars

Next == (\E t \in Threads : Step(t) \/ (~aborted /\ spurious_wakeup(t))) \/ Ended

Spec == Init /\ [][Next]_vars

\* Every thread is scheduled by the kernel; a thread blocked on a lock or the
\* condition variable has no enabled step; nobody may count on spurious wake-ups.
FairSpec == Spec /\ \A t \in Threads : WF_vars(Step(t))

-----------------------------------------------------------------------------
(***************************************************************************)
(* Properties                                                               *)
(***************************************************************************)
TypeOK == /\ input \in Inputs
          /\ curr \in 1 .. Len(input) + 2
          /\ being_processed \in [Threads -> 0 .. Len(input)]
          /\ op \in [Threads -> 0 .. Len(input)]
          /\ pc \in [Threads -> PCs]
          /\ ctr \in [Threads -> Entries]
          /\ cnt \in [Threads -> {0, 1}]
          /\ table \in [Entries -> [key : Keys \cup {0}, id : -1 .. Len(input)]]
          /\ used \in Nat
          /\ result \in [DOMAIN input -> -2 .. Len(input)]
          /\ aborted \in BOOLEAN

\* The entries from the hash of a key up to entry e.
PathTo(key, e) ==
  {d \in Entries : (d - hashfunc(key)) % table_size < (e - hashfunc(key)) % table_size}

\* The table the threads share is sound at every moment.  Every key in it is
\* found by probing, and is there once: no entry on its path is (again) empty,
\* whatever deletions and insertions of other keys overlapped with its own; and
\* used counts the keys, up to the updates in flight (dump_hash_table's assert).
TableSound ==
  LET counting(type) == Cardinality({t \in Threads : pc[t] = "count" /\ TypeOf(op[t]) = type})
      full == {e \in Entries : table[e].key # 0}
  IN  /\ TypeOK
      /\ \A e \in full : /\ \A d \in PathTo(table[e].key, e) : table[d] # Empty
                         /\ \A d \in full \ {e} : table[d].key # table[e].key
      /\ used = Cardinality(full) - counting("PUT") + counting("DEL")

\* The assertions of insert_update hold while the input has no more PUTs than
\* the table has entries, however the probes of the threads interleave.  More
\* PUTs can fail them with few live keys: deleted entries are not reused.
AssertsHold ==
  Cardinality({i \in DOMAIN input : TypeOf(i) = "PUT"}) <= table_size => ~aborted

Serial == INSTANCE SerialHash

\* The parallel program prints what the serial one prints: the same result for
\* every operation, the same count and the same keys with the same data, in
\* whatever entries the races between the threads have put them.
SameAsSerial ==
  LET s == Serial!Run(input)
  IN  AllDone /\ ~s.h.failed => /\ result = s.result
                               /\ used = s.h.used
                               /\ Serial!Contents(table) = Serial!Contents(s.h.table)

\* No lost wake-up and no cycle of waits: every operation is processed.
Termination == <>(AllDone \/ aborted)

\* Every operation returns what it returns when the operations on its key are
\* executed in the order of the input.
Abs == INSTANCE OrderedStore WITH
         store <- [k \in Keys |-> Max({0} \cup {table[e].id : e \in {d \in Entries : table[d].key = k}})]

SerialOrder == Abs!Spec
=============================================================================
