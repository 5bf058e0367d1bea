----------------------------- MODULE SerialHash -----------------------------
(***************************************************************************)
(* The single-threaded hash table of Assignment4/ass4/part-3                *)
(* (serial_hash.c, common.h), the reference for the parallel one: the       *)
(* operations of an input are executed one after the other.  A table is a   *)
(* record; the data of an entry is represented by the id of the PUT that    *)
(* stored it.  `failed' stands for an assertion that failed.                *)
(***************************************************************************)
EXTENDS Integers, Sequences, FiniteSetsExt

CONSTANTS table_size,
          Half           \* 2^32 in hashfunc

Entries == 0 .. table_size - 1
Deleted == -1            \* (unsigned) -1
Empty   == [key |-> 0, id |-> 0]

hashfunc(key) == ((key \div Half) + (key % Half)) % table_size

init_hashtable == [table |-> [e \in Entries |-> Empty], used |-> 0, failed |-> FALSE]

\* Where the loop that the three operations share stops: at the key, at an entry
\* that was never used, or after a whole round at the entry it started from.
Stop(h, key) ==
  LET at(i) == (hashfunc(key) + i) % table_size
      stops(i) == \/ h.table[at(i)].key = 0 /\ h.table[at(i)].id # Deleted
                  \/ h.table[at(i)].key = key
                  \/ i = table_size
  IN  at(Min({i \in 0 .. table_size : stops(i)}))

\* Each operation gives its result and the table afterwards.
lookup(h, id, key) ==
  LET entry == h.table[Stop(h, key)]
  IN  [ret |-> IF entry.key = key THEN entry.id ELSE -1, h |-> h]

\* Besides a full table, a probe that ends right before its start fails an
\* assertion, unless it started at entry 0.
insert_update(h, id, key) ==
  LET e == Stop(h, key)
      fresh == h.table[e].key # key
  IN  [ret |-> 0,
       h |-> [table  |-> [h.table EXCEPT ![e] = [key |-> key, id |-> id]],
              used   |-> h.used + IF fresh THEN 1 ELSE 0,
              failed |-> \/ h.used >= table_size
                         \/ e = hashfunc(key) - 1
                         \/ fresh /\ h.table[e].key # 0]]

\* Mutant: the entry is emptied without the mark of a deleted one.
purge_key_unmarked(h, id, key) ==
  LET e == Stop(h, key)
  IN  IF h.table[e].key = key
      THEN [ret |-> 0, h |-> [h EXCEPT !.table[e] = Empty, !.used = @ - 1]]
      ELSE [ret |-> -1, h |-> h]

purge_key(h, id, key) ==
  LET e == Stop(h, key)
  IN  IF h.table[e].key = key
      THEN [ret |-> 0, h |-> [h EXCEPT !.table[e] = [key |-> 0, id |-> Deleted], !.used = @ - 1]]
      ELSE [ret |-> -1, h |-> h]

\* read_op: the operations in the order of the input, numbered from 1.
read_op(input, i) == [op_type |-> input[i].op_type, key |-> input[i].key, id |-> i]

process(h, op) == CASE op.op_type = "GET" -> lookup(h, op.id, op.key)
                    [] op.op_type = "PUT" -> insert_update(h, op.id, op.key)
                    [] op.op_type = "DEL" -> purge_key(h, op.id, op.key)

\* The results and the table when the input is processed; a failed assertion
\* ends the program.
Run(input) ==
  LET after[i \in 0 .. Len(input)] ==
        IF i = 0 THEN [result |-> <<>>, h |-> init_hashtable]
        ELSE IF after[i - 1].h.failed THEN after[i - 1]
        ELSE LET step == process(after[i - 1].h, read_op(input, i))
             IN  [result |-> Append(after[i - 1].result, step.ret), h |-> step.h]
  IN  after[Len(input)]

\* What a table holds: the PUT of every key in it.
Contents(table) == {table[e] : e \in {d \in Entries : table[d].key # 0}}
=============================================================================
