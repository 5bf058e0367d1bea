---------------------------- MODULE OrderedStore ----------------------------
(***************************************************************************)
(* What parallel_hash promises: a store of keys on which the operations of  *)
(* the input take effect one at a time, those on the same key in the order  *)
(* of the input, those on different keys in any order.                      *)
(***************************************************************************)
EXTENDS Integers, Sequences

CONSTANTS Keys, Inputs     \* Inputs: sequences of [op_type, key]

VARIABLES input,           \* the operations, numbered from 1
          store,           \* the number of the PUT a key holds, or 0
          result           \* what each operation returned, or Pending

Pending == -2

Init == /\ input \in Inputs
        /\ store = [k \in Keys |-> 0]
        /\ result = [i \in DOMAIN input |-> Pending]

\* GET yields the PUT it sees, or -1; DEL and PUT return 0, DEL of nothing -1.
TakeEffect(i) ==
  LET o == input[i]
  IN  /\ result[i] = Pending
      /\ \A j \in 1 .. i - 1 : input[j].key = o.key => result[j] # Pending
      /\ store' = [store EXCEPT ![o.key] =
                     CASE o.op_type = "PUT" -> i [] o.op_type = "DEL" -> 0 [] OTHER -> @]
      /\ result' = [result EXCEPT ![i] =
                     CASE o.op_type = "PUT" -> 0
                       [] o.op_type = "DEL" -> IF store[o.key] = 0 THEN -1 ELSE 0
                       [] OTHER -> IF store[o.key] = 0 THEN -1 ELSE store[o.key]]
      /\ UNCHANGED input

Next == \E i \in DOMAIN input : TakeEffect(i)

Spec == Init /\ [][Next]_<<input, store, result>>
=============================================================================
