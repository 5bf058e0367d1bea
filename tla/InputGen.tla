------------------------------ MODULE InputGen ------------------------------
(***************************************************************************)
(* The input generator of Assignment4/ass4/part-3 (inputgen.c): which       *)
(* sequences of operations it can write.  It keeps the keys it has put, one *)
(* per fresh PUT; a random key is any key, one of these included.  The data *)
(* of a PUT and the readable copy of the file are left out.                 *)
(***************************************************************************)
EXTENDS Integers, Sequences, Functions

CONSTANTS Keys,              \* keys read_random_u64 can return (not 0)
          MANDATORY_PUTS,    \* 100
          max_unique,
          totalops

read_random_u64 == Keys

create_put(s, key)             == Append(s, [op_type |-> "PUT", key |-> key])
create_get_del(s, key, op_type) == Append(s, [op_type |-> op_type, key |-> key])

\* A generator has written the operations `ops' and remembers unique_keys.
Fresh(g) == {[ops |-> create_put(g.ops, key), unique_keys |-> Append(g.unique_keys, key)]
               : key \in read_random_u64}

\* The mandatory PUTs; the assertion admits as many as unique_keys has room for.
MandatoryPuts ==
  LET after[i \in 0 .. MANDATORY_PUTS] ==
        IF i = 0 THEN {[ops |-> <<>>, unique_keys |-> <<>>]}
        ELSE UNION {Fresh(g) : g \in {f \in after[i - 1] : Len(f.unique_keys) < max_unique}}
  IN  after[MANDATORY_PUTS]

\* One round of the main loop.  A fresh PUT must leave room in unique_keys, or
\* the assertion ends the program; the other operations take a key that was put
\* (overwrite and success) or a random one (fail).
OneOp(g) ==
  LET put == Range(g.unique_keys)
  IN  {f \in Fresh(g) : Len(f.unique_keys) < max_unique}
        \cup {[g EXCEPT !.ops = create_put(@, key)] : key \in put}
        \cup {[g EXCEPT !.ops = create_get_del(@, key, op_type)]
                : key \in put \cup read_random_u64, op_type \in {"GET", "DEL"}}

\* The inputs of a run of the generator.
Generated ==
  LET after[i \in MANDATORY_PUTS .. totalops] ==
        IF i = MANDATORY_PUTS THEN MandatoryPuts ELSE UNION {OneOp(g) : g \in after[i - 1]}
  IN  {g.ops : g \in after[totalops]}
=============================================================================
