--------------------------- MODULE PrivateMemory ----------------------------
(***************************************************************************)
(* What copy-on-write promises to the processes: every address space has    *)
(* contents of its own.  A page holds a value or is not there; a store      *)
(* changes one page of one space, a fork starts a space with exactly the    *)
(* contents another has at that moment, and nothing done in one space shows *)
(* in another.  A space starts in no other way while one is in use.         *)
(***************************************************************************)
EXTENDS Naturals

CONSTANTS Spaces, AllPages, Values, NoValue

VARIABLES val,     \* val[s][p], the contents of page p in space s
          used     \* the spaces that have processes

vars == <<val, used>>

Contents == [AllPages -> Values \cup {NoValue}]
Nothing  == [p \in AllPages |-> NoValue]

Init == val = [s \in Spaces |-> Nothing] /\ \E s \in Spaces : used = {s}

Store(s, p, v) == /\ s \in used
                  /\ val[s][p] # NoValue
                  /\ val' = [val EXCEPT ![s][p] = v]
                  /\ UNCHANGED used

\* Pages of a space in use that were not there appear, with any contents.
Appear(s) == /\ s \in used
             /\ \E c \in Contents : /\ \A p \in AllPages : val[s][p] # NoValue => c[p] = val[s][p]
                                   /\ val' = [val EXCEPT ![s] = c]
             /\ UNCHANGED used

\* Pages of a space in use go away.
Vanish(s) == /\ s \in used
             /\ \E gone \in SUBSET AllPages :
                  val' = [val EXCEPT ![s] = [p \in AllPages |-> IF p \in gone THEN NoValue ELSE @[p]]]
             /\ UNCHANGED used

\* The new space shows in every page what the old one does, and is empty where
\* the old one is.
Fork(s, t) == /\ s \in used /\ t \notin used
              /\ val' = [val EXCEPT ![t] = val[s]]
              /\ used' = used \cup {t}

\* The last process of a space is gone.
End(s) == /\ s \in used
          /\ val' = [val EXCEPT ![s] = Nothing]
          /\ used' = used \ {s}

\* The first space, empty.
Start(s) == used = {} /\ used' = {s} /\ UNCHANGED val

Next == \E s \in Spaces : \/ \E p \in AllPages, v \in Values : Store(s, p, v)
                          \/ Appear(s) \/ Vanish(s) \/ End(s) \/ Start(s)
                          \/ \E t \in Spaces : Fork(s, t)

Spec == Init /\ [][Next]_vars
=============================================================================
