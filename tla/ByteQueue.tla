------------------------------ MODULE ByteQueue -----------------------------
(***************************************************************************)
(* What a pipe promises: a bounded first-in first-out queue of bytes.  A    *)
(* transfer takes place completely or not at all.                           *)
(***************************************************************************)
EXTENDS Integers, Sequences

CONSTANTS Bytes, Capacity

VARIABLES queue,    \* bytes sent and not yet received
          out       \* what the last receive delivered

Messages == UNION {[1 .. n -> Bytes] : n \in 0 .. Capacity}

Init == queue = <<>> /\ out = <<>>

Send(m) == /\ Len(queue) + Len(m) <= Capacity
           /\ queue' = queue \o m
           /\ UNCHANGED out

Receive(n) == /\ out' = SubSeq(queue, 1, n)
              /\ queue' = SubSeq(queue, n + 1, Len(queue))

Next == \/ \E m \in Messages : Send(m)
        \/ \E n \in 0 .. Len(queue) : Receive(n)

Spec == Init /\ [][Next]_<<queue, out>>
=============================================================================
