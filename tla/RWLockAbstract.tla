--------------------------- MODULE RWLockAbstract ---------------------------
(***************************************************************************)
(* What the reader-writer lock of Assignment4/ass4/part-2 promises its      *)
(* callers: any number of readers or one writer, with each acquisition and  *)
(* each release a single step.  RWLock shows that the counter-based code    *)
(* implements it.                                                           *)
(***************************************************************************)
CONSTANT Threads

VARIABLES readers,   \* threads that returned from read_lock, not yet released
          writers    \* threads that returned from write_lock, not yet released

vars == <<readers, writers>>

Init == readers = {} /\ writers = {}

\* write_lock may return only when nobody holds the lock.
AcquireWrite(t) == /\ readers = {} /\ writers = {}
                   /\ writers' = {t}
                   /\ UNCHANGED readers

ReleaseWrite(t) == /\ t \in writers
                   /\ writers' = writers \ {t}
                   /\ UNCHANGED readers

\* read_lock may return whenever no writer holds the lock.
AcquireRead(t) == /\ writers = {}
                  /\ t \notin readers
                  /\ readers' = readers \cup {t}
                  /\ UNCHANGED writers

ReleaseRead(t) == /\ t \in readers
                  /\ readers' = readers \ {t}
                  /\ UNCHANGED writers

Next == \E t \in Threads : \/ AcquireWrite(t) \/ ReleaseWrite(t)
                           \/ AcquireRead(t) \/ ReleaseRead(t)

Spec == Init /\ [][Next]_vars
=============================================================================
