--------------------------- MODULE SchedulerProofs --------------------------
(***************************************************************************)
(* Proofs about Scheduler, for a context table of any size, any arguments   *)
(* of sleep and any choice of the calls that create processes.              *)
(*                                                                          *)
(* That the slots agree with the processor (Placed) is kept whatever        *)
(* happens; that a vfork parent waits, that the slots in use are those of   *)
(* the living, and that only a waiting context has ticks left (Honest) is   *)
(* kept until an exit is misled, and needs Placed: IInv.                    *)
(***************************************************************************)
EXTENDS Scheduler, FiniteSetTheorems, WellFoundedInduction, TLAPS

\* The slots s agree with the context c that the processor has.
Placed(s, c) ==
  /\ s \in [Slots -> States]
  /\ c \in Slots \cup {NoProc}
  /\ \A p \in Slots : s[p] = "RUNNING" => c = p
  /\ c # NoProc => s[c] \in {"RUNNING", "READY"}
  /\ c = NoProc <=> \A p \in Procs : s[p] = "UNUSED"
  /\ s[0] \in {"READY", "RUNNING"}

\* The vfork parents vp wait in the slots s, each for one child and none for a
\* tick; ticks t are left only to those who wait; the slots in use are alive.
Honest(s, t, a, vp) ==
  /\ a = {p \in Procs : s[p] # "UNUSED"}
  /\ \A p \in Slots : t[p] > 0 => s[p] = "WAITING"
  /\ \A p \in Procs : vp[p] # 0 => s[vp[p]] = "WAITING" /\ t[vp[p]] = 0
  /\ \A p, q \in Procs : p # q /\ vp[p] # 0 => vp[p] # vp[q]

\* A context in use has a page table.
Paged(s, g) == \A p \in Procs : s[p] # "UNUSED" => g[p] # 0

IInv == /\ TypeOK
        /\ Placed(state, current)
        /\ Paged(state, pgd)
        /\ ~misled => Honest(state, ticks_to_sleep, alive, vparent)

-----------------------------------------------------------------------------
\* A non-empty set of naturals has a least element.
LEMMA Least ==
  ASSUME NEW S \in SUBSET Nat, S # {}
  PROVE  \E x \in S : \A y \in S : x <= y
<1>1. PICK x \in S : \A y \in S : ~(<<y, x>> \in OpToRel(<, Nat))
  BY NatLessThanWellFounded, WFMin
<1>2. \A y \in S : ~(y < x)
  BY <1>1, Zenon DEF OpToRel
<1> QED
  BY <1>2

\* A finite set of naturals lies below its MaxOf: a smallest subset without a
\* maximum would have one when an element is taken away.
LEMMA Bounded ==
  ASSUME NEW S \in SUBSET Nat, IsFiniteSet(S)
  PROVE  MaxOf(S) \in Nat /\ S \subseteq 0 .. MaxOf(S)
<1> DEFINE HasMax(T) == \E x \in T : \A y \in T : x >= y
           Bad == {n \in Nat : \E T \in SUBSET S : T # {} /\ Cardinality(T) = n /\ ~HasMax(T)}
<1>1. ASSUME Bad # {} PROVE FALSE
  <2>1. PICK n \in Bad : \A m \in Bad : n <= m
    BY <1>1, Least
  <2>2. PICK T \in SUBSET S : T # {} /\ Cardinality(T) = n /\ ~HasMax(T)
    BY <2>1
  <2>3. PICK x \in T : TRUE
    BY <2>2
  <2> DEFINE U == T \ {x}
  <2>4. IsFiniteSet(U) /\ Cardinality(U) = n - 1 /\ n - 1 \in Nat
    <3>1. IsFiniteSet(T)
      BY FS_Subset
    <3>2. IsFiniteSet(T \ {x}) /\ Cardinality(T \ {x}) = n - 1
      BY <2>2, <2>3, <3>1, FS_RemoveElement
    <3> QED BY <3>2, FS_CardinalityType
  <2>5. U # {} => HasMax(U)
    BY <2>1, <2>4
  <2>6. CASE U = {}
    <3>1. T = {x} /\ x \in Nat
      BY <2>3, <2>6
    <3> QED BY <2>2, <3>1
  <2>7. CASE U # {}
    <3>1. PICK y \in U : \A z \in U : y >= z
      BY <2>5, <2>7
    <3>2. x \in Nat /\ y \in Nat /\ (\A z \in T : z = x \/ z \in U)
      BY <3>1
    <3>3. CASE x >= y
      BY <2>2, <3>1, <3>2, <3>3
    <3>4. CASE ~(x >= y)
      BY <2>2, <3>1, <3>2, <3>4
    <3> QED BY <3>3, <3>4
  <2> QED BY <2>6, <2>7
<1>2. S # {} => HasMax(S)
  BY <1>1, FS_CardinalityType
<1>3. CASE S = {}
  BY <1>3 DEF MaxOf
<1>4. CASE S # {}
  <2>1. Max(S) \in S /\ \A y \in S : Max(S) >= y
    BY <1>2, <1>4 DEF Max
  <2> HIDE DEF HasMax, Bad
  <2>2. MaxOf(S) = Max(S)
    BY <1>4 DEF MaxOf
  <2> DEFINE m == Max(S)
  <2>3. m \in Nat /\ \A y \in S : y \in Nat /\ m >= y
    BY <2>1
  <2> HIDE DEF m
  <2> QED BY <2>2, <2>3 DEF m
<1> QED
  BY <1>3, <1>4

\* Slots are numbers, and the sleeping times are within the type.
LEMMA Numbers ==
  /\ Slots \subseteq Nat /\ Procs \subseteq Slots /\ 0 \in Slots /\ 0 \notin Procs
  /\ 1 \in Procs /\ NoProc \in Nat /\ NoProc \notin Slots
  /\ MaxOf(SleepTicks) \in Nat /\ SleepTicks \subseteq 0 .. MaxOf(SleepTicks)
<1>1. MaxOf(SleepTicks) \in Nat /\ SleepTicks \subseteq 0 .. MaxOf(SleepTicks)
  BY SchedAssumption, Bounded
<1> QED
  BY <1>1, SchedAssumption DEF Slots, Procs, NoProc

\* pick_next_context finds a READY process or falls back on the swapper.
LEMMA Picked ==
  ASSUME NEW s, NEW c \in Slots
  PROVE  \/ pick_next_context(s, c) = 0
         \/ pick_next_context(s, c) \in Procs /\ s[pick_next_context(s, c)] = "READY"
<1> DEFINE ready == {p \in Procs : s[p] = "READY"}
           distance(p) == IF p > c THEN p - c ELSE p - c + MAX_PROCESSES - 1
           D == {distance(p) : p \in ready}
<1>1. CASE ready = {}
  BY <1>1 DEF pick_next_context
<1>2. CASE ready # {}
  <2>1. D \in SUBSET Nat /\ D # {}
    BY <1>2, SchedAssumption DEF Procs, Slots
  <2>2. PICK x \in D : \A y \in D : x <= y
    BY <2>1, Least
  <2>3. PICK p \in ready : x = distance(p)
    BY <2>2
  <2>4. \A q \in ready : distance(p) <= distance(q)
    BY <2>2, <2>3
  <2>5. pick_next_context(s, c) = CHOOSE r \in ready : \A q \in ready : distance(r) <= distance(q)
    BY <1>2 DEF pick_next_context
  <2> HIDE DEF distance
  <2>6. pick_next_context(s, c) \in ready
    BY <2>3, <2>4, <2>5
  <2> QED BY <2>6
<1> QED
  BY <1>1, <1>2

\* Some page table is named by no context: there is one more than there are
\* slots to name them.
LEMMA SparePgd ==
  ASSUME NEW g \in [Slots -> 0 .. MAX_PROCESSES + 1]
  PROVE  Min({h \in 1 .. MAX_PROCESSES + 1 : \A q \in Slots : g[q] # h}) \in 1 .. MAX_PROCESSES + 1
<1> DEFINE H == 1 .. MAX_PROCESSES + 1
           S == {h \in H : \A q \in Slots : g[q] # h}
           f == [h \in H |-> CHOOSE q \in Slots : g[q] = h]
<1>1. S # {}
  <2>1. SUFFICES ASSUME S = {} PROVE FALSE
    OBVIOUS
  <2>2. \A h \in H : f[h] \in Slots /\ g[f[h]] = h
    BY <2>1
  <2>3. f \in [H -> Slots]
    BY <2>2
  <2>4. IsFiniteSet(H) /\ IsFiniteSet(Slots) /\ Cardinality(Slots) < Cardinality(H)
    BY SchedAssumption, FS_Interval DEF Slots
  <2> HIDE DEF f, H
  <2>5. \E x, y \in H : x # y /\ f[x] = f[y]
    BY <2>3, <2>4, FS_PigeonHole
  <2> QED BY <2>2, <2>5
<1>2. S \in SUBSET Nat
  BY SchedAssumption
<1>3. PICK x \in S : \A y \in S : x <= y
  BY <1>1, <1>2, Least
<1>4. Min(S) \in S
  BY <1>3 DEF Min
<1> QED
  BY <1>4

\* The page table NewPgd gives keeps the types.
LEMMA NewPgdType ==
  ASSUME TypeOK, NEW n \in Slots, NewPgd(n)
  PROVE  /\ pgd' \in [Slots -> 0 .. MAX_PROCESSES + 1] /\ freed' \subseteq 1 .. MAX_PROCESSES + 1
         /\ \A q \in Slots : pgd'[q] # 0 <=> q = n \/ pgd[q] # 0
<1> DEFINE m == Min({h \in 1 .. MAX_PROCESSES + 1 : \A q \in Slots : pgd[q] # h})
<1>1. m \in 1 .. MAX_PROCESSES + 1
  BY SparePgd DEF TypeOK
<1>2. PICK g \in freed \cup {m} : pgd' = [pgd EXCEPT ![n] = g] /\ freed' = freed \ {g}
  BY DEF NewPgd
<1> HIDE DEF m
<1> QED
  BY <1>1, <1>2, SchedAssumption DEF TypeOK

\* get_new_ctx returns a slot that is not in use.
LEMMA NewSlot ==
  ASSUME TypeOK, Placed(state, current), Unused # {}
  PROVE  NewCtx \in Procs /\ state[NewCtx] = "UNUSED"
<1>1. Unused \in SUBSET Nat
  BY Numbers DEF Unused
<1>2. PICK x \in Unused : \A y \in Unused : x <= y
  BY <1>1, Least
<1>3. NewCtx \in Unused
  BY <1>2 DEF NewCtx, Min
<1> QED
  BY <1>3 DEF Unused, Placed, Procs

-----------------------------------------------------------------------------
\* Giving the processor to the context that pick_next_context finds, when no
\* other is RUNNING any more, leaves the slots and the processor in agreement.
LEMMA Scheduled ==
  ASSUME NEW s \in [Slots -> States], NEW c \in Slots,
         \A p \in Slots : s[p] # "RUNNING",
         s[0] = "READY", \E p \in Procs : s[p] # "UNUSED",
         schedule(s, pick_next_context(s, c))
  PROVE  /\ Placed(state', current')
         /\ \A p \in Slots : /\ state'[p] = "UNUSED" <=> s[p] = "UNUSED"
                             /\ state'[p] = "WAITING" <=> s[p] = "WAITING"
<1> DEFINE n == pick_next_context(s, c)
<1>1. n \in Slots /\ s[n] = "READY" /\ n # NoProc
  BY Picked, Numbers
<1>2. state' = [s EXCEPT ![n] = "RUNNING"] /\ current' = n
  BY DEF schedule
<1> HIDE DEF n
<1>3. \A p \in Slots : state'[p] = IF p = n THEN "RUNNING" ELSE s[p]
  BY <1>1, <1>2
<1>4. state' \in [Slots -> States]
  BY <1>1, <1>2 DEF States
<1> QED
  BY <1>1, <1>2, <1>3, <1>4, Numbers DEF Placed

\* The tick.
LEMMA TickStep ==
  ASSUME IInv, handle_timer_tick
  PROVE  IInv'
<1> DEFINE s == [p \in Slots |-> IF p = current \/ (Sleeping(p) /\ ticks_to_sleep[p] = 1)
                                 THEN "READY" ELSE state[p]]
           n == pick_next_context(s, current)
<1> USE Numbers
<1>1. /\ current \in Slots /\ current # NoProc
      /\ ticks_to_sleep' = [p \in Slots |-> IF Sleeping(p) THEN ticks_to_sleep[p] - 1 ELSE ticks_to_sleep[p]]
      /\ UNCHANGED <<ppid, pgd, alive, vparent, freed, misled, crashed>>
      /\ IF n = current THEN state' = s /\ UNCHANGED current ELSE schedule(s, n)
  BY DEF handle_timer_tick, account, IInv, TypeOK
<1>2. /\ s \in [Slots -> States] /\ \A p \in Slots : s[p] # "RUNNING"
      /\ s[0] = "READY" /\ s[current] = "READY"
      /\ \A p \in Slots : s[p] = "UNUSED" <=> state[p] = "UNUSED"
      /\ \A p \in Slots : state[p] = "WAITING" /\ ticks_to_sleep[p] # 1 => s[p] = "WAITING"
  BY <1>1 DEF IInv, TypeOK, Placed, States, Sleeping
<1>3. \E p \in Procs : s[p] # "UNUSED"
  BY <1>1, <1>2 DEF IInv, Placed
<1>4. /\ Placed(state', current')
      /\ \A p \in Slots : /\ state'[p] = "UNUSED" <=> s[p] = "UNUSED"
                          /\ state'[p] = "WAITING" <=> s[p] = "WAITING"
  <2>1. CASE n = current
    BY <1>1, <1>2, <1>3, <2>1 DEF Placed
  <2>2. CASE n # current
    <3> HIDE DEF s
    <3> QED BY <1>1, <1>2, <1>3, <2>2, Scheduled
  <2> QED BY <2>1, <2>2
<1>5. ticks_to_sleep' \in [Slots -> 0 .. MaxOf(SleepTicks)]
  BY <1>1 DEF IInv, TypeOK, Sleeping
<1>6. TypeOK'
  BY <1>1, <1>4, <1>5 DEF IInv, TypeOK, Placed
<1>7. ASSUME ~misled' PROVE Honest(state', ticks_to_sleep', alive', vparent')
  <2> HIDE DEF s, n
  <2>1. Honest(state, ticks_to_sleep, alive, vparent)
    BY <1>1, <1>7 DEF IInv
  <2>2. \A p \in Slots : ticks_to_sleep[p] \in Nat
    BY DEF IInv, TypeOK
  <2>3. \A p \in Slots : state'[p] = "UNUSED" <=> state[p] = "UNUSED"
    BY <1>2, <1>4
  <2>4. \A p \in Slots : ticks_to_sleep'[p] > 0 => state'[p] = "WAITING"
    BY <1>1, <1>2, <1>4, <2>1, <2>2 DEF Honest, Sleeping
  <2>5. \A p \in Slots : state[p] = "WAITING" /\ ticks_to_sleep[p] = 0
                          => state'[p] = "WAITING" /\ ticks_to_sleep'[p] = 0
    BY <1>1, <1>2, <1>4 DEF Sleeping
  <2>6. \A p \in Procs : vparent[p] \in Slots
    BY DEF IInv, TypeOK
  <2> QED BY <1>1, <2>1, <2>3, <2>4, <2>5, <2>6 DEF Honest
<1>8. Paged(state', pgd')
  BY <1>1, <1>2, <1>4 DEF IInv, Paged
<1> QED
  BY <1>4, <1>6, <1>7, <1>8 DEF IInv

\* sleep.
LEMMA SleepStep ==
  ASSUME IInv, NEW p \in Procs, NEW t \in SleepTicks, do_sleep(p, t)
  PROVE  IInv'
<1> USE Numbers
<1> DEFINE s == [state EXCEPT ![p] = "WAITING"]
<1>1. /\ current = p
      /\ ticks_to_sleep' = [ticks_to_sleep EXCEPT ![p] = t]
      /\ schedule(s, pick_next_context(s, p))
      /\ UNCHANGED <<ppid, pgd, alive, vparent, freed, misled, crashed>>
  BY DEF do_sleep, Running
<1>2. /\ s \in [Slots -> States] /\ \A q \in Slots : s[q] # "RUNNING"
      /\ s[0] = "READY" /\ s[p] = "WAITING"
      /\ \A q \in Slots : q # p => s[q] = state[q]
  BY <1>1 DEF IInv, TypeOK, Placed, States
<1>3. state[p] \in {"RUNNING", "READY"}
  BY <1>1 DEF IInv, Placed
<1> HIDE DEF s
<1>4. /\ Placed(state', current')
      /\ \A q \in Slots : /\ state'[q] = "UNUSED" <=> s[q] = "UNUSED"
                          /\ state'[q] = "WAITING" <=> s[q] = "WAITING"
  BY <1>1, <1>2, Scheduled
<1>5. ticks_to_sleep' \in [Slots -> 0 .. MaxOf(SleepTicks)]
  BY <1>1 DEF IInv, TypeOK
<1>6. TypeOK'
  BY <1>1, <1>4, <1>5 DEF IInv, TypeOK, Placed
<1>7. ASSUME ~misled' PROVE Honest(state', ticks_to_sleep', alive', vparent')
  <2>1. Honest(state, ticks_to_sleep, alive, vparent)
    BY <1>1, <1>7 DEF IInv
  <2>2. /\ \A q \in Slots : state'[q] = "UNUSED" <=> state[q] = "UNUSED"
        /\ \A q \in Slots : state[q] = "WAITING" => q # p /\ state'[q] = "WAITING"
        /\ \A q \in Slots : q # p => ticks_to_sleep'[q] = ticks_to_sleep[q]
        /\ state'[p] = "WAITING"
    BY <1>1, <1>2, <1>3, <1>4 DEF IInv, TypeOK
  <2>3. \A q \in Procs : vparent[q] \in Slots
    BY DEF IInv, TypeOK
  <2>4. \A q \in Procs : vparent[q] # 0 => vparent[q] # p /\ vparent[q] \in Slots
    BY <2>1, <2>2, <2>3 DEF Honest
  <2>5. \A q \in Procs : vparent[q] # 0
                          => state'[vparent[q]] = "WAITING" /\ ticks_to_sleep'[vparent[q]] = 0
    BY <2>1, <2>2, <2>4 DEF Honest
  <2>6. \A q \in Slots : ticks_to_sleep'[q] > 0 => state'[q] = "WAITING"
    BY <2>1, <2>2 DEF Honest
  <2>7. alive = {q \in Procs : state'[q] # "UNUSED"}
    BY <2>1, <2>2 DEF Honest
  <2> QED BY <1>1, <2>1, <2>5, <2>6, <2>7 DEF Honest
<1>8. Paged(state', pgd')
  BY <1>1, <1>2, <1>3, <1>4 DEF IInv, Paged
<1> QED
  BY <1>4, <1>6, <1>7, <1>8 DEF IInv

\* exit, also when it is misled.
LEMMA ExitStep ==
  ASSUME IInv, NEW p \in Procs, do_exit(p)
  PROVE  IInv'
<1> USE Numbers
<1> DEFINE v == vfork_exit_handle(p)
           s == [v EXCEPT ![p] = "UNUSED"]
<1>1. /\ current = p /\ current # NoProc
      /\ IF \A q \in Procs : s[q] = "UNUSED"
         THEN do_cleanup(s, p)
         ELSE schedule(s, pick_next_context(s, p)) /\ UNCHANGED freed
      /\ alive' = alive \ {p}
      /\ vparent' = [vparent EXCEPT ![p] = 0]
      /\ misled' = (misled \/ Misled(p))
      /\ UNCHANGED <<ppid, pgd, ticks_to_sleep, crashed>>
  BY DEF do_exit, Running
<1>2. ppid[p] \in Slots /\ state[p] \in {"RUNNING", "READY"} /\ state[0] = "READY"
  BY <1>1 DEF IInv, TypeOK, Placed
<1>3. /\ v \in [Slots -> States]
      /\ \A q \in Slots : v[q] = IF q = ppid[p] /\ pgd[ppid[p]] = pgd[p] THEN "READY" ELSE state[q]
  BY <1>2 DEF vfork_exit_handle, IInv, TypeOK, States
<1> HIDE DEF v
<1>4. /\ s \in [Slots -> States]
      /\ \A q \in Slots : s[q] = IF q = p THEN "UNUSED" ELSE v[q]
  BY <1>3 DEF States
<1> HIDE DEF s
<1>5. /\ \A q \in Slots : s[q] # "RUNNING"
      /\ s[0] = "READY"
  BY <1>1, <1>2, <1>3, <1>4 DEF IInv, Placed
<1>6. /\ Placed(state', current')
      /\ \A q \in Slots : /\ state'[q] = "UNUSED" <=> s[q] = "UNUSED"
                          /\ state'[q] = "WAITING" <=> s[q] = "WAITING"
  <2>1. CASE \A q \in Procs : s[q] = "UNUSED"
    BY <1>1, <1>4, <1>5, <2>1 DEF do_cleanup, Placed
  <2>2. CASE \E q \in Procs : s[q] # "UNUSED"
    BY <1>1, <1>4, <1>5, <2>2, Scheduled
  <2> QED BY <2>1, <2>2
<1>7. TypeOK'
  <2>1. vparent' \in [Slots -> Slots] /\ alive' \subseteq Procs
    BY <1>1 DEF IInv, TypeOK
  <2>2. misled' \in BOOLEAN
    BY <1>1 DEF Misled, IInv, TypeOK
  <2>3. freed' \subseteq 1 .. MAX_PROCESSES + 1
    <3>1. pgd[p] \in 1 .. MAX_PROCESSES + 1
      BY <1>2, SchedAssumption DEF IInv, TypeOK, Paged
    <3>2. freed \subseteq 1 .. MAX_PROCESSES + 1
      BY DEF IInv, TypeOK
    <3> QED BY <1>1, <3>1, <3>2 DEF do_cleanup
  <2> QED BY <1>1, <1>6, <2>1, <2>2, <2>3 DEF IInv, TypeOK, Placed
<1>8. ASSUME ~misled' PROVE Honest(state', ticks_to_sleep', alive', vparent')
  <2>1. /\ Honest(state, ticks_to_sleep, alive, vparent)
        /\ pgd[ppid[p]] = pgd[p] => ppid[p] = vparent[p]
    BY <1>1, <1>8 DEF IInv, Misled
  <2>2. /\ \A q \in Procs : vparent[q] \in Slots
        /\ \A q \in Procs : vparent'[q] = IF q = p THEN 0 ELSE vparent[q]
        /\ \A q \in Slots : ticks_to_sleep[q] \in Nat
    BY <1>1 DEF IInv, TypeOK
  <2>3. \A q \in Slots : v[q] = IF vparent[p] = q /\ q # 0 /\ ppid[p] = q /\ pgd[q] = pgd[p]
                                 THEN "READY" ELSE state[q]
    BY <1>2, <1>3, <2>1
  <2>4. \A q \in Procs : q # p /\ vparent[q] # 0 => vparent[q] # vparent[p] /\ vparent[q] # p
    BY <1>2, <2>1, <2>2 DEF Honest
  <2>5. \A q \in Slots \ {p} : v[q] = "UNUSED" <=> state[q] = "UNUSED"
    BY <2>1, <2>3 DEF Honest
  <2>6. alive' = {q \in Procs : state'[q] # "UNUSED"}
    <3>1. \A q \in Procs : state'[q] # "UNUSED" <=> q # p /\ state[q] # "UNUSED"
      BY <1>4, <1>6, <2>5
    <3>2. alive = {q \in Procs : state[q] # "UNUSED"}
      BY <2>1 DEF Honest
    <3> QED BY <1>1, <3>1, <3>2
  <2>7. \A q \in Slots : ticks_to_sleep[q] > 0 => state'[q] = "WAITING"
    BY <1>2, <1>4, <1>6, <2>1, <2>3 DEF Honest
  <2>8. \A q \in Procs : vparent'[q] # 0 => state'[vparent'[q]] = "WAITING" /\ ticks_to_sleep[vparent'[q]] = 0
    <3>1. ASSUME NEW q \in Procs, q # p, vparent[q] # 0
          PROVE  state'[vparent[q]] = "WAITING" /\ ticks_to_sleep[vparent[q]] = 0
      <4>1. state[vparent[q]] = "WAITING" /\ ticks_to_sleep[vparent[q]] = 0 /\ vparent[q] \in Slots
        BY <2>1, <2>2, <3>1 DEF Honest
      <4>2. v[vparent[q]] = "WAITING" /\ vparent[q] # p
        BY <2>3, <2>4, <3>1, <4>1
      <4> QED BY <1>4, <1>6, <4>1, <4>2
    <3> QED BY <2>2, <3>1
  <2>9. \A q, r \in Procs : q # r /\ vparent'[q] # 0 => vparent'[q] # vparent'[r]
    BY <2>1, <2>2 DEF Honest
  <2> QED BY <1>1, <2>6, <2>7, <2>8, <2>9 DEF Honest
<1>9. Paged(state', pgd')
  <2>1. \A q \in Procs : state'[q] # "UNUSED" => v[q] # "UNUSED"
    BY <1>4, <1>6
  <2>2. \A q \in Procs : v[q] # "UNUSED" => pgd[q] # 0
    BY <1>2, <1>3 DEF IInv, Paged
  <2> QED BY <1>1, <2>1, <2>2 DEF Paged
<1> QED
  BY <1>6, <1>7, <1>8, <1>9 DEF IInv

\* The first process is started again.
LEMMA ExecInitStep ==
  ASSUME IInv, exec_init
  PROVE  IInv'
<1> USE Numbers
<1>1. /\ current = NoProc
      /\ state' = [state EXCEPT ![1] = "RUNNING"]
      /\ current' = 1 /\ NewPgd(1) /\ alive' = {1}
      /\ UNCHANGED <<ppid, ticks_to_sleep, vparent, misled, crashed>>
  BY DEF exec_init
<1>2. /\ \A q \in Procs : state[q] = "UNUSED"
      /\ state \in [Slots -> States] /\ state[0] = "READY"
  BY <1>1 DEF IInv, Placed
<1>3. /\ pgd' \in [Slots -> 0 .. MAX_PROCESSES + 1] /\ freed' \subseteq 1 .. MAX_PROCESSES + 1
      /\ pgd'[1] # 0
  BY <1>1, NewPgdType DEF IInv
<1>4. /\ state' \in [Slots -> States]
      /\ \A q \in Slots : state'[q] = IF q = 1 THEN "RUNNING" ELSE state[q]
  BY <1>1, <1>2 DEF States
<1>5. \A q \in Slots : q = 0 \/ q \in Procs
  BY DEF Procs
<1>6. Placed(state', current')
  BY <1>1, <1>2, <1>4, <1>5 DEF Placed
<1>7. TypeOK'
  BY <1>1, <1>3, <1>4 DEF IInv, TypeOK
<1>8. ASSUME ~misled' PROVE Honest(state', ticks_to_sleep', alive', vparent')
  <2>1. Honest(state, ticks_to_sleep, alive, vparent)
    BY <1>1, <1>8 DEF IInv
  <2>2. \A q \in Procs : vparent[q] \in Slots
    BY DEF IInv, TypeOK
  <2>3. /\ \A q \in Procs : vparent[q] = 0
        /\ \A q \in Slots : ~(ticks_to_sleep[q] > 0)
    BY <1>2, <1>5, <2>1, <2>2 DEF Honest
  <2>4. alive' = {q \in Procs : state'[q] # "UNUSED"}
    BY <1>1, <1>2, <1>4
  <2> QED BY <1>1, <2>3, <2>4 DEF Honest
<1>9. Paged(state', pgd')
  BY <1>2, <1>3, <1>4 DEF Paged
<1> QED
  BY <1>6, <1>7, <1>8, <1>9 DEF IInv

-----------------------------------------------------------------------------
\* What fork, vfork and clone have in common: a context that is READY, or
\* RUNNING in the place of its parent, in a slot that was not in use.
LEMMA CreateStep ==
  ASSUME IInv, NEW p \in Procs, current = p, NEW n, n = NewCtx, Unused # {},
         NEW w \in {"READY", "RUNNING"}, NEW vp,
         w = "READY" => vp = 0 /\ state' = [state EXCEPT ![n] = "READY"] /\ current' = p,
         w = "RUNNING" => vp = p /\ schedule([state EXCEPT ![p] = "WAITING"], n),
         CopyTicks(n, p),
         vparent' = [vparent EXCEPT ![n] = vp],
         alive' = alive \cup {n},
         ppid' \in [Slots -> Slots],
         pgd' \in [Slots -> 0 .. MAX_PROCESSES + 1], freed' \subseteq 1 .. MAX_PROCESSES + 1,
         pgd'[n] # 0, \A q \in Slots : pgd[q] # 0 => pgd'[q] # 0,
         UNCHANGED <<misled, crashed>>
  PROVE  IInv'
<1> USE Numbers
<1>1. n \in Procs /\ state[n] = "UNUSED"
  BY NewSlot DEF IInv
<1>2. state[p] \in {"RUNNING", "READY"} /\ n # p /\ vp \in Slots /\ p # NoProc
  BY <1>1 DEF IInv, Placed
<1>3. /\ state' \in [Slots -> States]
      /\ \A q \in Slots : state'[q] = IF q = n THEN w
                                      ELSE IF q = p /\ w = "RUNNING" THEN "WAITING" ELSE state[q]
      /\ current' = IF w = "RUNNING" THEN n ELSE p
  <2>1. CASE w = "READY"
    BY <1>1, <2>1 DEF IInv, TypeOK, States
  <2>2. CASE w = "RUNNING"
    BY <1>1, <1>2, <2>2 DEF IInv, TypeOK, States, schedule
  <2> QED BY <2>1, <2>2
<1>4. Placed(state', current')
  <2>1. \A q \in Slots : state[q] = "RUNNING" => q = p
    BY DEF IInv, Placed
  <2>2. state'[0] \in {"READY", "RUNNING"}
    BY <1>1, <1>3 DEF IInv, Placed
  <2>3. \A q \in Slots : state'[q] = "RUNNING" => current' = q
    BY <1>1, <1>2, <1>3, <2>1
  <2> QED BY <1>1, <1>2, <1>3, <2>2, <2>3 DEF Placed
<1>5. /\ ticks_to_sleep' \in [Slots -> 0 .. MaxOf(SleepTicks)]
      /\ \A q \in Slots : ticks_to_sleep'[q] = IF q = n THEN ticks_to_sleep[p] ELSE ticks_to_sleep[q]
      /\ vparent' \in [Slots -> Slots]
      /\ \A q \in Slots : vparent'[q] = IF q = n THEN vp ELSE vparent[q]
      /\ \A q \in Slots : vparent[q] \in Slots
  BY <1>1, <1>2 DEF CopyTicks, IInv, TypeOK
<1>6. TypeOK'
  BY <1>1, <1>4, <1>5 DEF IInv, TypeOK, Placed
<1>7. ASSUME ~misled' PROVE Honest(state', ticks_to_sleep', alive', vparent')
  <2>1. Honest(state, ticks_to_sleep, alive, vparent)
    BY <1>7 DEF IInv
  <2>2. ~(ticks_to_sleep[p] > 0) /\ ticks_to_sleep[p] = 0
    BY <1>2, <2>1 DEF Honest, IInv, TypeOK
  <2>3. \A q \in Procs : vparent[q] # p /\ vparent[q] # n
    BY <1>1, <1>2, <2>1 DEF Honest
  <2>4. alive' = {q \in Procs : state'[q] # "UNUSED"}
    BY <1>1, <1>2, <1>3, <2>1 DEF Honest
  <2>5. \A q \in Slots : ticks_to_sleep'[q] > 0 => state'[q] = "WAITING"
    BY <1>1, <1>2, <1>3, <1>5, <2>1, <2>2 DEF Honest
  <2>6. \A q \in Procs : vparent'[q] # 0 => state'[vparent'[q]] = "WAITING" /\ ticks_to_sleep'[vparent'[q]] = 0
    <3>1. ASSUME NEW q \in Procs, vparent'[q] # 0
          PROVE  state'[vparent'[q]] = "WAITING" /\ ticks_to_sleep'[vparent'[q]] = 0
      <4>1. CASE q = n
        <5>1. vparent'[q] = vp /\ vp = p /\ w = "RUNNING" /\ p \in Slots
          BY <1>1, <1>5, <3>1, <4>1
        <5> QED BY <1>2, <1>3, <1>5, <2>2, <5>1
      <4>2. CASE q # n
        <5>1. vparent'[q] = vparent[q] /\ vparent[q] \in Slots /\ vparent[q] # p /\ vparent[q] # n
          BY <1>5, <2>3, <4>2
        <5>2. state[vparent[q]] = "WAITING" /\ ticks_to_sleep[vparent[q]] = 0
          BY <2>1, <3>1, <5>1 DEF Honest
        <5>3. /\ state'[vparent[q]] = state[vparent[q]]
              /\ ticks_to_sleep'[vparent[q]] = ticks_to_sleep[vparent[q]]
          BY <1>3, <1>5, <5>1
        <5> QED BY <5>1, <5>2, <5>3
      <4> QED BY <4>1, <4>2
    <3> QED BY <3>1
  <2>7. \A q, r \in Procs : q # r /\ vparent'[q] # 0 => vparent'[q] # vparent'[r]
    BY <1>5, <2>1, <2>3 DEF Honest
  <2> QED BY <2>4, <2>5, <2>6, <2>7 DEF Honest
<1>8. Paged(state', pgd')
  BY <1>2, <1>3 DEF IInv, Paged
<1> QED
  BY <1>4, <1>6, <1>7, <1>8 DEF IInv

-----------------------------------------------------------------------------
\* The table is empty but for the first process.
LEMMA InitIInv == Init => IInv
<1> SUFFICES ASSUME Init PROVE IInv
  OBVIOUS
<1> USE Numbers, SchedAssumption
<1>1. TypeOK
  <2>1. /\ ticks_to_sleep \in [Slots -> 0 .. MaxOf(SleepTicks)]
        /\ pgd \in [Slots -> 0 .. MAX_PROCESSES + 1]
    BY DEF Init
  <2>2. state \in [Slots -> States] /\ ppid \in [Slots -> Slots] /\ vparent \in [Slots -> Slots]
    BY DEF Init, States
  <2> QED BY <2>1, <2>2 DEF Init, TypeOK
<1>2. Placed(state, current)
  BY DEF Init, Placed, States, Slots
<1>3. Honest(state, ticks_to_sleep, alive, vparent)
  BY DEF Init, Honest, Slots, Procs
<1>4. Paged(state, pgd)
  BY DEF Init, Paged, Slots, Procs
<1> QED
  BY <1>1, <1>2, <1>3, <1>4 DEF IInv

\* IInv holds in every state, for every size of the table.
THEOREM Inductive == Spec => []IInv
<1>1. IInv /\ [Next]_vars => IInv'
  <2> SUFFICES ASSUME IInv, [Next]_vars PROVE IInv'
    OBVIOUS
  <2>1. CASE UNCHANGED vars
    BY <2>1 DEF vars, ctx, IInv, TypeOK
  <2>2. CASE handle_timer_tick
    BY <2>2, TickStep
  <2>3. CASE exec_init
    BY <2>3, ExecInitStep
  <2>4. ASSUME NEW p \in Procs, NEW t \in SleepTicks, do_sleep(p, t) PROVE IInv'
    BY <2>4, SleepStep
  <2>5. ASSUME NEW p \in Procs, do_exit(p) PROVE IInv'
    BY <2>5, ExitStep
  <2>6. ASSUME NEW p \in Procs, TableFull(p) PROVE IInv'
    BY <2>6 DEF TableFull, ctx, IInv, TypeOK
  <2>7. ASSUME NEW p \in Procs, do_fork(p) PROVE IInv'
    <3>1. NewCtx \in Slots /\ p \in Slots
      BY <2>7, NewSlot, Numbers DEF do_fork, IInv
    <3>2. /\ pgd' \in [Slots -> 0 .. MAX_PROCESSES + 1] /\ freed' \subseteq 1 .. MAX_PROCESSES + 1
          /\ pgd'[NewCtx] # 0 /\ \A q \in Slots : pgd[q] # 0 => pgd'[q] # 0
      BY <2>7, <3>1, NewPgdType DEF do_fork, IInv
    <3>3. ppid' \in [Slots -> Slots]
      BY <2>7, <3>1 DEF do_fork, IInv, TypeOK
    <3>4. /\ current = p /\ Unused # {} /\ state' = [state EXCEPT ![NewCtx] = "READY"] /\ current' = p
          /\ CopyTicks(NewCtx, p) /\ vparent' = [vparent EXCEPT ![NewCtx] = 0]
          /\ alive' = alive \cup {NewCtx} /\ UNCHANGED <<misled, crashed>>
      BY <2>7 DEF do_fork, Running
    <3> QED BY <3>2, <3>3, <3>4, CreateStep
  <2>8. ASSUME NEW p \in Procs, do_vfork(p) PROVE IInv'
    <3>1. NewCtx \in Slots /\ p \in Slots
      BY <2>8, NewSlot, Numbers DEF do_vfork, IInv
    <3>2. /\ pgd' \in [Slots -> 0 .. MAX_PROCESSES + 1] /\ freed' \subseteq 1 .. MAX_PROCESSES + 1
          /\ ppid' \in [Slots -> Slots]
      BY <2>8, <3>1 DEF do_vfork, IInv, TypeOK
    <3>4. pgd'[NewCtx] # 0 /\ \A q \in Slots : pgd[q] # 0 => pgd'[q] # 0
      <4>1. pgd[p] # 0
        <5>1. current = p /\ p # NoProc
          BY <2>8, Numbers DEF do_vfork, Running
        <5>2. state[p] # "UNUSED"
          BY <5>1 DEF IInv, Placed
        <5> QED BY <5>2 DEF IInv, Paged
      <4> QED BY <2>8, <3>1, <4>1 DEF do_vfork, IInv, TypeOK
    <3>3. /\ current = p /\ Unused # {} /\ schedule([state EXCEPT ![p] = "WAITING"], NewCtx)
          /\ CopyTicks(NewCtx, p) /\ vparent' = [vparent EXCEPT ![NewCtx] = p]
          /\ alive' = alive \cup {NewCtx} /\ UNCHANGED <<misled, crashed>>
      BY <2>8 DEF do_vfork, Running
    <3> QED BY <3>2, <3>3, <3>4, CreateStep
  <2>9. ASSUME NEW p \in Procs, do_clone(p) PROVE IInv'
    <3>1. NewCtx \in Slots /\ p \in Slots
      BY <2>9, NewSlot, Numbers DEF do_clone, IInv
    <3>2. /\ pgd' \in [Slots -> 0 .. MAX_PROCESSES + 1] /\ freed' \subseteq 1 .. MAX_PROCESSES + 1
          /\ ppid' \in [Slots -> Slots]
      BY <2>9, <3>1 DEF do_clone, IInv, TypeOK
    <3>4. pgd'[NewCtx] # 0 /\ \A q \in Slots : pgd[q] # 0 => pgd'[q] # 0
      <4>1. pgd[p] # 0
        <5>1. current = p /\ p # NoProc
          BY <2>9, Numbers DEF do_clone, Running
        <5>2. state[p] # "UNUSED"
          BY <5>1 DEF IInv, Placed
        <5> QED BY <5>2 DEF IInv, Paged
      <4> QED BY <2>9, <3>1, <4>1 DEF do_clone, IInv, TypeOK
    <3>3. /\ current = p /\ Unused # {} /\ state' = [state EXCEPT ![NewCtx] = "READY"] /\ current' = p
          /\ CopyTicks(NewCtx, p) /\ vparent' = [vparent EXCEPT ![NewCtx] = 0]
          /\ alive' = alive \cup {NewCtx} /\ UNCHANGED <<misled, crashed>>
      BY <2>9 DEF do_clone, Running
    <3> QED BY <3>2, <3>3, <3>4, CreateStep
  <2> QED
    BY <2>1, <2>2, <2>3, <2>4, <2>5, <2>6, <2>7, <2>8, <2>9 DEF Next
<1> QED
  BY <1>1, InitIInv, PTL DEF Spec

\* Only the current context is RUNNING, and the current context is neither
\* waiting nor dead, misled exits included: the scheduling at the end of the
\* tick, of sleep, exit and vfork takes the processor from whoever had it.
THEOREM OneRuns == Spec => []OneRunning
<1>1. IInv => OneRunning
  BY DEF IInv, Placed, OneRunning
<1> QED
  BY <1>1, Inductive, PTL

\* A vfork parent waits while its child lives: no tick, wake-up or exit of
\* another process makes it READY, until an exit is misled.
THEOREM VforkParentWaits == Spec => []ParentWaits
<1>1. IInv => ParentWaits
  BY DEF IInv, Honest, ParentWaits
<1> QED
  BY <1>1, Inductive, PTL

\* The shell is back exactly when the last process has exited.
THEOREM CleansUp == Spec => []CleanupAtLastExit
<1>1. IInv => CleanupAtLastExit
  BY DEF IInv, Placed, Honest, CleanupAtLastExit
<1> QED
  BY <1>1, Inductive, PTL
=============================================================================
