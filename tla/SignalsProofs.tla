--------------------------- MODULE SignalsProofs ----------------------------
(***************************************************************************)
(* Proofs about Signals, for a context table of any size, any handlers and  *)
(* user stacks of any depth.                                                *)
(*                                                                          *)
(* The registers of a process are sound when the frames of handlers end in  *)
(* the program and only handlers of its own are on them; IInv says so of    *)
(* every slot in use, wherever its registers are, and that the slots agree  *)
(* with the processor, the timers with each other and the tables of         *)
(* handlers with their owners.                                              *)
(***************************************************************************)
EXTENDS Signals, SequenceTheorems, WellFoundedInduction, TLAPS

States == {"UNUSED", "READY", "RUNNING", "WAITING"}

\* The slots s agree with the context c that the processor has.
Placed(s, c) ==
  /\ s \in [Slots -> States]
  /\ c \in Slots \cup {NoProc}
  /\ \A p \in Slots : s[p] = "RUNNING" => c = p
  /\ c # NoProc => s[c] \in {"RUNNING", "READY"}
  /\ c = NoProc <=> \A p \in Procs : s[p] = "UNUSED"
  /\ s[0] \in {"READY", "RUNNING"}

\* The swapper has no alarm, and an alarm never exceeds its period.
TimersOK(t, a, b) ==
  /\ t \in [Slots -> Nat] /\ a \in [Slots -> Nat] /\ b \in [Slots -> Nat]
  /\ \A p \in Slots : a[p] <= b[p]
  /\ b[0] = 0

\* Register files.
Regs == {c \in [rip : Addresses, stack : Seq(Addresses)] : Len(c.stack) <= UserStack}

\* The frames of handlers lie on an address of the program.
Sane(c) == IF c.rip \in Handlers
           THEN /\ c.stack # <<>> /\ c.stack[1] \in {"main", "thread"}
                /\ \A i \in 2 .. Len(c.stack) : c.stack[i] \in Handlers
           ELSE c.rip \in {"main", "thread"} /\ c.stack = <<>>

\* The handlers on c are among H.
Owned(c, H) == /\ c.rip \in Handlers => c.rip \in H
               /\ \A i \in 1 .. Len(c.stack) : c.stack[i] \in Handlers => c.stack[i] \in H

CtxOK(c, H) == c \in Regs /\ Sane(c) /\ Owned(c, H)

\* Context, of any processor and context table.
Ctx(p, c, l, r) == IF p = c THEN l ELSE r[p]

\* The processes of the slots s have sound registers.
CtxsOK(s, c, l, r, o) == \A p \in Procs : s[p] # "UNUSED" => CtxOK(Ctx(p, c, l, r), o[p])

\* The processes of the slots s have tables of handlers of their own.
TablesOK(s, h, o) ==
  /\ h \in [Slots -> [SIGNOS -> Handlers \cup {"NULL"}]]
  /\ o \in [Slots -> SUBSET Handlers]
  /\ \A p \in Procs : s[p] # "UNUSED" => \A g \in SIGNOS : h[p][g] \in o[p] \cup {"NULL"}

IInv == /\ Placed(state, current)
        /\ TimersOK(ticks_to_sleep, ticks_to_alarm, alarm_config_time)
        /\ TablesOK(state, sighandlers, own)
        /\ live \in Regs /\ regs \in [Slots -> Regs]
        /\ CtxsOK(state, current, live, regs, own)

\* What a step may do to the registers of a process.
Moves(c, d, runs) == d = c \/ (runs /\ (Framed(c, d) \/ Framed(d, c)))

\* What RegistersKept says of a step.
Kept == \A p \in Procs : state[p] # "UNUSED" /\ state'[p] # "UNUSED" =>
          Moves(Ctx(p, current, live, regs), Ctx(p, current', live', regs'), p = current)

-----------------------------------------------------------------------------
\* Slots are numbers.
LEMMA Numbers ==
  /\ Slots \subseteq Nat /\ Procs \subseteq Slots /\ 0 \in Slots /\ 0 \notin Procs
  /\ 1 \in Procs /\ NoProc \in Nat /\ NoProc \notin Slots
BY SignalsAssumption DEF Slots, Procs, NoProc

\* A non-empty set of naturals has a least element.
LEMMA Least ==
  ASSUME NEW S \in SUBSET Nat, S # {}
  PROVE  \E x \in S : \A y \in S : x <= y
<1>1. PICK x \in S : \A y \in S : ~(<<y, x>> \in OpToRel(<, Nat))
  BY NatLessThanWellFounded, WFMin
<1>2. \A y \in S : ~(y < x)
  BY <1>1, Zenon DEF OpToRel
<1> QED
  BY <1>2

\* pick_next_context finds a READY process or falls back on the swapper.
LEMMA Picked ==
  ASSUME NEW s, NEW c \in Slots
  PROVE  \/ pick_next_context(s, c) = 0
         \/ pick_next_context(s, c) \in Procs /\ s[pick_next_context(s, c)] = "READY"
<1> DEFINE ready == {p \in Procs : s[p] = "READY"}
           distance(p) == IF p > c THEN p - c ELSE p - c + MAX_PROCESSES - 1
           D == {distance(p) : p \in ready}
<1>1. CASE ready = {}
  BY <1>1 DEF pick_next_context
<1>2. CASE ready # {}
  <2>1. D \in SUBSET Nat /\ D # {}
    BY <1>2, SignalsAssumption DEF Procs, Slots
  <2>2. PICK x \in D : \A y \in D : x <= y
    BY <2>1, Least
  <2>3. PICK p \in ready : x = distance(p)
    BY <2>2
  <2>4. \A q \in ready : distance(p) <= distance(q)
    BY <2>2, <2>3
  <2>5. pick_next_context(s, c) = CHOOSE r \in ready : \A q \in ready : distance(r) <= distance(q)
    BY <1>2 DEF pick_next_context
  <2> HIDE DEF distance
  <2>6. pick_next_context(s, c) \in ready
    BY <2>3, <2>4, <2>5
  <2> QED BY <2>6
<1> QED
  BY <1>1, <1>2

\* get_new_ctx returns a slot that is not in use.
LEMMA NewSlot ==
  ASSUME Placed(state, current), Unused # {}
  PROVE  NewCtx \in Procs /\ state[NewCtx] = "UNUSED"
<1>1. Unused \in SUBSET Nat
  BY Numbers DEF Unused
<1>2. PICK x \in Unused : \A y \in Unused : x <= y
  BY <1>1, Least
<1>3. NewCtx \in Unused
  BY <1>2 DEF NewCtx, Min
<1> QED
  BY <1>3 DEF Unused, Placed, Procs

-----------------------------------------------------------------------------
\* The registers at the start of a program or of a thread.
LEMMA Fresh ==
  ASSUME NEW a \in {"main", "thread"}, NEW H
  PROVE  CtxOK(At(a), H)
BY SignalsAssumption DEF CtxOK, At, Regs, Sane, Owned, Addresses

\* invoke_sync_signal pushes one sound frame.
LEMMA Push ==
  ASSUME NEW c, NEW H, CtxOK(c, H), ~StackFull(c),
         NEW p, NEW g, sighandlers[p][g] \in H, sighandlers[p][g] \in Handlers
  PROVE  /\ CtxOK(invoke_sync_signal(p, g, c), H)
         /\ Framed(c, invoke_sync_signal(p, g, c))
<1> DEFINE h == sighandlers[p][g]
           d == invoke_sync_signal(p, g, c)
<1>1. /\ c.rip \in Addresses /\ c.stack \in Seq(Addresses) /\ Len(c.stack) \in Nat
      /\ Len(c.stack) <= UserStack /\ Len(c.stack) # UserStack
  BY LenProperties DEF CtxOK, Regs, StackFull
<1>2. d = [rip |-> h, stack |-> Append(c.stack, c.rip)]
  BY DEF invoke_sync_signal
<1> HIDE DEF d
<1>3. d.rip = h /\ d.stack = Append(c.stack, c.rip)
  BY <1>2
<1>4. /\ Append(c.stack, c.rip) \in Seq(Addresses) /\ Len(Append(c.stack, c.rip)) = Len(c.stack) + 1
      /\ \A i \in 1 .. Len(c.stack) : Append(c.stack, c.rip)[i] = c.stack[i]
      /\ Append(c.stack, c.rip)[Len(c.stack) + 1] = c.rip
  BY <1>1, AppendProperties
<1> DEFINE n == Len(c.stack)
<1> HIDE DEF h
<1>5. d \in Regs
  <2>1. h \in Addresses
    BY DEF Addresses, h
  <2>2. Len(d.stack) <= UserStack
    BY <1>1, <1>3, <1>4, SignalsAssumption
  <2> QED BY <1>2, <1>3, <1>4, <2>1, <2>2 DEF Regs
<1>6. /\ n \in Nat /\ Len(d.stack) = n + 1 /\ d.stack[n + 1] = c.rip
      /\ \A i \in 1 .. n : d.stack[i] = c.stack[i]
  BY <1>1, <1>3, <1>4
<1>7. h \in Handlers /\ h \in H
  BY DEF h
<1>8. Owned(d, H)
  BY <1>3, <1>6, <1>7 DEF CtxOK, Owned
<1>9. Sane(d)
  <2>1. CASE c.rip \in Handlers
    <3>1. n > 0 /\ c.stack[1] \in {"main", "thread"} /\ \A i \in 2 .. n : c.stack[i] \in Handlers
      BY <1>1, <2>1, EmptySeq DEF CtxOK, Sane
    <3>2. d.stack[1] \in {"main", "thread"} /\ \A i \in 2 .. n + 1 : d.stack[i] \in Handlers
      BY <1>6, <2>1, <3>1
    <3>3. d.stack # <<>>
      BY <1>3, <1>1, AppendProperties
    <3> QED BY <1>3, <1>6, <1>7, <3>2, <3>3 DEF Sane
  <2>2. CASE c.rip \notin Handlers
    <3>1. n = 0 /\ c.rip \in {"main", "thread"}
      BY <2>2 DEF CtxOK, Sane
    <3>2. d.stack # <<>>
      BY <1>3, <1>1, AppendProperties
    <3> QED BY <1>3, <1>6, <1>7, <3>1, <3>2 DEF Sane
  <2> QED BY <2>1, <2>2
<1> QED
  BY <1>3, <1>5, <1>8, <1>9 DEF CtxOK, Framed, d

\* The return of a handler pops the frame a signal pushed.
LEMMA Pop ==
  ASSUME NEW c, NEW H, CtxOK(c, H), c.rip \in Handlers,
         NEW d, d = [rip |-> Last(c.stack), stack |-> Front(c.stack)]
  PROVE  CtxOK(d, H) /\ Framed(d, c)
<1> DEFINE s == c.stack
           n == Len(c.stack)
           f == SubSeq(s, 1, n - 1)
<1>1. /\ s \in Seq(Addresses) /\ s # <<>> /\ n <= UserStack
      /\ s[1] \in {"main", "thread"} /\ \A i \in 2 .. n : s[i] \in Handlers
      /\ \A i \in 1 .. n : s[i] \in Handlers => s[i] \in H
  BY DEF CtxOK, Regs, Sane, Owned
<1>2. n \in Nat /\ n > 0 /\ \A i \in 1 .. n : s[i] \in Addresses
  BY <1>1, EmptySeq, LenProperties, ElementOfSeq
<1>3. d.rip = s[n] /\ d.stack = f /\ d = [rip |-> s[n], stack |-> f]
  BY DEF Last, Front
<1>4. f \in Seq(Addresses) /\ Len(f) = n - 1 /\ \A i \in 1 .. n - 1 : f[i] = s[i]
  <2>1. \A i \in 1 .. n - 1 : s[i] \in Addresses
    BY <1>2
  <2>2. 1 \in 1 .. n + 1 /\ n - 1 \in (1 - 1) .. n
    BY <1>2
  <2> QED BY <1>1, <1>2, <2>1, <2>2, SubSeqProperties
<1> HIDE DEF s, n, f
<1>5. Append(f, s[n]) = s
  <2>1. /\ Append(f, s[n]) \in Seq(Addresses) /\ Len(Append(f, s[n])) = Len(f) + 1
        /\ \A i \in 1 .. Len(f) : Append(f, s[n])[i] = f[i]
        /\ Append(f, s[n])[Len(f) + 1] = s[n]
    BY <1>2, <1>4, AppendProperties
  <2>2. Len(s) = n
    BY DEF s, n
  <2>3. Len(Append(f, s[n])) = Len(s) /\ \A i \in 1 .. Len(s) : Append(f, s[n])[i] = s[i]
    BY <1>2, <1>4, <2>1, <2>2
  <2> QED BY <1>1, <2>1, <2>3, SeqEqual
<1>6. d \in Regs
  BY <1>1, <1>2, <1>3, <1>4, SignalsAssumption DEF Regs
<1>7. Owned(d, H)
  BY <1>1, <1>2, <1>3, <1>4 DEF Owned
<1>8. Sane(d)
  <2>1. CASE n = 1
    <3>1. d.rip \in {"main", "thread"} /\ d.rip \notin Handlers
      BY <1>1, <1>3, <2>1, SignalsAssumption
    <3>2. d.stack = <<>>
      BY <1>3, <1>4, <2>1, EmptySeq
    <3> QED BY <3>1, <3>2 DEF Sane
  <2>2. CASE n > 1
    <3>1. d.rip \in Handlers /\ d.stack[1] \in {"main", "thread"} /\ Len(d.stack) > 0
          /\ \A i \in 2 .. Len(d.stack) : d.stack[i] \in Handlers
      BY <1>1, <1>2, <1>3, <1>4, <2>2
    <3>2. d.stack # <<>>
      BY <3>1
    <3> QED BY <3>1, <3>2 DEF Sane
  <2> QED BY <1>2, <2>1, <2>2
<1> QED
  BY <1>3, <1>5, <1>6, <1>7, <1>8 DEF CtxOK, Framed, s


-----------------------------------------------------------------------------
\* Giving the processor to the context that pick_next_context finds, when no
\* other is RUNNING any more: the slots and the processor agree, and everybody
\* has the registers its context had.
LEMMA Scheduled ==
  ASSUME NEW s \in [Slots -> States], NEW c \in Slots, NEW r \in [Slots -> Regs],
         \A p \in Slots : s[p] # "RUNNING",
         s[0] = "READY", \E p \in Procs : s[p] # "UNUSED",
         schedule(s, r, pick_next_context(s, c))
  PROVE  /\ Placed(state', current')
         /\ \A p \in Slots : state'[p] = "UNUSED" <=> s[p] = "UNUSED"
         /\ regs' \in [Slots -> Regs] /\ live' \in Regs
         /\ \A p \in Slots : Ctx(p, current', live', regs') = r[p]
<1> DEFINE n == pick_next_context(s, c)
<1>1. n \in Slots /\ s[n] = "READY" /\ n # NoProc
  BY Picked, Numbers
<1>2. state' = [s EXCEPT ![n] = "RUNNING"] /\ current' = n /\ regs' = r /\ live' = r[n]
  BY DEF schedule, return_from_os
<1> HIDE DEF n
<1>3. \A p \in Slots : state'[p] = IF p = n THEN "RUNNING" ELSE s[p]
  BY <1>1, <1>2
<1>4. state' \in [Slots -> States]
  BY <1>1, <1>2 DEF States
<1>5. Placed(state', current')
  BY <1>1, <1>2, <1>3, <1>4, Numbers DEF Placed
<1> QED
  BY <1>1, <1>2, <1>3, <1>5 DEF Ctx

\* A step that switches to the slots s with the contexts r, where only the
\* registers of p differ from what they were, and by a frame at most.
LEMMA Switched ==
  ASSUME IInv, NEW p \in Slots, p = current,
         NEW s \in [Slots -> States], NEW r \in [Slots -> Regs],
         \A q \in Slots : s[q] # "RUNNING",
         \A q \in Procs : s[q] # "UNUSED" => state[q] # "UNUSED",
         s[0] = "READY", \E q \in Procs : s[q] # "UNUSED",
         \A q \in Slots : q # p => r[q] = regs[q],
         p \in Procs /\ s[p] # "UNUSED" => CtxOK(r[p], own[p]) /\ Moves(live, r[p], TRUE),
         schedule(s, r, pick_next_context(s, p)),
         UNCHANGED <<sighandlers, own>>,
         TimersOK(ticks_to_sleep', ticks_to_alarm', alarm_config_time')
  PROVE  IInv' /\ Kept
<1>1. /\ Placed(state', current')
      /\ \A q \in Slots : state'[q] = "UNUSED" <=> s[q] = "UNUSED"
      /\ regs' \in [Slots -> Regs] /\ live' \in Regs
      /\ \A q \in Slots : Ctx(q, current', live', regs') = r[q]
  BY Scheduled
<1>2. \A q \in Procs : s[q] # "UNUSED" => CtxOK(r[q], own[q])
  BY Numbers DEF IInv, CtxsOK, Ctx
<1>3. CtxsOK(state', current', live', regs', own')
  BY <1>1, <1>2, Numbers DEF CtxsOK
<1>4. TablesOK(state', sighandlers', own')
  BY <1>1, Numbers DEF IInv, TablesOK
<1>5. IInv'
  BY <1>1, <1>3, <1>4 DEF IInv
<1>6. ASSUME NEW q \in Procs, state'[q] # "UNUSED"
      PROVE  Moves(Ctx(q, current, live, regs), Ctx(q, current', live', regs'), q = current)
  <2>1. Ctx(q, current', live', regs') = r[q] /\ s[q] # "UNUSED"
    BY <1>1, <1>6, Numbers
  <2>2. CASE q = p
    <3>1. Moves(live, r[q], TRUE) /\ Ctx(q, current, live, regs) = live
      BY <2>1, <2>2 DEF Ctx
    <3> QED BY <2>1, <2>2, <3>1
  <2>3. CASE q # p
    <3>1. Ctx(q, current, live, regs) = regs[q] /\ r[q] = regs[q]
      BY <2>3, Numbers DEF Ctx
    <3> QED BY <2>1, <3>1 DEF Moves
  <2> QED BY <2>2, <2>3
<1> QED
  BY <1>5, <1>6 DEF Kept

\* A step that changes only the registers on the processor, by a frame at most.
LEMMA Interrupts ==
  ASSUME IInv, current \in Slots,
         NEW s, Placed(s, current), \A q \in Procs : s[q] # "UNUSED" <=> state[q] # "UNUSED",
         state' = s, UNCHANGED <<current, regs, sighandlers, own>>,
         live' \in Regs,
         current \in Procs => CtxOK(live', own[current]) /\ Moves(live, live', TRUE),
         TimersOK(ticks_to_sleep', ticks_to_alarm', alarm_config_time')
  PROVE  IInv' /\ Kept
<1>1. \A q \in Procs : q # current =>
        Ctx(q, current', live', regs') = regs[q] /\ Ctx(q, current, live, regs) = regs[q]
  BY DEF Ctx
<1>2. Ctx(current, current', live', regs') = live' /\ Ctx(current, current, live, regs) = live
  BY DEF Ctx
<1>3. CtxsOK(state', current', live', regs', own')
  <2> SUFFICES ASSUME NEW q \in Procs, state'[q] # "UNUSED"
               PROVE  CtxOK(Ctx(q, current', live', regs'), own'[q])
    BY DEF CtxsOK
  <2>1. CASE q = current
    BY <1>2, <2>1
  <2>2. CASE q # current
    <3>1. CtxOK(Ctx(q, current, live, regs), own[q])
      BY DEF IInv, CtxsOK
    <3> QED BY <1>1, <2>2, <3>1
  <2> QED BY <2>1, <2>2
<1>4. TablesOK(state', sighandlers', own')
  BY DEF IInv, TablesOK
<1>5. IInv'
  BY <1>3, <1>4 DEF IInv
<1>6. Kept
  <2> SUFFICES ASSUME NEW q \in Procs
               PROVE  Moves(Ctx(q, current, live, regs), Ctx(q, current', live', regs'), q = current)
    BY DEF Kept
  <2>1. CASE q = current
    BY <1>2, <2>1
  <2>2. CASE q # current
    BY <1>1, <2>2 DEF Moves
  <2> QED BY <2>1, <2>2
<1> QED
  BY <1>5, <1>6

-----------------------------------------------------------------------------
\* The end of a process.
LEMMA ExitStep ==
  ASSUME IInv, NEW p \in Procs, Running(p), do_exit(p)
  PROVE  IInv' /\ Kept
<1> USE Numbers
<1> DEFINE s == [state EXCEPT ![p] = "UNUSED"]
<1>1. /\ current = p
      /\ UNCHANGED <<sighandlers, own>> /\ UNCHANGED timers
      /\ IF \A q \in Procs : s[q] = "UNUSED"
         THEN state' = s /\ current' = NoProc /\ UNCHANGED <<live, regs>>
         ELSE schedule(s, regs, pick_next_context(s, p))
  BY DEF do_exit, Running
<1>2. /\ s \in [Slots -> States] /\ \A q \in Slots : s[q] # "RUNNING"
      /\ s[0] = "READY" /\ s[p] = "UNUSED"
      /\ \A q \in Slots : q # p => s[q] = state[q]
      /\ \A q \in Procs : s[q] # "UNUSED" => state[q] # "UNUSED"
  BY <1>1 DEF IInv, Placed, States
<1> HIDE DEF s
<1>3. TimersOK(ticks_to_sleep', ticks_to_alarm', alarm_config_time')
  BY <1>1 DEF IInv, timers
<1>4. CASE \A q \in Procs : s[q] = "UNUSED"
  <2>1. state' = s /\ current' = NoProc /\ live' = live /\ regs' = regs
    BY <1>1, <1>4
  <2>2. Placed(state', current')
    BY <1>2, <1>4, <2>1 DEF Placed
  <2>3. TablesOK(state', sighandlers', own')
    BY <1>1, <1>4, <2>1 DEF IInv, TablesOK
  <2>4. CtxsOK(state', current', live', regs', own') /\ Kept
    BY <1>4, <2>1 DEF CtxsOK, Kept
  <2> QED BY <1>3, <2>1, <2>2, <2>3, <2>4 DEF IInv
<1>5. CASE ~ \A q \in Procs : s[q] = "UNUSED"
  <2>1. regs \in [Slots -> Regs]
    BY DEF IInv
  <2> QED BY <1>1, <1>2, <1>3, <1>5, <2>1, Switched
<1> QED
  BY <1>4, <1>5

\* An exception.
LEMMA RaiseStep ==
  ASSUME IInv, NEW p \in Procs, NEW g \in SIGNOS, Raise(p, g), crashed' = crashed
  PROVE  IInv' /\ Kept
<1> USE Numbers
<1>1. CASE sighandlers[p][g] = "NULL"
  BY <1>1, ExitStep DEF Raise
<1>2. CASE sighandlers[p][g] # "NULL"
  <2>1. Running(p) /\ current = p
    BY DEF Raise, Running
  <2>2. /\ ~StackFull(live) /\ live' = invoke_sync_signal(p, g, live)
        /\ state' = state /\ UNCHANGED <<current, regs, sighandlers, own>> /\ UNCHANGED timers
    BY <1>2, <2>1 DEF Raise, Crash, Running
  <2>3. state[p] # "UNUSED"
    BY <2>1 DEF IInv, Placed
  <2>4. CtxOK(live, own[p])
    BY <2>1, <2>3 DEF IInv, CtxsOK, Ctx
  <2>5. sighandlers[p][g] \in own[p] /\ sighandlers[p][g] \in Handlers
    BY <1>2, <2>3 DEF IInv, TablesOK
  <2>6. CtxOK(live', own[p]) /\ Framed(live, live')
    BY <2>2, <2>4, <2>5, Push
  <2>7. TimersOK(ticks_to_sleep', ticks_to_alarm', alarm_config_time')
    BY <2>2 DEF IInv, timers
  <2>8. live' \in Regs /\ Moves(live, live', TRUE)
    BY <2>6 DEF CtxOK, Moves
  <2>9. Placed(state, current)
    BY DEF IInv
  <2> QED BY <2>1, <2>2, <2>6, <2>7, <2>8, <2>9, Interrupts
<1> QED
  BY <1>1, <1>2

\* The return of a handler.
LEMMA ReturnStep ==
  ASSUME IInv, NEW p \in Procs, HandlerReturns(p)
  PROVE  IInv' /\ Kept
<1> USE Numbers
<1>1. /\ current = p /\ live.rip \in Handlers
      /\ live' = [rip |-> Last(live.stack), stack |-> Front(live.stack)]
      /\ state' = state /\ UNCHANGED <<current, regs, sighandlers, own>> /\ UNCHANGED timers
  BY DEF HandlerReturns, Running
<1>2. state[p] # "UNUSED"
  BY <1>1 DEF IInv, Placed
<1>3. CtxOK(live, own[p])
  BY <1>1, <1>2 DEF IInv, CtxsOK, Ctx
<1>4. CtxOK(live', own[p]) /\ Framed(live', live)
  BY <1>1, <1>3, Pop
<1>5. TimersOK(ticks_to_sleep', ticks_to_alarm', alarm_config_time')
  BY <1>1 DEF IInv, timers
<1>6. live' \in Regs /\ Moves(live, live', TRUE)
  BY <1>4 DEF CtxOK, Moves
<1>7. Placed(state, current)
  BY DEF IInv
<1> QED
  BY <1>1, <1>4, <1>5, <1>6, <1>7, Interrupts

\* The tick.
LEMMA TickStep ==
  ASSUME IInv, handle_timer_tick
  PROVE  IInv' /\ Kept
<1> USE Numbers
<1> DEFINE s == Requeued
           n == pick_next_context(s, current)
<1>1. /\ current \in Slots /\ ~(SIGALRM_sent /\ StackFull(live))
      /\ do_sleep_and_alarm_account
      /\ IF n = current THEN state' = s /\ live' = Interrupted /\ UNCHANGED <<current, regs>>
                        ELSE schedule(s, [regs EXCEPT ![current] = Interrupted], n)
  BY DEF handle_timer_tick, IInv, Placed
<1>2. /\ s \in [Slots -> States] /\ \A p \in Slots : s[p] # "RUNNING"
      /\ s[0] = "READY" /\ s[current] = "READY"
      /\ \A p \in Slots : s[p] = "UNUSED" <=> state[p] = "UNUSED"
  BY <1>1 DEF IInv, Placed, States, Requeued, Wakes, Sleeping
<1> HIDE DEF s
<1>3. \E p \in Procs : s[p] # "UNUSED"
  BY <1>1, <1>2 DEF IInv, Placed
<1>4. UNCHANGED <<sighandlers, own>>
  BY <1>1 DEF do_sleep_and_alarm_account
<1>5. TimersOK(ticks_to_sleep', ticks_to_alarm', alarm_config_time')
  <2>1. ticks_to_sleep' \in [Slots -> Nat]
    BY <1>1 DEF IInv, TimersOK, do_sleep_and_alarm_account, Sleeping
  <2> DEFINE a == CASE ticks_to_alarm[current] = 0 -> 0
                    [] ticks_to_alarm[current] = 1 -> alarm_config_time[current]
                    [] OTHER -> ticks_to_alarm[current] - 1
  <2>2. ticks_to_alarm' = [ticks_to_alarm EXCEPT ![current] = a] /\ alarm_config_time' = alarm_config_time
    BY <1>1 DEF do_sleep_and_alarm_account
  <2>3. a \in Nat /\ a <= alarm_config_time[current]
    BY <1>1 DEF IInv, TimersOK
  <2> HIDE DEF a
  <2> QED BY <1>1, <2>1, <2>2, <2>3 DEF IInv, TimersOK
<1>6. Interrupted \in Regs /\ (current \in Procs => CtxOK(Interrupted, own[current])
                                                     /\ Moves(live, Interrupted, TRUE))
  <2>1. CASE ~SIGALRM_sent
    <3>1. Interrupted = live /\ live \in Regs
      BY <2>1 DEF Interrupted, IInv
    <3>2. current \in Procs => CtxOK(live, own[current])
      BY DEF IInv, Placed, CtxsOK, Ctx
    <3> QED BY <3>1, <3>2 DEF Moves
  <2>2. CASE SIGALRM_sent
    <3>1. current \in Procs
      BY <1>1, <2>2 DEF SIGALRM_sent, AlarmDue, IInv, TimersOK, Procs
    <3>2. ~StackFull(live) /\ Interrupted = invoke_sync_signal(current, "SIGALRM", live)
      BY <1>1, <2>2 DEF Interrupted
    <3>3. state[current] # "UNUSED"
      BY <3>1 DEF IInv, Placed
    <3>4. CtxOK(live, own[current])
      BY <3>1, <3>3 DEF IInv, CtxsOK, Ctx
    <3>5. sighandlers[current]["SIGALRM"] \in own[current] /\ sighandlers[current]["SIGALRM"] \in Handlers
      BY <2>2, <3>1, <3>3 DEF IInv, TablesOK, SIGALRM_sent, SIGNOS
    <3>6. CtxOK(Interrupted, own[current]) /\ Framed(live, Interrupted)
      BY <3>2, <3>4, <3>5, Push
    <3> QED BY <3>6 DEF CtxOK, Moves
  <2> QED BY <2>1, <2>2
<1>7. CASE n = current
  <2>1. state' = s /\ live' = Interrupted /\ UNCHANGED <<current, regs, sighandlers, own>>
    BY <1>1, <1>4, <1>7
  <2>2. Placed(s, current)
    BY <1>1, <1>2, <1>3 DEF Placed
  <2> HIDE DEF n
  <2> QED BY <1>1, <1>2, <1>5, <1>6, <2>1, <2>2, Interrupts
<1>8. CASE n # current
  <2> DEFINE r == [regs EXCEPT ![current] = Interrupted]
  <2>1. r \in [Slots -> Regs] /\ r[current] = Interrupted /\ \A q \in Slots : q # current => r[q] = regs[q]
    BY <1>1, <1>6 DEF IInv
  <2>2. schedule(s, r, pick_next_context(s, current))
    BY <1>1, <1>8
  <2> HIDE DEF n, r
  <2>3. \A q \in Procs : s[q] # "UNUSED" => state[q] # "UNUSED"
    BY <1>2
  <2> QED BY <1>1, <1>2, <1>3, <1>4, <1>5, <1>6, <2>1, <2>2, <2>3, Switched
<1> QED
  BY <1>7, <1>8

\* sleep.
LEMMA SleepStep ==
  ASSUME IInv, NEW p \in Procs, NEW t \in SleepTicks, do_sleep(p, t)
  PROVE  IInv' /\ Kept
<1> USE Numbers
<1> DEFINE s == [state EXCEPT ![p] = "WAITING"]
           r == [regs EXCEPT ![p] = live]
<1>1. /\ current = p
      /\ ticks_to_sleep' = [ticks_to_sleep EXCEPT ![p] = t]
      /\ UNCHANGED <<ticks_to_alarm, alarm_config_time>>
      /\ schedule(s, r, pick_next_context(s, p))
      /\ UNCHANGED <<sighandlers, own>>
  BY DEF do_sleep, Running, Saved
<1>2. state[p] # "UNUSED"
  BY <1>1 DEF IInv, Placed
<1>3. /\ s \in [Slots -> States] /\ \A q \in Slots : s[q] # "RUNNING"
      /\ s[0] = "READY" /\ s[p] = "WAITING"
      /\ \A q \in Procs : s[q] # "UNUSED" => state[q] # "UNUSED"
  BY <1>1, <1>2 DEF IInv, Placed, States
<1>4. r \in [Slots -> Regs] /\ r[p] = live /\ \A q \in Slots : q # p => r[q] = regs[q]
  BY DEF IInv
<1>5. TimersOK(ticks_to_sleep', ticks_to_alarm', alarm_config_time')
  BY <1>1, SignalsAssumption DEF IInv, TimersOK
<1>6. CtxOK(live, own[p]) /\ Moves(live, live, TRUE)
  BY <1>1, <1>2 DEF IInv, CtxsOK, Ctx, Moves
<1> HIDE DEF s, r
<1> QED
  BY <1>1, <1>3, <1>4, <1>5, <1>6, Switched

\* alarm.
LEMMA AlarmStep ==
  ASSUME IInv, NEW p \in Procs, NEW t \in AlarmTicks, do_alarm(p, t)
  PROVE  IInv' /\ Kept
<1> USE Numbers
<1>1. /\ alarm_config_time' = [alarm_config_time EXCEPT ![p] = t]
      /\ ticks_to_alarm' = [ticks_to_alarm EXCEPT ![p] = t]
      /\ UNCHANGED <<state, current, live, regs, sighandlers, ticks_to_sleep, own>>
  BY DEF do_alarm
<1>2. TimersOK(ticks_to_sleep', ticks_to_alarm', alarm_config_time')
  BY <1>1, SignalsAssumption DEF IInv, TimersOK
<1>3. IInv'
  BY <1>1, <1>2 DEF IInv
<1> QED
  BY <1>1, <1>3 DEF Kept, Moves

\* signal: what is on the stack of its caller stays its own.
LEMMA SignalStep ==
  ASSUME IInv, NEW p \in Procs, NEW g \in Handled, NEW h \in Handlers, do_signal(p, g, h)
  PROVE  IInv' /\ Kept
<1> USE Numbers
<1>1. /\ sighandlers' = [sighandlers EXCEPT ![p][g] = h]
      /\ own' = [own EXCEPT ![p] = @ \cup {h}]
      /\ UNCHANGED <<state, current, live, regs>> /\ UNCHANGED timers
  BY DEF do_signal
<1>2. g \in SIGNOS
  BY SignalsAssumption DEF SIGNOS
<1>3. own' \in [Slots -> SUBSET Handlers] /\ \A q \in Slots : own[q] \subseteq own'[q] /\ h \in own'[p]
  BY <1>1 DEF IInv, TablesOK
<1>4. /\ sighandlers' \in [Slots -> [SIGNOS -> Handlers \cup {"NULL"}]]
      /\ \A q \in Slots, f \in SIGNOS : \/ sighandlers'[q][f] = h /\ q = p
                                        \/ sighandlers'[q][f] = sighandlers[q][f]
  BY <1>1, <1>2 DEF IInv, TablesOK
<1>5. TablesOK(state', sighandlers', own')
  BY <1>1, <1>3, <1>4 DEF IInv, TablesOK
<1>6. \A q \in Procs : \A c : CtxOK(c, own[q]) => CtxOK(c, own'[q])
  BY <1>3 DEF CtxOK, Owned
<1>7. CtxsOK(state', current', live', regs', own')
  BY <1>1, <1>6 DEF IInv, CtxsOK
<1>8. IInv'
  BY <1>1, <1>5, <1>7 DEF IInv, timers
<1> QED
  BY <1>1, <1>8 DEF Kept, Moves

\* fork and clone: the new context has sound registers r and is a copy else.
LEMMA NewStep ==
  ASSUME IInv, NEW p \in Procs, NEW r, current = p => CtxOK(r, own[p]), NewContext(p, r)
  PROVE  IInv' /\ Kept
<1> USE Numbers
<1> DEFINE n == NewCtx
<1>1. /\ current = p /\ Unused # {} /\ CtxOK(r, own[p])
      /\ state' = [state EXCEPT ![n] = "READY"]
      /\ regs' = [regs EXCEPT ![n] = r]
      /\ sighandlers' = [sighandlers EXCEPT ![n] = sighandlers[p]]
      /\ own' = [own EXCEPT ![n] = own[p]]
      /\ ticks_to_sleep' = [ticks_to_sleep EXCEPT ![n] = ticks_to_sleep[p]]
      /\ ticks_to_alarm' = [ticks_to_alarm EXCEPT ![n] = ticks_to_alarm[p]]
      /\ alarm_config_time' = [alarm_config_time EXCEPT ![n] = alarm_config_time[p]]
      /\ UNCHANGED <<current, live>>
  BY DEF NewContext, Running
<1>2. n \in Procs /\ state[n] = "UNUSED"
  BY <1>1, NewSlot DEF IInv
<1> HIDE DEF n
<1>3. n # p /\ state[p] # "UNUSED" /\ n # current
  BY <1>1, <1>2 DEF IInv, Placed
<1>4. Placed(state', current')
  <2>1. state' \in [Slots -> States] /\ \A q \in Slots : state'[q] = IF q = n THEN "READY" ELSE state[q]
    BY <1>1, <1>2 DEF IInv, Placed, States
  <2> QED BY <1>1, <1>2, <1>3, <2>1 DEF IInv, Placed
<1>5. TimersOK(ticks_to_sleep', ticks_to_alarm', alarm_config_time')
  BY <1>1, <1>2 DEF IInv, TimersOK
<1>6. TablesOK(state', sighandlers', own')
  <2>1. /\ sighandlers' \in [Slots -> [SIGNOS -> Handlers \cup {"NULL"}]]
        /\ own' \in [Slots -> SUBSET Handlers]
    BY <1>1, <1>2 DEF IInv, TablesOK
  <2>2. \A q \in Procs : q # n => /\ sighandlers'[q] = sighandlers[q] /\ own'[q] = own[q]
                                  /\ state'[q] = state[q]
    BY <1>1, <1>2 DEF IInv, TablesOK, Placed
  <2>3. sighandlers'[n] = sighandlers[p] /\ own'[n] = own[p]
    BY <1>1, <1>2 DEF IInv, TablesOK
  <2>4. \A q \in Procs : state'[q] # "UNUSED" => \A g \in SIGNOS : sighandlers'[q][g] \in own'[q] \cup {"NULL"}
    BY <1>2, <1>3, <2>2, <2>3 DEF IInv, TablesOK
  <2> QED BY <2>1, <2>4 DEF TablesOK
<1>7. r \in Regs /\ regs' \in [Slots -> Regs] /\ live' \in Regs
  BY <1>1, <1>2 DEF IInv, CtxOK
<1>8. /\ \A q \in Procs : q # n => /\ Ctx(q, current', live', regs') = Ctx(q, current, live, regs)
                                   /\ state'[q] = state[q] /\ own'[q] = own[q]
      /\ Ctx(n, current', live', regs') = r /\ own'[n] = own[p]
  BY <1>1, <1>2, <1>3 DEF IInv, Placed, TablesOK, Ctx
<1>9. CtxsOK(state', current', live', regs', own')
  BY <1>1, <1>2, <1>8 DEF IInv, CtxsOK
<1>10. Kept
  BY <1>2, <1>8 DEF Kept, Moves
<1> QED
  BY <1>4, <1>5, <1>6, <1>7, <1>9, <1>10 DEF IInv

\* A new init.
LEMMA ExecInitStep ==
  ASSUME IInv, exec_init
  PROVE  IInv' /\ Kept
<1> USE Numbers
<1>1. /\ current = NoProc /\ current' = 1 /\ live' = At("main")
      /\ state' = [state EXCEPT ![1] = "RUNNING"]
      /\ own' = [own EXCEPT ![1] = {sighandlers[1][s] : s \in SIGNOS} \cap Handlers]
      /\ UNCHANGED <<regs, sighandlers>> /\ UNCHANGED timers
  BY DEF exec_init
<1>2. /\ \A q \in Procs : state[q] = "UNUSED"
      /\ state' \in [Slots -> States]
      /\ \A q \in Slots : state'[q] = IF q = 1 THEN "RUNNING" ELSE state[q]
  BY <1>1 DEF IInv, Placed, States
<1>3. state[0] = "READY"
  BY <1>1 DEF IInv, Placed
<1>4. Placed(state', current')
  BY <1>1, <1>2, <1>3, SignalsAssumption DEF IInv, Placed, Procs, NoProc
<1>5. TablesOK(state', sighandlers', own')
  <2>1. own' \in [Slots -> SUBSET Handlers] /\ own'[1] = {sighandlers[1][s] : s \in SIGNOS} \cap Handlers
    BY <1>1 DEF IInv, TablesOK
  <2>2. \A s \in SIGNOS : sighandlers[1][s] \in own'[1] \cup {"NULL"}
    BY <2>1 DEF IInv, TablesOK
  <2> QED BY <1>1, <1>2, <2>1, <2>2 DEF IInv, TablesOK
<1>6. CtxOK(At("main"), own'[1])
  BY Fresh
<1>7. CtxsOK(state', current', live', regs', own') /\ live' \in Regs
  BY <1>1, <1>2, <1>6 DEF CtxsOK, Ctx, CtxOK
<1>8. Kept
  BY <1>2 DEF Kept
<1> QED
  BY <1>1, <1>4, <1>5, <1>7, <1>8 DEF IInv, timers

-----------------------------------------------------------------------------
\* The initial state is sound.
LEMMA InitIInv ==
  ASSUME Init
  PROVE  IInv
<1> USE Numbers
<1>1. Placed(state, current)
  BY SignalsAssumption DEF Init, Placed, States, Slots, Procs, NoProc
<1>2. TimersOK(ticks_to_sleep, ticks_to_alarm, alarm_config_time)
  BY DEF Init, TimersOK
<1>3. TablesOK(state, sighandlers, own)
  BY DEF Init, TablesOK
<1>4. live \in Regs /\ regs \in [Slots -> Regs]
  BY SignalsAssumption DEF Init, Regs, At, Addresses
<1>5. CtxOK(At("main"), own[1])
  BY Fresh
<1>6. CtxsOK(state, current, live, regs, own)
  BY <1>5 DEF Init, CtxsOK, Ctx
<1> QED
  BY <1>1, <1>2, <1>3, <1>4, <1>6 DEF IInv

\* Every step keeps the invariant and the registers.
LEMMA Steps ==
  ASSUME IInv, [Next]_vars
  PROVE  IInv' /\ (UNCHANGED vars \/ Kept)
<1>1. CASE UNCHANGED vars
  BY <1>1 DEF vars, timers, IInv
<1>2. ASSUME Crash PROVE IInv' /\ Kept
  <2>1. UNCHANGED <<state, current, live, regs, sighandlers, own>> /\ UNCHANGED timers
    BY <1>2 DEF Crash
  <2> QED BY <2>1 DEF timers, IInv, Kept, Moves
<1>3. CASE handle_irq
  BY <1>2, <1>3, TickStep DEF handle_irq, TickPastStack
<1>4. CASE exec_init
  BY <1>4, ExecInitStep
<1>5. ASSUME NEW p \in Procs, NEW g \in SIGNOS, Raise(p, g)
      PROVE  IInv' /\ Kept
  <2>1. Crash \/ crashed' = crashed
    BY <1>5 DEF Raise, do_exit
  <2> QED BY <1>2, <1>5, <2>1, RaiseStep
<1>6. ASSUME NEW p \in Procs, do_div_by_zero(p) \/ do_page_fault(p)
      PROVE  IInv' /\ Kept
  BY <1>5, <1>6 DEF do_div_by_zero, do_page_fault, SIGNOS
<1>7. ASSUME NEW p \in Procs, do_gp(p) \/ exit(p)
      PROVE  IInv' /\ Kept
  BY <1>7, ExitStep DEF do_gp, exit
<1>8. ASSUME NEW p \in Procs, do_fork(p)
      PROVE  IInv' /\ Kept
  <2>1. current = p => CtxOK(live, own[p])
    BY Numbers DEF IInv, Placed, CtxsOK, Ctx
  <2> QED BY <1>8, <2>1, NewStep DEF do_fork
<1>9. ASSUME NEW p \in Procs, do_clone(p)
      PROVE  IInv' /\ Kept
  <2>1. CtxOK(At("thread"), own[p])
    BY Fresh
  <2> QED BY <1>9, <2>1, NewStep DEF do_clone
<1>10. ASSUME NEW p \in Procs, TableFull(p)
       PROVE  IInv' /\ Kept
  BY <1>2, <1>10 DEF TableFull
<1> QED
  BY <1>1, <1>3, <1>4, <1>6, <1>7, <1>8, <1>9, <1>10,
     ReturnStep, SleepStep, AlarmStep, SignalStep DEF Next

\* IInv is an invariant of signals, switches and system calls.
THEOREM Inductive == FairSpec => []IInv
<1>1. IInv /\ [Next]_vars => IInv'
  BY Steps
<1> QED
  BY InitIInv, <1>1, PTL DEF FairSpec

\* A process only ever runs handlers that it, or a process it was copied from,
\* registered: invoke_sync_signal reads the table of the context that is
\* interrupted, and switches never mix registers.
THEOREM RunsItsOwn == FairSpec => []OwnHandlers
<1>1. ASSUME IInv PROVE OwnHandlers
  <2> SUFFICES ASSUME NEW p \in Alive
               PROVE  ({Context(p).rip} \cup ToSet(Context(p).stack)) \cap Handlers \subseteq own[p]
    BY DEF OwnHandlers
  <2>1. CtxOK(Context(p), own[p])
    BY <1>1 DEF IInv, CtxsOK, Ctx, Context, Alive
  <2> HIDE DEF Alive
  <2>2. DOMAIN Context(p).stack = 1 .. Len(Context(p).stack)
    BY <2>1, LenProperties DEF CtxOK, Regs
  <2> QED BY <2>1, <2>2 DEF CtxOK, Owned, ToSet
<1> QED
  BY <1>1, Inductive, PTL

\* Below the frames of handlers lies the program: each frame that a signal
\* pushes is popped by one return of its handler.
THEOREM ComesBack == FairSpec => []ReturnsToProgram
<1>1. ASSUME IInv PROVE ReturnsToProgram
  <2>1. TypeOK
    BY <1>1 DEF IInv, TypeOK, Placed, States, TimersOK, TablesOK, Regs
  <2>2. \A p \in Alive : Sane(Context(p))
    BY <1>1 DEF IInv, CtxsOK, CtxOK, Ctx, Context, Alive
  <2> QED BY <2>1, <2>2 DEF ReturnsToProgram, Sane
<1> QED
  BY <1>1, Inductive, PTL

\* No tick, call, exception or switch loses or mixes registers.
THEOREM KeepsRegisters == FairSpec => RegistersKept
<1> DEFINE A == \A p \in Alive :
                  state'[p] # "UNUSED" => LET c == Context(p)
                                              d == Context(p)'
                                          IN  \/ d = c
                                              \/ p = current /\ (Framed(c, d) \/ Framed(d, c))
<1>1. ASSUME Kept PROVE A
  BY <1>1 DEF Kept, Moves, Ctx, Context, Alive
<1>2. IInv /\ [Next]_vars => [A]_vars
  BY <1>1, Steps
<1> QED
  BY <1>2, Inductive, PTL DEF FairSpec, RegistersKept

=============================================================================
