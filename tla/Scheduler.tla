----------------------------- MODULE Scheduler ------------------------------
(***************************************************************************)
(* Processes and the round-robin scheduler of gemOS (schedule.c, the        *)
(* process system calls of entry.c, context.c and vfork_exit_handle of      *)
(* cfork.c in Assignment3/Ass3/src): timer ticks, sleep, exit, fork, cfork, *)
(* vfork and clone, in whatever order the user programs call them.  Alarms  *)
(* and registers, which are those of Assignment 2, are in module Signals.   *)
(*                                                                          *)
(* Kernel code runs with interrupts off on one processor, so each handler   *)
(* is one step.  A slot of the context table keeps its old contents after   *)
(* exit; what the next user of the slot does not overwrite is stale.        *)
(***************************************************************************)
EXTENDS Integers, FiniteSets, FiniteSetsExt

CONSTANTS MAX_PROCESSES,   \* slots of the context table (7); slot 0 is the swapper
          SleepTicks,      \* arguments of sleep
          Creates          \* which of fork, vfork, clone the programs call

ASSUME SchedAssumption == /\ MAX_PROCESSES \in Nat /\ MAX_PROCESSES > 1
                          /\ SleepTicks \subseteq Nat /\ IsFiniteSet(SleepTicks)
                          /\ Creates \subseteq {"fork", "vfork", "clone"}

VARIABLES state,           \* ctx->state of every slot
          current,         \* the slot that runs; NoProc in the gemOS shell
          ppid, pgd,       \* ctx->ppid, ctx->pgd (page tables by identity)
          ticks_to_sleep,
          alive,           \* slots whose process was created and has not exited
          vparent,         \* the parent a live vfork child still holds up, or 0
          freed,           \* page tables do_cleanup gave back to the allocator
          misled,          \* an exit has woken a slot that was not a parent waiting for it
          crashed          \* get_new_ctx's NULL was used as a context

ctx  == <<ppid, pgd, ticks_to_sleep>>
vars == <<state, current, ctx, alive, vparent, freed, misled, crashed>>

Slots  == 0 .. MAX_PROCESSES - 1
Procs  == Slots \ {0}
NoProc == MAX_PROCESSES
States == {"UNUSED", "READY", "RUNNING", "WAITING"}

MaxOf(S) == IF S = {} THEN 0 ELSE Max(S)

-----------------------------------------------------------------------------
\* init_swapper clears the table; exec_init has started the first process.
Init == /\ state = [p \in Slots |-> IF p = 0 THEN "READY" ELSE IF p = 1 THEN "RUNNING" ELSE "UNUSED"]
        /\ current = 1
        /\ ppid = [p \in Slots |-> 0]
        /\ pgd = [p \in Slots |-> IF p = 1 THEN 1 ELSE 0]
        /\ ticks_to_sleep = [p \in Slots |-> 0]
        /\ alive = {1}
        /\ vparent = [p \in Slots |-> 0]
        /\ freed = {}
        /\ misled = FALSE
        /\ crashed = FALSE

\* The READY process that comes first after c, cyclically over the slots but
\* the swapper's, c itself last; the swapper if there is none.
pick_next_context(s, c) ==
  LET ready == {p \in Procs : s[p] = "READY"}
      distance(p) == IF p > c THEN p - c ELSE p - c + MAX_PROCESSES - 1
  IN  IF ready = {} THEN 0
      ELSE CHOOSE p \in ready : \A q \in ready : distance(p) <= distance(q)

schedule(s, n) == /\ state' = [s EXCEPT ![n] = "RUNNING"]
                  /\ current' = n

Running(p) == ~crashed /\ current = p /\ p \in Procs

-----------------------------------------------------------------------------
\* do_sleep_and_alarm_account: every sleeper counts down and the last tick
\* makes it READY.
Sleeping(p) == state[p] = "WAITING" /\ ticks_to_sleep[p] > 0

account ==
  /\ ticks_to_sleep' = [p \in Slots |-> IF Sleeping(p) THEN ticks_to_sleep[p] - 1
                                                       ELSE ticks_to_sleep[p]]
  /\ UNCHANGED <<ppid, pgd, alive, vparent, freed, misled, crashed>>

\* Mutant: the interrupted context stays RUNNING.
handle_timer_tick_running ==
  /\ ~crashed /\ current # NoProc
  /\ account
  /\ LET s == [p \in Slots |-> IF Sleeping(p) /\ ticks_to_sleep[p] = 1 THEN "READY" ELSE state[p]]
     IN  schedule(s, pick_next_context(s, current))

\* The interrupted context becomes READY; when it is picked again it goes on
\* without becoming RUNNING.
handle_timer_tick ==
  /\ ~crashed /\ current # NoProc
  /\ account
  /\ LET s == [p \in Slots |-> IF p = current \/ (Sleeping(p) /\ ticks_to_sleep[p] = 1)
                               THEN "READY" ELSE state[p]]
         n == pick_next_context(s, current)
     IN  IF n = current THEN state' = s /\ UNCHANGED current
                        ELSE schedule(s, n)

do_sleep(p, ticks) ==
  /\ Running(p)
  /\ ticks_to_sleep' = [ticks_to_sleep EXCEPT ![p] = ticks]
  /\ LET s == [state EXCEPT ![p] = "WAITING"]
     IN  schedule(s, pick_next_context(s, p))
  /\ UNCHANGED <<ppid, pgd, alive, vparent, freed, misled, crashed>>

\* vfork_exit_handle: the process in the slot ppid names is made READY when it
\* uses the same page table, whatever its state is.
vfork_exit_handle(p) ==
  IF pgd[ppid[p]] = pgd[p] THEN [state EXCEPT ![ppid[p]] = "READY"] ELSE state

\* Back to the gemOS shell; pt_cleanup frees the last process's page table.
do_cleanup(s, p) == /\ state' = s
                    /\ current' = NoProc
                    /\ freed' = freed \cup {pgd[p]}

\* The exit of p wakes a slot though that is not a parent waiting for p: the
\* parent has exited, or p is a thread, whose ppid do_clone has not set.
Misled(p) == pgd[ppid[p]] = pgd[p] /\ ppid[p] # vparent[p]

\* Mutant: the test for other processes also sees the swapper.
do_exit_swapper_counts(p) ==
  /\ Running(p)
  /\ LET s == [vfork_exit_handle(p) EXCEPT ![p] = "UNUSED"]
     IN  IF \A q \in Slots : s[q] = "UNUSED"
         THEN do_cleanup(s, p)
         ELSE schedule(s, pick_next_context(s, p)) /\ UNCHANGED freed
  /\ alive' = alive \ {p}
  /\ vparent' = [vparent EXCEPT ![p] = 0]
  /\ misled' = (misled \/ Misled(p))
  /\ UNCHANGED <<ppid, pgd, ticks_to_sleep, crashed>>

do_exit(p) ==
  /\ Running(p)
  /\ LET s == [vfork_exit_handle(p) EXCEPT ![p] = "UNUSED"]
     IN  IF \A q \in Procs : s[q] = "UNUSED"
         THEN do_cleanup(s, p)
         ELSE schedule(s, pick_next_context(s, p)) /\ UNCHANGED freed
  /\ alive' = alive \ {p}
  /\ vparent' = [vparent EXCEPT ![p] = 0]
  /\ misled' = (misled \/ Misled(p))
  /\ UNCHANGED <<ppid, pgd, ticks_to_sleep, crashed>>

\* os_pfn_alloc for the page table of context n: one that was freed or one
\* that no context names.  do_exit frees none.
NewPgd(n) ==
  \E g \in freed \cup {Min({h \in 1 .. MAX_PROCESSES + 1 : \A q \in Slots : pgd[q] # h})} :
     /\ pgd' = [pgd EXCEPT ![n] = g]
     /\ freed' = freed \ {g}

\* The shell starts init again in the first UNUSED slot.
exec_init ==
  /\ current = NoProc
  /\ state' = [state EXCEPT ![1] = "RUNNING"]
  /\ current' = 1
  /\ NewPgd(1)
  /\ alive' = {1}
  /\ UNCHANGED <<ppid, ticks_to_sleep, vparent, misled, crashed>>

-----------------------------------------------------------------------------
\* get_new_ctx: the first UNUSED slot.
Unused == {p \in Slots : state[p] = "UNUSED"}
NewCtx == Min(Unused)

\* With no slot left get_new_ctx returns NULL, which its callers dereference.
TableFull(p) ==
  /\ Running(p) /\ Creates # {}
  /\ Unused = {}
  /\ crashed' = TRUE
  /\ UNCHANGED <<state, current, ctx, alive, vparent, freed, misled>>

CopyTicks(n, p) == ticks_to_sleep' = [ticks_to_sleep EXCEPT ![n] = ticks_to_sleep[p]]

\* do_fork and do_cfork: the whole context is copied, the child gets a page
\* table of its own and waits for its turn.
do_fork(p) ==
  /\ Running(p) /\ "fork" \in Creates /\ Unused # {}
  /\ state' = [state EXCEPT ![NewCtx] = "READY"]
  /\ ppid' = [ppid EXCEPT ![NewCtx] = p]
  /\ NewPgd(NewCtx)
  /\ vparent' = [vparent EXCEPT ![NewCtx] = 0]
  /\ CopyTicks(NewCtx, p)
  /\ alive' = alive \cup {NewCtx}
  /\ UNCHANGED <<current, misled, crashed>>

\* Mutant: the parent stays READY.
do_vfork_parent_ready(p) ==
  /\ Running(p) /\ "vfork" \in Creates /\ Unused # {}
  /\ schedule([state EXCEPT ![p] = "READY"], NewCtx)
  /\ ppid' = [ppid EXCEPT ![NewCtx] = p]
  /\ pgd' = [pgd EXCEPT ![NewCtx] = pgd[p]]
  /\ vparent' = [vparent EXCEPT ![NewCtx] = p]
  /\ CopyTicks(NewCtx, p)
  /\ alive' = alive \cup {NewCtx}
  /\ UNCHANGED <<freed, misled, crashed>>

\* do_vfork: the child runs at once on the parent's page table.
do_vfork(p) ==
  /\ Running(p) /\ "vfork" \in Creates /\ Unused # {}
  /\ schedule([state EXCEPT ![p] = "WAITING"], NewCtx)
  /\ ppid' = [ppid EXCEPT ![NewCtx] = p]
  /\ pgd' = [pgd EXCEPT ![NewCtx] = pgd[p]]
  /\ vparent' = [vparent EXCEPT ![NewCtx] = p]
  /\ CopyTicks(NewCtx, p)
  /\ alive' = alive \cup {NewCtx}
  /\ UNCHANGED <<freed, misled, crashed>>

\* do_clone: a thread on the same page table; ppid is not assigned.
do_clone(p) ==
  /\ Running(p) /\ "clone" \in Creates /\ Unused # {}
  /\ state' = [state EXCEPT ![NewCtx] = "READY"]
  /\ pgd' = [pgd EXCEPT ![NewCtx] = pgd[p]]
  /\ vparent' = [vparent EXCEPT ![NewCtx] = 0]
  /\ CopyTicks(NewCtx, p)
  /\ alive' = alive \cup {NewCtx}
  /\ UNCHANGED <<current, ppid, freed, misled, crashed>>

Next == \/ handle_timer_tick
        \/ exec_init
        \/ \E p \in Procs : \/ \E t \in SleepTicks : do_sleep(p, t)
                            \/ do_exit(p) \/ TableFull(p)
                            \/ do_fork(p) \/ do_vfork(p) \/ do_clone(p)

Spec == Init /\ [][Next]_vars

-----------------------------------------------------------------------------
(***************************************************************************)
(* Properties                                                               *)
(***************************************************************************)
TypeOK == /\ state \in [Slots -> States]
          /\ current \in Slots \cup {NoProc}
          /\ ppid \in [Slots -> Slots]
          /\ pgd \in [Slots -> 0 .. MAX_PROCESSES + 1]
          /\ ticks_to_sleep \in [Slots -> 0 .. MaxOf(SleepTicks)]
          /\ alive \subseteq Procs
          /\ vparent \in [Slots -> Slots]
          /\ freed \subseteq 1 .. MAX_PROCESSES + 1
          /\ misled \in BOOLEAN /\ crashed \in BOOLEAN

\* Only the current context can be RUNNING, and the current context is neither
\* waiting nor dead: sleep, exit and vfork never leave the processor with a
\* context that has been taken off it.
OneRunning ==
  /\ TypeOK
  /\ \A p \in Slots : state[p] = "RUNNING" => current = p
  /\ current # NoProc => state[current] \in {"RUNNING", "READY"}

\* "The parent continues in waiting state until child exits": while a vfork
\* child lives, the process whose memory it borrows does not run, whatever other
\* processes are created, sleep and exit, until an exit has been misled.
ParentWaits ==
  ~misled => \A p \in Procs : vparent[p] # 0 => state[vparent[p]] = "WAITING"

\* "If the only process alive in system is swapper, invoke do_cleanup()": when
\* the last process has exited the shell is back, and until then it is not; but
\* a misled exit can leave a dead context READY.
CleanupAtLastExit == ~misled => (alive = {} <=> current = NoProc)
=============================================================================
