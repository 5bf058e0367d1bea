------------------------------ MODULE Signals -------------------------------
(***************************************************************************)
(* Signals, user registers and the scheduler of the gemOS of Assignment 2   *)
(* (entry.c, schedule.c, idt.c, context.c): handlers of SIGSEGV, SIGFPE and *)
(* SIGALRM run on the stack of the interrupted program, and the registers   *)
(* of a process that does not run are kept in its context.                  *)
(*                                                                          *)
(* A register file is the user's rip and the return addresses on its stack. *)
(* The address "main" stands for any point of the program, "thread" for any *)
(* point of a clone's function, and a member of Handlers for any point of   *)
(* that handler.  Kernel code runs with interrupts off: a handler is a step.*)
(***************************************************************************)
EXTENDS Integers, Sequences, SequencesExt, FiniteSetsExt

CONSTANTS MAX_PROCESSES,   \* slots of the context table (7); slot 0 is the swapper
          Handlers,        \* addresses of the handler functions of the programs
          SleepTicks,      \* arguments of sleep
          AlarmTicks,      \* arguments of alarm
          Handled,         \* signals the programs register handlers for
          UserStack        \* return addresses that fit on a user stack

ASSUME SignalsAssumption == /\ MAX_PROCESSES \in Nat /\ MAX_PROCESSES > 1
                            /\ Handlers \cap {"NULL", "main", "thread"} = {}
                            /\ SleepTicks \subseteq Nat /\ AlarmTicks \subseteq Nat
                            /\ Handled \subseteq {"SIGSEGV", "SIGFPE", "SIGALRM"}
                            /\ UserStack \in Nat

VARIABLES state, current,  \* ctx->state of every slot, the slot that runs (NoProc: shell)
          live,            \* the user registers on the processor
          regs,            \* ctx->regs
          sighandlers,     \* ctx->sighandlers
          ticks_to_sleep, ticks_to_alarm, alarm_config_time,
          own,             \* handlers a process or the ones it was copied from registered
          crashed          \* NULL used as a context, or a frame written past the stack

timers == <<ticks_to_sleep, ticks_to_alarm, alarm_config_time>>
vars   == <<state, current, live, regs, sighandlers, timers, own, crashed>>

Slots   == 0 .. MAX_PROCESSES - 1
Procs   == Slots \ {0}
NoProc  == MAX_PROCESSES
SIGNOS  == {"SIGSEGV", "SIGFPE", "SIGALRM"}
At(rip) == [rip |-> rip, stack |-> <<>>]

Init == /\ state = [p \in Slots |-> CASE p = 0 -> "READY" [] p = 1 -> "RUNNING" [] OTHER -> "UNUSED"]
        /\ current = 1
        /\ live = At("main")
        /\ regs = [p \in Slots |-> At(IF p = 0 THEN "swapper_task" ELSE "NULL")]
        /\ sighandlers = [p \in Slots |-> [s \in SIGNOS |-> "NULL"]]
        /\ ticks_to_sleep = [p \in Slots |-> 0]
        /\ ticks_to_alarm = [p \in Slots |-> 0]
        /\ alarm_config_time = [p \in Slots |-> 0]
        /\ own = [p \in Slots |-> {}]
        /\ crashed = FALSE

Running(p) == ~crashed /\ current = p /\ p \in Procs

-----------------------------------------------------------------------------
\* Mutant: the search starts at the first slot, not after c.
pick_next_context_first(s, c) ==
  LET ready == {p \in Procs : s[p] = "READY"}
  IN  IF ready = {} THEN 0 ELSE Min(ready)

\* The READY process that comes first after c, cyclically over the slots but
\* the swapper's, c itself last; the swapper if there is none.
pick_next_context(s, c) ==
  LET ready == {p \in Procs : s[p] = "READY"}
      distance(p) == IF p > c THEN p - c ELSE p - c + MAX_PROCESSES - 1
  IN  IF ready = {} THEN 0
      ELSE CHOOSE p \in ready : \A q \in ready : distance(p) <= distance(q)

\* The registers of the context are popped from the kernel stack.
return_from_os(r) == live' = r

\* Context n gets the processor with the registers r[n].
schedule(s, r, n) == /\ state' = [s EXCEPT ![n] = "RUNNING"]
                     /\ current' = n
                     /\ regs' = r
                     /\ return_from_os(r[n])

\* do_exit; the last process returns to the shell through do_cleanup.
do_exit(p) ==
  /\ LET s == [state EXCEPT ![p] = "UNUSED"]
     IN  IF \A q \in Procs : s[q] = "UNUSED"
         THEN state' = s /\ current' = NoProc /\ UNCHANGED <<live, regs>>
         ELSE schedule(s, regs, pick_next_context(s, p))
  /\ UNCHANGED <<sighandlers, timers, own, crashed>>

-----------------------------------------------------------------------------
\* Mutant: the interrupted address is not pushed.
invoke_sync_signal_unframed(p, signo, r) == [r EXCEPT !.rip = sighandlers[p][signo]]

\* invoke_sync_signal with a handler: the interrupted address is pushed on the
\* user's stack and the handler runs next.
invoke_sync_signal(p, signo, r) == [rip   |-> sighandlers[p][signo],
                                    stack |-> Append(r.stack, r.rip)]

\* The kernel does not check the user's stack before it writes the frame.
StackFull(r) == Len(r.stack) = UserStack

Crash == /\ crashed' = TRUE
         /\ UNCHANGED <<state, current, live, regs, sighandlers, timers, own>>

\* An exception of the running program: its handler, or exit without one.
Raise(p, signo) ==
  /\ Running(p)
  /\ \/ sighandlers[p][signo] = "NULL" /\ do_exit(p)
     \/ sighandlers[p][signo] # "NULL" /\ StackFull(live) /\ Crash
     \/ /\ sighandlers[p][signo] # "NULL" /\ ~StackFull(live)
        /\ live' = invoke_sync_signal(p, signo, live)
        /\ UNCHANGED <<state, current, regs, sighandlers, timers, own, crashed>>

\* The divide error, and the page fault no segment explains (sig_exit).
do_div_by_zero(p) == Raise(p, "SIGFPE")
do_page_fault(p)  == Raise(p, "SIGSEGV")

\* The general protection fault ends the process, handler or not.
do_gp(p) == Running(p) /\ do_exit(p)

\* The ret of a handler (user code).
HandlerReturns(p) ==
  /\ Running(p) /\ live.rip \in Handlers
  /\ live' = [rip |-> Last(live.stack), stack |-> Front(live.stack)]
  /\ UNCHANGED <<state, current, regs, sighandlers, timers, own, crashed>>

-----------------------------------------------------------------------------
\* do_sleep_and_alarm_account: every sleeper counts down and the last tick
\* makes it READY; only the interrupted context's alarm counts.
Sleeping(p)  == state[p] = "WAITING" /\ ticks_to_sleep[p] > 0
Wakes(p)     == Sleeping(p) /\ ticks_to_sleep[p] = 1
AlarmDue     == ticks_to_alarm[current] = 1
SIGALRM_sent == AlarmDue /\ sighandlers[current]["SIGALRM"] # "NULL"

do_sleep_and_alarm_account ==
  /\ ticks_to_sleep' = [p \in Slots |-> ticks_to_sleep[p] - (IF Sleeping(p) THEN 1 ELSE 0)]
  /\ ticks_to_alarm' = [ticks_to_alarm EXCEPT ![current] =
                          CASE @ = 0 -> 0 [] @ = 1 -> alarm_config_time[current] [] OTHER -> @ - 1]
  /\ UNCHANGED <<sighandlers, alarm_config_time, own, crashed>>

\* The interrupted registers after the accounting.
Interrupted == IF SIGALRM_sent THEN invoke_sync_signal(current, "SIGALRM", live) ELSE live

Requeued == [p \in Slots |-> IF p = current \/ Wakes(p) THEN "READY" ELSE state[p]]

\* Mutants: the new context's registers are loaded before the old one's are
\* saved; a sleeper whose time is over stays WAITING.
handle_timer_tick_load_first ==
  /\ ~crashed /\ current # NoProc
  /\ ~(SIGALRM_sent /\ StackFull(live))
  /\ do_sleep_and_alarm_account
  /\ LET n == pick_next_context(Requeued, current)
     IN  IF n = current THEN state' = Requeued /\ live' = Interrupted /\ UNCHANGED <<current, regs>>
                        ELSE schedule(Requeued, [regs EXCEPT ![current] = regs[n]], n)

handle_timer_tick_no_wake ==
  /\ ~crashed /\ current # NoProc
  /\ ~(SIGALRM_sent /\ StackFull(live))
  /\ do_sleep_and_alarm_account
  /\ LET s == [state EXCEPT ![current] = "READY"]
         n == pick_next_context(s, current)
     IN  IF n = current THEN state' = s /\ live' = Interrupted /\ UNCHANGED <<current, regs>>
                        ELSE schedule(s, [regs EXCEPT ![current] = Interrupted], n)

\* The interrupted context becomes READY and its registers are saved in it;
\* when it is picked again it goes on without becoming RUNNING.
handle_timer_tick ==
  /\ ~crashed /\ current # NoProc
  /\ ~(SIGALRM_sent /\ StackFull(live))
  /\ do_sleep_and_alarm_account
  /\ LET n == pick_next_context(Requeued, current)
     IN  IF n = current THEN state' = Requeued /\ live' = Interrupted /\ UNCHANGED <<current, regs>>
                        ELSE schedule(Requeued, [regs EXCEPT ![current] = Interrupted], n)

TickPastStack == ~crashed /\ current # NoProc /\ SIGALRM_sent /\ StackFull(live) /\ Crash

\* The timer interrupt.
handle_irq == handle_timer_tick \/ TickPastStack

-----------------------------------------------------------------------------
\* System calls.  do_syscall first saves the user's registers in the context;
\* only the calls that switch or copy contexts read them there.
Saved(p) == [regs EXCEPT ![p] = live]

do_sleep(p, ticks) ==
  /\ Running(p)
  /\ ticks_to_sleep' = [ticks_to_sleep EXCEPT ![p] = ticks]
  /\ LET s == [state EXCEPT ![p] = "WAITING"]
     IN  schedule(s, Saved(p), pick_next_context(s, p))
  /\ UNCHANGED <<sighandlers, ticks_to_alarm, alarm_config_time, own, crashed>>

do_alarm(p, ticks) ==
  /\ Running(p) /\ ticks > 0
  /\ alarm_config_time' = [alarm_config_time EXCEPT ![p] = ticks]
  /\ ticks_to_alarm' = [ticks_to_alarm EXCEPT ![p] = ticks]
  /\ UNCHANGED <<state, current, live, regs, sighandlers, ticks_to_sleep, own, crashed>>

\* Mutant: one table of handlers for all contexts.
do_signal_global(p, signo, handler) ==
  /\ Running(p)
  /\ sighandlers' = [q \in Slots |-> [sighandlers[q] EXCEPT ![signo] = handler]]
  /\ own' = [own EXCEPT ![p] = @ \cup {handler}]
  /\ UNCHANGED <<state, current, live, regs, timers, crashed>>

do_signal(p, signo, handler) ==
  /\ Running(p)
  /\ sighandlers' = [sighandlers EXCEPT ![p][signo] = handler]
  /\ own' = [own EXCEPT ![p] = @ \cup {handler}]
  /\ UNCHANGED <<state, current, live, regs, timers, crashed>>

exit(p) == Running(p) /\ do_exit(p)

\* get_new_ctx: the first UNUSED slot, or NULL, which its callers dereference.
Unused == {p \in Slots : state[p] = "UNUSED"}
NewCtx == Min(Unused)

TableFull(p) == Running(p) /\ Unused = {} /\ Crash

\* What do_fork and do_clone both copy from the parent.
NewContext(p, r) ==
  /\ Running(p) /\ Unused # {}
  /\ state' = [state EXCEPT ![NewCtx] = "READY"]
  /\ regs' = [regs EXCEPT ![NewCtx] = r]
  /\ sighandlers' = [sighandlers EXCEPT ![NewCtx] = sighandlers[p]]
  /\ own' = [own EXCEPT ![NewCtx] = own[p]]
  /\ ticks_to_sleep' = [ticks_to_sleep EXCEPT ![NewCtx] = ticks_to_sleep[p]]
  /\ ticks_to_alarm' = [ticks_to_alarm EXCEPT ![NewCtx] = ticks_to_alarm[p]]
  /\ alarm_config_time' = [alarm_config_time EXCEPT ![NewCtx] = alarm_config_time[p]]
  /\ UNCHANGED <<current, live, crashed>>

\* fork copies the whole context and the stack; clone starts th_func on the
\* empty stack it is given.
do_fork(p)  == NewContext(p, live)
do_clone(p) == NewContext(p, At("thread"))

\* The shell starts init again in the first UNUSED slot; create_context leaves
\* the handlers and alarms of the slot's previous owner in place.
exec_init ==
  /\ current = NoProc /\ ~crashed
  /\ state' = [state EXCEPT ![1] = "RUNNING"]
  /\ current' = 1
  /\ live' = At("main")
  /\ own' = [own EXCEPT ![1] = {sighandlers[1][s] : s \in SIGNOS} \cap Handlers]
  /\ UNCHANGED <<regs, sighandlers, timers, crashed>>

Next == \/ handle_irq \/ exec_init
        \/ \E p \in Procs :
             \/ do_div_by_zero(p) \/ do_page_fault(p) \/ do_gp(p) \/ HandlerReturns(p)
             \/ \E t \in SleepTicks : do_sleep(p, t)
             \/ \E t \in AlarmTicks : do_alarm(p, t)
             \/ \E s \in Handled, h \in Handlers : do_signal(p, s, h)
             \/ exit(p) \/ do_fork(p) \/ do_clone(p) \/ TableFull(p)

\* The timer interrupt keeps coming and user code cannot mask it.
FairSpec == Init /\ [][Next]_vars /\ WF_vars(handle_irq)

-----------------------------------------------------------------------------
(***************************************************************************)
(* Properties                                                               *)
(***************************************************************************)
Alive == {p \in Procs : state[p] # "UNUSED"}

\* The user registers of process p, on the processor or in its context.
Context(p) == IF p = current THEN live ELSE regs[p]

Addresses == Handlers \cup {"main", "thread", "swapper_task", "NULL"}

TypeOK == /\ state \in [Slots -> {"UNUSED", "READY", "RUNNING", "WAITING"}]
          /\ current \in Slots \cup {NoProc}
          /\ \A p \in Slots : /\ regs[p].rip \in Addresses
                              /\ Len(regs[p].stack) <= UserStack
          /\ sighandlers \in [Slots -> [SIGNOS -> Handlers \cup {"NULL"}]]
          /\ \A p \in Slots : /\ ticks_to_sleep[p] \in Nat
                              /\ ticks_to_alarm[p] <= alarm_config_time[p]
          /\ own \in [Slots -> SUBSET Handlers]

\* A process only ever runs handlers that it, or a process it was copied from,
\* registered, however ticks, switches, forks and exits fall.  (A restarted init
\* counts what it finds in its slot as its own.)
OwnHandlers ==
  \A p \in Alive :
    LET c == Context(p) IN ({c.rip} \cup ToSet(c.stack)) \cap Handlers \subseteq own[p]

\* Whatever signals interrupt it, and however handlers nest, a program comes
\* back: below the return addresses of handlers lies an address of the program
\* itself, and a program outside its handlers has nothing left on the stack.
ReturnsToProgram ==
  /\ TypeOK
  /\ \A p \in Alive :
       LET c == Context(p)
       IN  IF c.rip \in Handlers
           THEN /\ c.stack # <<>> /\ c.stack[1] \in {"main", "thread"}
                /\ \A i \in 2 .. Len(c.stack) : c.stack[i] \in Handlers
           ELSE c.rip \in {"main", "thread"} /\ c.stack = <<>>

\* Ticks, system calls, exceptions and switches never lose registers: those of
\* a process that does not run stay as they are, and those of the one that runs
\* change only by a frame a signal pushes or a handler's return pops, also in the
\* tick that takes the processor away.
Framed(c, d)  == d.stack = Append(c.stack, c.rip)
RegistersKept ==
  [][\A p \in Alive :
       state'[p] # "UNUSED" => LET c == Context(p)
                                   d == Context(p)'
                               IN  \/ d = c
                                   \/ p = current /\ (Framed(c, d) \/ Framed(d, c))]_vars

\* Everybody who sleeps for a positive time wakes up, whoever runs meanwhile.
SleepEnds == \A p \in Procs : Sleeping(p) ~> (state[p] # "WAITING" \/ crashed)

\* A READY process is not overtaken for ever by the processes around it, faults,
\* forks and restarts included.
NoStarvation == \A p \in Procs : state[p] = "READY" ~> (current = p \/ crashed \/ state[p] # "READY")
=============================================================================
