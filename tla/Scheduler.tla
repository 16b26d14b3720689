----------------------------- MODULE Scheduler -----------------------------
(***************************************************************************)
(* The round-robin scheduler of the kernel (kcore/scheduler.c) together    *)
(* with what its correctness rests on: the matched irq_save/irq_restore of *)
(* kcore/irq.c, the spinlocks of cpu_spinlock.h, the timer interrupt path  *)
(* of isr.c, the context switch of cpu_context_inc.S and the start-up code *)
(* that creates processes (kmain.c, halinit.c, proc.c, arch_proc.c).       *)
(*                                                                         *)
(* A processor is wherever its current process is: pc[p] is the point the  *)
(* process has reached in the kernel, and stays there while the process is *)
(* switched out.  An interrupt can arrive between any two actions of a     *)
(* processor whose interrupt flag is set.                                  *)
(***************************************************************************)
EXTENDS Naturals, Integers, Sequences, FiniteSets

CONSTANTS
  CPUs,        \* processors that run the kernel
  BP,          \* the bootstrap processor
  StartProc,   \* StartProc[c]: the process the start-up code of c runs as
  KernelTasks, \* processes made by proc_create_kernelproc
  UserTasks,   \* processes made by proc_create_userproc
  SMP,         \* is the preprocessor symbol SMP defined
  MaxNest,     \* bound: nested irq_save in code outside the scheduler
  NoProc       \* the null proc_t*

Tasks == KernelTasks \cup UserTasks
StartProcs == {StartProc[c] : c \in CPUs}
Procs == Tasks \cup StartProcs
Boot == StartProc[BP]

ASSUME CpuAssumption ==
  /\ BP \in CPUs
  /\ SMP \in BOOLEAN
  /\ ~SMP => CPUs = {BP}
ASSUME ProcAssumption ==
  /\ StartProc \in [CPUs -> StartProcs]
  /\ \A c, d \in CPUs : StartProc[c] = StartProc[d] => c = d
  /\ Tasks \cap StartProcs = {}
  /\ KernelTasks \cap UserTasks = {}
  /\ NoProc \notin Procs
ASSUME BoundAssumption == MaxNest \in Nat

SLICE == 2          \* ticks a process gets when it is switched to
Forever == 9        \* slice_ticks = 0x0FFFFFFFFFFFFFFF, which no run uses up

VARIABLES
  current,          \* cpu->currentproc
  idleproc,         \* cpu->idleproc
  iflag,            \* the interrupt flag of the processor
  inService,        \* an interrupt has been delivered and not yet had its EOI
  state,            \* proc->state
  slice,            \* proc->slice_ticks
  ncli,             \* proc->ncli
  intenable,        \* proc->intenable
  savedIF,          \* interrupt flag in the rflags that cpu_swapcontext pops
  pc,               \* the point in the kernel the process has reached
  ret,              \* where the interrupt the process is in returns to
  todo,             \* handlers irq_process_irq still has to call for it
  runnablelist,     \* the list of runnable processes, head first
  runninglist,      \* the members of the list of running processes
  schedulerspin,    \* the lock word of schedulerspin (used if SMP)
  schedulercounter,
  handlers,         \* entries of isr_chain[IRQ_STARTVECTOR]
  boot,             \* how far kmain_bp_enter has come
  panic             \* the PANIC that has stopped the kernel, or "none"

cpuVars == <<current, idleproc, iflag, inService>>
irqVars == <<ncli, intenable>>
whereVars == <<pc, ret, todo, savedIF>>
listVars == <<runnablelist, runninglist, state>>
lockVars == <<schedulerspin, schedulercounter>>
startVars == <<handlers, boot>>
vars == <<cpuVars, irqVars, whereVars, listVars, lockVars, startVars, slice, panic>>

(***************************************************************************)
(* irq_save and irq_restore, for process p on processor c.                 *)
(***************************************************************************)

\* Mutant: the flag is recorded at every nesting level.
irq_save_always(c, p) ==
  /\ intenable' = [intenable EXCEPT ![p] = iflag[c]]
  /\ ncli' = [ncli EXCEPT ![p] = @ + 1]
  /\ iflag' = [iflag EXCEPT ![c] = FALSE]

irq_save(c, p) ==
  /\ intenable' = IF ncli[p] = 0 THEN [intenable EXCEPT ![p] = iflag[c]]
                                 ELSE intenable
  /\ ncli' = [ncli EXCEPT ![p] = @ + 1]
  /\ iflag' = [iflag EXCEPT ![c] = FALSE]

irq_restore_panic(c, p) ==
  IF iflag[c] THEN "popcli - interruptible"
  ELSE IF ncli[p] - 1 < 0 THEN "popcli called 1 more time then pushcli?"
  ELSE panic

\* Mutant: interrupts come back with the innermost irq_restore.
irq_restore_eager(c, p) ==
  /\ ncli' = [ncli EXCEPT ![p] = @ - 1]
  /\ iflag' = IF intenable[p] THEN [iflag EXCEPT ![c] = TRUE] ELSE iflag
  /\ UNCHANGED intenable

irq_restore(c, p) ==
  /\ ncli' = [ncli EXCEPT ![p] = @ - 1]
  /\ iflag' = IF ncli[p] = 1 /\ intenable[p] THEN [iflag EXCEPT ![c] = TRUE]
                                             ELSE iflag
  /\ UNCHANGED intenable

Live == panic = "none"
At(c, point) == pc[current[c]] = point
Goto(p, point) == pc' = [pc EXCEPT ![p] = point]

(***************************************************************************)
(* Code of the processes and interrupt handlers other than the scheduler:  *)
(* it holds spinlocks (printf, slab, process table, ...), nested to any    *)
(* depth, both with interrupts on and inside an interrupt or system call.  *)
(***************************************************************************)

LockSomething(c) ==
  LET p == current[c] IN
  /\ Live /\ p # NoProc /\ pc[p] \in {"thread", "irq", "syscall"}
  /\ ncli[p] < MaxNest
  /\ irq_save(c, p)
  /\ UNCHANGED <<current, idleproc, inService, whereVars, listVars, lockVars,
                 startVars, slice, panic>>

UnlockSomething(c) ==
  LET p == current[c] IN
  /\ Live /\ p # NoProc /\ pc[p] \in {"thread", "irq", "syscall"}
  /\ ncli[p] > 0
  /\ irq_restore(c, p)
  /\ panic' = irq_restore_panic(c, p)
  /\ UNCHANGED <<current, idleproc, inService, whereVars, listVars, lockVars,
                 startVars, slice>>

(***************************************************************************)
(* Interrupts.  The gates are interrupt gates: entry clears the flag.  The *)
(* local APIC delivers no further interrupt of this class before the EOI.  *)
(***************************************************************************)

InterruptEntry(c, point) ==
  LET p == current[c] IN
  /\ Live /\ p # NoProc
  /\ iflag' = [iflag EXCEPT ![c] = FALSE]
  /\ ret' = [ret EXCEPT ![p] = pc[p]]
  /\ Goto(p, point)
  /\ UNCHANGED <<current, idleproc, irqVars, todo, savedIF, listVars, lockVars,
                 startVars, slice, panic>>

TimerInterrupt(c) ==
  /\ iflag[c] /\ ~inService[c] /\ handlers > 0
  /\ inService' = [inService EXCEPT ![c] = TRUE]
  /\ InterruptEntry(c, "tick")

DeviceInterrupt(c) ==
  /\ iflag[c] /\ ~inService[c]
  /\ inService' = [inService EXCEPT ![c] = TRUE]
  /\ InterruptEntry(c, "irq")

Syscall(c) ==
  /\ current[c] \in UserTasks /\ At(c, "thread") /\ ncli[current[c]] = 0
  /\ UNCHANGED inService
  /\ InterruptEntry(c, "syscall")

\* End of isr_generic for a device: the EOI comes after the handlers.
DeviceDone(c) ==
  LET p == current[c] IN
  /\ Live /\ p # NoProc /\ pc[p] = "irq" /\ ncli[p] = 0
  /\ inService' = [inService EXCEPT ![c] = FALSE]
  /\ Goto(p, "iret")
  /\ UNCHANGED <<current, idleproc, iflag, irqVars, ret, todo, savedIF, listVars,
                 lockVars, startVars, slice, panic>>

SyscallDone(c) ==
  LET p == current[c] IN
  /\ Live /\ p # NoProc /\ pc[p] = "syscall" /\ ncli[p] = 0
  /\ Goto(p, "iret")
  /\ UNCHANGED <<cpuVars, irqVars, ret, todo, savedIF, listVars, lockVars,
                 startVars, slice, panic>>

\* isr_exit: the flags of the interrupted code come back with iretq.
Iret(c) ==
  LET p == current[c] IN
  /\ Live /\ p # NoProc /\ pc[p] \in {"iret", "usrexit"}
  /\ iflag' = [iflag EXCEPT ![c] = TRUE]
  /\ Goto(p, IF pc[p] = "iret" THEN ret[p] ELSE "thread")
  /\ UNCHANGED <<current, idleproc, inService, irqVars, ret, todo, savedIF,
                 listVars, lockVars, startVars, slice, panic>>

\* Mutant: the timer is handled like a device, with the EOI after the handlers
\* (which a switched-out process has not come to yet).
EoiFirst_late(c) == UNCHANGED inService

EoiFirst(c) == inService' = [inService EXCEPT ![c] = FALSE]

\* isr_generic for the timer: the EOI comes before the handlers.
TimerEoi(c) ==
  LET p == current[c] IN
  /\ Live /\ p # NoProc /\ pc[p] = "tick"
  /\ EoiFirst(c)
  /\ todo' = [todo EXCEPT ![p] = handlers]
  /\ Goto(p, "chain")
  /\ UNCHANGED <<current, idleproc, iflag, irqVars, ret, savedIF, listVars,
                 lockVars, startVars, slice, panic>>

CountDown(n) == IF n \in {0, Forever} THEN n ELSE n - 1

\* irq_cpu_localtimer_tick_cb up to the spinlock of scheduler_schedule.
Tick(c) ==
  LET p == current[c] IN
  /\ Live /\ p # NoProc /\ pc[p] = "chain" /\ todo[p] > 0
  /\ slice' = [slice EXCEPT ![p] = CountDown(@)]
  /\ todo' = [todo EXCEPT ![p] = @ - 1]
  /\ IF ncli[p] = 0
       THEN irq_save(c, p) /\ Goto(p, "lock")
       ELSE UNCHANGED <<irqVars, iflag, pc>>
  /\ UNCHANGED <<current, idleproc, inService, ret, savedIF, listVars, lockVars,
                 startVars, panic>>

ChainDone(c) ==
  LET p == current[c] IN
  /\ Live /\ p # NoProc /\ pc[p] = "chain" /\ todo[p] = 0
  /\ Goto(p, "iret")
  /\ UNCHANGED <<cpuVars, irqVars, ret, todo, savedIF, listVars, lockVars,
                 startVars, slice, panic>>

(***************************************************************************)
(* scheduler_schedule.  The lock is taken by the process that is switched  *)
(* away from and released by the process that is switched to.              *)
(***************************************************************************)

\* Mutant: the lock word is not waited for.
SpinlockFree_ignored == TRUE

\* The condition cpu_spinlock spins for.
SpinlockFree == SMP => ~schedulerspin

EnterSchedule(c) ==
  LET p == current[c] IN
  /\ Live /\ p # NoProc /\ pc[p] = "lock"
  /\ SpinlockFree
  /\ schedulerspin' = SMP
  /\ schedulercounter' = schedulercounter + 1
  /\ panic' = IF schedulercounter' # 1 THEN "Schedulercounter>1" ELSE panic
  /\ Goto(p, "schedule")
  /\ UNCHANGED <<cpuVars, irqVars, ret, todo, savedIF, listVars, startVars, slice>>

\* The process to switch to: the head of the list, the running process when
\* there is no other, the idle process when the current one cannot go on.
NextProc(c) ==
  IF runnablelist # <<>> THEN Head(runnablelist)
  ELSE IF state[current[c]] = "RUNNING" THEN current[c]
  ELSE idleproc[c]

\* runnablelist after scheduler_dequeue.
Dequeued == IF runnablelist = <<>> THEN <<>> ELSE Tail(runnablelist)

\* A mutant: the idle process is queued like any other.
QueueAfter_idle(c) == Append(Dequeued, current[c])

\* runnablelist when the old process has been queued again, or parked.
QueueAfter(c) ==
  IF current[c] # idleproc[c] /\ state[current[c]] = "RUNNING"
    THEN Append(Dequeued, current[c]) ELSE Dequeued

\* scheduler_dequeue, then markkernelidle or enqueue of the old process, then
\* markrunning of the new one: the lists and states when all of it is done.
MoveLists(c, p) ==
  LET old == current[c]
  IN /\ runnablelist' = QueueAfter(c)
     /\ state' = [state EXCEPT
                    ![old] = IF old = idleproc[c] THEN "KERNELIDLEPROC"
                             ELSE IF @ = "RUNNING" THEN "RUNNABLE" ELSE @,
                    ![p] = "RUNNING"]
     /\ runninglist' = (runninglist \ {old}) \cup {p}

\* scheduler_switch_process and cpu_swapcontext.
SwitchTo(c, p) ==
  /\ MoveLists(c, p)
  /\ current' = [current EXCEPT ![c] = p]
  /\ slice' = [slice EXCEPT ![p] = SLICE]
  /\ savedIF' = [savedIF EXCEPT ![current[c]] = iflag[c]]
  /\ iflag' = [iflag EXCEPT ![c] = savedIF[p]]
  /\ Goto(current[c], "unlock")
  /\ UNCHANGED panic

NothingToSwitchTo ==
  /\ panic' = "Nothing to switch to!"
  /\ UNCHANGED <<listVars, current, slice, savedIF, iflag, pc>>

Schedule(c) ==
  LET old == current[c]
      p == NextProc(c)
  IN
  /\ Live /\ old # NoProc /\ pc[old] = "schedule"
  /\ \/ /\ slice[old] # 0 \/ p = old
        /\ Goto(old, "unlock")
        /\ UNCHANGED <<listVars, current, slice, savedIF, iflag, panic>>
     \/ /\ slice[old] = 0 /\ p # old
        /\ IF p # NoProc THEN SwitchTo(c, p) ELSE NothingToSwitchTo
  /\ UNCHANGED <<idleproc, inService, irqVars, ret, todo, lockVars, startVars>>

\* Where a process goes on after schedulerspin has been released: back into
\* irq_process_irq, or to its entry point through one of the trampolines.
AfterUnlock(p) ==
  CASE pc[p] = "unlock"                      -> "chain"
    [] pc[p] = "finish" /\ p \in KernelTasks -> "thread"
    [] OTHER                                 -> "usrexit"

CountDownEntry(p) == schedulercounter - 1

\* The last lines of scheduler_schedule and, for a new process, finish_switch.
Unlock(c) ==
  LET p == current[c] IN
  /\ Live /\ p # NoProc /\ pc[p] \in {"unlock", "finish"}
  /\ schedulercounter' = CountDownEntry(p)
  /\ schedulerspin' = FALSE
  /\ irq_restore(c, p)
  /\ panic' = IF SMP /\ ~schedulerspin THEN "Lock that is not locked??"
              ELSE irq_restore_panic(c, p)
  /\ Goto(p, AfterUnlock(p))
  /\ UNCHANGED <<current, idleproc, inService, ret, todo, savedIF, listVars,
                 startVars, slice>>

(***************************************************************************)
(* kmain_bp_enter: the bootstrap processor's process starts the timer,     *)
(* starts scheduling, creates the tasks and, when all are running, makes   *)
(* itself the idle process.                                                *)
(***************************************************************************)

InKmain(stage) ==
  /\ Live /\ current[BP] = Boot /\ pc[Boot] = "thread" /\ ncli[Boot] = 0
  /\ boot = stage

\* hal_start_cpuinterrupts on the bootstrap processor.
StartInterrupts ==
  /\ InKmain("init")
  /\ intenable' = [intenable EXCEPT ![Boot] = TRUE]
  /\ iflag' = [iflag EXCEPT ![BP] = TRUE]
  /\ handlers' = handlers + 1
  /\ boot' = "drivers"
  /\ UNCHANGED <<current, idleproc, inService, ncli, whereVars, listVars,
                 lockVars, slice, panic>>

\* hal_start_scheduling, first part: kmain can be preempted from here on.
StartScheduling ==
  /\ InKmain("drivers")
  /\ slice' = [slice EXCEPT ![Boot] = SLICE]
  /\ boot' = "tasks"
  /\ UNCHANGED <<cpuVars, irqVars, whereVars, listVars, lockVars, handlers, panic>>

\* The irq_save depth and the flags a new process starts with.
\* Mutant: ncli left at 0.
NewNcli_zero == 0
NewNcli == 1
NewFlags == FALSE

\* proc_create_kernelproc or proc_create_userproc, with the preparation of
\* the first stack: ncli is 1 for the unlock in finish_switch.
CreateTask(p) ==
  /\ InKmain("tasks")
  /\ state[p] = "UNUSED"
  /\ state' = [state EXCEPT ![p] = "EMBRYO"]
  /\ slice' = [slice EXCEPT ![p] = Forever]
  /\ ncli' = [ncli EXCEPT ![p] = NewNcli]
  /\ intenable' = [intenable EXCEPT ![p] = TRUE]
  /\ savedIF' = [savedIF EXCEPT ![p] = NewFlags]
  /\ Goto(p, "finish")
  /\ UNCHANGED <<cpuVars, ret, todo, runnablelist, runninglist, lockVars,
                 startVars, panic>>

EnqueueTask(p) ==
  /\ InKmain("tasks")
  /\ state[p] = "EMBRYO"
  /\ state' = [state EXCEPT ![p] = "RUNNABLE"]
  /\ runnablelist' = Append(runnablelist, p)
  /\ UNCHANGED <<cpuVars, irqVars, whereVars, runninglist, lockVars, startVars,
                 slice, panic>>

\* The end of kmain's setup: cpu->idleproc = cpu->currentproc.
BecomeIdle ==
  /\ InKmain("tasks")
  /\ \A p \in Tasks : state[p] \notin {"UNUSED", "EMBRYO"}
  /\ idleproc' = [idleproc EXCEPT ![BP] = current[BP]]
  /\ boot' = "done"
  /\ UNCHANGED <<current, iflag, inService, irqVars, whereVars, listVars,
                 lockVars, handlers, slice, panic>>

\* hal_start_ap and hal_ap_init, for a kernel built with SMP: the processor
\* registers the timer callback once more on the shared chain.
StartAp(c) ==
  /\ SMP /\ c # BP /\ current[c] = NoProc
  /\ InKmain("tasks")
  /\ current' = [current EXCEPT ![c] = StartProc[c]]
  /\ state' = [state EXCEPT ![StartProc[c]] = "RUNNING"]
  /\ slice' = [slice EXCEPT ![StartProc[c]] = Forever]
  /\ intenable' = [intenable EXCEPT ![StartProc[c]] = TRUE]
  /\ iflag' = [iflag EXCEPT ![c] = TRUE]
  /\ Goto(StartProc[c], "thread")
  /\ handlers' = handlers + 1
  /\ UNCHANGED <<idleproc, inService, ncli, ret, todo, savedIF, runnablelist,
                 runninglist, lockVars, boot, panic>>

(***************************************************************************)
(* The specification.                                                      *)
(***************************************************************************)

\* hal_bp_restack has made Boot the current process; interrupts are off.
Init ==
  /\ current = [c \in CPUs |-> IF c = BP THEN Boot ELSE NoProc]
  /\ idleproc = [c \in CPUs |-> NoProc]
  /\ iflag = [c \in CPUs |-> FALSE]
  /\ inService = [c \in CPUs |-> FALSE]
  /\ state = [p \in Procs |-> IF p = Boot THEN "RUNNING" ELSE "UNUSED"]
  /\ slice = [p \in Procs |-> Forever]
  /\ ncli = [p \in Procs |-> 0]
  /\ intenable = [p \in Procs |-> FALSE]
  /\ savedIF = [p \in Procs |-> FALSE]
  /\ pc = [p \in Procs |-> IF p = Boot THEN "thread" ELSE "none"]
  /\ ret = [p \in Procs |-> "thread"]
  /\ todo = [p \in Procs |-> 0]
  /\ runnablelist = <<>>
  /\ runninglist = {}
  /\ schedulerspin = FALSE
  /\ schedulercounter = 0
  /\ handlers = 0
  /\ boot = "init"
  /\ panic = "none"

\* What the processor does by itself once an interrupt has been taken.
KernelStep(c) ==
  \/ DeviceDone(c) \/ SyscallDone(c) \/ Iret(c) \/ TimerEoi(c) \/ Tick(c)
  \/ ChainDone(c) \/ EnterSchedule(c) \/ Schedule(c) \/ Unlock(c)

Kmain ==
  \/ StartInterrupts \/ StartScheduling \/ BecomeIdle
  \/ \E p \in Tasks : CreateTask(p) \/ EnqueueTask(p)
  \/ \E c \in CPUs : StartAp(c)

Cpu(c) ==
  \/ KernelStep(c) \/ LockSomething(c) \/ UnlockSomething(c)
  \/ TimerInterrupt(c) \/ DeviceInterrupt(c) \/ Syscall(c)

Next == Kmain \/ \E c \in CPUs : Cpu(c)

Spec == Init /\ [][Next]_vars

(***************************************************************************)
(* Properties.                                                             *)
(***************************************************************************)

Points == {"none", "thread", "irq", "syscall", "tick", "chain", "lock", "schedule",
           "unlock", "finish", "iret", "usrexit"}
States == {"UNUSED", "EMBRYO", "RUNNABLE", "RUNNING", "KERNELIDLEPROC"}

\* Every variable has the type its C declaration and the bounds give it.
TypeOK ==
  /\ current \in [CPUs -> Procs \cup {NoProc}]
  /\ idleproc \in [CPUs -> Procs \cup {NoProc}]
  /\ iflag \in [CPUs -> BOOLEAN]
  /\ inService \in [CPUs -> BOOLEAN]
  /\ state \in [Procs -> States]
  /\ slice \in [Procs -> 0..SLICE \cup {Forever}]
  /\ ncli \in [Procs -> Nat]
  /\ intenable \in [Procs -> BOOLEAN]
  /\ savedIF \in [Procs -> BOOLEAN]
  /\ pc \in [Procs -> Points]
  /\ ret \in [Procs -> {"thread", "usrexit"}]
  /\ todo \in [Procs -> Nat]
  /\ runnablelist \in Seq(Procs)
  /\ runninglist \subseteq Procs
  /\ schedulerspin \in BOOLEAN
  /\ schedulercounter \in {0, 1}
  /\ handlers \in Nat
  /\ boot \in {"init", "drivers", "tasks", "done"}

OnCpu(p) == \E c \in CPUs : current[c] = p

\* No assertion of the code fires: the scheduler is never entered while it is
\* already inside (schedulercounter != 1), irq_restore is never called with
\* interrupts on or once too often, cpu_spinunlock never finds its lock free,
\* and scheduler_schedule always has a process to switch to.
NoPanic == panic = "none"

\* Code that holds a spinlock, and code that runs in an interrupt handler, a
\* system call or the scheduler, is never interruptible: irq_restore only
\* turns interrupts on again at the end of the outermost critical section of
\* code that was itself interruptible (kcore/irq.c).
CriticalSectionsAreMasked ==
  \A c \in CPUs :
    iflag[c] => /\ current[c] # NoProc
                /\ ncli[current[c]] = 0
                /\ pc[current[c]] \in {"thread", "usrexit"}

\* The other direction: outside critical sections and handlers a process does
\* run with interrupts on, once kmain has enabled them.  A lost sti would
\* leave the processor deaf to the timer and end preemption for good.
InterruptsComeBack ==
  \A c \in CPUs :
    (/\ boot # "init" /\ current[c] # NoProc
     /\ pc[current[c]] \in {"thread", "usrexit"} /\ ncli[current[c]] = 0)
      => iflag[c]

\* A process is only ever switched away from with the EOI of its timer
\* interrupt sent: no processor is inside the scheduler, or running another
\* process, with an interrupt still in service (the comment in isr_generic:
\* "if not eoi before context_switch. Timer will never trigger again").
EoiBeforeSwitch ==
  \A c \in CPUs : inService[c] => pc[current[c]] \in {"tick", "irq"}

\* The lock is handed over in the switch: every process that is switched out,
\* or prepared to run for the first time, holds exactly the one irq_save that
\* the unlock it will resume at is going to undo, with interrupts masked in
\* its saved flags, and with intenable as the resumed code needs it.
SwitchedOutHoldsTheLock ==
  \A p \in Procs :
    (state[p] \notin {"UNUSED"} /\ ~OnCpu(p))
      => /\ pc[p] \in {"unlock", "finish"}
         /\ ncli[p] = 1
         /\ ~savedIF[p]
         /\ intenable[p] <=> (pc[p] = "finish")

\* The section between the spinlock and the spinunlock of schedulerspin is
\* exclusive, although it is entered by one process and left by another.
InSection(c) == current[c] # NoProc /\ pc[current[c]] \in {"schedule", "unlock", "finish"}
SchedulerIsExclusive ==
  /\ \A c, d \in CPUs : InSection(c) /\ InSection(d) => c = d
  /\ schedulercounter = IF \E c \in CPUs : InSection(c) THEN 1 ELSE 0
  /\ SMP => (schedulerspin <=> \E c \in CPUs : InSection(c))

\* The process lists tell the truth about the states, and no process is lost:
\* a process is RUNNABLE exactly when it is on runnablelist, and there once;
\* RUNNING exactly when it is the current process of one processor; and only
\* an idle process is parked off the lists.
ListsMatchStates ==
  /\ \A i, j \in DOMAIN runnablelist : runnablelist[i] = runnablelist[j] => i = j
  /\ \A p \in Procs : state[p] = "RUNNABLE" <=> \E i \in DOMAIN runnablelist : runnablelist[i] = p
  /\ \A p \in Procs : state[p] = "RUNNING" <=> OnCpu(p)
  /\ \A c, d \in CPUs : current[c] = current[d] /\ current[c] # NoProc => c = d
  /\ \A p \in Procs : state[p] = "KERNELIDLEPROC" => \E c \in CPUs : idleproc[c] = p
  /\ runninglist \subseteq {p \in Procs : state[p] = "RUNNING"}

(***************************************************************************)
(* The inductive invariant.  The properties above are not inductive alone: *)
(* they need to know, for each point of the kernel, what the interrupt     *)
(* flag, ncli and intenable are there (PointOK), and a few facts on how    *)
(* far start-up has come.                                                  *)
(***************************************************************************)

\* Have interrupts been enabled for process p?
Enabled(p) == p # Boot \/ boot # "init"

PointOK(c) ==
  LET p == current[c] IN
  p # NoProc =>
    \/ /\ pc[p] = "thread"
       /\ iflag[c] <=> (ncli[p] = 0 /\ Enabled(p))
       /\ ncli[p] > 0 => (intenable[p] <=> Enabled(p))
    \/ pc[p] \in {"irq", "syscall"} /\ ~iflag[c] /\ (ncli[p] > 0 => ~intenable[p])
    \/ pc[p] \in {"tick", "chain", "iret"} /\ ~iflag[c] /\ ncli[p] = 0
    \/ pc[p] = "usrexit" /\ iflag[c] /\ ncli[p] = 0
    \/ pc[p] \in {"lock", "schedule", "unlock"} /\ ~iflag[c] /\ ncli[p] = 1 /\ ~intenable[p]
    \/ pc[p] = "finish" /\ ~iflag[c] /\ ncli[p] = 1 /\ intenable[p]

ServiceOK(c) ==
  /\ current[c] = NoProc => ~iflag[c] /\ ~inService[c] /\ state[StartProc[c]] = "UNUSED"
  /\ inService[c] => pc[current[c]] \in {"tick", "irq"}

StartOK ==
  /\ pc[Boot] # "thread" => boot # "init"
  /\ state[Boot] # "UNUSED"
  /\ \A p \in Procs : pc[p] = "finish" => p \in Tasks
  /\ \A p \in Procs : state[p] = "UNUSED" => ncli[p] = 0 /\ pc[p] = "none"
  /\ boot # "done" => \A c \in CPUs : idleproc[c] = NoProc

IInv ==
  /\ TypeOK
  /\ NoPanic
  /\ \A c \in CPUs : PointOK(c)
  /\ \A c \in CPUs : ServiceOK(c)
  /\ SwitchedOutHoldsTheLock
  /\ SchedulerIsExclusive
  /\ ListsMatchStates
  /\ StartOK

\* A processor is taken from a process only after the process has used up its
\* time slice, and the process that gets it is the one that waited longest.
PreemptionIsFifo ==
  [][\A c \in CPUs :
       (current[c] # NoProc /\ current'[c] # current[c])
         => /\ slice[current[c]] = 0
            /\ runnablelist # <<>> /\ current'[c] = Head(runnablelist)]_vars

(***************************************************************************)
(* Fairness.  The timer interrupt stays pending in the local APIC while it *)
(* is masked, so it is taken if interrupts are on again and again; kernel  *)
(* code is never blocked; critical sections and handlers are finite.       *)
(***************************************************************************)

Fairness ==
  /\ SF_vars(StartInterrupts) /\ SF_vars(StartScheduling) /\ SF_vars(BecomeIdle)
  /\ \A p \in Tasks : SF_vars(CreateTask(p)) /\ SF_vars(EnqueueTask(p))
  /\ \A c \in CPUs :
       /\ SF_vars(TimerInterrupt(c))
       /\ SF_vars(KernelStep(c))
       /\ \A n \in 1..MaxNest : SF_vars(UnlockSomething(c) /\ ncli[current[c]] = n)

FairSpec == Spec /\ Fairness

\* A process that scheduler_enqueue has put on runnablelist gets a processor:
\* round robin starves nobody.
RunnableRuns == \A p \in Procs : (state[p] = "RUNNABLE") ~> (state[p] = "RUNNING")

(***************************************************************************)
(* What the scheduler promises, without interrupts, locks and lists.       *)
(***************************************************************************)

RR == INSTANCE RoundRobin WITH running <- current, queue <- runnablelist,
                               idle <- idleproc, First <- Boot, FirstCpu <- BP
RoundRobinSpec == RR!Spec
=============================================================================
