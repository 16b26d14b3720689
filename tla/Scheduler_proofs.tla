-------------------------- MODULE Scheduler_proofs --------------------------
(***************************************************************************)
(* Proofs about Scheduler, for any number of processors, processes and     *)
(* nested critical sections, with and without SMP.  First the steps that   *)
(* concern one processor and its current process keep the invariant IInv,  *)
(* then scheduler_schedule, the context switch and start-up, and last the  *)
(* theorems.                                                               *)
(***************************************************************************)
EXTENDS Scheduler, TLAPS

(***************************************************************************)
(* Most steps of a processor concern its current process alone.            *)
(***************************************************************************)

\* Nothing but processor c and its current process changes.
LocalTo(c) ==
  /\ current[c] # NoProc
  /\ UNCHANGED <<current, listVars, savedIF, idleproc, boot>>
  /\ \A d \in CPUs \ {c} : iflag'[d] = iflag[d] /\ inService'[d] = inService[d]
  /\ \A q \in Procs \ {current[c]} :
       pc'[q] = pc[q] /\ ncli'[q] = ncli[q] /\ intenable'[q] = intenable[q]

\* The current process of c is inside the section schedulerspin protects.
InPoint(c) == pc[current[c]] \in {"schedule", "unlock", "finish"}

\* The current process of a processor is a process, is RUNNING and is the
\* current process of no other processor.
LEMMA CurrentIsRunning ==
  ASSUME IInv, NEW c \in CPUs, current[c] # NoProc
  PROVE  /\ current[c] \in Procs
         /\ state[current[c]] = "RUNNING"
         /\ \A d \in CPUs \ {c} : current[d] # current[c]
  BY DEF IInv, TypeOK, ListsMatchStates, OnCpu

\* A processor whose interrupts are on runs a process that holds no lock.
LEMMA Interruptible ==
  ASSUME IInv, NEW c \in CPUs, current[c] # NoProc, iflag[c]
  PROVE  /\ pc[current[c]] \in {"thread", "usrexit"}
         /\ ncli[current[c]] = 0
         /\ pc[current[c]] = "thread" => Enabled(current[c])
  BY Zenon DEF IInv, PointOK

\* irq_restore does not panic where ncli is positive and interrupts are off.
LEMMA RestoreDoesNotPanic ==
  ASSUME IInv, NEW c \in CPUs, NEW p \in Procs, ncli[p] > 0, ~iflag[c]
  PROVE  irq_restore_panic(c, p) = panic
<1>1. ncli[p] \in Nat /\ ~(ncli[p] - 1 < 0)
  BY DEF IInv, TypeOK
<1> QED BY Zenon, <1>1 DEF irq_restore_panic

\* The slice given on a switch is within the type of slice.
LEMMA SliceType == SLICE \in 0..SLICE \cup {Forever}
  BY DEF SLICE

\* The process kmain runs as is a process.
LEMMA BootIsProc == Boot \in Procs
  BY Zenon, CpuAssumption, ProcAssumption DEF Boot, Procs, StartProcs

\* A step that is local to c keeps the invariant if it keeps the parts of it
\* that speak of c.
LEMMA LocalStep ==
  ASSUME IInv, NEW c \in CPUs, LocalTo(c), TypeOK', NoPanic',
         PointOK(c)', ServiceOK(c)',
         pc'[current[c]] # "finish",
         current[c] = Boot /\ boot = "init" => pc'[Boot] = "thread"
  PROVE  /\ (\A d \in CPUs : PointOK(d))' /\ (\A d \in CPUs : ServiceOK(d))'
         /\ SwitchedOutHoldsTheLock' /\ ListsMatchStates' /\ StartOK'
<1> DEFINE p == current[c]
<1>1. p \in Procs /\ state[p] = "RUNNING" /\ \A d \in CPUs \ {c} : current[d] # p
  BY Zenon, CurrentIsRunning DEF LocalTo
<1>2. ASSUME NEW d \in CPUs, d # c PROVE PointOK(d)' /\ ServiceOK(d)'
  <2>1. current[d] # NoProc => current[d] \in Procs \ {p}
    BY Zenon, <1>1, <1>2 DEF IInv, TypeOK
  <2>2. iflag'[d] = iflag[d] /\ inService'[d] = inService[d]
    BY Zenon, <1>2 DEF LocalTo
  <2>3. PointOK(d)'
    BY <2>1, <2>2 DEF IInv, PointOK, Enabled, LocalTo, Boot
  <2>4. ServiceOK(d)'
    BY Zenon, <2>1, <2>2 DEF IInv, ServiceOK, LocalTo, listVars
  <2> QED BY Zenon, <2>3, <2>4
<1>3. SwitchedOutHoldsTheLock'
  BY <1>1 DEF IInv, SwitchedOutHoldsTheLock, OnCpu, LocalTo, listVars
<1>4. ListsMatchStates'
  BY DEF IInv, ListsMatchStates, OnCpu, LocalTo, listVars
<1>5. StartOK'
  <2>1. pc'[Boot] # "thread" => boot' # "init"
    <3>1. CASE Boot = p
      BY Zenon, <3>1 DEF LocalTo
    <3>2. CASE Boot # p
      BY Zenon, <3>2, BootIsProc DEF IInv, StartOK, LocalTo
    <3> QED BY Zenon, <3>1, <3>2
  <2> QED BY Zenon, <2>1, <1>1 DEF IInv, StartOK, LocalTo, listVars
<1> QED BY Zenon, <1>2, <1>3, <1>4, <1>5

\* The same for a step outside the scheduler.
LEMMA LocalStepOutside ==
  ASSUME IInv, NEW c \in CPUs, LocalTo(c), TypeOK', NoPanic',
         PointOK(c)', ServiceOK(c)', UNCHANGED lockVars,
         ~InPoint(c), ~InPoint(c)',
         current[c] = Boot /\ boot = "init" => pc'[Boot] = "thread"
  PROVE  IInv'
<1>1. \A d \in CPUs : InSection(d)' <=> InSection(d)
  <2> TAKE d \in CPUs
  <2>1. CASE d = c
    BY Zenon, <2>1 DEF InSection, InPoint, LocalTo
  <2>2. CASE d # c
    BY ZenonT(20), <2>2, CurrentIsRunning DEF InSection, LocalTo, IInv, TypeOK
  <2> QED BY Zenon, <2>1, <2>2
<1>2. SchedulerIsExclusive'
  BY Zenon, <1>1 DEF IInv, SchedulerIsExclusive, lockVars
<1>3. pc'[current[c]] # "finish"
  BY Zenon DEF InPoint, LocalTo
<1> QED BY Zenon, <1>2, <1>3, LocalStep DEF IInv

\* irq_save by the current process keeps the invariant.
LEMMA LockSomethingStep ==
  ASSUME IInv, NEW c \in CPUs, LockSomething(c)
  PROVE  IInv'
<1>1. current[c] \in Procs /\ state[current[c]] = "RUNNING"
  BY Zenon, CurrentIsRunning, ProcAssumption DEF LockSomething, irq_save
<1> USE <1>1 DEF Goto, cpuVars, irqVars, whereVars, listVars, lockVars, startVars
<1>2. LocalTo(c)
  BY Zenon DEF IInv, TypeOK, LocalTo, LockSomething, irq_save
<1>3. NoPanic'
  BY Zenon DEF IInv, NoPanic, PointOK, TypeOK, Live, LockSomething, irq_save
<1>4. TypeOK'
  BY DEF IInv, TypeOK, PointOK, Points, SLICE, Forever, LockSomething, irq_save
<1>5. PointOK(c)'
  BY DEF IInv, TypeOK, PointOK, Enabled, StartOK, LockSomething, irq_save
<1>6. ServiceOK(c)'
  BY Zenon DEF IInv, TypeOK, ServiceOK, LockSomething, irq_save
<1>7. ~InPoint(c) /\ ~InPoint(c)'
  BY Zenon DEF IInv, TypeOK, InPoint, PointOK, LockSomething, irq_save
<1>8. current[c] = Boot /\ boot = "init" => pc'[Boot] = "thread"
  BY Zenon, ProcAssumption, CpuAssumption
  DEF IInv, TypeOK, PointOK, Enabled, StartOK, Boot, Tasks, StartProcs, LockSomething, irq_save
<1>9. UNCHANGED lockVars
  BY Zenon DEF LockSomething, irq_save
<1> QED BY Zenon, <1>2, <1>3, <1>4, <1>5, <1>6, <1>7, <1>8, <1>9, LocalStepOutside

\* irq_restore by the current process keeps the invariant.
LEMMA UnlockSomethingStep ==
  ASSUME IInv, NEW c \in CPUs, UnlockSomething(c)
  PROVE  IInv'
<1>1. current[c] \in Procs /\ state[current[c]] = "RUNNING"
  BY Zenon, CurrentIsRunning, ProcAssumption DEF UnlockSomething, irq_restore, irq_restore_panic
<1> USE <1>1 DEF Goto, cpuVars, irqVars, whereVars, listVars, lockVars, startVars
<1>2. LocalTo(c)
  BY Zenon DEF IInv, TypeOK, LocalTo, UnlockSomething, irq_restore, irq_restore_panic
<1>3. ncli[current[c]] > 0 /\ ncli[current[c]] \in Nat /\ ~iflag[c]
  BY Interruptible DEF IInv, TypeOK, UnlockSomething
<1>a. NoPanic'
  BY Zenon, <1>3, RestoreDoesNotPanic DEF NoPanic, Live, UnlockSomething
<1>4. TypeOK'
  <2>1. ncli' \in [Procs -> Nat] /\ iflag' \in [CPUs -> BOOLEAN]
    BY SMTT(20), <1>3 DEF IInv, TypeOK, UnlockSomething, irq_restore
  <2> QED BY Zenon, <2>1 DEF IInv, TypeOK, UnlockSomething, irq_restore
<1>5. PointOK(c)'
  <2>1. ncli'[current[c]] = ncli[current[c]] - 1 /\ pc' = pc /\ intenable' = intenable
    BY Zenon DEF IInv, TypeOK, UnlockSomething, irq_restore
  <2>2. iflag'[c] <=> (ncli[current[c]] = 1 /\ intenable[current[c]])
    BY Zenon, <1>3 DEF IInv, TypeOK, UnlockSomething, irq_restore
  <2>3. /\ current' = current /\ boot' = boot
        /\ pc[current[c]] \in {"thread", "irq", "syscall"}
    BY Zenon DEF UnlockSomething
  <2>4. PointOK(c)
    BY Zenon DEF IInv
  <2> QED BY <1>3, <2>1, <2>2, <2>3, <2>4 DEF PointOK, Enabled
<1>6. ServiceOK(c)'
  BY Zenon DEF IInv, TypeOK, ServiceOK, UnlockSomething, irq_restore, irq_restore_panic
<1>7. ~InPoint(c) /\ ~InPoint(c)'
  BY Zenon DEF IInv, TypeOK, InPoint, PointOK, UnlockSomething, irq_restore, irq_restore_panic
<1>8. current[c] = Boot /\ boot = "init" => pc'[Boot] = "thread"
  BY Zenon, ProcAssumption, CpuAssumption
  DEF IInv, TypeOK, PointOK, Enabled, StartOK, Boot, Tasks, StartProcs, UnlockSomething,
      irq_restore, irq_restore_panic
<1>9. UNCHANGED lockVars
  BY Zenon DEF UnlockSomething, irq_restore, irq_restore_panic
<1> QED BY Zenon, <1>2, <1>a, <1>4, <1>5, <1>6, <1>7, <1>8, <1>9, LocalStepOutside

\* The handler step TimerInterrupt keeps the invariant.
LEMMA TimerInterruptStep ==
  ASSUME IInv, NEW c \in CPUs, TimerInterrupt(c)
  PROVE  IInv'
<1>1. current[c] \in Procs /\ state[current[c]] = "RUNNING"
  BY Zenon, CurrentIsRunning, ProcAssumption DEF TimerInterrupt, InterruptEntry
<1> USE <1>1 DEF Goto, cpuVars, irqVars, whereVars, listVars, lockVars, startVars
<1>2. LocalTo(c)
  BY Zenon DEF IInv, TypeOK, LocalTo, TimerInterrupt, InterruptEntry
<1>3. NoPanic'
  BY Zenon DEF IInv, NoPanic, PointOK, TypeOK, Live, TimerInterrupt, InterruptEntry
<1>4. TypeOK'
  BY Zenon DEF IInv, TypeOK, PointOK, Points, SLICE, Forever, TimerInterrupt, InterruptEntry
<1>5. PointOK(c)'
  BY Zenon, Interruptible DEF IInv, TypeOK, PointOK, TimerInterrupt, InterruptEntry
<1>6. ServiceOK(c)'
  BY Zenon DEF IInv, TypeOK, ServiceOK, TimerInterrupt, InterruptEntry
<1>7. ~InPoint(c) /\ ~InPoint(c)'
  BY Zenon DEF IInv, TypeOK, InPoint, PointOK, TimerInterrupt, InterruptEntry
<1>8. current[c] = Boot /\ boot = "init" => pc'[Boot] = "thread"
  BY Zenon, ProcAssumption, CpuAssumption
  DEF IInv, TypeOK, PointOK, Enabled, StartOK, Boot, Tasks, StartProcs, TimerInterrupt, InterruptEntry
<1>9. UNCHANGED lockVars
  BY Zenon DEF TimerInterrupt, InterruptEntry
<1> QED BY Zenon, <1>2, <1>3, <1>4, <1>5, <1>6, <1>7, <1>8, <1>9, LocalStepOutside

\* The handler step DeviceInterrupt keeps the invariant.
LEMMA DeviceInterruptStep ==
  ASSUME IInv, NEW c \in CPUs, DeviceInterrupt(c)
  PROVE  IInv'
<1>1. current[c] \in Procs /\ state[current[c]] = "RUNNING"
  BY Zenon, CurrentIsRunning, ProcAssumption DEF DeviceInterrupt, InterruptEntry
<1> USE <1>1 DEF Goto, cpuVars, irqVars, whereVars, listVars, lockVars, startVars
<1>2. LocalTo(c)
  BY Zenon DEF IInv, TypeOK, LocalTo, DeviceInterrupt, InterruptEntry
<1>3. NoPanic'
  BY Zenon DEF IInv, NoPanic, PointOK, TypeOK, Live, DeviceInterrupt, InterruptEntry
<1>4. TypeOK'
  BY Zenon DEF IInv, TypeOK, PointOK, Points, SLICE, Forever, DeviceInterrupt, InterruptEntry
<1>5. PointOK(c)'
  BY Interruptible DEF IInv, TypeOK, PointOK, DeviceInterrupt, InterruptEntry
<1>6. ServiceOK(c)'
  BY Zenon DEF IInv, TypeOK, ServiceOK, DeviceInterrupt, InterruptEntry
<1>7. ~InPoint(c) /\ ~InPoint(c)'
  BY Zenon DEF IInv, TypeOK, InPoint, PointOK, DeviceInterrupt, InterruptEntry
<1>8. current[c] = Boot /\ boot = "init" => pc'[Boot] = "thread"
  BY Zenon, ProcAssumption, CpuAssumption
  DEF IInv, TypeOK, PointOK, Enabled, StartOK, Boot, Tasks, StartProcs, DeviceInterrupt, InterruptEntry
<1>9. UNCHANGED lockVars
  BY Zenon DEF DeviceInterrupt, InterruptEntry
<1> QED BY Zenon, <1>2, <1>3, <1>4, <1>5, <1>6, <1>7, <1>8, <1>9, LocalStepOutside

\* The handler step Syscall keeps the invariant.
LEMMA SyscallStep ==
  ASSUME IInv, NEW c \in CPUs, Syscall(c)
  PROVE  IInv'
<1>1. current[c] \in Procs /\ state[current[c]] = "RUNNING"
  BY Zenon, CurrentIsRunning, ProcAssumption DEF Syscall, InterruptEntry, At
<1> USE <1>1 DEF Goto, cpuVars, irqVars, whereVars, listVars, lockVars, startVars
<1>2. LocalTo(c)
  BY Zenon DEF IInv, TypeOK, LocalTo, Syscall, InterruptEntry, At
<1>3. NoPanic'
  BY Zenon DEF IInv, NoPanic, PointOK, TypeOK, Live, Syscall, InterruptEntry, At
<1>4. TypeOK'
  BY Zenon DEF IInv, TypeOK, PointOK, Points, SLICE, Forever, Syscall, InterruptEntry, At
<1>5. PointOK(c)'
  BY DEF IInv, TypeOK, PointOK, Enabled, StartOK, Syscall, InterruptEntry, At
<1>6. ServiceOK(c)'
  BY Zenon DEF IInv, TypeOK, ServiceOK, Syscall, InterruptEntry, At
<1>7. ~InPoint(c) /\ ~InPoint(c)'
  BY Zenon DEF IInv, TypeOK, InPoint, PointOK, Syscall, InterruptEntry, At
<1>8. current[c] = Boot /\ boot = "init" => pc'[Boot] = "thread"
  BY ProcAssumption, CpuAssumption
  DEF IInv, TypeOK, PointOK, Enabled, StartOK, Boot, Tasks, StartProcs, Syscall, InterruptEntry, At
<1>9. UNCHANGED lockVars
  BY Zenon DEF Syscall, InterruptEntry, At
<1> QED BY Zenon, <1>2, <1>3, <1>4, <1>5, <1>6, <1>7, <1>8, <1>9, LocalStepOutside

\* The handler step DeviceDone keeps the invariant.
LEMMA DeviceDoneStep ==
  ASSUME IInv, NEW c \in CPUs, DeviceDone(c)
  PROVE  IInv'
<1>1. current[c] \in Procs /\ state[current[c]] = "RUNNING"
  BY Zenon, CurrentIsRunning, ProcAssumption DEF DeviceDone
<1> USE <1>1 DEF Goto, cpuVars, irqVars, whereVars, listVars, lockVars, startVars
<1>2. LocalTo(c)
  BY Zenon DEF IInv, TypeOK, LocalTo, DeviceDone
<1>3. NoPanic'
  BY Zenon DEF IInv, NoPanic, PointOK, TypeOK, Live, DeviceDone
<1>4. TypeOK'
  BY Zenon DEF IInv, TypeOK, PointOK, Points, SLICE, Forever, DeviceDone
<1>5. PointOK(c)'
  BY Zenon DEF IInv, TypeOK, PointOK, Enabled, StartOK, DeviceDone
<1>6. ServiceOK(c)'
  BY Zenon DEF IInv, TypeOK, ServiceOK, DeviceDone
<1>7. ~InPoint(c) /\ ~InPoint(c)'
  BY Zenon DEF IInv, TypeOK, InPoint, PointOK, DeviceDone
<1>8. current[c] = Boot /\ boot = "init" => pc'[Boot] = "thread"
  BY Zenon, ProcAssumption, CpuAssumption
  DEF IInv, TypeOK, PointOK, Enabled, StartOK, Boot, Tasks, StartProcs, DeviceDone
<1>9. UNCHANGED lockVars
  BY Zenon DEF DeviceDone
<1> QED BY Zenon, <1>2, <1>3, <1>4, <1>5, <1>6, <1>7, <1>8, <1>9, LocalStepOutside

\* The handler step SyscallDone keeps the invariant.
LEMMA SyscallDoneStep ==
  ASSUME IInv, NEW c \in CPUs, SyscallDone(c)
  PROVE  IInv'
<1>1. current[c] \in Procs /\ state[current[c]] = "RUNNING"
  BY Zenon, CurrentIsRunning, ProcAssumption DEF SyscallDone
<1> USE <1>1 DEF Goto, cpuVars, irqVars, whereVars, listVars, lockVars, startVars
<1>2. LocalTo(c)
  BY Zenon DEF IInv, TypeOK, LocalTo, SyscallDone
<1>3. NoPanic'
  BY Zenon DEF IInv, NoPanic, PointOK, TypeOK, Live, SyscallDone
<1>4. TypeOK'
  BY Zenon DEF IInv, TypeOK, PointOK, Points, SLICE, Forever, SyscallDone
<1>5. PointOK(c)'
  BY Zenon DEF IInv, TypeOK, PointOK, Enabled, StartOK, SyscallDone
<1>6. ServiceOK(c)'
  BY Zenon DEF IInv, TypeOK, ServiceOK, SyscallDone
<1>7. ~InPoint(c) /\ ~InPoint(c)'
  BY Zenon DEF IInv, TypeOK, InPoint, PointOK, SyscallDone
<1>8. current[c] = Boot /\ boot = "init" => pc'[Boot] = "thread"
  BY Zenon, ProcAssumption, CpuAssumption
  DEF IInv, TypeOK, PointOK, Enabled, StartOK, Boot, Tasks, StartProcs, SyscallDone
<1>9. UNCHANGED lockVars
  BY Zenon DEF SyscallDone
<1> QED BY Zenon, <1>2, <1>3, <1>4, <1>5, <1>6, <1>7, <1>8, <1>9, LocalStepOutside

\* The handler step Iret keeps the invariant.
LEMMA IretStep ==
  ASSUME IInv, NEW c \in CPUs, Iret(c)
  PROVE  IInv'
<1>1. current[c] \in Procs /\ state[current[c]] = "RUNNING"
  BY Zenon, CurrentIsRunning, ProcAssumption DEF Iret
<1> USE <1>1 DEF Goto, cpuVars, irqVars, whereVars, listVars, lockVars, startVars
<1>2. LocalTo(c)
  BY Zenon DEF IInv, TypeOK, LocalTo, Iret
<1>3. NoPanic'
  BY Zenon DEF IInv, NoPanic, PointOK, TypeOK, Live, Iret
<1>4. TypeOK'
  BY Zenon DEF IInv, TypeOK, PointOK, Points, SLICE, Forever, Iret
<1>5. PointOK(c)'
  <2>1. ncli[current[c]] = 0 /\ ret[current[c]] \in {"thread", "usrexit"}
    BY Zenon DEF IInv, TypeOK, PointOK, Iret
  <2>2. Enabled(current[c])
    BY Zenon DEF IInv, StartOK, Enabled, Iret
  <2> QED BY <2>1, <2>2 DEF IInv, TypeOK, PointOK, Enabled, Iret
<1>6. ServiceOK(c)'
  BY Zenon DEF IInv, TypeOK, ServiceOK, Iret
<1>7. ~InPoint(c) /\ ~InPoint(c)'
  BY Zenon DEF IInv, TypeOK, InPoint, PointOK, Iret
<1>8. current[c] = Boot /\ boot = "init" => pc'[Boot] = "thread"
  BY Zenon, ProcAssumption, CpuAssumption
  DEF IInv, TypeOK, PointOK, Enabled, StartOK, Boot, Tasks, StartProcs, Iret
<1>9. UNCHANGED lockVars
  BY Zenon DEF Iret
<1> QED BY Zenon, <1>2, <1>3, <1>4, <1>5, <1>6, <1>7, <1>8, <1>9, LocalStepOutside

\* The handler step TimerEoi keeps the invariant.
LEMMA TimerEoiStep ==
  ASSUME IInv, NEW c \in CPUs, TimerEoi(c)
  PROVE  IInv'
<1>1. current[c] \in Procs /\ state[current[c]] = "RUNNING"
  BY Zenon, CurrentIsRunning, ProcAssumption DEF TimerEoi, EoiFirst
<1> USE <1>1 DEF Goto, cpuVars, irqVars, whereVars, listVars, lockVars, startVars
<1>2. LocalTo(c)
  BY Zenon DEF IInv, TypeOK, LocalTo, TimerEoi, EoiFirst
<1>3. NoPanic'
  BY Zenon DEF IInv, NoPanic, PointOK, TypeOK, Live, TimerEoi, EoiFirst
<1>4. TypeOK'
  BY Zenon DEF IInv, TypeOK, PointOK, Points, SLICE, Forever, TimerEoi, EoiFirst
<1>5. PointOK(c)'
  BY Zenon DEF IInv, TypeOK, PointOK, Enabled, StartOK, TimerEoi, EoiFirst
<1>6. ServiceOK(c)'
  BY Zenon DEF IInv, TypeOK, ServiceOK, TimerEoi, EoiFirst
<1>7. ~InPoint(c) /\ ~InPoint(c)'
  BY Zenon DEF IInv, TypeOK, InPoint, PointOK, TimerEoi, EoiFirst
<1>8. current[c] = Boot /\ boot = "init" => pc'[Boot] = "thread"
  BY Zenon, ProcAssumption, CpuAssumption
  DEF IInv, TypeOK, PointOK, Enabled, StartOK, Boot, Tasks, StartProcs, TimerEoi, EoiFirst
<1>9. UNCHANGED lockVars
  BY Zenon DEF TimerEoi, EoiFirst
<1> QED BY Zenon, <1>2, <1>3, <1>4, <1>5, <1>6, <1>7, <1>8, <1>9, LocalStepOutside

\* The handler step Tick keeps the invariant.
LEMMA TickStep ==
  ASSUME IInv, NEW c \in CPUs, Tick(c)
  PROVE  IInv'
<1>1. current[c] \in Procs /\ state[current[c]] = "RUNNING"
  BY Zenon, CurrentIsRunning, ProcAssumption DEF Tick, irq_save, CountDown
<1> USE <1>1 DEF Goto, cpuVars, irqVars, whereVars, listVars, lockVars, startVars
<1>2. LocalTo(c)
  BY DEF IInv, TypeOK, LocalTo, Tick, irq_save, CountDown
<1>3. NoPanic'
  BY Zenon DEF IInv, NoPanic, PointOK, TypeOK, Live, Tick, irq_save, CountDown
<1>4. TypeOK'
  <2>1. slice' \in [Procs -> 0..SLICE \cup {Forever}]
    BY DEF IInv, TypeOK, SLICE, Forever, Tick, CountDown
  <2>2. todo' \in [Procs -> Nat]
    BY DEF IInv, TypeOK, Tick
  <2>a. ncli[current[c]] = 0
    BY Zenon DEF IInv, PointOK, Tick
  <2>b. iflag[c] \in BOOLEAN
    BY Zenon DEF IInv, TypeOK
  <2>c. intenable' \in [Procs -> BOOLEAN]
    BY Zenon, <2>a, <2>b DEF IInv, TypeOK, Tick, irq_save
  <2>d. ncli' \in [Procs -> Nat]
    <3>1. ncli' = [ncli EXCEPT ![current[c]] = ncli[current[c]] + 1]
      BY Zenon, <2>a DEF Tick, irq_save
    <3> QED BY <3>1, <2>a DEF IInv, TypeOK
  <2>e. iflag' \in [CPUs -> BOOLEAN]
    BY Zenon, <2>a DEF IInv, TypeOK, Tick, irq_save
  <2>3. pc' \in [Procs -> Points]
    BY Zenon, <2>a DEF IInv, TypeOK, Points, Tick
  <2> QED BY Zenon, <2>1, <2>2, <2>3, <2>c, <2>d, <2>e DEF IInv, TypeOK, Tick
<1>5. PointOK(c)'
  <2>1. ncli[current[c]] = 0 /\ ~iflag[c]
    BY Zenon DEF IInv, PointOK, Tick
  <2>2. /\ pc'[current[c]] = "lock" /\ ncli'[current[c]] = 1
        /\ ~intenable'[current[c]] /\ ~iflag'[c]
    BY <2>1 DEF IInv, TypeOK, Tick, irq_save
  <2> QED BY Zenon, <2>2 DEF PointOK, Tick
<1>6. ServiceOK(c)'
  BY Zenon DEF IInv, TypeOK, ServiceOK, Tick, irq_save, CountDown
<1>7. ~InPoint(c) /\ ~InPoint(c)'
  BY Zenon DEF IInv, TypeOK, InPoint, PointOK, Tick, irq_save, CountDown
<1>8. current[c] = Boot /\ boot = "init" => pc'[Boot] = "thread"
  BY Zenon, ProcAssumption, CpuAssumption
  DEF IInv, TypeOK, PointOK, Enabled, StartOK, Boot, Tasks, StartProcs, Tick, irq_save, CountDown
<1>9. UNCHANGED lockVars
  BY Zenon DEF Tick, irq_save, CountDown
<1> QED BY Zenon, <1>2, <1>3, <1>4, <1>5, <1>6, <1>7, <1>8, <1>9, LocalStepOutside

\* The handler step ChainDone keeps the invariant.
LEMMA ChainDoneStep ==
  ASSUME IInv, NEW c \in CPUs, ChainDone(c)
  PROVE  IInv'
<1>1. current[c] \in Procs /\ state[current[c]] = "RUNNING"
  BY Zenon, CurrentIsRunning, ProcAssumption DEF ChainDone
<1> USE <1>1 DEF Goto, cpuVars, irqVars, whereVars, listVars, lockVars, startVars
<1>2. LocalTo(c)
  BY Zenon DEF IInv, TypeOK, LocalTo, ChainDone
<1>3. NoPanic'
  BY Zenon DEF IInv, NoPanic, PointOK, TypeOK, Live, ChainDone
<1>4. TypeOK'
  BY Zenon DEF IInv, TypeOK, PointOK, Points, SLICE, Forever, ChainDone
<1>5. PointOK(c)'
  BY Zenon DEF IInv, TypeOK, PointOK, Enabled, StartOK, ChainDone
<1>6. ServiceOK(c)'
  BY Zenon DEF IInv, TypeOK, ServiceOK, ChainDone
<1>7. ~InPoint(c) /\ ~InPoint(c)'
  BY Zenon DEF IInv, TypeOK, InPoint, PointOK, ChainDone
<1>8. current[c] = Boot /\ boot = "init" => pc'[Boot] = "thread"
  BY Zenon, ProcAssumption, CpuAssumption
  DEF IInv, TypeOK, PointOK, Enabled, StartOK, Boot, Tasks, StartProcs, ChainDone
<1>9. UNCHANGED lockVars
  BY Zenon DEF ChainDone
<1> QED BY Zenon, <1>2, <1>3, <1>4, <1>5, <1>6, <1>7, <1>8, <1>9, LocalStepOutside


\* The handler step EnterSchedule keeps the invariant.
LEMMA EnterScheduleStep ==
  ASSUME IInv, NEW c \in CPUs, EnterSchedule(c)
  PROVE  IInv'
<1>1. current[c] \in Procs /\ state[current[c]] = "RUNNING"
  BY Zenon, CurrentIsRunning, ProcAssumption DEF EnterSchedule
<1> USE <1>1 DEF Goto, cpuVars, irqVars, whereVars, listVars, lockVars, startVars
<1>2. LocalTo(c)
  BY Zenon DEF IInv, TypeOK, LocalTo, EnterSchedule
<1>3. \A d \in CPUs : ~InSection(d)
  BY Zenon, CpuAssumption DEF IInv, SchedulerIsExclusive, InSection, EnterSchedule, SpinlockFree
<1>4. schedulercounter = 0
  BY Zenon, <1>3 DEF IInv, SchedulerIsExclusive
<1>5. NoPanic' /\ schedulercounter' = 1
  BY <1>4 DEF IInv, NoPanic, EnterSchedule
<1>6. TypeOK'
  BY Zenon, <1>5, CpuAssumption DEF IInv, TypeOK, Points, EnterSchedule
<1>7. pc'[current[c]] = "schedule" /\ \A q \in Procs \ {current[c]} : pc'[q] = pc[q]
  BY Zenon DEF IInv, TypeOK, EnterSchedule
<1>8. PointOK(c)' /\ ServiceOK(c)'
  BY Zenon, <1>7 DEF IInv, TypeOK, PointOK, ServiceOK, EnterSchedule
<1>9. SchedulerIsExclusive'
  <2>1. \A d \in CPUs : InSection(d)' <=> d = c
    BY SMTT(20), <1>3, <1>7, CurrentIsRunning DEF InSection, EnterSchedule, IInv, TypeOK
  <2>2. SMP => schedulerspin'
    BY Zenon DEF EnterSchedule
  <2> QED BY Zenon, <1>5, <2>1, <2>2 DEF SchedulerIsExclusive
<1>10. current[c] = Boot /\ boot = "init" => pc'[Boot] = "thread"
  BY Zenon DEF IInv, StartOK, EnterSchedule
<1> QED BY Zenon, <1>2, <1>5, <1>6, <1>7, <1>8, <1>9, <1>10, LocalStep DEF IInv

\* The handler step Unlock keeps the invariant.
LEMMA UnlockStep ==
  ASSUME IInv, NEW c \in CPUs, Unlock(c)
  PROVE  IInv'
<1>1. current[c] \in Procs /\ state[current[c]] = "RUNNING"
  BY Zenon, CurrentIsRunning, ProcAssumption DEF Unlock
<1> USE <1>1 DEF Goto, cpuVars, irqVars, whereVars, listVars, lockVars, startVars
<1>2. LocalTo(c)
  BY Zenon DEF IInv, TypeOK, LocalTo, Unlock, irq_restore
<1>a. /\ schedulercounter' = schedulercounter - 1 /\ schedulerspin' = FALSE
      /\ irq_restore(c, current[c]) /\ Goto(current[c], AfterUnlock(current[c]))
      /\ pc[current[c]] \in {"unlock", "finish"}
      /\ UNCHANGED <<current, idleproc, inService, ret, todo, savedIF, listVars,
                     startVars, slice>>
  BY Zenon DEF Unlock, CountDownEntry
<1>b. panic' = IF SMP /\ ~schedulerspin THEN "Lock that is not locked??"
               ELSE irq_restore_panic(c, current[c])
  BY Zenon DEF Unlock
<1>3. /\ InSection(c) /\ \A d \in CPUs : InSection(d) => d = c
      /\ schedulercounter = 1 /\ (SMP => schedulerspin)
  <2>1. InSection(c)
    BY Zenon DEF InSection, Unlock
  <2> QED BY Zenon, <2>1 DEF IInv, SchedulerIsExclusive
<1>4. ncli[current[c]] = 1 /\ ~iflag[c]
  BY Zenon DEF IInv, PointOK, Unlock
<1>5. NoPanic'
  <2>1. irq_restore_panic(c, current[c]) = panic
    BY <1>4, RestoreDoesNotPanic
  <2>2. panic' = panic
    BY Zenon, <1>b, <1>3, <2>1
  <2> QED BY Zenon, <2>2 DEF IInv, NoPanic
<1>6. AfterUnlock(current[c]) \in {"chain", "thread", "usrexit"}
  BY Zenon DEF AfterUnlock
<1>7. /\ pc'[current[c]] = AfterUnlock(current[c])
      /\ \A q \in Procs \ {current[c]} : pc'[q] = pc[q]
      /\ ncli'[current[c]] = 0 /\ intenable' = intenable
      /\ iflag'[c] <=> intenable[current[c]]
  BY <1>a, <1>4 DEF IInv, TypeOK, irq_restore
<1>8. TypeOK'
  <2>a. schedulerspin' \in BOOLEAN
    BY <1>a, Zenon
  <2>1. schedulercounter' \in {0, 1}
    <3>1. schedulercounter' = schedulercounter - 1
      BY Zenon, <1>a
    <3>2. schedulercounter = 1
      BY Zenon, <1>3
    <3> QED BY ONLY <3>1, <3>2
  <2>2. pc' \in [Procs -> Points]
    BY Zenon, <1>6 DEF IInv, TypeOK, Points, Unlock
  <2>3. ncli' \in [Procs -> Nat] /\ iflag' \in [CPUs -> BOOLEAN]
    BY SMTT(20), <1>a, <1>4 DEF IInv, TypeOK, irq_restore
  <2> QED BY Zenon, <1>a, <2>a, <2>1, <2>2, <2>3 DEF IInv, TypeOK, irq_restore
<1>9. PointOK(c)'
  <2>1. CASE pc[current[c]] = "unlock"
    <3>1. pc'[current[c]] = "chain" /\ ~iflag'[c]
      BY Zenon, <2>1, <1>7 DEF IInv, PointOK, AfterUnlock, Unlock
    <3> QED BY Zenon, <3>1, <1>7 DEF PointOK, Unlock
  <2>2. CASE pc[current[c]] = "finish"
    <3>1. pc'[current[c]] \in {"thread", "usrexit"} /\ iflag'[c]
      BY Zenon, <2>2, <1>7 DEF IInv, PointOK, AfterUnlock, Unlock
    <3>2. current[c] # Boot
      BY Zenon, <2>2, ProcAssumption, CpuAssumption DEF IInv, StartOK, Boot, StartProcs
    <3> QED BY Zenon, <3>1, <3>2, <1>7 DEF PointOK, Enabled, Unlock, Boot
  <2> QED BY Zenon, <2>1, <2>2 DEF Unlock
<1>10. ServiceOK(c)'
  BY Zenon, <1>1, <1>7 DEF IInv, TypeOK, ServiceOK, Unlock
<1>11. SchedulerIsExclusive'
  <2>1. \A d \in CPUs : ~InSection(d)'
    BY Zenon, <1>3, <1>6, <1>7, CurrentIsRunning DEF InSection, Unlock, IInv, TypeOK
  <2> QED BY <2>1, <1>3, <1>a DEF SchedulerIsExclusive
<1>12. current[c] = Boot /\ boot = "init" => pc'[Boot] = "thread"
  BY Zenon DEF IInv, StartOK, Unlock
<1> QED BY Zenon, <1>2, <1>5, <1>6, <1>7, <1>8, <1>9, <1>10, <1>11, <1>12, LocalStep DEF IInv

(***************************************************************************)
(* The switch.                                                             *)
(***************************************************************************)

\* The head of runnablelist is a process that is switched out.
LEMMA HeadIsRunnable ==
  ASSUME IInv, runnablelist # <<>>
  PROVE  /\ Head(runnablelist) \in Procs
         /\ state[Head(runnablelist)] = "RUNNABLE"
         /\ \A d \in CPUs : current[d] # Head(runnablelist)
<1>1. 1 \in DOMAIN runnablelist /\ Head(runnablelist) = runnablelist[1]
  BY DEF IInv, TypeOK
<1>2. Head(runnablelist) \in Procs
  BY <1>1 DEF IInv, TypeOK
<1> QED BY <1>1, <1>2 DEF IInv, ListsMatchStates, OnCpu

\* scheduler_schedule either leaves the current process alone or switches to
\* the head of runnablelist: the idle branch and its PANIC are not reached.
LEMMA ScheduleCases ==
  ASSUME IInv, NEW c \in CPUs, Schedule(c)
  PROVE  /\ current[c] \in Procs /\ pc[current[c]] = "schedule"
         /\ UNCHANGED <<idleproc, inService, irqVars, ret, todo, lockVars, startVars>>
         /\ \/ /\ Goto(current[c], "unlock")
               /\ UNCHANGED <<listVars, current, slice, savedIF, iflag, panic>>
            \/ /\ slice[current[c]] = 0 /\ runnablelist # <<>>
               /\ SwitchTo(c, Head(runnablelist))
<1>1. current[c] # NoProc /\ pc[current[c]] = "schedule"
  BY Zenon DEF Schedule
<1>2. current[c] \in Procs /\ state[current[c]] = "RUNNING"
  BY Zenon, <1>1, CurrentIsRunning
<1>3. NextProc(c) = IF runnablelist # <<>> THEN Head(runnablelist) ELSE current[c]
  BY Zenon, <1>2 DEF NextProc
<1>4. runnablelist # <<>> => Head(runnablelist) \in Procs /\ Head(runnablelist) # current[c]
  BY Zenon, HeadIsRunnable
<1>5. UNCHANGED <<idleproc, inService, irqVars, ret, todo, lockVars, startVars>>
  BY Zenon DEF Schedule
<1>6. CASE /\ Goto(current[c], "unlock")
           /\ UNCHANGED <<listVars, current, slice, savedIF, iflag, panic>>
  BY Zenon, <1>1, <1>2, <1>5, <1>6
<1>7. CASE /\ slice[current[c]] = 0 /\ NextProc(c) # current[c]
           /\ IF NextProc(c) # NoProc THEN SwitchTo(c, NextProc(c)) ELSE NothingToSwitchTo
  <2>1. runnablelist # <<>> /\ NextProc(c) = Head(runnablelist)
    BY Zenon, <1>3, <1>7
  <2>2. NextProc(c) # NoProc
    BY Zenon, <2>1, <1>4, ProcAssumption
  <2> QED BY Zenon, <1>1, <1>2, <1>5, <1>7, <2>1, <2>2
<1> QED BY Zenon, <1>6, <1>7 DEF Schedule


\* Taking the head off a list without duplicates leaves a list without
\* duplicates of the other elements.
LEMMA TailOfList ==
  ASSUME NEW S, NEW L \in Seq(S), L # <<>>,
         \A i, j \in DOMAIN L : L[i] = L[j] => i = j
  PROVE  /\ Tail(L) \in Seq(S)
         /\ \A i, j \in DOMAIN Tail(L) : Tail(L)[i] = Tail(L)[j] => i = j
         /\ \A q \in S : (\E i \in DOMAIN Tail(L) : Tail(L)[i] = q)
                            <=> (q # Head(L) /\ \E i \in DOMAIN L : L[i] = q)
<1> DEFINE n == Len(L)
           T == Tail(L)
<1>1. n \in Nat /\ n > 0 /\ DOMAIN L = 1..n /\ Head(L) = L[1]
  OBVIOUS
<1>2. T \in Seq(S) /\ DOMAIN T = 1..(n-1) /\ \A i \in 1..(n-1) : T[i] = L[i+1]
  BY <1>1
<1> HIDE DEF n, T
<1>3. \A i, j \in DOMAIN T : T[i] = T[j] => i = j
  <2> SUFFICES ASSUME NEW i \in DOMAIN T, NEW j \in DOMAIN T, T[i] = T[j] PROVE i = j
    OBVIOUS
  <2>1. i + 1 \in DOMAIN L /\ j + 1 \in DOMAIN L /\ L[i + 1] = L[j + 1]
    BY <1>1, <1>2
  <2>2. i + 1 = j + 1
    BY Zenon, <2>1
  <2> QED BY <2>2, <1>1, <1>2
<1>4. \A q \in S : (\E i \in DOMAIN T : T[i] = q) <=> (q # Head(L) /\ \E i \in DOMAIN L : L[i] = q)
  <2> TAKE q \in S
  <2>1. ASSUME NEW i \in DOMAIN T, T[i] = q PROVE q # Head(L) /\ \E j \in DOMAIN L : L[j] = q
    BY <1>1, <1>2, <2>1
  <2>2. ASSUME q # Head(L), NEW i \in DOMAIN L, L[i] = q PROVE \E j \in DOMAIN T : T[j] = q
    <3>1. i - 1 \in 1..(n-1) /\ i = (i - 1) + 1
      BY <1>1, <2>2
    <3> QED BY Zenon, <1>2, <3>1, <2>2
  <2> QED BY Zenon, <2>1, <2>2
<1> QED BY Zenon, <1>2, <1>3, <1>4 DEF T

\* Putting a new element at the end of a list without duplicates.
LEMMA AppendToList ==
  ASSUME NEW S, NEW L \in Seq(S), NEW x \in S,
         \A i, j \in DOMAIN L : L[i] = L[j] => i = j,
         \A i \in DOMAIN L : L[i] # x
  PROVE  /\ Append(L, x) \in Seq(S)
         /\ \A i, j \in DOMAIN Append(L, x) : Append(L, x)[i] = Append(L, x)[j] => i = j
         /\ \A q \in S : (\E i \in DOMAIN Append(L, x) : Append(L, x)[i] = q)
                            <=> ((\E i \in DOMAIN L : L[i] = q) \/ q = x)
<1> DEFINE n == Len(L)
           A == Append(L, x)
<1>1. n \in Nat /\ DOMAIN L = 1..n
  OBVIOUS
<1>2. A \in Seq(S) /\ DOMAIN A = 1..(n+1) /\ A[n+1] = x /\ \A i \in 1..n : A[i] = L[i]
  BY <1>1
<1> HIDE DEF n, A
<1>3. \A i, j \in DOMAIN A : A[i] = A[j] => i = j
  BY <1>1, <1>2
<1>4. \A q \in S : (\E i \in DOMAIN A : A[i] = q) <=> ((\E i \in DOMAIN L : L[i] = q) \/ q = x)
  BY <1>1, <1>2
<1> QED BY Zenon, <1>2, <1>3, <1>4 DEF A

\* The lists after a switch from old to p, the head of runnablelist: old is
\* queued unless it is the idle process, p is not.
LEMMA SwitchedLists ==
  ASSUME IInv, NEW c \in CPUs, current[c] # NoProc, runnablelist # <<>>,
         MoveLists(c, Head(runnablelist))
  PROVE  /\ runnablelist' \in Seq(Procs)
         /\ \A i, j \in DOMAIN runnablelist' : runnablelist'[i] = runnablelist'[j] => i = j
         /\ \A q \in Procs : (\E i \in DOMAIN runnablelist' : runnablelist'[i] = q)
              <=> \/ q # Head(runnablelist) /\ state[q] = "RUNNABLE"
                  \/ q = current[c] /\ current[c] # idleproc[c]
<1>1. current[c] \in Procs /\ state[current[c]] = "RUNNING"
  BY Zenon, CurrentIsRunning
<1>2. /\ runnablelist \in Seq(Procs)
      /\ \A i, j \in DOMAIN runnablelist : runnablelist[i] = runnablelist[j] => i = j
      /\ \A q \in Procs : (\E i \in DOMAIN runnablelist : runnablelist[i] = q)
                            <=> state[q] = "RUNNABLE"
  BY Zenon DEF IInv, TypeOK, ListsMatchStates
<1>3. \A i \in DOMAIN runnablelist : runnablelist[i] # current[c]
  BY Zenon, <1>1, <1>2
<1>4. runnablelist' = IF current[c] # idleproc[c]
                        THEN Append(Tail(runnablelist), current[c]) ELSE Tail(runnablelist)
  BY Zenon, <1>1 DEF MoveLists, QueueAfter, Dequeued
<1> DEFINE T == Tail(runnablelist)
           A == Append(T, current[c])
<1>5. /\ T \in Seq(Procs)
      /\ \A i, j \in DOMAIN T : T[i] = T[j] => i = j
      /\ \A q \in Procs : (\E i \in DOMAIN T : T[i] = q)
           <=> (q # Head(runnablelist) /\ \E i \in DOMAIN runnablelist : runnablelist[i] = q)
  BY Zenon, <1>2, TailOfList
<1>6. \A i \in DOMAIN T : T[i] # current[c]
  BY Zenon, <1>1, <1>3, <1>5
<1>7. /\ A \in Seq(Procs)
      /\ \A i, j \in DOMAIN A : A[i] = A[j] => i = j
      /\ \A q \in Procs : (\E i \in DOMAIN A : A[i] = q)
           <=> ((\E i \in DOMAIN T : T[i] = q) \/ q = current[c])
  <2> HIDE DEF T
  <2> QED BY <1>1, <1>5, <1>6, AppendToList
<1>8. runnablelist' = IF current[c] # idleproc[c] THEN A ELSE T
  BY Zenon, <1>4
<1> HIDE DEF T, A
<1> QED BY <1>1, <1>2, <1>5, <1>7, <1>8

\* The states after a switch.
LEMMA SwitchedStates ==
  ASSUME IInv, NEW c \in CPUs, current[c] # NoProc, runnablelist # <<>>,
         MoveLists(c, Head(runnablelist))
  PROVE  /\ state' \in [Procs -> States]
         /\ state'[Head(runnablelist)] = "RUNNING"
         /\ current[c] = idleproc[c] => state'[current[c]] = "KERNELIDLEPROC"
         /\ current[c] # idleproc[c] => state'[current[c]] = "RUNNABLE"
         /\ \A q \in Procs \ {current[c], Head(runnablelist)} : state'[q] = state[q]
<1>1. current[c] \in Procs /\ state[current[c]] = "RUNNING"
  BY Zenon, CurrentIsRunning
<1>2. Head(runnablelist) \in Procs /\ Head(runnablelist) # current[c]
  BY Zenon, HeadIsRunnable
<1> QED BY Zenon, <1>1, <1>2 DEF IInv, TypeOK, States, MoveLists

\* The handler step Schedule keeps the invariant.
LEMMA ScheduleStep ==
  ASSUME IInv, NEW c \in CPUs, Schedule(c)
  PROVE  IInv'
<1> DEFINE old == current[c]
           p == Head(runnablelist)
<1>1. /\ old \in Procs /\ old # NoProc /\ pc[old] = "schedule"
      /\ UNCHANGED <<idleproc, inService, ncli, intenable, ret, todo, schedulerspin,
                     schedulercounter, handlers, boot>>
  BY Zenon, ScheduleCases, ProcAssumption DEF irqVars, lockVars, startVars
<1>2. InSection(c) /\ \A d \in CPUs : InSection(d) => d = c
  <2>1. InSection(c)
    BY Zenon, <1>1 DEF InSection
  <2> QED BY Zenon, <2>1 DEF IInv, SchedulerIsExclusive
<1>3. CASE Goto(old, "unlock") /\ UNCHANGED <<listVars, current, slice, savedIF, iflag, panic>>
  <2> USE <1>1, <1>3 DEF Goto, listVars
  <2>1. LocalTo(c)
    BY Zenon DEF IInv, TypeOK, LocalTo
  <2>2. TypeOK' /\ NoPanic'
    BY Zenon DEF IInv, TypeOK, NoPanic, Points
  <2>3. pc'[old] = "unlock" /\ \A q \in Procs \ {old} : pc'[q] = pc[q]
    BY Zenon DEF IInv, TypeOK
  <2>4. PointOK(c)' /\ ServiceOK(c)'
    BY Zenon, <2>3 DEF IInv, PointOK, ServiceOK
  <2>5. \A d \in CPUs : InSection(d)' <=> InSection(d)
    BY Zenon, <2>3, CurrentIsRunning DEF InSection, IInv, TypeOK
  <2>6. SchedulerIsExclusive'
    BY Zenon, <2>5 DEF IInv, SchedulerIsExclusive
  <2>7. current[c] = Boot /\ boot = "init" => pc'[Boot] = "thread"
    BY Zenon DEF IInv, StartOK
  <2> QED BY Zenon, <2>1, <2>2, <2>3, <2>4, <2>6, <2>7, LocalStep DEF IInv
<1>4. CASE runnablelist # <<>> /\ SwitchTo(c, p)
  <2>1. p \in Procs /\ p # NoProc /\ state[p] = "RUNNABLE" /\ \A d \in CPUs : current[d] # p
    BY Zenon, <1>4, HeadIsRunnable, ProcAssumption
  <2>2. state[old] = "RUNNING" /\ \A d \in CPUs \ {c} : current[d] # old
    BY Zenon, <1>1, CurrentIsRunning
  <2>3. pc[p] \in {"unlock", "finish"} /\ ncli[p] = 1 /\ ~savedIF[p]
        /\ (intenable[p] <=> pc[p] = "finish")
    BY Zenon, <2>1 DEF IInv, SwitchedOutHoldsTheLock, OnCpu
  <2>4. ncli[old] = 1 /\ ~iflag[c] /\ ~intenable[old]
    BY Zenon, <1>1 DEF IInv, PointOK
  <2>5. /\ current' = [current EXCEPT ![c] = p]
        /\ slice' = [slice EXCEPT ![p] = SLICE]
        /\ savedIF' = [savedIF EXCEPT ![old] = iflag[c]]
        /\ iflag' = [iflag EXCEPT ![c] = savedIF[p]]
        /\ pc' = [pc EXCEPT ![old] = "unlock"]
        /\ panic' = panic
        /\ MoveLists(c, p)
        /\ runninglist' = (runninglist \ {old}) \cup {p}
    BY Zenon, <1>4 DEF SwitchTo, Goto, MoveLists
  <2>6. /\ current'[c] = p /\ \A d \in CPUs \ {c} : current'[d] = current[d]
        /\ ~iflag'[c] /\ \A d \in CPUs \ {c} : iflag'[d] = iflag[d]
        /\ pc'[old] = "unlock" /\ \A q \in Procs \ {old} : pc'[q] = pc[q]
        /\ ~savedIF'[old] /\ \A q \in Procs \ {old} : savedIF'[q] = savedIF[q]
    BY Zenon, <1>1, <2>3, <2>4, <2>5 DEF IInv, TypeOK
  <2>7. TypeOK' /\ NoPanic'
    <3>1. runnablelist' \in Seq(Procs) /\ state' \in [Procs -> States]
      BY Zenon, <1>1, <1>4, <2>5, SwitchedLists, SwitchedStates
    <3>2. slice' \in [Procs -> 0..SLICE \cup {Forever}]
      BY Zenon, <2>5, SliceType DEF IInv, TypeOK
    <3>3. iflag' \in [CPUs -> BOOLEAN]
      BY Zenon, <2>1, <2>5 DEF IInv, TypeOK
    <3>4. savedIF' \in [Procs -> BOOLEAN]
      BY Zenon, <2>5 DEF IInv, TypeOK
    <3>5. pc' \in [Procs -> Points] /\ current' \in [CPUs -> Procs \cup {NoProc}]
          /\ runninglist' \subseteq Procs
      BY Zenon, <2>1, <2>5 DEF IInv, TypeOK, Points
    <3> QED BY Zenon, <1>1, <2>5, <3>1, <3>2, <3>3, <3>4, <3>5 DEF IInv, TypeOK, NoPanic
  <2>8. ASSUME NEW d \in CPUs PROVE PointOK(d)' /\ ServiceOK(d)'
    <3>1. CASE d = c
      BY SMTT(20), <1>1, <2>1, <2>2, <2>3, <2>6, <3>1 DEF IInv, PointOK, ServiceOK
    <3>2. CASE d # c
      <4>1. current[d] # NoProc => current[d] \in Procs \ {old, p}
        BY Zenon, <2>1, <2>2, <3>2 DEF IInv, TypeOK
      <4>2. PointOK(d)'
        <5>1. PointOK(d)
          BY Zenon DEF IInv
        <5> QED BY ZenonT(30), <1>1, <2>6, <3>2, <4>1, <5>1 DEF PointOK, Enabled
      <4>3. current[d] = NoProc => state'[StartProc[d]] = "UNUSED"
        <5>1. ASSUME current[d] = NoProc PROVE state'[StartProc[d]] = "UNUSED"
          <6>1. state[StartProc[d]] = "UNUSED" /\ StartProc[d] \in Procs
            BY Zenon, <5>1, ProcAssumption DEF IInv, ServiceOK, Procs, StartProcs
          <6> QED BY Zenon, <6>1, <1>1, <1>4, <2>1, <2>2, <2>5, SwitchedStates
        <5> QED BY Zenon, <5>1
      <4> QED BY SMTT(30), <1>1, <2>6, <3>2, <4>1, <4>2, <4>3 DEF IInv, ServiceOK
    <3> QED BY Zenon, <3>1, <3>2
  <2>9. \A q \in Procs : OnCpu(q)' <=> (q = p \/ (q # old /\ OnCpu(q)))
    BY Zenon, <2>1, <2>2, <2>6 DEF OnCpu
  <2>10. SwitchedOutHoldsTheLock'
    <3> SUFFICES ASSUME NEW q \in Procs, state'[q] # "UNUSED", ~OnCpu(q)'
                 PROVE  /\ pc'[q] \in {"unlock", "finish"} /\ ncli[q] = 1
                        /\ ~savedIF'[q] /\ (intenable[q] <=> pc'[q] = "finish")
      BY Zenon, <1>1 DEF SwitchedOutHoldsTheLock, OnCpu
    <3>1. CASE q = old
      BY Zenon, <2>4, <2>6, <3>1
    <3>2. CASE q # old
      <4>1. q # p /\ ~OnCpu(q)
        BY Zenon, <2>9, <3>2
      <4>2. state'[q] = state[q]
        BY Zenon, <1>1, <1>4, <2>5, <3>2, <4>1, SwitchedStates
      <4> QED BY Zenon, <2>6, <3>2, <4>1, <4>2 DEF IInv, SwitchedOutHoldsTheLock
    <3> QED BY Zenon, <3>1, <3>2
  <2>11. SchedulerIsExclusive'
    <3>1. \A d \in CPUs : InSection(d)' <=> d = c
      BY <1>2, <2>1, <2>2, <2>3, <2>6 DEF InSection, IInv, TypeOK
    <3>2. \A d \in CPUs : InSection(d) <=> d = c
      BY Zenon, <1>2
    <3> QED BY Zenon, <1>1, <3>1, <3>2 DEF IInv, SchedulerIsExclusive
  <2>12. ListsMatchStates'
    <3>1. /\ \A i, j \in DOMAIN runnablelist' : runnablelist'[i] = runnablelist'[j] => i = j
          /\ \A q \in Procs : (\E i \in DOMAIN runnablelist' : runnablelist'[i] = q)
               <=> \/ q # p /\ state[q] = "RUNNABLE"
                   \/ q = old /\ old # idleproc[c]
      BY Zenon, <1>1, <1>4, <2>5, SwitchedLists
    <3>2. /\ state'[p] = "RUNNING"
          /\ old = idleproc[c] => state'[old] = "KERNELIDLEPROC"
          /\ old # idleproc[c] => state'[old] = "RUNNABLE"
          /\ \A q \in Procs \ {old, p} : state'[q] = state[q]
      BY Zenon, <1>1, <1>4, <2>5, SwitchedStates
    <3>3. \A q \in Procs : state'[q] = "RUNNABLE" <=> \E i \in DOMAIN runnablelist' : runnablelist'[i] = q
      BY Zenon, <2>1, <2>2, <3>1, <3>2
    <3>4. \A q \in Procs : state'[q] = "RUNNING" <=> OnCpu(q)'
      BY SMTT(20), <2>1, <2>2, <2>9, <3>2 DEF IInv, ListsMatchStates
    <3>5. \A d, e \in CPUs : current'[d] = current'[e] /\ current'[d] # NoProc => d = e
      BY SMTT(20), <2>1, <2>6 DEF IInv, ListsMatchStates
    <3>6. \A q \in Procs : state'[q] = "KERNELIDLEPROC" => \E d \in CPUs : idleproc'[d] = q
      BY SMTT(30), <1>1, <2>1, <2>2, <3>2 DEF IInv, ListsMatchStates
    <3>7. runninglist' \subseteq {q \in Procs : state'[q] = "RUNNING"}
      BY SMTT(30), <2>1, <2>5, <3>2 DEF IInv, ListsMatchStates, TypeOK
    <3> QED BY Zenon, <3>1, <3>3, <3>4, <3>5, <3>6, <3>7 DEF ListsMatchStates, OnCpu
  <2>13. StartOK'
    <3>1. \A q \in Procs : state'[q] = "UNUSED" <=> state[q] = "UNUSED"
      BY Zenon, <1>1, <1>4, <2>1, <2>2, <2>5, SwitchedStates
    <3>2. old = Boot => boot # "init"
      BY Zenon, <1>1 DEF IInv, StartOK
    <3> QED BY <1>1, <2>2, <2>6, <3>1, <3>2, BootIsProc DEF IInv, StartOK
  <2> QED BY Zenon, <2>7, <2>8, <2>10, <2>11, <2>12, <2>13 DEF IInv
<1> QED BY Zenon, <1>3, <1>4, ScheduleCases

(***************************************************************************)
(* Start-up.                                                               *)
(***************************************************************************)

\* A processor that start-up leaves alone is where it was.
LEMMA SamePoint ==
  ASSUME IInv, NEW d \in CPUs, current'[d] = current[d], iflag'[d] = iflag[d],
         inService'[d] = inService[d], state'[StartProc[d]] = state[StartProc[d]],
         (boot' = "init" <=> boot = "init") \/ current[d] # Boot,
         current[d] # NoProc => /\ pc'[current[d]] = pc[current[d]]
                                /\ ncli'[current[d]] = ncli[current[d]]
                                /\ intenable'[current[d]] = intenable[current[d]]
  PROVE  PointOK(d)' /\ ServiceOK(d)'
<1>1. PointOK(d) /\ ServiceOK(d)
  BY Zenon DEF IInv
<1>2. ServiceOK(d)'
  BY Zenon, <1>1 DEF ServiceOK
<1>3. CASE current[d] = NoProc
  BY Zenon, <1>2, <1>3 DEF PointOK
<1>4. CASE current[d] # NoProc
  <2> DEFINE p == current[d]
  <2>1. Enabled(p)' <=> Enabled(p)
    BY Zenon DEF Enabled, Boot
  <2>2. pc'[p] = pc[p] /\ ncli'[p] = ncli[p] /\ intenable'[p] = intenable[p]
    BY Zenon, <1>4
  <2>3. Enabled(current[d])' <=> Enabled(current[d])
    BY Zenon, <2>1 DEF Enabled
  <2>4. PointOK(d)'
    BY ZenonT(30), <1>1, <1>4, <2>2, <2>3 DEF PointOK
  <2> QED BY Zenon, <1>2, <2>4
<1> QED BY Zenon, <1>3, <1>4

\* A thread with interrupts on is at a point the invariant allows.
LEMMA ThreadPoint ==
  ASSUME NEW d \in CPUs, NEW p \in Procs, current'[d] = p, pc'[p] = "thread",
         ncli'[p] = 0, iflag'[d], Enabled(p)'
  PROVE  PointOK(d)'
<1>1. Enabled(current[d])'
  BY Zenon DEF Enabled
<1> QED BY SMTT(30), <1>1 DEF PointOK

\* The handler step StartInterrupts keeps the invariant.
LEMMA StartInterruptsStep ==
  ASSUME IInv, StartInterrupts
  PROVE  IInv'
<1> USE DEF InKmain, cpuVars, irqVars, whereVars, listVars, lockVars, startVars
<1>1. Boot \in Procs /\ BP \in CPUs /\ Boot # NoProc
  BY Zenon, BootIsProc, CpuAssumption, ProcAssumption
<1>2. /\ current' = current /\ pc' = pc /\ ncli' = ncli /\ state' = state
      /\ iflag'[BP] = TRUE /\ (\A d \in CPUs \ {BP} : iflag'[d] = iflag[d])
      /\ \A q \in Procs \ {Boot} : intenable'[q] = intenable[q]
      /\ boot' = "drivers" /\ inService' = inService /\ idleproc' = idleproc
      /\ current[BP] = Boot /\ pc[Boot] = "thread" /\ ncli[Boot] = 0 /\ boot = "init"
  BY Zenon, <1>1 DEF IInv, TypeOK, StartInterrupts
<1>3. TypeOK' /\ NoPanic'
  <2>1. iflag' \in [CPUs -> BOOLEAN] /\ intenable' \in [Procs -> BOOLEAN]
    BY Zenon DEF IInv, TypeOK, StartInterrupts
  <2>2. handlers' \in Nat
    BY SMTT(20) DEF IInv, TypeOK, StartInterrupts
  <2> QED BY <1>2, <2>1, <2>2 DEF IInv, TypeOK, NoPanic, StartInterrupts
<1>4. \A d \in CPUs \ {BP} : current[d] # Boot
  BY Zenon, <1>1, <1>2 DEF IInv, ListsMatchStates
<1>5. ASSUME NEW d \in CPUs PROVE PointOK(d)' /\ ServiceOK(d)'
  <2>1. CASE d = BP
    <3>1. PointOK(BP)'
      <4>1. current'[BP] = Boot /\ pc'[Boot] = "thread" /\ ncli'[Boot] = 0 /\ iflag'[BP]
        BY Zenon, <1>2
      <4>2. Enabled(Boot)'
        BY Zenon, <1>2 DEF Enabled
      <4> QED BY Zenon, <1>1, <4>1, <4>2, ThreadPoint
    <3>2. ServiceOK(BP)
      BY Zenon, <1>1 DEF IInv
    <3>3. ServiceOK(BP)'
      BY Zenon, <1>1, <1>2, <3>2 DEF ServiceOK
    <3> QED BY Zenon, <2>1, <3>1, <3>3
  <2>2. CASE d # BP
    <3>1. current[d] # NoProc => current[d] \in Procs \ {Boot}
      BY Zenon, <1>4, <2>2 DEF IInv, TypeOK
    <3> QED BY Zenon, <1>2, <1>4, <2>2, <3>1, SamePoint
  <2> QED BY Zenon, <2>1, <2>2
<1>6. SwitchedOutHoldsTheLock'
  BY SMTT(20), <1>1, <1>2 DEF IInv, SwitchedOutHoldsTheLock, OnCpu, StartInterrupts
<1>7. SchedulerIsExclusive' /\ ListsMatchStates'
  BY SMTT(30), <1>2
  DEF IInv, SchedulerIsExclusive, InSection, ListsMatchStates, OnCpu, StartInterrupts
<1>8. StartOK'
  BY Zenon, <1>2 DEF IInv, StartOK, Boot
<1> QED BY Zenon, <1>3, <1>5, <1>6, <1>7, <1>8 DEF IInv

\* The handler step StartScheduling keeps the invariant.
LEMMA StartSchedulingStep ==
  ASSUME IInv, StartScheduling
  PROVE  IInv'
<1> USE DEF InKmain, cpuVars, irqVars, whereVars, listVars, lockVars, startVars
<1>1. TypeOK' /\ NoPanic'
  <2>1. slice' \in [Procs -> 0..SLICE \cup {Forever}]
    BY Zenon, SliceType DEF IInv, TypeOK, StartScheduling
  <2> QED BY Zenon, <2>1 DEF IInv, TypeOK, NoPanic, StartScheduling
<1>2. boot = "drivers" /\ boot' = "tasks"
  BY Zenon DEF StartScheduling
<1>3. \A c \in CPUs : PointOK(c)' /\ ServiceOK(c)'
  <2>1. /\ current' = current /\ iflag' = iflag /\ inService' = inService /\ state' = state
        /\ pc' = pc /\ ncli' = ncli /\ intenable' = intenable
    BY Zenon DEF StartScheduling
  <2> QED BY Zenon, <1>2, <2>1, SamePoint
<1>4. SwitchedOutHoldsTheLock' /\ SchedulerIsExclusive' /\ ListsMatchStates'
  BY SMTT(30) DEF IInv, SwitchedOutHoldsTheLock, OnCpu, SchedulerIsExclusive, InSection,
         ListsMatchStates, StartScheduling
<1>5. StartOK'
  BY Zenon, <1>2 DEF IInv, StartOK, Boot, StartScheduling
<1> QED BY Zenon, <1>1, <1>3, <1>4, <1>5 DEF IInv

\* The current processes are none of the processes start-up still deals with.
LEMMA NotOnCpu ==
  ASSUME IInv, NEW p \in Procs, state[p] # "RUNNING"
  PROVE  \A d \in CPUs : current[d] # p
  BY Zenon DEF IInv, ListsMatchStates, OnCpu

\* The handler step CreateTask keeps the invariant.
LEMMA CreateTaskStep ==
  ASSUME IInv, NEW p \in Tasks, CreateTask(p)
  PROVE  IInv'
<1> USE DEF InKmain, NewNcli, NewFlags, Goto, cpuVars, irqVars, whereVars, listVars, lockVars, startVars
<1>1. p \in Procs /\ state[p] = "UNUSED" /\ p # Boot
  BY Zenon, ProcAssumption, CpuAssumption DEF CreateTask, Procs, StartProcs, Boot
<1>2. \A d \in CPUs : current[d] # p
  BY Zenon, <1>1, NotOnCpu
<1>3. /\ current' = current /\ iflag' = iflag /\ inService' = inService
      /\ idleproc' = idleproc /\ boot' = boot /\ boot = "tasks"
      /\ \A q \in Procs \ {p} : /\ pc'[q] = pc[q] /\ ncli'[q] = ncli[q]
                                /\ intenable'[q] = intenable[q] /\ state'[q] = state[q]
                                /\ savedIF'[q] = savedIF[q]
      /\ pc'[p] = "finish" /\ ncli'[p] = 1 /\ intenable'[p] /\ ~savedIF'[p]
      /\ state'[p] = "EMBRYO"
  BY Zenon, <1>1 DEF IInv, TypeOK, CreateTask
<1>4. TypeOK' /\ NoPanic'
  <2>1. slice' \in [Procs -> 0..SLICE \cup {Forever}]
    BY Zenon DEF IInv, TypeOK, SLICE, Forever, CreateTask
  <2>2. /\ state' \in [Procs -> States] /\ pc' \in [Procs -> Points] /\ ncli' \in [Procs -> Nat]
    BY Zenon DEF IInv, TypeOK, States, Points, CreateTask
  <2>3. intenable' \in [Procs -> BOOLEAN] /\ savedIF' \in [Procs -> BOOLEAN]
    BY Zenon DEF IInv, TypeOK, CreateTask
  <2> QED BY Zenon, <2>1, <2>2, <2>3 DEF IInv, TypeOK, NoPanic, CreateTask
<1>5. ASSUME NEW d \in CPUs PROVE PointOK(d)' /\ ServiceOK(d)'
  <2>1. current[d] # NoProc => current[d] \in Procs \ {p}
    BY Zenon, <1>2 DEF IInv, TypeOK
  <2>2. StartProc[d] \in Procs \ {p}
    BY Zenon, ProcAssumption DEF Procs, StartProcs
  <2> QED BY Zenon, <1>3, <2>1, <2>2, SamePoint
<1>6. SwitchedOutHoldsTheLock'
  BY Zenon, <1>1, <1>2, <1>3 DEF IInv, SwitchedOutHoldsTheLock, OnCpu
<1>7. SchedulerIsExclusive'
  <2>1. \A d \in CPUs : InSection(d)' <=> InSection(d)
    BY SMTT(20), <1>2, <1>3 DEF IInv, TypeOK, InSection
  <2> QED BY Zenon, <2>1 DEF IInv, SchedulerIsExclusive, CreateTask
<1>8. ListsMatchStates'
  BY SMTT(20), <1>1, <1>2, <1>3 DEF IInv, TypeOK, ListsMatchStates, OnCpu, CreateTask
<1>9. StartOK'
  BY Zenon, <1>1, <1>3, BootIsProc DEF IInv, StartOK
<1> QED BY Zenon, <1>4, <1>5, <1>6, <1>7, <1>8, <1>9 DEF IInv


\* The handler step EnqueueTask keeps the invariant.
LEMMA EnqueueTaskStep ==
  ASSUME IInv, NEW p \in Tasks, EnqueueTask(p)
  PROVE  IInv'
<1> USE DEF InKmain, cpuVars, irqVars, whereVars, listVars, lockVars, startVars
<1>1. p \in Procs /\ state[p] = "EMBRYO" /\ p # Boot
  BY Zenon, ProcAssumption, CpuAssumption DEF EnqueueTask, Procs, StartProcs, Boot
<1>2. \A d \in CPUs : current[d] # p
  BY Zenon, <1>1, NotOnCpu
<1>3. /\ UNCHANGED <<current, iflag, inService, idleproc, boot, pc, ncli, intenable, savedIF>>
      /\ state' = [state EXCEPT ![p] = "RUNNABLE"]
      /\ runnablelist' = Append(runnablelist, p) /\ runninglist' = runninglist
  BY Zenon DEF EnqueueTask
<1>4. state'[p] = "RUNNABLE" /\ \A q \in Procs \ {p} : state'[q] = state[q]
  BY Zenon, <1>1, <1>3 DEF IInv, TypeOK
<1>5. /\ runnablelist' \in Seq(Procs)
      /\ \A i, j \in DOMAIN runnablelist' : runnablelist'[i] = runnablelist'[j] => i = j
      /\ \A q \in Procs : (\E i \in DOMAIN runnablelist' : runnablelist'[i] = q)
           <=> (state[q] = "RUNNABLE" \/ q = p)
  <2>1. /\ runnablelist \in Seq(Procs)
        /\ \A i, j \in DOMAIN runnablelist : runnablelist[i] = runnablelist[j] => i = j
        /\ \A q \in Procs : (\E i \in DOMAIN runnablelist : runnablelist[i] = q)
                              <=> state[q] = "RUNNABLE"
    BY Zenon DEF IInv, TypeOK, ListsMatchStates
  <2>2. \A i \in DOMAIN runnablelist : runnablelist[i] # p
    BY Zenon, <1>1, <2>1
  <2>3. /\ Append(runnablelist, p) \in Seq(Procs)
        /\ \A i, j \in DOMAIN Append(runnablelist, p) :
             Append(runnablelist, p)[i] = Append(runnablelist, p)[j] => i = j
        /\ \A q \in Procs : (\E i \in DOMAIN Append(runnablelist, p) : Append(runnablelist, p)[i] = q)
             <=> ((\E i \in DOMAIN runnablelist : runnablelist[i] = q) \/ q = p)
    BY ONLY <1>1, <2>1, <2>2, AppendToList
  <2> QED BY Zenon, <1>3, <2>1, <2>3
<1>6. TypeOK' /\ NoPanic'
  <2>1. state' \in [Procs -> States]
    BY Zenon, <1>3 DEF IInv, TypeOK, States
  <2> QED BY <1>3, <1>5, <2>1 DEF IInv, TypeOK, NoPanic, EnqueueTask
<1>7. ASSUME NEW d \in CPUs PROVE PointOK(d)' /\ ServiceOK(d)'
  <2>1. StartProc[d] \in Procs \ {p}
    BY Zenon, ProcAssumption DEF Procs, StartProcs
  <2> QED BY Zenon, <1>3, <1>4, <2>1, SamePoint
<1>8. SwitchedOutHoldsTheLock'
  <2>1. \A q \in Procs : OnCpu(q)' <=> OnCpu(q)
    BY Zenon, <1>3 DEF OnCpu
  <2> QED BY Zenon, <1>1, <1>3, <1>4, <2>1 DEF IInv, SwitchedOutHoldsTheLock
<1>9. SchedulerIsExclusive'
  BY SMTT(20), <1>3 DEF IInv, SchedulerIsExclusive, InSection, EnqueueTask
<1>10. ListsMatchStates'
  <2>1. \A q \in Procs : state'[q] = "RUNNABLE" <=> \E i \in DOMAIN runnablelist' : runnablelist'[i] = q
    BY Zenon, <1>4, <1>5
  <2>2. \A q \in Procs : state'[q] = "RUNNING" <=> OnCpu(q)'
    BY SMTT(20), <1>1, <1>2, <1>3, <1>4 DEF IInv, ListsMatchStates, OnCpu
  <2>3. runninglist' \subseteq {q \in Procs : state'[q] = "RUNNING"}
    BY <1>1, <1>3, <1>4 DEF IInv, ListsMatchStates, TypeOK
  <2> QED BY <1>1, <1>3, <1>4, <1>5, <2>1, <2>2, <2>3 DEF IInv, ListsMatchStates, OnCpu
<1>11. StartOK'
  BY Zenon, <1>1, <1>3, <1>4, BootIsProc DEF IInv, StartOK
<1> QED BY Zenon, <1>6, <1>7, <1>8, <1>9, <1>10, <1>11 DEF IInv

\* The handler step BecomeIdle keeps the invariant.
LEMMA BecomeIdleStep ==
  ASSUME IInv, BecomeIdle
  PROVE  IInv'
<1> USE DEF InKmain, cpuVars, irqVars, whereVars, listVars, lockVars, startVars
<1>1. /\ UNCHANGED <<current, iflag, inService, pc, ncli, intenable, savedIF, listVars>>
      /\ boot = "tasks" /\ boot' = "done" /\ \A c \in CPUs : idleproc[c] = NoProc
      /\ idleproc' = [idleproc EXCEPT ![BP] = current[BP]]
  BY Zenon DEF IInv, StartOK, BecomeIdle
<1>2. TypeOK' /\ NoPanic'
  BY Zenon, CpuAssumption DEF IInv, TypeOK, NoPanic, BecomeIdle
<1>3. \A c \in CPUs : PointOK(c)' /\ ServiceOK(c)'
  BY Zenon, <1>1, SamePoint
<1>4. SwitchedOutHoldsTheLock' /\ SchedulerIsExclusive'
  <2>1. SwitchedOutHoldsTheLock'
    BY Zenon, <1>1 DEF IInv, SwitchedOutHoldsTheLock, OnCpu
  <2> QED BY SMTT(20), <1>1, <2>1 DEF IInv, SchedulerIsExclusive, InSection, BecomeIdle
<1>5. ListsMatchStates'
  <2>1. \A q \in Procs : state[q] # "KERNELIDLEPROC"
    BY SMTT(20), <1>1, ProcAssumption DEF IInv, ListsMatchStates
  <2> QED BY SMTT(20), <1>1, <2>1 DEF IInv, ListsMatchStates, OnCpu
<1>6. StartOK'
  BY Zenon, <1>1 DEF IInv, StartOK, Boot
<1> QED BY Zenon, <1>2, <1>3, <1>4, <1>5, <1>6 DEF IInv

\* The handler step StartAp keeps the invariant.
LEMMA StartApStep ==
  ASSUME IInv, NEW c \in CPUs, StartAp(c)
  PROVE  IInv'
<1> DEFINE p == StartProc[c]
<1> USE DEF InKmain, Goto, cpuVars, irqVars, whereVars, listVars, lockVars, startVars
<1>1. p \in Procs /\ p # NoProc /\ p # Boot /\ current[c] = NoProc /\ boot = "tasks"
  BY Zenon, ProcAssumption, CpuAssumption DEF StartAp, Procs, StartProcs, Boot
<1>2. state[p] = "UNUSED" /\ ncli[p] = 0 /\ ~inService[c]
  BY ZenonT(30), <1>1 DEF IInv, ServiceOK, StartOK
<1>3. \A d \in CPUs : current[d] # p
  BY Zenon, <1>1, <1>2, NotOnCpu
<1>4. /\ current' = [current EXCEPT ![c] = p] /\ state' = [state EXCEPT ![p] = "RUNNING"]
      /\ slice' = [slice EXCEPT ![p] = Forever]
      /\ intenable' = [intenable EXCEPT ![p] = TRUE] /\ iflag' = [iflag EXCEPT ![c] = TRUE]
      /\ pc' = [pc EXCEPT ![p] = "thread"] /\ handlers' = handlers + 1
      /\ UNCHANGED <<idleproc, inService, ncli, ret, todo, savedIF, runnablelist,
                     runninglist, schedulerspin, schedulercounter, boot, panic>>
  BY Zenon DEF StartAp
<1>5. /\ current'[c] = p /\ \A d \in CPUs \ {c} : current'[d] = current[d]
      /\ iflag'[c] /\ \A d \in CPUs \ {c} : iflag'[d] = iflag[d]
      /\ pc'[p] = "thread" /\ state'[p] = "RUNNING"
      /\ \A q \in Procs \ {p} : /\ pc'[q] = pc[q] /\ state'[q] = state[q]
                                /\ intenable'[q] = intenable[q]
  BY Zenon, <1>1, <1>4 DEF IInv, TypeOK
<1>6. TypeOK' /\ NoPanic'
  <2>0. handlers' \in Nat
    BY <1>4 DEF IInv, TypeOK
  <2>1. slice' \in [Procs -> 0..SLICE \cup {Forever}]
    BY Zenon, <1>4 DEF IInv, TypeOK
  <2>2. state' \in [Procs -> States] /\ pc' \in [Procs -> Points]
        /\ current' \in [CPUs -> Procs \cup {NoProc}]
    BY Zenon, <1>1, <1>4 DEF IInv, TypeOK, States, Points
  <2>3. intenable' \in [Procs -> BOOLEAN] /\ iflag' \in [CPUs -> BOOLEAN]
    BY ZenonT(30), <1>4 DEF IInv, TypeOK
  <2> QED BY Zenon, <1>4, <2>0, <2>1, <2>2, <2>3 DEF IInv, TypeOK, NoPanic
<1>7. ASSUME NEW d \in CPUs PROVE PointOK(d)' /\ ServiceOK(d)'
  <2>1. CASE d = c
    <3>1. current'[c] = p /\ pc'[p] = "thread" /\ iflag'[c] /\ ncli'[p] = 0 /\ ~inService'[c]
      BY Zenon, <1>2, <1>4, <1>5
    <3>2. Enabled(p)'
      BY Zenon, <1>1 DEF Enabled, Boot
    <3> HIDE DEF p
    <3>3. PointOK(c)'
      BY Zenon, <1>1, <3>1, <3>2, ThreadPoint
    <3>4. ServiceOK(c)'
      BY Zenon, <1>1, <3>1 DEF ServiceOK
    <3> QED BY Zenon, <2>1, <3>3, <3>4
  <2>2. CASE d # c
    <3>1. current[d] # NoProc => current[d] \in Procs \ {p}
      BY Zenon, <1>3 DEF IInv, TypeOK
    <3>2. StartProc[d] \in Procs \ {p}
      BY Zenon, <2>2, ProcAssumption DEF Procs, StartProcs
    <3>3. inService' = inService /\ ncli' = ncli /\ boot' = boot
      BY Zenon, <1>4
    <3> QED BY Zenon, <1>5, <2>2, <3>1, <3>2, <3>3, SamePoint
  <2> QED BY Zenon, <2>1, <2>2
<1>8. \A q \in Procs : OnCpu(q)' <=> (q = p \/ OnCpu(q))
  <2> TAKE q \in Procs
  <2>1. q # NoProc
    BY Zenon, ProcAssumption
  <2>2. \A d \in CPUs : current'[d] = q <=> (d = c /\ q = p) \/ current[d] = q
    BY Zenon, <1>1, <1>5, <2>1
  <2> QED BY Zenon, <1>1, <2>2 DEF OnCpu
<1>9. SwitchedOutHoldsTheLock'
  <2>1. SwitchedOutHoldsTheLock /\ ncli' = ncli /\ savedIF' = savedIF
    BY Zenon, <1>4 DEF IInv
  <2> QED BY <1>1, <1>5, <1>8, <2>1 DEF SwitchedOutHoldsTheLock
<1>10. SchedulerIsExclusive'
  <2>1. \A d \in CPUs : InSection(d)' <=> InSection(d)
    <3> TAKE d \in CPUs
    <3>1. CASE d = c
      BY Zenon, <1>1, <1>5, <3>1 DEF InSection
    <3>2. CASE d # c
      <4>1. current[d] # NoProc => current[d] \in Procs \ {p}
        BY Zenon, <1>3 DEF IInv, TypeOK
      <4> QED BY Zenon, <1>5, <3>2, <4>1 DEF InSection
    <3> QED BY Zenon, <3>1, <3>2
  <2> QED BY Zenon, <1>4, <2>1 DEF IInv, SchedulerIsExclusive
<1>11. ListsMatchStates'
  <2>1. \A q \in Procs : state'[q] = "RUNNING" <=> OnCpu(q)'
    BY <1>5, <1>8 DEF IInv, ListsMatchStates
  <2>2. \A d, e \in CPUs : current'[d] = current'[e] /\ current'[d] # NoProc => d = e
    <3> SUFFICES ASSUME NEW d \in CPUs, NEW e \in CPUs,
                        current'[d] = current'[e], current'[d] # NoProc
                 PROVE  d = e
      BY Zenon
    <3>1. d # c => current'[d] = current[d] /\ current[d] # p
      BY Zenon, <1>3, <1>5
    <3>2. e # c => current'[e] = current[e] /\ current[e] # p
      BY Zenon, <1>3, <1>5
    <3>3. current[d] = current[e] /\ current[d] # NoProc => d = e
      BY Zenon DEF IInv, ListsMatchStates
    <3>4. current'[c] = p
      BY Zenon, <1>5
    <3> QED BY Zenon, <3>1, <3>2, <3>3, <3>4
  <2>3. \A q \in Procs : state'[q] = "RUNNABLE" <=> \E i \in DOMAIN runnablelist' : runnablelist'[i] = q
    <3>1. runnablelist' = runnablelist
      BY Zenon, <1>4
    <3>2. \A q \in Procs : state[q] = "RUNNABLE" <=> \E i \in DOMAIN runnablelist : runnablelist[i] = q
      BY Zenon DEF IInv, ListsMatchStates
    <3>3. \A q \in Procs : state'[q] = "RUNNABLE" <=> state[q] = "RUNNABLE"
      BY ZenonT(30), <1>2, <1>5
    <3> QED BY Zenon, <3>1, <3>2, <3>3
  <2>4. /\ runnablelist' = runnablelist /\ runninglist' = runninglist
        /\ \A i, j \in DOMAIN runnablelist : runnablelist[i] = runnablelist[j] => i = j
    BY ZenonT(30), <1>4 DEF IInv, ListsMatchStates
  <2>5. runninglist' \subseteq {q \in Procs : state'[q] = "RUNNING"}
    BY ZenonT(30), <1>2, <1>5, <2>4 DEF IInv, ListsMatchStates
  <2>6. \A q \in Procs : state'[q] = "KERNELIDLEPROC" => \E d \in CPUs : idleproc'[d] = q
    <3>1. \A q \in Procs : state'[q] = "KERNELIDLEPROC" => state[q] = "KERNELIDLEPROC"
      BY Zenon, <1>5
    <3>2. idleproc' = idleproc
      BY Zenon, <1>4
    <3> QED BY Zenon, <3>1, <3>2 DEF IInv, ListsMatchStates
  <2>7. \A i, j \in DOMAIN runnablelist' : runnablelist'[i] = runnablelist'[j] => i = j
    BY Zenon, <2>4
  <2> QED BY Zenon, <2>1, <2>2, <2>3, <2>5, <2>6, <2>7 DEF ListsMatchStates
<1>12. StartOK'
  BY ZenonT(30), <1>1, <1>4, <1>5, BootIsProc DEF IInv, StartOK
<1> QED BY Zenon, <1>6, <1>7, <1>9, <1>10, <1>11, <1>12 DEF IInv


(***************************************************************************)
(* The theorems.                                                           *)
(***************************************************************************)

\* The invariant holds when kmain enters the restacked kernel.
LEMMA InitIInv == Init => IInv
<1> SUFFICES ASSUME Init PROVE IInv
  OBVIOUS
<1>1. Boot \in Procs /\ Boot # NoProc /\ BP \in CPUs
  BY Zenon, BootIsProc, CpuAssumption, ProcAssumption
<1>2. current[BP] = Boot /\ \A c \in CPUs \ {BP} : current[c] = NoProc
  BY Zenon, <1>1 DEF Init
<1>3. TypeOK /\ NoPanic
  <2>1. slice \in [Procs -> 0..SLICE \cup {Forever}] /\ runnablelist \in Seq(Procs)
    BY DEF Init
  <2>2. state \in [Procs -> States] /\ pc \in [Procs -> Points]
    BY Zenon DEF Init, States, Points
  <2>3. current \in [CPUs -> Procs \cup {NoProc}]
    BY Zenon, <1>1 DEF Init
  <2> QED BY Zenon, <2>1, <2>2, <2>3 DEF Init, TypeOK, NoPanic
<1>4. \A c \in CPUs : PointOK(c)
  BY Zenon, <1>1, <1>2 DEF Init, PointOK, Enabled
<1>5. \A c \in CPUs : ServiceOK(c)
  BY Zenon, <1>1, <1>2, ProcAssumption DEF Init, ServiceOK, Procs, StartProcs, Boot
<1>6. SwitchedOutHoldsTheLock
  BY Zenon, <1>1, <1>2 DEF Init, SwitchedOutHoldsTheLock, OnCpu
<1>7. SchedulerIsExclusive
  BY Zenon, <1>1, <1>2 DEF Init, SchedulerIsExclusive, InSection
<1>8. ListsMatchStates
  BY <1>1, <1>2, ProcAssumption DEF Init, ListsMatchStates, OnCpu
<1>9. StartOK
  BY Zenon, <1>1 DEF Init, StartOK
<1> QED BY Zenon, <1>3, <1>4, <1>5, <1>6, <1>7, <1>8, <1>9 DEF IInv

\* The invariant speaks of the variables only.
LEMMA StutterIInv ==
  ASSUME IInv, UNCHANGED vars
  PROVE  IInv'
<1> USE DEF vars, cpuVars, irqVars, whereVars, listVars, lockVars, startVars
<1>1. TypeOK' /\ NoPanic'
  BY Zenon DEF IInv, TypeOK, NoPanic
<1>2. \A c \in CPUs : PointOK(c)' /\ ServiceOK(c)'
  BY ZenonT(30), SamePoint
<1>3. SwitchedOutHoldsTheLock' /\ SchedulerIsExclusive'
  <2>1. SwitchedOutHoldsTheLock'
    BY Zenon DEF IInv, SwitchedOutHoldsTheLock, OnCpu
  <2> QED BY Zenon, <2>1 DEF IInv, SchedulerIsExclusive, InSection
<1>4. ListsMatchStates' /\ StartOK'
  <2>1. ListsMatchStates /\ StartOK
    BY Zenon DEF IInv
  <2>2. ListsMatchStates'
    BY Zenon, <2>1 DEF ListsMatchStates, OnCpu
  <2> QED BY Zenon, <2>1, <2>2 DEF StartOK
<1> QED BY Zenon, <1>1, <1>2, <1>3, <1>4 DEF IInv

\* Every step of the kernel preserves the inductive invariant.
LEMMA NextIInv ==
  ASSUME IInv, [Next]_vars
  PROVE  IInv'
<1>1. CASE Kmain
  <2>1. ASSUME NEW p \in Tasks, CreateTask(p) \/ EnqueueTask(p) PROVE IInv'
    BY Zenon, <2>1, CreateTaskStep, EnqueueTaskStep
  <2>2. ASSUME NEW c \in CPUs, StartAp(c) PROVE IInv'
    BY Zenon, <2>2, StartApStep
  <2> QED BY Zenon, <1>1, <2>1, <2>2, StartInterruptsStep, StartSchedulingStep,
             BecomeIdleStep DEF Kmain
<1>2. ASSUME NEW c \in CPUs, Cpu(c) PROVE IInv'
  <2>1. CASE KernelStep(c)
    BY Zenon, <2>1, DeviceDoneStep, SyscallDoneStep, IretStep, TimerEoiStep, TickStep,
       ChainDoneStep, EnterScheduleStep, ScheduleStep, UnlockStep DEF KernelStep
  <2> QED BY Zenon, <1>2, <2>1, LockSomethingStep, UnlockSomethingStep, TimerInterruptStep,
             DeviceInterruptStep, SyscallStep DEF Cpu
<1>3. CASE UNCHANGED vars
  BY Zenon, <1>3, StutterIInv
<1> QED BY Zenon, <1>1, <1>2, <1>3 DEF Next

\* The invariant holds in every state the kernel reaches.
THEOREM Inductive == Spec => []IInv
<1>1. Init => IInv
  BY Zenon, InitIInv
<1>2. IInv /\ [Next]_vars => IInv'
  BY Zenon, NextIInv
<1> QED BY <1>1, <1>2, PTL DEF Spec

\* The variables keep their types; in particular the scheduler is entered at
\* most once (schedulercounter is 0 or 1).
THEOREM TypeCorrect == Spec => []TypeOK
<1>1. IInv => TypeOK
  BY Zenon DEF IInv
<1> QED BY <1>1, Inductive, PTL

\* None of the assertions of scheduler.c, irq.c and cpu_spinlock.h fires.
THEOREM NeverPanics == Spec => []NoPanic
<1>1. IInv => NoPanic
  BY Zenon DEF IInv
<1> QED BY <1>1, Inductive, PTL

\* No critical section, handler or system call is ever interruptible.
THEOREM Masked == Spec => []CriticalSectionsAreMasked
<1>1. IInv => CriticalSectionsAreMasked
  <2> SUFFICES ASSUME IInv, NEW c \in CPUs, iflag[c]
               PROVE  /\ current[c] # NoProc /\ ncli[current[c]] = 0
                      /\ pc[current[c]] \in {"thread", "usrexit"}
    BY Zenon DEF CriticalSectionsAreMasked
  <2>1. current[c] # NoProc
    BY Zenon DEF IInv, ServiceOK
  <2> QED BY Zenon, <2>1, Interruptible
<1> QED BY <1>1, Inductive, PTL

\* Interrupts are on again whenever nothing forbids it.
THEOREM ComeBack == Spec => []InterruptsComeBack
<1>1. IInv => InterruptsComeBack
  BY Zenon DEF IInv, PointOK, Enabled, InterruptsComeBack
<1> QED BY <1>1, Inductive, PTL

\* The timer's EOI is sent before the processor can change hands.
THEOREM EoiSent == Spec => []EoiBeforeSwitch
<1>1. IInv => EoiBeforeSwitch
  BY Zenon DEF IInv, ServiceOK, EoiBeforeSwitch
<1> QED BY <1>1, Inductive, PTL

\* The scheduler lock is handed over from process to process in the switch.
THEOREM HandOver == Spec => [](SwitchedOutHoldsTheLock /\ SchedulerIsExclusive)
<1>1. IInv => SwitchedOutHoldsTheLock /\ SchedulerIsExclusive
  BY Zenon DEF IInv
<1> QED BY <1>1, Inductive, PTL

\* The process lists and states agree and no process is lost.
THEOREM Lists == Spec => []ListsMatchStates
<1>1. IInv => ListsMatchStates
  BY Zenon DEF IInv
<1> QED BY <1>1, Inductive, PTL


(***************************************************************************)
(* The scheduler implements RoundRobin.                                    *)
(***************************************************************************)

\* A switch is a Rotate step.
LEMMA ScheduleRefines ==
  ASSUME IInv, NEW c \in CPUs, Schedule(c)
  PROVE  \/ UNCHANGED <<current, runnablelist, idleproc>>
         \/ slice[current[c]] = 0 /\ RR!Rotate(c)
<1>1. current[c] \in Procs /\ current[c] # NoProc /\ idleproc' = idleproc
  BY Zenon, ScheduleCases, ProcAssumption
<1>2. CASE UNCHANGED listVars /\ UNCHANGED current
  BY Zenon, <1>1, <1>2 DEF listVars
<1>3. CASE slice[current[c]] = 0 /\ runnablelist # <<>> /\ SwitchTo(c, Head(runnablelist))
  <2>1. state[current[c]] = "RUNNING"
    BY Zenon, <1>1, CurrentIsRunning
  <2>2. runnablelist' = IF current[c] = idleproc[c] THEN Tail(runnablelist)
                        ELSE Append(Tail(runnablelist), current[c])
    BY Zenon, <1>3, <2>1 DEF SwitchTo, MoveLists, QueueAfter, Dequeued
  <2>3. current' = [current EXCEPT ![c] = Head(runnablelist)]
    BY Zenon, <1>3 DEF SwitchTo
  <2> QED BY Zenon, <1>1, <1>3, <2>2, <2>3 DEF RR!Rotate
<1> QED BY Zenon, <1>2, <1>3, ScheduleCases

\* Every step of the kernel is a step of RoundRobin or changes nothing there.
LEMMA StepRefines ==
  ASSUME IInv, [Next]_vars
  PROVE  \/ UNCHANGED <<current, runnablelist, idleproc>>
         \/ \E p \in Procs : RR!Admit(p)
         \/ \E c \in CPUs : slice[current[c]] = 0 /\ RR!Rotate(c)
         \/ \E c \in CPUs : RR!SetIdle(c) \/ \E p \in Procs : RR!Join(c, p)
<1> USE DEF cpuVars, irqVars, whereVars, listVars, lockVars, startVars
<1>1. ASSUME NEW p \in Tasks, EnqueueTask(p) PROVE p \in Procs /\ RR!Admit(p)
  <2>1. p \in Procs /\ state[p] = "EMBRYO"
    BY Zenon, <1>1 DEF EnqueueTask, Procs
  <2>2. p \notin RR!Waiting /\ p \notin RR!Busy
    BY <2>1 DEF IInv, ListsMatchStates, OnCpu, RR!Waiting, RR!Busy
  <2> QED BY Zenon, <1>1, <2>1, <2>2 DEF EnqueueTask, RR!Admit
<1>2. ASSUME NEW c \in CPUs, StartAp(c) PROVE StartProc[c] \in Procs /\ RR!Join(c, StartProc[c])
  <2>1. StartProc[c] \in Procs /\ state[StartProc[c]] = "UNUSED"
    BY Zenon, <1>2, ProcAssumption DEF IInv, ServiceOK, StartAp, Procs, StartProcs
  <2>2. StartProc[c] \notin RR!Waiting /\ StartProc[c] \notin RR!Busy
    <3>1. ListsMatchStates
      BY Zenon DEF IInv
    <3> QED BY <2>1, <3>1 DEF ListsMatchStates, OnCpu, RR!Waiting, RR!Busy
  <2> QED BY Zenon, <1>2, <2>1, <2>2 DEF StartAp, RR!Join
<1>3. ASSUME BecomeIdle PROVE RR!SetIdle(BP)
  <2>1. current[BP] # NoProc
    BY Zenon, <1>3, BootIsProc, ProcAssumption DEF BecomeIdle, InKmain
  <2> QED BY Zenon, <1>3, <2>1 DEF BecomeIdle, RR!SetIdle
<1>4. ASSUME Kmain PROVE \/ UNCHANGED <<current, runnablelist, idleproc>>
                         \/ BecomeIdle
                         \/ \E p \in Tasks : EnqueueTask(p)
                         \/ \E c \in CPUs : StartAp(c)
  BY Zenon, <1>4 DEF Kmain, StartInterrupts, StartScheduling, CreateTask
<1>5. ASSUME NEW c \in CPUs, Cpu(c)
      PROVE  UNCHANGED <<current, runnablelist, idleproc>> \/ Schedule(c)
  <2>1. CASE KernelStep(c)
    BY Zenon, <2>1 DEF KernelStep, DeviceDone, SyscallDone, Iret, TimerEoi, Tick, ChainDone,
                EnterSchedule, Unlock
  <2>2. CASE TimerInterrupt(c) \/ DeviceInterrupt(c) \/ Syscall(c)
    BY Zenon, <2>2 DEF TimerInterrupt, DeviceInterrupt, Syscall, InterruptEntry
  <2>3. CASE LockSomething(c) \/ UnlockSomething(c)
    BY Zenon, <2>3 DEF LockSomething, UnlockSomething
  <2> QED BY Zenon, <1>5, <2>1, <2>2, <2>3 DEF Cpu
<1>6. CASE UNCHANGED vars
  BY Zenon, <1>6 DEF vars
<1>7. CASE Kmain
  BY Zenon, <1>1, <1>2, <1>3, <1>4, <1>7, CpuAssumption
<1>8. ASSUME NEW c \in CPUs, Cpu(c)
      PROVE  \/ UNCHANGED <<current, runnablelist, idleproc>>
             \/ slice[current[c]] = 0 /\ RR!Rotate(c)
  BY Zenon, <1>5, <1>8, ScheduleRefines
<1> QED BY Zenon, <1>6, <1>7, <1>8 DEF Next

\* The scheduler with its interrupts, locks and lists implements RoundRobin.
THEOREM Refinement == Spec => RoundRobinSpec
<1>1. Init => RR!RRInit
  BY Zenon DEF Init, RR!RRInit
<1>2. IInv /\ [Next]_vars => [RR!RRNext]_RR!rrVars
  BY Zenon, StepRefines DEF RR!RRNext, RR!rrVars
<1> QED BY <1>1, <1>2, Inductive, PTL DEF Spec, RoundRobinSpec, RR!Spec

\* A process loses its processor only when its slice is used up, to the
\* process that has waited longest.
THEOREM Fifo == Spec => PreemptionIsFifo
<1>1. IInv /\ [Next]_vars =>
        [\A c \in CPUs :
           (current[c] # NoProc /\ current'[c] # current[c])
             => /\ slice[current[c]] = 0
                /\ runnablelist # <<>> /\ current'[c] = Head(runnablelist)]_vars
  <2> SUFFICES ASSUME IInv, [Next]_vars, NEW d \in CPUs,
                      current[d] # NoProc, current'[d] # current[d]
               PROVE  /\ slice[current[d]] = 0
                      /\ runnablelist # <<>> /\ current'[d] = Head(runnablelist)
    OBVIOUS
  <2>1. \E c \in CPUs : \/ slice[current[c]] = 0 /\ RR!Rotate(c)
                        \/ \E p \in Procs : RR!Join(c, p)
    BY Zenon, StepRefines DEF RR!Admit, RR!SetIdle
  <2>2. ASSUME NEW c \in CPUs, slice[current[c]] = 0, RR!Rotate(c)
        PROVE  /\ slice[current[d]] = 0
               /\ runnablelist # <<>> /\ current'[d] = Head(runnablelist)
    BY Zenon, <2>2 DEF RR!Rotate, IInv, TypeOK
  <2>3. ASSUME NEW c \in CPUs, NEW p \in Procs, RR!Join(c, p) PROVE FALSE
    BY Zenon, <2>3 DEF RR!Join, IInv, TypeOK
  <2> QED BY Zenon, <2>1, <2>2, <2>3
<1> QED BY <1>1, Inductive, PTL DEF Spec, PreemptionIsFifo

=============================================================================
