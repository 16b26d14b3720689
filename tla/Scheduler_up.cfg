\* The kernel as configured: SMP undefined, one processor, the two tasks kmain starts.
CONSTANTS
  c0 = c0
  c1 = c1
  start0 = start0
  start1 = start1
  noop = noop
  startinit = startinit
  extra = extra
  CPUs = {c0}
  BP = c0
  StartProc <- MCStartProc
  KernelTasks = {noop}
  UserTasks = {startinit}
  SMP = FALSE
  MaxNest = 2
  NoProc = NoProc
SPECIFICATION FairSpec
INVARIANTS
  CriticalSectionsAreMasked
  InterruptsComeBack
  SwitchedOutHoldsTheLock
PROPERTIES
  RoundRobinSpec
  RunnableRuns
