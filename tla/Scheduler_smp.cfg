\* The kernel built with SMP, two processors.
CONSTANTS
  c0 = c0
  c1 = c1
  start0 = start0
  start1 = start1
  noop = noop
  startinit = startinit
  extra = extra
  CPUs = {c0, c1}
  BP = c0
  StartProc <- MCStartProc
  KernelTasks = {noop, extra}
  UserTasks = {startinit}
  SMP = TRUE
  MaxNest = 2
  NoProc = NoProc
SPECIFICATION Spec
INVARIANTS
  IInv
