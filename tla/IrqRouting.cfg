SPECIFICATION FairSpec
CONSTANTS
  x1 = x1
  x2 = x2
  x3 = x3
  nic1 = nic1
  nic2 = nic2
  Madts <- MCMadts
  MsiDevs = {x1, x2, x3}
  IntxDevs = {nic1, nic2}
  IrqLine <- MCIrqLine
  Timer = Timer
  BpId = 0
  MAXCPU = 2
  IRQ_STARTVECTOR = 32
  MSIIRQ_STARTVECTOR = 64
  MSIIRQ_COUNT = 2
  MAX_INT_VECTORS = 66
CHECK_DEADLOCK FALSE
INVARIANTS
  MsiVectorsAreOwn
PROPERTIES
  HandledUnlessOutranked
