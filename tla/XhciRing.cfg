SPECIFICATION FairSpec
CONSTANTS
  Trbs = {a, b, c}
  NoTrb = NoTrb
  USABLE = 4
INVARIANTS
  IInv
PROPERTIES
  RingIsFifo
  Drains
