SPECIFICATION Spec
CONSTANTS
  Procs = {p1, p2}
  NoProc = NoProc
  Frames = {0, 1, 2}
  FrameZone <- MCFrameZone
  PAGESIZE = 4096
  SLABSIZECOUNT = 8
  Requests <- MCRequests
  MAX_GET_FREE_PAGE_TRIES = 4
  MaxHeld = 2
SYMMETRY Callers
CHECK_DEADLOCK FALSE
INVARIANTS
  ObjectsDisjoint
  SlabIsConsistent
  GivesUpOnlyWithoutMemory
PROPERTIES
  GrowsOnlyWhenFull
