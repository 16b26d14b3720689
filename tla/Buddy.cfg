SPECIFICATION Spec
CONSTANTS
  MAXORDER = 2
  PAGESIZE = 4
  MB = 34
  NORMALTOP = 1000
  MAXPGD_PFN = 40
  PFN_DMA16_MAX = 8
  BootLimit = 40
  MaxPfn = 17
  Size <- MCSize
  InitialZone <- MCInitialZone
  InitialSegment <- MCInitialSegment
  InitialUseCount <- MCInitialUseCount
INVARIANTS
  BlocksPartitionMemory
  Coalesced
  OutOfMemoryIsReal
PROPERTIES
  PageAllocatorSpec
CHECK_DEADLOCK FALSE
