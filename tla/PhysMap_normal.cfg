SPECIFICATION Spec
CONSTANTS
  PAGESIZE = 4
  MB = 16
  NORMALTOP = 80
  MAXPGD_PFN = 40
  PFN_DMA16_MAX = 3
  MainSizes = {24, 36, 64}
  HighSizes = {0, 20, 48}
INVARIANT NormalIsLargest
CHECK_DEADLOCK FALSE
