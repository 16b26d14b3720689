CONSTANTS
  PAGESIZE = 32
  MB = 128
  NORMALTOP = 4096
  MAXPGD_PFN = 127
  PFN_DMA16_MAX = 4
  KERNEL_PHYS_BASE = 160
  BOOTMEM_START = 768
  BOOTMEM_ROOM = 256
  ENTRY = 3
  TAGHEADER = 2
  PAGE_T = 5
  FAN = 16
  HALF = 8
  Frames <- MCFrames
  VPages <- MCVPages
  BUSES = 2
  SLOTS = 2
  FUNCS = 2
  WORD = 4096
  Machines <- MCMachines
  BIOS_FIRST = 2
  BIOS_LAST = 4
  RSDP_FIRST = 3
  SHADOW_FIRST = 45
  SHADOW_LAST = 46
  APIC_FIRST = 84
  APIC_LAST = 87
  STACKORDER = 1

SPECIFICATION BootSpec

INVARIANTS
  InUseNeverFree
  ModulesIntact
  KernelSeesMemory
  TouchedIsMapped
  UserIsolation
  BarsRight

PROPERTY ImplementsAddressSpaces
