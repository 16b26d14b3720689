------------------------------ MODULE MCBuddy ------------------------------
(***************************************************************************)
(* The page allocator on the memory map of a PC, scaled down to blocks of  *)
(* at most 4 frames and 4 address units per page.  Frames 0..8 are low     *)
(* memory (DMA16), the last of them shared with a reserved entry: enough   *)
(* for a second block of the largest order.  From frame 9 on there is      *)
(* one large free entry, which holds the boot image and the boot           *)
(* allocator's heap.                                                       *)
(***************************************************************************)
EXTENDS Buddy, PhysMap

MCSize == [o \in 0..(MAXORDER + 1) |-> 2^o]

PcMap == << [addr |-> 0,  size |-> 34, type |-> "FREE"],
            [addr |-> 34, size |-> 2,  type |-> "RESERVED"],
            [addr |-> 36, size |-> 36, type |-> "FREE"],
            [addr |-> 72, size |-> 4,  type |-> "ACPI_RECLAIMABLE"] >>

Kernel == {9, 10, 11}
BootHeap == {16, 17}

ASSUME MaxPfn = PFN_MAX(PcMap)

MCInitialZone == [p \in Pages |-> phys_zone_for_pfn(PcMap, p)]
MCInitialSegment == MemSegment(PcMap)
MCInitialUseCount == UseCount(PcMap, Kernel, BootHeap)
=============================================================================
