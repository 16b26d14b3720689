------------------------------ MODULE PhysMap ------------------------------
(***************************************************************************)
(* What mem/phys.c computes from the boot memory map before it hands the   *)
(* free page frames to the buddy allocator: which entry becomes the NORMAL *)
(* zone, how far the page frame map reaches, the zone of every frame and   *)
(* the use count every frame starts with.                                  *)
(*                                                                         *)
(* A memory map is a sequence of entries [addr, size, type], the           *)
(* BOOTMEMTYPE_END marker left out.  Addresses are counted in units of     *)
(* 1/PAGESIZE of a page, so that an entry may begin or end inside a page.  *)
(***************************************************************************)
EXTENDS Integers, Sequences, FiniteSetsExt, SequencesExt

CONSTANTS
  PAGESIZE,         \* units per page frame
  MB,               \* the size (units) an entry must exceed to be a candidate: 1024*1024
  NORMALTOP,        \* 4 GB, in units
  MAXPGD_PFN,       \* last frame the kernel page table can map
  PFN_DMA16_MAX     \* last frame of the DMA16 zone (255 in phys.c)

ASSUME PhysAssumption ==
  /\ PAGESIZE \in Nat \ {0}
  /\ {MB, NORMALTOP, MAXPGD_PFN, PFN_DMA16_MAX} \subseteq Nat

NoEntry == [addr |-> 0, size |-> 0, type |-> "END"]

PHYS2PFN(a) == a \div PAGESIZE
PAGEALIGN_UP(a) == ((a + PAGESIZE - 1) \div PAGESIZE) * PAGESIZE
LastByte(e) == e.addr + e.size - 1

----------------------------------------------------------------------------
(* phys_init: the entries of more than 1 MB of free memory are candidates. *)

Candidate(e) == e.type = "FREE" /\ e.size > MB

\* The test of phys_init, as it stands: a candidate replaces the best one so
\* far when it is SMALLER and the best one so far begins below 4 GB.
BetterNormal(best, e) ==
  best = NoEntry \/ (e.size < best.size /\ best.addr < NORMALTOP)

largestnormal(map) ==
  FoldLeft(LAMBDA best, e : IF Candidate(e) /\ BetterNormal(best, e) THEN e ELSE best,
           NoEntry, map)

top(map) ==
  FoldLeft(LAMBDA best, e : IF Candidate(e) /\ (best = NoEntry \/ e.addr > best.addr)
                            THEN e ELSE best,
           NoEntry, map)

PFN_NORMAL_MIN(map) == PHYS2PFN(PAGEALIGN_UP(largestnormal(map).addr))
PFN_NORMAL_MAX(map) == PHYS2PFN(LastByte(largestnormal(map)))
PFN_MAX(map) == Min({PHYS2PFN(LastByte(top(map))), MAXPGD_PFN})

\* The zone of a frame.  "UNKNOWN" is memoryzone[4], one past the array of
\* four that phys.c defines.
phys_zone_for_pfn(map, pfn) ==
  IF PFN_NORMAL_MIN(map) <= pfn /\ pfn <= PFN_NORMAL_MAX(map) THEN "NORMAL"
  ELSE IF PFN_NORMAL_MAX(map) < pfn /\ pfn <= PFN_MAX(map) THEN "HIGH"
  ELSE IF pfn <= PFN_DMA16_MAX THEN "DMA16"
  ELSE "UNKNOWN"

----------------------------------------------------------------------------
(* phys_pagemap_init *)

\* The frames the loop over an entry visits: it steps from the entry's first
\* byte by whole pages, while it is below the entry's last byte.
Visited(e) ==
  {PHYS2PFN(a) : a \in {a \in e.addr..(LastByte(e) - 1) : (a - e.addr) % PAGESIZE = 0}}

Covered(map, types) ==
  UNION {Visited(map[i]) : i \in {i \in DOMAIN map : map[i].type \in types}}

\* The first pass releases what FREE entries visit, unless the entry begins
\* beyond the page table.
MarkedFree(map) ==
  Covered(SelectSeq(map, LAMBDA e : PHYS2PFN(e.addr) < MAXPGD_PFN), {"FREE"})

\* The use count of every frame when phys_freepages_low starts: 444 not set,
\* 888 reserved, 998 boot allocator, 999 boot image, 0 free.
UseCount(map, kernel, bootmem) ==
  [pfn \in 0..PFN_MAX(map) |->
     IF pfn \in Covered(map, {"RESERVED"}) THEN 888
     ELSE IF pfn \in kernel THEN 999
     ELSE IF pfn \notin MarkedFree(map) THEN 444
     ELSE IF pfn \in bootmem THEN 998
     ELSE 0]

\* The memory segment of a free frame: the last FREE entry that visits it.
\* (The segment of a frame that is not free is never compared.)
MemSegment(map) ==
  [pfn \in 0..PFN_MAX(map) |->
     Max({0} \cup {i \in DOMAIN map : map[i].type = "FREE" /\ pfn \in Visited(map[i])})]
=============================================================================
