----------------------------- MODULE MCPhysMap -----------------------------
(***************************************************************************)
(* phys_init on the memory maps of a PC with and without memory above the  *)
(* 4 GB boundary: low memory, main memory below the boundary and, when     *)
(* there is more, the rest above it.                                       *)
(***************************************************************************)
EXTENDS PhysMap

CONSTANTS MainSizes, HighSizes    \* sizes (units) of the two large entries; 0: none

VARIABLES map, normal

PcMap(main, high) ==
  << [addr |-> 0,  size |-> 14,   type |-> "FREE"],
     [addr |-> 14, size |-> 2,    type |-> "RESERVED"],
     [addr |-> 16, size |-> main, type |-> "FREE"] >>
  \o (IF high = 0 THEN << >>
      ELSE << [addr |-> NORMALTOP, size |-> high, type |-> "FREE"] >>)

Init ==
  /\ map \in {PcMap(m, h) : m \in MainSizes, h \in HighSizes}
  /\ normal = NoEntry

phys_init ==
  /\ normal = NoEntry
  /\ normal' = largestnormal(map)
  /\ UNCHANGED map

Spec == Init /\ [][phys_init]_<<map, normal>>

\* phys.c declares largestnormal as the "largest memsize below 4gb" and the
\* loop that sets it as "find largest continious memomory > 1mb": the entry
\* that becomes the NORMAL zone begins below 4 GB and no candidate there is
\* larger.
NormalIsLargest ==
  normal # NoEntry =>
    /\ normal.addr < NORMALTOP
    /\ \A i \in DOMAIN map :
         Candidate(map[i]) /\ map[i].addr < NORMALTOP => map[i].size <= normal.size
=============================================================================
