------------------------------- MODULE Buddy -------------------------------
(***************************************************************************)
(* The page allocator: mem/page.c (a buddy allocator with one set of free  *)
(* lists per memory zone) and phys_freepages_low of mem/phys.c, which      *)
(* releases the free page frames to it at boot.                            *)
(*                                                                         *)
(* The recursive functions of page.c take one step per call:               *)
(* _addToBuddyFreeList merges one level per step and _findFreePageInBuddy  *)
(* splits one level per step, so the invariants are also checked half way  *)
(* through an operation.  op is the operation in progress.  The allocator  *)
(* has no lock and the model has one caller; see the README.               *)
(***************************************************************************)
EXTENDS Integers, Sequences, FiniteSets

CONSTANTS
  MaxPfn,       \* PFN_MAX, the last frame of the page frame map
  MAXORDER,     \* ALLOCBUDDY_MAXORDER
  Size,         \* Size[o] = 1 << o
  BootLimit,    \* MAXBOOTPGD_PFN, the last frame the boot page table maps
  InitialZone,      \* what phys_pagemap_init gives each frame: its zone,
  InitialSegment,   \* the memory map entry it belongs to
  InitialUseCount   \* and its use count (0: free)

Pages == 0..MaxPfn
Orders == 0..MAXORDER
Zones == {"NORMAL", "DMA16", "HIGH", "UNKNOWN"}
AllocZones == {"NORMAL", "DMA16"}

ASSUME BuddyAssumption ==
  /\ MaxPfn \in Nat /\ MAXORDER \in Nat
  /\ BootLimit \in Nat /\ MaxPfn <= BootLimit     \* phys_init caps PFN_MAX
  /\ Size \in [0..(MAXORDER + 1) -> Nat]
  /\ Size[0] = 1 /\ \A o \in Orders : Size[o + 1] = 2 * Size[o]
  /\ InitialZone \in [Pages -> Zones] /\ InitialSegment \in [Pages -> Nat]
  /\ InitialUseCount \in [Pages -> Nat \ {1}]

VARIABLES
  freelist,     \* memoryzone[z].free_area[o].freelist, from head to tail
  zone,         \* page->zone, set once
  segment,      \* page->memsegment, set once
  usable,       \* the frames phys_pagemap_init left free (for the properties)
  order,        \* page->order
  usecount,     \* page->usecount
  op,           \* the operation in progress
  walk,         \* p of phys_freepages_low
  panic         \* what the last PANIC said; the kernel then stops

mapVars == <<zone, segment, usable>>
vars == <<mapVars, freelist, order, usecount, op, walk, panic>>

Idle == [at |-> "idle"]
Block(p, o) == p..(p + Size[o] - 1)
ElementsOf(s) == {s[i] : i \in DOMAIN s}

----------------------------------------------------------------------------
(* include/list.h *)

list_add(fl, z, o, p) == [fl EXCEPT ![z][o] = <<p>> \o @]

\* list_del of an element that may be on no list: then nothing happens.
Unlink(s, p) ==
  IF p \notin ElementsOf(s) THEN s
  ELSE LET k == CHOOSE i \in DOMAIN s : s[i] = p
       IN [i \in 1..(Len(s) - 1) |-> IF i < k THEN s[i] ELSE s[i + 1]]

list_del(fl, p) == [fl EXCEPT ![zone[p]] = [o \in Orders |-> Unlink(@[o], p)]]

----------------------------------------------------------------------------
(* _addToBuddyFreeList: one call, for the block of op.page at op.order.     *)

BuddyIdx_next(p, o) == p + Size[o]

BuddyIdx(p, o) ==
  LET rest == p % Size[o + 1]
  IN IF rest = 0 THEN p + Size[o] ELSE p - rest

\* The buddy's use count is read first, past the end of the map when the block
\* is the last one; either way the buddy must then be found on the free list.
BuddyIsFree_unchecked(p, o) == BuddyIdx(p, o) \in Pages /\ usecount[BuddyIdx(p, o)] = 0

BuddyIsFree(p, o) == BuddyIdx(p, o) \in ElementsOf(freelist[zone[p]][o])

MayMerge(o) == o < MAXORDER

Merge ==
  /\ op.at = "merge" /\ MayMerge(op.order) /\ BuddyIsFree(op.page, op.order)
  /\ LET b == BuddyIdx(op.page, op.order)
         low == IF op.page % Size[op.order + 1] = 0 THEN op.page ELSE b
         high == IF low = b THEN op.page ELSE b
     IN /\ freelist' = list_del(freelist, b)
        /\ order' = [order EXCEPT ![low] = @ + 1, ![high] = -1]
        /\ op' = [op EXCEPT !.page = low, !.order = @ + 1]
  /\ UNCHANGED <<mapVars, usecount, walk, panic>>

AddToFreeList ==
  /\ op.at = "merge"
  /\ ~MayMerge(op.order) \/ ~BuddyIsFree(op.page, op.order)
  /\ freelist' = list_add(list_del(freelist, op.page), zone[op.page], op.order, op.page)
  /\ op' = Idle
  /\ UNCHANGED <<mapVars, order, usecount, walk, panic>>

\* page_free_page_pfn for a block the caller holds: its use count is 1.
page_free_page_pfn(p) ==
  /\ op = Idle /\ walk > MaxPfn /\ panic = ""
  /\ usecount[p] = 1
  /\ usecount' = [usecount EXCEPT ![p] = 0]
  /\ op' = [at |-> "merge", page |-> p, order |-> order[p]]
  /\ UNCHANGED <<mapVars, freelist, order, walk, panic>>

----------------------------------------------------------------------------
(* _alloc_pages_byorder and _findFreePageInBuddy *)

\* The recursion goes up to the first order that has a free block, and takes
\* the head of that list; above MAXORDER it PANICs.
Levels_short(z, o) == {k \in o..(MAXORDER - 1) : freelist[z][k] # <<>>}

Levels(z, o) == {k \in o..MAXORDER : freelist[z][k] # <<>>}

_alloc_pages_byorder(z, o) ==
  /\ op = Idle /\ walk > MaxPfn /\ panic = ""
  /\ LET levels == Levels(z, o)
     IN IF levels = {}
        THEN panic' = "order > MAXORDER" /\ op' = [at |-> "oom", zone |-> z, want |-> o]
        ELSE \E k \in levels :
               /\ \A j \in levels : k <= j
               /\ op' = [at |-> "split", page |-> Head(freelist[z][k]), order |-> k, want |-> o]
               /\ UNCHANGED panic
  /\ UNCHANGED <<mapVars, freelist, order, usecount, walk>>

\* Coming back one level: the block is halved and both halves are put on the
\* list below, the upper one at its head.
HalvesOf(fl, p, o) ==
  list_add(list_add(list_del(fl, p), zone[p], o, p), zone[p], o, p + Size[o])

Split ==
  /\ op.at = "split" /\ op.order > op.want /\ op.page > 0
  /\ freelist' = HalvesOf(freelist, op.page, op.order - 1)
  /\ order' = [order EXCEPT ![op.page] = op.order - 1,
                            ![op.page + Size[op.order - 1]] = op.order - 1]
  /\ op' = [op EXCEPT !.order = @ - 1]
  /\ UNCHANGED <<mapVars, usecount, walk, panic>>

\* The test "higherOrderIdx > 0" takes page frame 0 for a failure.
SplitOfFrameZero ==
  /\ op.at = "split" /\ op.order > op.want /\ op.page = 0
  /\ panic' = "Out of memory"
  /\ op' = [at |-> "oom", zone |-> zone[op.page], want |-> op.want]
  /\ UNCHANGED <<mapVars, freelist, order, usecount, walk>>

Take_counted(p) == [usecount EXCEPT ![p] = @]

Take(p) == [usecount EXCEPT ![p] = @ + 1]

TakePage ==
  /\ op.at = "split" /\ op.order = op.want
  /\ freelist' = list_del(freelist, op.page)
  /\ usecount' = Take(op.page)
  /\ op' = Idle
  /\ UNCHANGED <<mapVars, order, walk, panic>>

----------------------------------------------------------------------------
(* phys_freepages_low *)

\* _testordertofree: how many frames from p on are free and belong with it,
\* and the largest aligned block they fill.
Together(p, q) == /\ zone[q] = zone[p] /\ segment[q] = segment[p] /\ usecount[q] = 0
                  /\ q < BootLimit

Possible(p, n) == \A q \in p..(p + n - 1) : q \in Pages /\ Together(p, q)

_testordertofree(p) ==
  CHOOSE o \in Orders :
    /\ o = 0 \/ (Possible(p, Size[o]) /\ p % Size[o] = 0)
    /\ \A k \in Orders : k > o => ~(Possible(p, Size[k]) /\ p % Size[k] = 0)

ReleaseFree ==
  /\ op = Idle /\ walk <= MaxPfn
  /\ order[walk] < 1 /\ usecount[walk] < 1
  /\ LET o == _testordertofree(walk)
     IN /\ order' = [order EXCEPT ![walk] = o]
        /\ op' = [at |-> "merge", page |-> walk, order |-> o]
        /\ walk' = walk + Size[o]
  /\ UNCHANGED <<mapVars, freelist, usecount, panic>>

SkipUsed ==
  /\ op = Idle /\ walk <= MaxPfn
  /\ order[walk] >= 1 \/ usecount[walk] >= 1
  /\ walk' = walk + 1
  /\ UNCHANGED <<mapVars, freelist, order, usecount, op, panic>>

----------------------------------------------------------------------------
Init ==
  /\ freelist = [z \in Zones |-> [o \in Orders |-> <<>>]]
  /\ zone = InitialZone /\ segment = InitialSegment
  /\ usable = {p \in Pages : InitialUseCount[p] = 0}
  /\ order = [p \in Pages |-> 0]
  /\ usecount = InitialUseCount
  /\ op = Idle /\ walk = 0 /\ panic = ""

Next ==
  \/ ReleaseFree \/ SkipUsed
  \/ Merge \/ AddToFreeList
  \/ Split \/ SplitOfFrameZero \/ TakePage
  \/ \E p \in Pages : page_free_page_pfn(p)
  \/ \E z \in AllocZones, o \in Orders : _alloc_pages_byorder(z, o)

Spec == Init /\ [][Next]_vars

----------------------------------------------------------------------------
(* Properties *)

Released == {p \in usable : p < walk}

\* Every block there is: on a free list, held by a caller, or in the hands of
\* the free operation in progress.
FreeHeads == {p \in Pages : \E o \in Orders : p \in ElementsOf(freelist[zone[p]][o])}
HeldHeads == {p \in Pages : usecount[p] = 1}
MovingHeads == IF op.at = "merge" THEN {op.page} ELSE {}
Heads == FreeHeads \cup HeldHeads \cup MovingHeads

TypeOK ==
  /\ zone \in [Pages -> Zones] /\ segment \in [Pages -> Nat] /\ usable \subseteq Pages
  /\ freelist \in [Zones -> [Orders -> Seq(Pages)]]
  /\ order \in [Pages -> -1..MAXORDER]
  /\ usecount \in [Pages -> Nat]
  /\ walk \in Nat
  /\ \/ op = Idle
     \/ op \in [at : {"merge"}, page : Pages, order : Orders]
     \/ op \in [at : {"split"}, page : Pages, order : Orders, want : Orders]
     \/ op \in [at : {"oom"}, zone : Zones, want : Orders]

\* No page frame belongs to two blocks: what page_alloc_pages hands out
\* overlaps neither another caller's block nor a free block, and no two free
\* blocks overlap, also while a block is being merged or split.
NoOverlap ==
  \A p, q \in Heads : p # q => Block(p, order[p]) \cap Block(q, order[q]) = {}

\* No page frame is lost and none is invented: the blocks cover exactly the
\* frames that phys_pagemap_init left free and phys_freepages_low has passed;
\* a frame of the kernel image, of the boot allocator or of reserved memory
\* never enters a block.
NoPageLost == UNION {Block(p, order[p]) : p \in Heads} = Released

\* A page on a free list is on the list of its zone and of its order, once,
\* is aligned to its size and is not in use; the order kept in the page is
\* what page_free_page_pfn later goes by.
ListsAgree ==
  \A z \in Zones, o \in Orders :
    LET s == freelist[z][o]
    IN \A i \in DOMAIN s :
         /\ zone[s[i]] = z /\ order[s[i]] = o /\ usecount[s[i]] = 0
         /\ s[i] % Size[o] = 0
         /\ \A j \in DOMAIN s : s[j] = s[i] => j = i

\* Together: at every step of every operation, free lists and callers' blocks
\* share out exactly the memory that was released (page.c, list.h).
BlocksPartitionMemory == TypeOK /\ NoOverlap /\ NoPageLost /\ ListsAgree

\* Between operations no block below MAXORDER is free beside its free buddy:
\* the merge in _addToBuddyFreeList leaves nothing to merge, so free memory
\* does not stay broken up after everything has been returned.
Coalesced ==
  op = Idle =>
    \A z \in Zones : \A o \in 0..(MAXORDER - 1) : \A p \in ElementsOf(freelist[z][o]) :
      BuddyIdx(p, o) \notin ElementsOf(freelist[z][o])

\* An allocation fails only when its zone has no block large enough, or when
\* the block it would have to split is at the head of its list and is page
\* frame 0, which _findFreePageInBuddy takes for a failed search.
OutOfMemoryIsReal ==
  op.at = "oom" =>
    LET levels == {k \in op.want..MAXORDER : freelist[op.zone][k] # <<>>}
    IN levels = {} \/ \E k \in levels : /\ \A j \in levels : k <= j
                                       /\ k > op.want /\ Head(freelist[op.zone][k]) = 0

\* The refinement mapping: the frames that are free, and the blocks held.
FreeFrames == UNION {Block(p, order[p]) : p \in FreeHeads \cup MovingHeads}
HeldBlocks == {<<p, order[p]>> : p \in HeldHeads}

\* The allocator implements PageAllocator: a request is answered by an aligned
\* block of the zone and size asked for, taken from the free frames, and a
\* block freed gives back exactly the frames it was given.
PA == INSTANCE PageAllocator WITH free <- FreeFrames, held <- HeldBlocks
PageAllocatorSpec == PA!Spec
=============================================================================
