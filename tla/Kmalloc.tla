------------------------------ MODULE Kmalloc ------------------------------
(***************************************************************************)
(* The kernel's slab allocator, mem/kmalloc.c, over the page allocator.    *)
(*                                                                         *)
(* Every size class of every zone has a list of pages that have free       *)
(* blocks, every such page a list of its free blocks.  A block is known by *)
(* its page and its offset in the page (the address of its memblock_hdr).  *)
(* Processes, and the interrupt handlers that run in them, interleave: the *)
(* loop of kmalloc and the end of kfree run under slablock, the beginning  *)
(* of kfree does not.                                                      *)
(***************************************************************************)
EXTENDS Integers, Sequences, FiniteSets, FiniteSetsExt

CONSTANTS
  Procs,        \* whatever calls kmalloc
  NoProc,
  Frames,       \* page frames, as numbers
  FrameZone,    \* the zone of each frame
  PAGESIZE,
  SLABSIZECOUNT,
  Requests,     \* requests [size, align]; align 0: kmalloc, else kmalloc_aligned
  MAX_GET_FREE_PAGE_TRIES,
  MaxHeld       \* a bound of the model: objects a caller holds at a time

HdrSize == 16       \* sizeof(struct memblock_hdr), packed and 16-aligned
PageHdrSize == 32   \* sizeof(struct page_hdr), likewise
PtrSize == 8

Zones == {"NORMAL", "DMA16"}
Classes == 0..(SLABSIZECOUNT - 1)

ASSUME KmallocAssumption ==
  /\ Frames \subseteq Nat /\ FrameZone \in [Frames -> Zones] /\ NoProc \notin Procs
  /\ Requests \subseteq [size : Nat, align : Nat]
  /\ PAGESIZE \in Nat /\ PAGESIZE >= 512 /\ SLABSIZECOUNT \in Nat
  /\ MAX_GET_FREE_PAGE_TRIES \in Nat \ {0, 1}

VARIABLES
  free,         \* the frames the page allocator has
  firstfree,    \* sizes[c].firstfree and the page->next chain, per zone and class
  order,        \* page->order; -1: not a slab page
  blocks,       \* page->firstfree and the bh.next chain: offsets of free blocks
  nfree,        \* page->nfree
  classfree,    \* sizes[c].nfree
  freeflag,     \* the blocks whose flags have MEMBLOCK_FREE
  dmaflag,      \* the blocks whose flags have GFP_DMA16
  slablock,     \* the kmalloc that holds slablock, or NoCall
  given,        \* given[p]: what p holds: records [blk, ptr, size, align]
  freeing,      \* freeing[p]: the block p has marked free and not yet linked
  panic

slabVars == <<firstfree, order, blocks, nfree, classfree, freeflag, dmaflag>>
vars == <<free, slabVars, slablock, given, freeing, panic>>

NoCall == [proc |-> NoProc]
NoBlock == <<-1, -1>>

----------------------------------------------------------------------------
(* kmalloc_calc_sizes and get_order *)

Round16(n) == (n \div 16) * 16

Gross(c) == 2^(c + 5)

ASSUME SizesAssumption == \A c \in Classes : Gross(c) \in 32..PAGESIZE

NBLOCKS(c) ==
  IF Gross(c) >= PAGESIZE THEN 1
  ELSE IF Gross(c) >= 256 THEN PAGESIZE \div Gross(c)
  ELSE (PAGESIZE - PageHdrSize) \div Gross(c)

BLOCKSIZE(c) ==
  IF Gross(c) >= PAGESIZE THEN Gross(c) - PageHdrSize
  ELSE IF Gross(c) >= 256 THEN Round16((PAGESIZE - PageHdrSize) \div NBLOCKS(c))
  ELSE Gross(c)

NoClass == -1

get_order_tight(size) ==
  LET fits == {c \in Classes : size <= BLOCKSIZE(c)} IN IF fits = {} THEN NoClass ELSE Min(fits)

get_order(size) ==
  LET fits == {c \in Classes : size + HdrSize <= BLOCKSIZE(c)}
  IN IF fits = {} THEN NoClass ELSE Min(fits)

\* What kmalloc_aligned asks kmalloc for, and the pointer it makes of the
\* block: room for the original pointer, then up to the next multiple.
TotalSize(r) == IF r.align = 0 THEN r.size ELSE r.size + r.align - 1 + PtrSize

AlignedPtr(raw, align) == ((raw + PtrSize + align - 1) \div align) * align

Payload(b) == b[1] * PAGESIZE + b[2] + HdrSize

UserPtr(b, r) == IF r.align = 0 THEN Payload(b) ELSE AlignedPtr(Payload(b), r.align)

----------------------------------------------------------------------------
(* kmalloc *)

Tries_one == 1

Tries == MAX_GET_FREE_PAGE_TRIES

kmalloc(p, z, r) ==
  /\ panic = "" /\ slablock = NoCall /\ freeing[p] = NoBlock /\ Cardinality(given[p]) < MaxHeld
  /\ LET c == get_order(TotalSize(r))
     IN IF z = "DMA32"
        THEN panic' = "kmalloc of DMA32 not enabled yet!" /\ UNCHANGED slablock
        ELSE IF c = NoClass
        THEN panic' = "kmalloc of large page" /\ UNCHANGED slablock
        ELSE /\ slablock' = [proc |-> p, zone |-> z, class |-> c, request |-> r,
                             tries |-> Tries]
             /\ UNCHANGED panic
  /\ UNCHANGED <<free, slabVars, given, freeing>>

InLoop == panic = "" /\ slablock # NoCall

\* The class has a page with a free block: take it, and take the page off the
\* list when that was its last.
PagesAfterTake(s, left) == IF left = 0 THEN Tail(s) ELSE s

BlocksAfterTake(s) == Tail(s)

TakeBlock ==
  LET z == slablock.zone  c == slablock.class  r == slablock.request
  IN /\ InLoop /\ firstfree[z][c] # <<>>
     /\ LET page == Head(firstfree[z][c])
            blk == <<page, Head(blocks[page])>>
        IN IF blk \notin freeflag
           THEN panic' = "page->firstfree is not free!" /\ UNCHANGED <<slabVars, slablock, given>>
           ELSE /\ blocks' = [blocks EXCEPT ![page] = BlocksAfterTake(@)]
                /\ nfree' = [nfree EXCEPT ![page] = @ - 1]
                /\ firstfree' = [firstfree EXCEPT ![z][c] = PagesAfterTake(@, nfree[page] - 1)]
                /\ classfree' = [classfree EXCEPT ![z][c] = @ - 1]
                /\ freeflag' = freeflag \ {blk}
                /\ dmaflag' = IF z = "DMA16" THEN dmaflag \cup {blk} ELSE dmaflag
                /\ given' = [given EXCEPT ![slablock.proc] =
                               @ \cup {[blk |-> blk, ptr |-> UserPtr(blk, r),
                                      size |-> r.size, align |-> r.align]}]
                /\ slablock' = NoCall
                /\ UNCHANGED <<order, panic>>
     /\ UNCHANGED <<free, freeing>>

\* It has none: cut a new page into blocks and try again.
OffsetsOf(c) == [i \in 1..NBLOCKS(c) |-> PageHdrSize + (i - 1) * BLOCKSIZE(c)]

GrowSlab ==
  LET z == slablock.zone  c == slablock.class
  IN /\ InLoop /\ firstfree[z][c] = <<>>
     /\ \E page \in free :
          /\ FrameZone[page] = z
          /\ free' = free \ {page}
          /\ order' = [order EXCEPT ![page] = c]
          /\ blocks' = [blocks EXCEPT ![page] = OffsetsOf(c)]
          /\ nfree' = [nfree EXCEPT ![page] = NBLOCKS(c)]
          /\ firstfree' = [firstfree EXCEPT ![z][c] = <<page>> \o @]
          /\ freeflag' = freeflag \cup {<<page, OffsetsOf(c)[i]>> : i \in 1..NBLOCKS(c)}
     /\ classfree' = [classfree EXCEPT ![z][c] = @ + NBLOCKS(c)]
     /\ slablock' = [slablock EXCEPT !.tries = @ - 1]
     /\ panic' = IF slablock.tries = 1 THEN "Unable to do malloc" ELSE panic
     /\ UNCHANGED <<dmaflag, given, freeing>>

NoPageLeft ==
  /\ InLoop /\ firstfree[slablock.zone][slablock.class] = <<>>
  /\ ~\E f \in free : FrameZone[f] = slablock.zone
  /\ panic' = "order > MAXORDER"
  /\ UNCHANGED <<free, slabVars, slablock, given, freeing>>


----------------------------------------------------------------------------
(* kfree, and kfree_aligned, which finds the block through the pointer that *)
(* kmalloc_aligned stored                                                   *)

\* Before the lock: the checks, and MEMBLOCK_FREE.
kfree(p, g) ==
  /\ panic = "" /\ freeing[p] = NoBlock /\ g \in given[p]
  /\ IF g.blk \in freeflag
     THEN panic' = "Try to free a FREE block ??" /\ UNCHANGED <<freeflag, given, freeing>>
     ELSE /\ freeflag' = freeflag \cup {g.blk}
          /\ given' = [given EXCEPT ![p] = @ \ {g}]
          /\ freeing' = [freeing EXCEPT ![p] = g.blk]
          /\ UNCHANGED panic
  /\ UNCHANGED <<free, firstfree, order, blocks, nfree, classfree, dmaflag, slablock>>

\* page->next, as the lists of the class show it
HasNext(s, page) == \E i \in 1..(Len(s) - 1) : s[i] = page

\* A mutant: the page of the first block freed is not put back on the list.
PagesAfterFree_lost(s, page, n) == s

PagesAfterFree(s, page, n) == IF n = 1 /\ ~HasNext(s, page) THEN <<page>> \o s ELSE s

ZoneOfBlock_normal(b) == "NORMAL"

ZoneOfBlock(b) == IF b \in dmaflag THEN "DMA16" ELSE "NORMAL"

\* Under the lock: the block joins its page's list, the page its class's list.
LinkFreed(p) ==
  LET b == freeing[p]  page == b[1]  z == ZoneOfBlock(b)  c == order[page]
  IN /\ panic = "" /\ slablock = NoCall /\ b # NoBlock
     /\ blocks' = [blocks EXCEPT ![page] = <<b[2]>> \o @]
     /\ nfree' = [nfree EXCEPT ![page] = @ + 1]
     /\ firstfree' = [firstfree EXCEPT ![z][c] = PagesAfterFree(@, page, nfree[page] + 1)]
     /\ classfree' = [classfree EXCEPT ![z][c] = @ + 1]
     /\ freeing' = [freeing EXCEPT ![p] = NoBlock]
     /\ UNCHANGED <<free, order, freeflag, dmaflag, slablock, given, panic>>

----------------------------------------------------------------------------
Init ==
  /\ free = Frames
  /\ firstfree = [z \in Zones |-> [c \in Classes |-> <<>>]]
  /\ order = [f \in Frames |-> -1]
  /\ blocks = [f \in Frames |-> <<>>]
  /\ nfree = [f \in Frames |-> 0]
  /\ classfree = [z \in Zones |-> [c \in Classes |-> 0]]
  /\ freeflag = {} /\ dmaflag = {}
  /\ slablock = NoCall
  /\ given = [p \in Procs |-> {}]
  /\ freeing = [p \in Procs |-> NoBlock]
  /\ panic = ""

Next ==
  \/ \E p \in Procs, z \in Zones \cup {"DMA32"}, r \in Requests : kmalloc(p, z, r)
  \/ TakeBlock
  \/ GrowSlab
  \/ NoPageLeft
  \/ \E p \in Procs : \E g \in given[p] : kfree(p, g)
  \/ \E p \in Procs : LinkFreed(p)

Spec == Init /\ [][Next]_vars

----------------------------------------------------------------------------
(* Properties *)

BlocksOf(page) == {<<page, OffsetsOf(order[page])[i]>> : i \in 1..NBLOCKS(order[page])}
SlabPages == {f \in Frames : order[f] # -1}
AllBlocks == UNION {BlocksOf(f) : f \in SlabPages}
OnList(f) == {<<f, blocks[f][i]>> : i \in 1..Len(blocks[f])}
Given == UNION {given[p] : p \in Procs}
Marked == {freeing[p] : p \in Procs} \ {NoBlock}

\* The types of the allocator's state; every block is one its page was cut into.
TypeOK ==
  /\ free \subseteq Frames
  /\ order \in [Frames -> Classes \cup {-1}]
  /\ nfree \in [Frames -> Nat]
  /\ classfree \in [Zones -> [Classes -> Nat]]
  /\ freeflag \subseteq AllBlocks /\ dmaflag \subseteq AllBlocks /\ Marked \subseteq AllBlocks
  /\ \A g \in Given : g.blk \in AllBlocks
  /\ \A z \in Zones, c \in Classes : \A i \in 1..Len(firstfree[z][c]) : firstfree[z][c][i] \in Frames

\* What two callers hold never overlaps: the bytes of every kmalloc'ed object
\* lie in its own block, behind the header, and for kmalloc_aligned behind the
\* stored pointer too, at an address with the alignment asked for.
ObjectsDisjoint ==
  /\ \A g, h \in Given : g # h => g.ptr + g.size <= h.ptr \/ h.ptr + h.size <= g.ptr
  /\ \A p \in Procs, q \in Procs : p # q => given[p] \cap given[q] = {}
  /\ \A g \in Given : \A b \in AllBlocks :
       LET header == b[1] * PAGESIZE + b[2]
       IN g.ptr + g.size <= header \/ header + HdrSize <= g.ptr
  /\ \A g \in Given : g.align # 0 => g.ptr >= Payload(g.blk) + PtrSize /\ g.ptr % g.align = 0

\* A block is held by a caller, or between the two halves of a kfree, or on
\* its page's list, and in exactly one of the three; MEMBLOCK_FREE is set in
\* the last two.  So kmalloc's "page->firstfree is not free!" and kfree's "Try
\* to free a FREE block" are never reached.
EveryBlockOnce ==
  /\ \A f \in SlabPages : Cardinality(OnList(f)) = Len(blocks[f])
  /\ \A b \in AllBlocks :
       LET holders == Cardinality({g \in Given : g.blk = b})
           marking == Cardinality({p \in Procs : freeing[p] = b})
           listed == IF b \in OnList(b[1]) THEN 1 ELSE 0
       IN holders + marking + listed = 1 /\ (b \in freeflag <=> holders = 0)
  /\ panic \notin {"page->firstfree is not free!", "Try to free a FREE block ??"}

\* A page is on the list of its class and of its zone exactly when it has free
\* blocks, once, and page->nfree counts them: kfree never puts a page on a list
\* it is on already, and a full page is found again as soon as one of its
\* blocks is freed.
PageListedIffFree ==
  /\ \A f \in SlabPages : nfree[f] = Len(blocks[f])
  /\ \A z \in Zones, c \in Classes :
       LET s == firstfree[z][c]
       IN /\ {s[i] : i \in 1..Len(s)} =
               {f \in SlabPages : order[f] = c /\ FrameZone[f] = z /\ nfree[f] > 0}
          /\ \A i, j \in 1..Len(s) : s[i] = s[j] => i = j

\* The monitoring counter of a class: the blocks on the lists of its pages.
FreeBlocks(z, c) == UNION {OnList(f) : f \in {g \in SlabPages : order[g] = c /\ FrameZone[g] = z}}

CountersAgree ==
  \A z \in Zones, c \in Classes : classfree[z][c] = Cardinality(FreeBlocks(z, c))

\* Together: whatever the callers are in the middle of, blocks, pages, lists
\* and counters of the slabs agree (kmalloc.c).
SlabIsConsistent == TypeOK /\ EveryBlockOnce /\ PageListedIffFree /\ CountersAgree

\* kmalloc gives up only when the page allocator has no page of the zone: the
\* four tries are always enough.
GivesUpOnlyWithoutMemory == panic # "Unable to do malloc"

\* kmalloc takes a page from the page allocator only while every block of the
\* class, in the zone asked for, is in use: held by a caller, or in the middle of
\* a kfree.  No page with room is ever lost, and memory that has been freed is
\* used again before the slab grows ("page is lost? Where to keep full pages?",
\* kmalloc.c:239).
InUse(b) == b \in Marked \/ \E g \in Given : g.blk = b

GrowsOnlyWhenFull ==
  [][free' # free =>
       \A f \in SlabPages :
         order[f] = slablock.class /\ FrameZone[f] = slablock.zone =>
           \A b \in BlocksOf(f) : InUse(b)]_vars
=============================================================================
