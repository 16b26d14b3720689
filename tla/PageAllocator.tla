--------------------------- MODULE PageAllocator ---------------------------
(***************************************************************************)
(* What the page allocator promises its callers (kmalloc, page tables,     *)
(* stacks, DMA buffers), without its lists: a set of free page frames and  *)
(* the set of blocks <<first frame, order>> that callers hold.  zone and   *)
(* usable (the frames the memory map leaves free) never change.            *)
(***************************************************************************)
EXTENDS Integers

CONSTANTS MaxPfn, MAXORDER, Size

VARIABLES zone, usable, free, held

PageFrames == 0..MaxPfn
BlockOf(b) == b[1]..(b[1] + Size[b[2]] - 1)

Init == free = {} /\ held = {}

\* Boot: free frames of the memory map become available.
Release ==
  \E p \in PageFrames, o \in 0..MAXORDER :
    /\ BlockOf(<<p, o>>) \subseteq usable
    /\ BlockOf(<<p, o>>) \cap (free \cup UNION {BlockOf(b) : b \in held}) = {}
    /\ free' = free \cup BlockOf(<<p, o>>)
    /\ UNCHANGED held

\* A request for 2^o frames of a zone.
Alloc(z, o) ==
  \E p \in PageFrames :
    /\ BlockOf(<<p, o>>) \subseteq free
    /\ p % Size[o] = 0
    /\ \A q \in BlockOf(<<p, o>>) : zone[q] = z
    /\ free' = free \ BlockOf(<<p, o>>)
    /\ held' = held \cup {<<p, o>>}

Free(b) ==
  /\ b \in held
  /\ held' = held \ {b}
  /\ free' = free \cup BlockOf(b)

Next ==
  \/ Release
  \/ \E z \in {"NORMAL", "DMA16"}, o \in 0..MAXORDER : Alloc(z, o)
  \/ \E b \in held : Free(b)

Spec == Init /\ [][Next /\ UNCHANGED <<zone, usable>>]_<<zone, usable, free, held>>
=============================================================================
