--------------------------- MODULE Kmalloc_proofs ---------------------------
(***************************************************************************)
(* Proofs about the slab allocator, for any callers, frames, zones of the  *)
(* frames, page size, size classes and requests: what callers hold never   *)
(* overlaps, blocks, pages, lists and counters agree, and kmalloc gives up *)
(* only without memory.                                                    *)
(*                                                                         *)
(* The argument follows a block through its life.  MEMBLOCK_FREE divides   *)
(* the blocks into those a caller holds and the others, and the others are *)
(* on the list of their page or in the hands of one kfree: every step      *)
(* moves one block from one place to the next.  That kfree finds the class *)
(* list of the page through the block's GFP_DMA16 flag, not through the    *)
(* page, needs that the flag is right on every block that is not listed.   *)
(***************************************************************************)
EXTENDS Kmalloc, TLAPS

----------------------------------------------------------------------------
(* The inductive invariant *)

Elems(s) == {s[i] : i \in 1..Len(s)}
Once(s) == \A i, j \in 1..Len(s) : s[i] = s[j] => i = j

Start(b) == b[1] * PAGESIZE + b[2]
End(b) == Start(b) + BLOCKSIZE(order[b[1]])

Listed(b) == b[2] \in Elems(blocks[b[1]])

Objects == [blk : Frames \X Nat, ptr : Nat, size : Nat, align : Nat]
Calls == [proc : Procs, zone : Zones, class : Classes, request : Requests, tries : Nat]

Shape ==
  /\ free \subseteq Frames
  /\ order \in [Frames -> Classes \cup {-1}]
  /\ blocks \in [Frames -> Seq(Nat)]
  /\ nfree \in [Frames -> Nat]
  /\ firstfree \in [Zones -> [Classes -> Seq(Frames)]]
  /\ given \in [Procs -> SUBSET Objects]
  /\ freeing \in [Procs -> (Frames \X Nat) \cup {NoBlock}]

\* A free frame is no slab page, and a page that is none has no blocks.
FreshOK ==
  /\ \A f \in free : order[f] = -1
  /\ \A f \in Frames : order[f] = -1 => blocks[f] = <<>>

\* MEMBLOCK_FREE is off on the blocks that callers hold, each in one object.
HeldOK ==
  /\ freeflag \subseteq AllBlocks
  /\ \A p \in Procs : \A g \in given[p] : g.blk \in AllBlocks /\ g.blk \notin freeflag
  /\ \A b \in AllBlocks : b \notin freeflag => \E p \in Procs : \E g \in given[p] : g.blk = b
  /\ \A p, q \in Procs : \A g \in given[p], h \in given[q] : g.blk = h.blk => p = q /\ g = h

\* It is on on the blocks of the lists and on those in a kfree, which differ.
FreeOK ==
  /\ \A f \in Frames : Once(blocks[f]) /\ \A o \in Elems(blocks[f]) : <<f, o>> \in freeflag
  /\ \A p \in Procs : freeing[p] # NoBlock => freeing[p] \in freeflag /\ ~Listed(freeing[p])
  /\ \A p, q \in Procs : freeing[p] # NoBlock /\ freeing[p] = freeing[q] => p = q
  /\ \A b \in freeflag : Listed(b) \/ \E p \in Procs : freeing[p] = b

\* The lists of pages.
PagesOK ==
  /\ \A f \in Frames : nfree[f] = Len(blocks[f])
  /\ \A z \in Zones, c \in Classes :
       /\ Once(firstfree[z][c])
       /\ \A f \in Frames : f \in Elems(firstfree[z][c]) <=>
            order[f] = c /\ FrameZone[f] = z /\ blocks[f] # <<>>

\* Off the lists, GFP_DMA16 tells the zone of the block's page.
DmaOK ==
  /\ \A b \in dmaflag : b \in AllBlocks /\ FrameZone[b[1]] = "DMA16"
  /\ \A b \in AllBlocks : ~Listed(b) /\ FrameZone[b[1]] = "DMA16" => b \in dmaflag

\* An object lies in its block, behind the header.
Fits(g) ==
  /\ g.ptr >= Payload(g.blk) /\ g.ptr + g.size <= End(g.blk)
  /\ g.align # 0 => g.ptr >= Payload(g.blk) + PtrSize /\ g.ptr % g.align = 0

ObjectsOK == \A p \in Procs : \A g \in given[p] : Fits(g)

\* A kmalloc has asked for a class whose blocks are large enough, and has all
\* its tries left as long as the class has no page.
CallOK ==
  slablock # NoCall =>
    /\ slablock \in Calls
    /\ TotalSize(slablock.request) + HdrSize <= BLOCKSIZE(slablock.class)
    /\ firstfree[slablock.zone][slablock.class] = <<>> => slablock.tries = Tries

\* The counters of the classes count the blocks on the lists.
CountersOK ==
  /\ classfree \in [Zones -> [Classes -> Nat]]
  /\ \A z \in Zones, c \in Classes :
       IsFiniteSet(FreeBlocks(z, c)) /\ classfree[z][c] = Cardinality(FreeBlocks(z, c))

NoFalsePanic ==
  panic \notin {"page->firstfree is not free!", "Try to free a FREE block ??", "Unable to do malloc"}

SlabInv ==
  /\ Shape /\ FreshOK /\ HeldOK /\ FreeOK /\ PagesOK /\ DmaOK
  /\ ObjectsOK /\ CallOK /\ NoFalsePanic

Inv == SlabInv /\ CountersOK

----------------------------------------------------------------------------
(* Arithmetic: blocks fit their page, objects their block *)

\* The quotient of the C division of natural numbers.
LEMMA Quotient ==
  ASSUME NEW a \in Nat, NEW n \in Nat, n # 0
  PROVE  /\ a \div n \in Nat
         /\ (a \div n) * n <= a /\ a < (a \div n) * n + n
OBVIOUS

\* A larger quotient: as many times n as fit.
LEMMA QuotientAtLeast ==
  ASSUME NEW a \in Nat, NEW n \in Nat, n # 0, NEW k \in Nat, k * n <= a
  PROVE  a \div n >= k
OBVIOUS

\* A multiple of n leaves no remainder.
LEMMA NoRemainder ==
  ASSUME NEW m \in Nat, NEW n \in Nat, n # 0, NEW q \in Nat, m = n * q
  PROVE  m % n = 0
OBVIOUS

\* Multiples of n that differ, differ by n.
LEMMA Multiples ==
  ASSUME NEW a \in Nat, NEW b \in Nat, NEW n \in Nat, a < b
  PROVE  a * n + n <= b * n
OBVIOUS

\* kmalloc_calc_sizes: a page of a class has a block, every block has room for
\* its header, and the blocks fit the page behind its header.
LEMMA ClassSizes ==
  ASSUME NEW c \in Classes
  PROVE  /\ NBLOCKS(c) \in Nat /\ NBLOCKS(c) >= 1
         /\ BLOCKSIZE(c) \in Nat /\ BLOCKSIZE(c) >= HdrSize
         /\ PageHdrSize + NBLOCKS(c) * BLOCKSIZE(c) <= PAGESIZE
<1> DEFINE G == Gross(c)
           P == PAGESIZE
<1>1. G \in Nat /\ G >= 32 /\ G <= P /\ P \in Nat /\ P >= 512
  BY KmallocAssumption, SizesAssumption
<1>2. CASE G >= P
  <2>1. NBLOCKS(c) = 1 /\ BLOCKSIZE(c) = P - 32
    BY <1>1, <1>2 DEF NBLOCKS, BLOCKSIZE, PageHdrSize
  <2> QED  BY <1>1, <2>1 DEF HdrSize, PageHdrSize
<1>3. CASE G < P /\ G >= 256
  <2> DEFINE N == P \div G
             Q == (P - 32) \div N
  <2>1. N \in Nat /\ N * G <= P /\ N >= 1
    BY <1>1, <1>3, Quotient, QuotientAtLeast
  <2>2. N * 256 <= N * G
    BY <2>1, <1>1, <1>3
  <2>3. P - 32 \in Nat /\ 16 * N <= P - 32
    BY <1>1, <2>1, <2>2
  <2>4. Q \in Nat /\ Q * N <= P - 32 /\ Q >= 16
    BY <2>1, <2>3, Quotient, QuotientAtLeast
  <2> HIDE DEF N, Q, G
  <2>5. Round16(Q) \in Nat /\ Round16(Q) <= Q /\ Round16(Q) >= 16
    BY <2>4 DEF Round16
  <2>6. N * Round16(Q) <= Q * N
    BY <2>1, <2>4, <2>5
  <2>7. NBLOCKS(c) = N
    BY <1>1, <1>3 DEF NBLOCKS, N, G
  <2>8. BLOCKSIZE(c) = Round16(Q)
    BY <1>1, <1>3, <2>7 DEF BLOCKSIZE, PageHdrSize, Q, G
  <2>9. 32 + N * Round16(Q) <= P
    BY <1>1, <2>1, <2>4, <2>5, <2>6
  <2> QED  BY Zenon, <2>1, <2>5, <2>7, <2>8, <2>9 DEF HdrSize, PageHdrSize
<1>4. CASE G < P /\ ~(G >= 256)
  <2> DEFINE N == (P - 32) \div G
  <2>1. P - 32 \in Nat /\ 1 * G <= P - 32
    BY <1>1, <1>4
  <2>2. N \in Nat /\ N * G <= P - 32 /\ N >= 1
    <3>1. N \in Nat /\ N * G <= P - 32
      BY <1>1, <2>1, Quotient
    <3>2. N >= 1
      BY <1>1, <2>1, QuotientAtLeast
    <3> QED  BY Zenon, <3>1, <3>2
  <2>3. NBLOCKS(c) = N /\ BLOCKSIZE(c) = G
    BY <1>1, <1>4 DEF NBLOCKS, BLOCKSIZE, PageHdrSize
  <2> HIDE DEF N, G
  <2>4. 32 + N * G <= P
    BY <1>1, <2>2
  <2> QED  BY <1>1, <2>2, <2>3, <2>4 DEF HdrSize, PageHdrSize
<1> QED  BY <1>1, <1>2, <1>3, <1>4

\* kmalloc_aligned: the pointer is a multiple of the alignment, with room for
\* the original pointer before it, at most align - 1 bytes further.
LEMMA AlignedPtrFits ==
  ASSUME NEW raw \in Nat, NEW a \in Nat, a # 0
  PROVE  LET u == AlignedPtr(raw, a)
         IN /\ u \in Nat /\ u >= raw + PtrSize /\ u <= raw + PtrSize + a - 1
            /\ u % a = 0
<1> DEFINE m == raw + PtrSize + a - 1
           q == m \div a
<1>1. m \in Nat
  BY DEF PtrSize
<1>2. q \in Nat /\ q * a <= m /\ m < q * a + a
  BY <1>1, Quotient, Zenon
<1>3. AlignedPtr(raw, a) = q * a
  BY Zenon DEF AlignedPtr
<1> HIDE DEF q
<1>4. q * a \in Nat /\ q * a = a * q
  BY <1>2
<1>5. (q * a) % a = 0
  BY Zenon, <1>2, <1>4, NoRemainder
<1> QED  BY <1>1, <1>2, <1>3, <1>4, <1>5 DEF PtrSize

----------------------------------------------------------------------------
(* The blocks of the slab pages *)

\* Where the i-th block of a page of the class begins.
Offset(c, i) == PageHdrSize + (i - 1) * BLOCKSIZE(c)

\* The blocks are the headers the pages were cut at.
LEMMA BlockIsCut ==
  \A b : b \in AllBlocks <=>
    \E f \in Frames : /\ order[f] # -1
                      /\ \E i \in 1..NBLOCKS(order[f]) : b = <<f, Offset(order[f], i)>>
<1>1. \A f, i : i \in 1..NBLOCKS(order[f]) => OffsetsOf(order[f])[i] = Offset(order[f], i)
  BY Zenon DEF OffsetsOf, Offset
<1>2. \A f \in Frames : \A b : b \in BlocksOf(f) <=> \E i \in 1..NBLOCKS(order[f]) : b = <<f, Offset(order[f], i)>>
  BY Zenon, <1>1 DEF BlocksOf
<1>3. \A b : b \in AllBlocks <=> \E f \in Frames : order[f] # -1 /\ b \in BlocksOf(f)
  BY Zenon DEF AllBlocks, SlabPages
<1> QED  BY <1>2, <1>3

\* The same after a step.
LEMMA BlockIsCutNext ==
  \A b : b \in AllBlocks' <=>
    \E f \in Frames : /\ order'[f] # -1
                      /\ \E i \in 1..NBLOCKS(order'[f]) : b = <<f, Offset(order'[f], i)>>
<1>1. \A f, i : i \in 1..NBLOCKS(order'[f]) => OffsetsOf(order'[f])[i] = Offset(order'[f], i)
  BY Zenon DEF OffsetsOf, Offset
<1>2. \A f \in Frames : \A b : b \in BlocksOf(f)' <=> \E i \in 1..NBLOCKS(order'[f]) : b = <<f, Offset(order'[f], i)>>
  BY Zenon, <1>1 DEF BlocksOf
<1>3. \A b : b \in AllBlocks' <=> \E f \in Frames : order'[f] # -1 /\ b \in BlocksOf(f)'
  BY Zenon DEF AllBlocks, SlabPages
<1> QED  BY <1>2, <1>3

\* A block lies in its page, behind the page's header.
LEMMA CutInPage ==
  ASSUME NEW c \in Classes, NEW i \in 1..NBLOCKS(c)
  PROVE  /\ Offset(c, i) \in Nat /\ Offset(c, i) + BLOCKSIZE(c) <= PAGESIZE
<1>1. /\ NBLOCKS(c) \in Nat /\ BLOCKSIZE(c) \in Nat
      /\ PageHdrSize + NBLOCKS(c) * BLOCKSIZE(c) <= PAGESIZE
  BY Zenon, ClassSizes
<1>2. i - 1 \in Nat /\ i - 1 < NBLOCKS(c)
  BY <1>1
<1>3. (i - 1) * BLOCKSIZE(c) + BLOCKSIZE(c) <= NBLOCKS(c) * BLOCKSIZE(c)
  BY Zenon, <1>1, <1>2, Multiples
<1>4. (i - 1) * BLOCKSIZE(c) \in Nat
  BY <1>1, <1>2
<1> QED  BY <1>1, <1>3, <1>4, KmallocAssumption DEF Offset, PageHdrSize

\* Two blocks of a page do not overlap.
LEMMA CutsApart ==
  ASSUME NEW c \in Classes, NEW i \in 1..NBLOCKS(c), NEW j \in 1..NBLOCKS(c), i < j
  PROVE  Offset(c, i) + BLOCKSIZE(c) <= Offset(c, j)
<1>1. NBLOCKS(c) \in Nat /\ BLOCKSIZE(c) \in Nat
  BY Zenon, ClassSizes
<1>2. (i - 1) * BLOCKSIZE(c) + BLOCKSIZE(c) <= (j - 1) * BLOCKSIZE(c)
  BY <1>1, Multiples
<1>3. (i - 1) * BLOCKSIZE(c) \in Nat /\ (j - 1) * BLOCKSIZE(c) \in Nat
  BY <1>1
<1> QED  BY <1>1, <1>2, <1>3 DEF Offset, PageHdrSize

\* What is known of a block.
LEMMA BlockFacts ==
  ASSUME order \in [Frames -> Classes \cup {-1}], NEW b \in AllBlocks
  PROVE  /\ b \in Frames \X Nat /\ b = <<b[1], b[2]>> /\ order[b[1]] \in Classes
         /\ BLOCKSIZE(order[b[1]]) \in Nat /\ BLOCKSIZE(order[b[1]]) >= HdrSize
         /\ b[2] + BLOCKSIZE(order[b[1]]) <= PAGESIZE
         /\ Start(b) \in Nat /\ End(b) \in Nat
<1>1. PICK f \in Frames : /\ order[f] # -1
                          /\ \E i \in 1..NBLOCKS(order[f]) : b = <<f, Offset(order[f], i)>>
  BY Zenon, BlockIsCut
<1>2. PICK i \in 1..NBLOCKS(order[f]) : b = <<f, Offset(order[f], i)>>
  BY Zenon, <1>1
<1>3. order[f] \in Classes
  BY Zenon, <1>1
<1>4. Offset(order[f], i) \in Nat /\ Offset(order[f], i) + BLOCKSIZE(order[f]) <= PAGESIZE
  BY Zenon, <1>3, CutInPage
<1>5. BLOCKSIZE(order[f]) \in Nat /\ BLOCKSIZE(order[f]) >= HdrSize
  BY Zenon, <1>3, ClassSizes
<1>6. f \in Nat /\ PAGESIZE \in Nat
  BY Zenon, KmallocAssumption
<1>7. f * PAGESIZE \in Nat
  BY <1>6
<1> QED  BY <1>2, <1>3, <1>4, <1>5, <1>7 DEF Start, End

\* Two blocks do not overlap.
LEMMA BlocksApart ==
  ASSUME order \in [Frames -> Classes \cup {-1}], NEW a \in AllBlocks, NEW b \in AllBlocks, a # b
  PROVE  End(a) <= Start(b) \/ End(b) <= Start(a)
<1>1. PICK f \in Frames : /\ order[f] # -1
                          /\ \E i \in 1..NBLOCKS(order[f]) : a = <<f, Offset(order[f], i)>>
  BY Zenon, BlockIsCut
<1>2. PICK i \in 1..NBLOCKS(order[f]) : a = <<f, Offset(order[f], i)>>
  BY Zenon, <1>1
<1>3. PICK g \in Frames : /\ order[g] # -1
                          /\ \E j \in 1..NBLOCKS(order[g]) : b = <<g, Offset(order[g], j)>>
  BY Zenon, BlockIsCut
<1>4. PICK j \in 1..NBLOCKS(order[g]) : b = <<g, Offset(order[g], j)>>
  BY Zenon, <1>3
<1>5. order[f] \in Classes /\ order[g] \in Classes /\ f \in Nat /\ g \in Nat /\ PAGESIZE \in Nat
  BY Zenon, <1>1, <1>3, KmallocAssumption
<1>6. CASE f = g
  <2>1. BLOCKSIZE(order[f]) \in Nat /\ NBLOCKS(order[f]) \in Nat
    BY Zenon, <1>5, ClassSizes
  <2>2. i < j \/ j < i
    BY <1>2, <1>4, <1>6, <2>1
  <2>3. \/ Offset(order[f], i) + BLOCKSIZE(order[f]) <= Offset(order[f], j)
        \/ Offset(order[f], j) + BLOCKSIZE(order[f]) <= Offset(order[f], i)
    BY Zenon, <1>5, <1>6, <2>2, CutsApart
  <2>4. Offset(order[f], i) \in Nat /\ Offset(order[f], j) \in Nat /\ f * PAGESIZE \in Nat
    BY <1>5, <1>6, CutInPage
  <2> QED  BY <1>2, <1>4, <1>6, <2>1, <2>3, <2>4 DEF Start, End
<1>7. CASE f # g
  <2>1. f * PAGESIZE + PAGESIZE <= g * PAGESIZE \/ g * PAGESIZE + PAGESIZE <= f * PAGESIZE
    BY <1>5, <1>7, Multiples
  <2>2. f * PAGESIZE \in Nat /\ g * PAGESIZE \in Nat
    BY <1>5
  <2>3. a[1] = f /\ b[1] = g
    BY Zenon, <1>2, <1>4
  <2>4. /\ a[2] \in Nat /\ a[2] + BLOCKSIZE(order[f]) <= PAGESIZE /\ BLOCKSIZE(order[f]) \in Nat
        /\ b[2] \in Nat /\ b[2] + BLOCKSIZE(order[g]) <= PAGESIZE /\ BLOCKSIZE(order[g]) \in Nat
    BY Zenon, <2>3, BlockFacts
  <2> QED  BY <1>5, <2>1, <2>2, <2>3, <2>4 DEF Start, End
<1> QED  BY Zenon, <1>6, <1>7

\* What kmalloc returns lies in the block it took.
LEMMA ObjectFits ==
  ASSUME order \in [Frames -> Classes \cup {-1}], NEW b \in AllBlocks, NEW r \in Requests,
         TotalSize(r) + HdrSize <= BLOCKSIZE(order[b[1]])
  PROVE  LET g == [blk |-> b, ptr |-> UserPtr(b, r), size |-> r.size, align |-> r.align]
         IN g \in Objects /\ Fits(g)
<1>1. r.size \in Nat /\ r.align \in Nat
  BY Zenon, KmallocAssumption
<1>2. /\ b \in Frames \X Nat /\ Start(b) \in Nat
      /\ End(b) = Start(b) + BLOCKSIZE(order[b[1]]) /\ BLOCKSIZE(order[b[1]]) \in Nat
  BY Zenon, BlockFacts DEF End
<1>3. Payload(b) = Start(b) + HdrSize /\ Payload(b) \in Nat
  BY <1>2 DEF Payload, Start, HdrSize
<1>4. CASE r.align = 0
  <2>1. UserPtr(b, r) = Payload(b) /\ TotalSize(r) = r.size
    BY Zenon, <1>4 DEF UserPtr, TotalSize
  <2> QED  BY <1>1, <1>2, <1>3, <1>4, <2>1 DEF Objects, Fits, HdrSize
<1>5. CASE r.align # 0
  <2> DEFINE u == UserPtr(b, r)
  <2>1. u = AlignedPtr(Payload(b), r.align) /\ TotalSize(r) = r.size + r.align - 1 + PtrSize
    BY Zenon, <1>5 DEF UserPtr, TotalSize
  <2>2. /\ u \in Nat /\ u >= Payload(b) + PtrSize /\ u <= Payload(b) + PtrSize + r.align - 1
        /\ u % r.align = 0
    BY <1>1, <1>3, <1>5, <2>1, AlignedPtrFits
  <2> HIDE DEF u
  <2>3. u + r.size <= End(b) /\ u >= Payload(b)
    BY <1>1, <1>2, <1>3, <2>1, <2>2 DEF HdrSize, PtrSize
  <2> QED  BY Zenon, <1>1, <1>2, <2>2, <2>3 DEF Objects, Fits, u
<1> QED  BY Zenon, <1>4, <1>5

----------------------------------------------------------------------------
(* Lists *)

\* The empty list.
LEMMA EmptyList ==
  /\ Elems(<<>>) = {} /\ Once(<<>>)
  /\ \A T : \A s \in Seq(T) : Len(s) = 0 <=> s = <<>>
BY DEF Elems, Once

\* Taking the first element of a list.
LEMMA TailFacts ==
  ASSUME NEW T, NEW s \in Seq(T), s # <<>>, Once(s)
  PROVE  /\ Head(s) \in T /\ Head(s) \in Elems(s)
         /\ Tail(s) \in Seq(T) /\ Len(Tail(s)) = Len(s) - 1
         /\ Once(Tail(s)) /\ Elems(Tail(s)) = Elems(s) \ {Head(s)}
<1>1. /\ Head(s) = s[1] /\ Len(s) \in Nat /\ Len(s) >= 1
      /\ Tail(s) \in Seq(T) /\ Len(Tail(s)) = Len(s) - 1
      /\ \A i \in 1..(Len(s) - 1) : Tail(s)[i] = s[i + 1]
  OBVIOUS
<1>2. Head(s) \in T /\ Head(s) \in Elems(s)
  BY <1>1 DEF Elems
<1>3. Once(Tail(s))
  BY <1>1 DEF Once
<1>4. ASSUME NEW x \in Elems(Tail(s))
      PROVE  x \in Elems(s) /\ x # Head(s)
  <2>1. PICK i \in 1..(Len(s) - 1) : x = s[i + 1]
    BY Zenon, <1>1, <1>4 DEF Elems
  <2>2. i + 1 \in 1..Len(s) /\ i + 1 # 1 /\ 1 \in 1..Len(s)
    BY <1>1
  <2> QED  BY Zenon, <1>1, <2>1, <2>2 DEF Elems, Once
<1>5. ASSUME NEW x \in Elems(s), x # Head(s)
      PROVE  x \in Elems(Tail(s))
  <2>1. PICK i \in 1..Len(s) : x = s[i]
    BY Zenon, <1>5 DEF Elems
  <2>2. i - 1 \in 1..(Len(s) - 1) /\ x = Tail(s)[i - 1]
    BY <1>1, <1>5, <2>1
  <2> QED  BY Zenon, <1>1, <2>2 DEF Elems
<1>6. Elems(Tail(s)) = Elems(s) \ {Head(s)}
  BY Zenon, <1>4, <1>5
<1> QED  BY Zenon, <1>1, <1>2, <1>3, <1>6

\* Putting an element before a list that does not have it.
LEMMA ConsFacts ==
  ASSUME NEW T, NEW s \in Seq(T), NEW x \in T, x \notin Elems(s), Once(s)
  PROVE  /\ <<x>> \o s \in Seq(T) /\ Len(<<x>> \o s) = Len(s) + 1 /\ <<x>> \o s # <<>>
         /\ Once(<<x>> \o s) /\ Elems(<<x>> \o s) = Elems(s) \cup {x}
<1> DEFINE t == <<x>> \o s
<1>1. /\ t \in Seq(T) /\ Len(s) \in Nat /\ Len(t) = Len(s) + 1 /\ t[1] = x
      /\ \A i \in 1..Len(s) : t[i + 1] = s[i]
  OBVIOUS
<1> HIDE DEF t
<1>2. \A i \in 1..Len(t) : i = 1 \/ (i - 1 \in 1..Len(s) /\ t[i] = s[i - 1])
  BY <1>1
<1>3. Elems(t) = Elems(s) \cup {x}
  <2>1. ASSUME NEW i \in 1..Len(t)
        PROVE  t[i] \in Elems(s) \cup {x}
    <3>1. CASE i = 1
      BY Zenon, <1>1, <3>1
    <3>2. CASE i - 1 \in 1..Len(s) /\ t[i] = s[i - 1]
      BY Zenon, <3>2 DEF Elems
    <3> QED  BY Zenon, <1>2, <3>1, <3>2
  <2>2. 1 \in 1..Len(t) /\ \A i \in 1..Len(s) : i + 1 \in 1..Len(t)
    BY <1>1
  <2>3. x \in Elems(t)
    BY Zenon, <1>1, <2>2 DEF Elems
  <2>4. \A i \in 1..Len(s) : s[i] \in Elems(t)
    BY Zenon, <1>1, <2>2 DEF Elems
  <2>5. Elems(s) \subseteq Elems(t)
    BY Zenon, <2>4 DEF Elems
  <2>6. Elems(t) \subseteq Elems(s) \cup {x}
    BY Zenon, <2>1 DEF Elems
  <2> QED  BY Zenon, <2>3, <2>5, <2>6
<1>4. Once(t)
  <2>1. \A i \in 1..Len(s) : s[i] # x
    BY Zenon DEF Elems
  <2>2. ASSUME NEW i \in 1..Len(t), NEW j \in 1..Len(t), t[i] = t[j]
        PROVE  i = j
    <3>1. i = 1 <=> j = 1
      BY <1>1, <1>2, <2>1, <2>2, Zenon
    <3>2. CASE i # 1 /\ j # 1
      <4>1. i - 1 \in 1..Len(s) /\ j - 1 \in 1..Len(s) /\ s[i - 1] = s[j - 1]
        BY Zenon, <1>1, <1>2, <2>2, <3>2
      <4>2. i - 1 = j - 1
        BY Zenon, <4>1 DEF Once
      <4> QED  BY <1>1, <4>2
    <3> QED  BY Zenon, <3>1, <3>2
  <2> QED  BY Zenon, <2>2 DEF Once
<1>5. t # <<>>
  BY <1>1
<1> QED  BY Zenon, <1>1, <1>3, <1>4, <1>5 DEF t

----------------------------------------------------------------------------
(* What a step that leaves the state of a part alone leaves true *)

\* The blocks and objects of a step that cuts no page.
LEMMA SameCut ==
  ASSUME order' = order
  PROVE  AllBlocks' = AllBlocks /\ \A h : Fits(h)' = Fits(h)
BY DEF AllBlocks, SlabPages, BlocksOf, Fits, End

\* What is known of every block.
LEMMA BlockPairs ==
  ASSUME Shape
  PROVE  /\ \A a \in AllBlocks : a[1] \in Frames /\ a[2] \in Nat /\ a = <<a[1], a[2]>> /\ order[a[1]] # -1
         /\ NoBlock \notin AllBlocks
<1>1. \A a \in AllBlocks : a \in Frames \X Nat /\ a = <<a[1], a[2]>> /\ order[a[1]] \in Classes
  BY Zenon, BlockFacts DEF Shape
<1>2. -1 \notin Classes /\ -1 \notin Frames
  BY KmallocAssumption DEF Classes
<1> QED  BY Zenon, <1>1, <1>2 DEF NoBlock

\* The callers' facts only speak of the blocks, MEMBLOCK_FREE and what is given.
LEMMA HeldKept ==
  ASSUME HeldOK, AllBlocks' = AllBlocks, freeflag' = freeflag, given' = given
  PROVE  HeldOK'
BY DEF HeldOK

\* The facts that speak of nothing but the pages, the lists and the callers.
Rest == Shape /\ FreshOK /\ HeldOK /\ FreeOK /\ PagesOK /\ DmaOK /\ ObjectsOK

\* No page, list or caller changes.
LEMMA RestUnchanged ==
  ASSUME Rest, UNCHANGED <<free, slabVars, given, freeing>>
  PROVE  Rest'
<1> USE DEF slabVars
<1>1. AllBlocks' = AllBlocks /\ \A h : Fits(h)' = Fits(h)
  BY Zenon, SameCut
<1>2. Shape' /\ FreshOK' /\ PagesOK'
  BY DEF Rest, Shape, FreshOK, PagesOK
<1>3. HeldOK'
  BY Zenon, <1>1, HeldKept DEF Rest
<1>4. FreeOK'
  BY Zenon, <1>1 DEF Rest, FreeOK, Listed
<1>5. DmaOK'
  BY Zenon, <1>1 DEF Rest, DmaOK, Listed
<1>6. ObjectsOK'
  BY Zenon, <1>1 DEF Rest, ObjectsOK
<1> QED  BY Zenon, <1>2, <1>3, <1>4, <1>5, <1>6 DEF Rest

\* The page allocator has no page of the zone.
LEMMA NoPageLeftStep ==
  ASSUME SlabInv, NoPageLeft
  PROVE  SlabInv'
<1>1. Rest'
  BY RestUnchanged, Zenon DEF SlabInv, Rest, NoPageLeft
<1>2. CallOK'
  BY Zenon DEF SlabInv, CallOK, NoPageLeft, slabVars
<1>3. NoFalsePanic'
  BY Zenon DEF NoFalsePanic, NoPageLeft
<1> QED  BY Zenon, <1>1, <1>2, <1>3 DEF SlabInv, Rest

\* A stuttering step.
LEMMA StutterStep ==
  ASSUME SlabInv, UNCHANGED vars
  PROVE  SlabInv'
<1>1. Rest'
  BY Zenon, RestUnchanged DEF SlabInv, Rest, vars
<1>2. CallOK'
  BY Zenon DEF SlabInv, CallOK, vars, slabVars
<1>3. NoFalsePanic'
  BY Zenon DEF SlabInv, NoFalsePanic, vars
<1> QED  BY Zenon, <1>1, <1>2, <1>3 DEF SlabInv, Rest

----------------------------------------------------------------------------
(* What a step does to the lists of one page and one class *)

\* The list of page f becomes E, with the page's counter.
BlocksChange(f, E) ==
  /\ blocks' \in [Frames -> Seq(Nat)] /\ nfree' \in [Frames -> Nat]
  /\ Once(blocks'[f]) /\ Elems(blocks'[f]) = E /\ nfree'[f] = Len(blocks'[f])
  /\ \A e \in Frames : e # f => blocks'[e] = blocks[e] /\ nfree'[e] = nfree[e]

\* The list of pages of the class becomes P.
PagesChange(z, c, P) ==
  /\ firstfree' \in [Zones -> [Classes -> Seq(Frames)]]
  /\ Once(firstfree'[z][c]) /\ Elems(firstfree'[z][c]) = P
  /\ \A y \in Zones, d \in Classes : ~(y = z /\ d = c) => firstfree'[y][d] = firstfree[y][d]

\* The page belongs to the class, since this step or before.
OfClass(f, z, c) ==
  /\ f \in Frames /\ z \in Zones /\ c \in Classes /\ FrameZone[f] = z
  /\ order' \in [Frames -> Classes \cup {-1}] /\ order'[f] = c
  /\ \A e \in Frames : e # f => order'[e] = order[e]
  /\ order[f] = c \/ (order[f] = -1 /\ blocks[f] = <<>>)

\* Where a list has no elements it is empty.
LEMMA NoElems ==
  ASSUME NEW T, NEW s \in Seq(T)
  PROVE  s = <<>> <=> Elems(s) = {}
<1>1. Len(s) \in Nat
  OBVIOUS
<1>2. Len(s) = 0 <=> s = <<>>
  BY Zenon, EmptyList
<1>3. Len(s) # 0 => s[1] \in Elems(s)
  BY <1>1 DEF Elems
<1>4. Elems(<<>>) = {}
  BY Zenon, EmptyList
<1> QED  BY Zenon, <1>2, <1>3, <1>4

\* The blocks on the page's list after the step.
LEMMA ListedAfter ==
  ASSUME NEW f \in Frames, NEW E, BlocksChange(f, E), NEW a, a[1] \in Frames
  PROVE  /\ a[1] # f => (a[2] \in Elems(blocks'[a[1]]) <=> Listed(a))
         /\ a[1] = f => (a[2] \in Elems(blocks'[a[1]]) <=> a[2] \in E)
BY Zenon DEF BlocksChange, Listed

\* The pages on the lists stay the pages with free blocks.
LEMMA PagesStep ==
  ASSUME Shape, PagesOK, NEW f, NEW z, NEW c, OfClass(f, z, c), NEW E, BlocksChange(f, E),
         NEW P, PagesChange(z, c, P),
         P = IF E = {} THEN Elems(firstfree[z][c]) \ {f} ELSE Elems(firstfree[z][c]) \cup {f}
  PROVE  PagesOK'
<1>1. /\ f \in Frames /\ z \in Zones /\ c \in Classes /\ FrameZone[f] = z /\ order'[f] = c
      /\ \A e \in Frames : e # f => order'[e] = order[e]
      /\ order[f] = c \/ order[f] = -1
  BY Zenon DEF OfClass
<1>2. /\ \A e \in Frames : e # f => blocks'[e] = blocks[e]
      /\ Elems(blocks'[f]) = E /\ blocks'[f] \in Seq(Nat)
  BY Zenon, <1>1 DEF BlocksChange
<1>3. blocks'[f] # <<>> <=> E # {}
  BY Zenon, <1>2, NoElems
<1>4. \A e \in Frames : nfree'[e] = Len(blocks'[e])
  BY Zenon DEF BlocksChange, PagesOK
<1>5. ASSUME NEW y \in Zones, NEW d \in Classes
      PROVE  /\ Once(firstfree'[y][d])
             /\ \A e \in Frames : e \in Elems(firstfree'[y][d]) <=>
                  order'[e] = d /\ FrameZone[e] = y /\ blocks'[e] # <<>>
  <2>1. /\ Once(firstfree[y][d])
        /\ \A e \in Frames : e \in Elems(firstfree[y][d]) <=>
             order[e] = d /\ FrameZone[e] = y /\ blocks[e] # <<>>
    BY DEF PagesOK
  <2>2. CASE y = z /\ d = c
    <3>1. Once(firstfree'[y][d]) /\ Elems(firstfree'[y][d]) = P
      BY Zenon, <2>2 DEF PagesChange
    <3>2. f \in P <=> E # {}
      OBVIOUS
    <3>3. \A e \in Frames : e # f => (e \in P <=> e \in Elems(firstfree[y][d]))
      BY Zenon, <2>2
    <3> QED  BY <1>1, <1>2, <1>3, <2>1, <2>2, <3>1, <3>2, <3>3
  <2>3. CASE ~(y = z /\ d = c)
    <3>1. firstfree'[y][d] = firstfree[y][d]
      BY Zenon, <2>3 DEF PagesChange
    <3>2. d # -1
      BY KmallocAssumption DEF Classes
    <3> QED  BY Zenon, <1>1, <1>2, <2>1, <2>3, <3>1, <3>2
  <2> QED  BY Zenon, <2>2, <2>3
<1> QED  BY Zenon, <1>4, <1>5 DEF PagesOK

----------------------------------------------------------------------------
(* The steps of kfree *)

\* The page's own facts about a block that is not on a list: where kfree links it.
LEMMA OffListZone ==
  ASSUME SlabInv, NEW b \in AllBlocks, ~Listed(b)
  PROVE  ZoneOfBlock(b) = FrameZone[b[1]] /\ ZoneOfBlock(b) \in Zones
<1>1. b[1] \in Frames
  BY Zenon, BlockFacts DEF SlabInv, Shape
<1>2. FrameZone[b[1]] \in {"NORMAL", "DMA16"}
  BY <1>1, KmallocAssumption, Zenon DEF Zones
<1>3. b \in dmaflag <=> FrameZone[b[1]] = "DMA16"
  BY Zenon DEF SlabInv, DmaOK
<1> QED  BY Zenon, <1>2, <1>3 DEF ZoneOfBlock, Zones

\* kfree up to the lock: the block goes from its caller to the kfree.
LEMMA kfreeStep ==
  ASSUME SlabInv, NEW p \in Procs, NEW g \in given[p], kfree(p, g)
  PROVE  SlabInv'
<1>1. g.blk \in AllBlocks /\ g.blk \notin freeflag
  BY Zenon DEF SlabInv, HeldOK
<1>2. /\ freeing[p] = NoBlock
      /\ freeflag' = freeflag \cup {g.blk}
      /\ given' = [given EXCEPT ![p] = @ \ {g}]
      /\ freeing' = [freeing EXCEPT ![p] = g.blk]
      /\ panic' = panic
      /\ UNCHANGED <<free, firstfree, order, blocks, nfree, classfree, dmaflag, slablock>>
  BY <1>1, Zenon DEF kfree
<1>3. AllBlocks' = AllBlocks /\ \A b : Listed(b)' = Listed(b)
  BY <1>2 DEF AllBlocks, SlabPages, BlocksOf, Listed
<1>4. given \in [Procs -> SUBSET Objects] /\ freeing \in [Procs -> (Frames \X Nat) \cup {NoBlock}]
  BY Zenon DEF SlabInv, Shape
<1>5. /\ given'[p] = given[p] \ {g} /\ \A q \in Procs : q # p => given'[q] = given[q]
      /\ freeing'[p] = g.blk /\ \A q \in Procs : q # p => freeing'[q] = freeing[q]
  BY Zenon, <1>2, <1>4
<1>6. g.blk \in Frames \X Nat /\ g.blk = <<g.blk[1], g.blk[2]>>
  BY Zenon, <1>1, BlockFacts DEF SlabInv, Shape
<1>7. g.blk # NoBlock
  BY <1>6, KmallocAssumption DEF NoBlock
<1>8. Shape'
  <2>1. given' \in [Procs -> SUBSET Objects]
    BY Zenon, <1>2, <1>4
  <2>2. freeing' \in [Procs -> (Frames \X Nat) \cup {NoBlock}]
    BY Zenon, <1>2, <1>4, <1>6
  <2> QED  BY Zenon, <1>2, <2>1, <2>2 DEF SlabInv, Shape
<1>9. HeldOK'
  <2>1. freeflag' \subseteq AllBlocks'
    BY Zenon, <1>1, <1>2, <1>3 DEF SlabInv, HeldOK
  <2>2. \A q, s \in Procs : \A h \in given'[q], k \in given'[s] : h.blk = k.blk => q = s /\ h = k
    BY <1>5 DEF SlabInv, HeldOK
  <2>3. \A q \in Procs : \A h \in given'[q] : h.blk \in AllBlocks /\ h.blk \notin freeflag'
    <3>1. \A q \in Procs : \A h \in given'[q] : h \in given[q] /\ ~(q = p /\ h = g)
      BY Zenon, <1>5
    <3>2. \A q \in Procs : \A h \in given'[q] : h.blk # g.blk
      BY <3>1 DEF SlabInv, HeldOK
    <3> QED  BY Zenon, <1>2, <3>1, <3>2 DEF SlabInv, HeldOK
  <2>4. \A b \in AllBlocks : b \notin freeflag' => \E q \in Procs : \E h \in given'[q] : h.blk = b
    <3>1. \A q \in Procs : \A h \in given[q] : h.blk # g.blk => h \in given'[q]
      BY Zenon, <1>5
    <3>2. \A b \in AllBlocks : b \notin freeflag' => b # g.blk /\ b \notin freeflag
      BY Zenon, <1>2
    <3> QED  BY Zenon, <3>1, <3>2 DEF SlabInv, HeldOK
  <2> QED  BY Zenon, <1>3, <2>1, <2>2, <2>3, <2>4 DEF HeldOK
<1>10. FreeOK'
  <2>1. ~Listed(g.blk)
    BY <1>1, <1>6 DEF SlabInv, FreeOK, Listed
  <2>2. \A q \in Procs : freeing[q] # g.blk
    BY Zenon, <1>1, <1>7 DEF SlabInv, FreeOK
  <2>3. \A f \in Frames : Once(blocks'[f]) /\ \A o \in Elems(blocks'[f]) : <<f, o>> \in freeflag'
    BY Zenon, <1>2 DEF SlabInv, FreeOK
  <2>4. \A q \in Procs : freeing'[q] # NoBlock => freeing'[q] \in freeflag' /\ ~Listed(freeing'[q])
    BY <1>2, <1>5, <2>1 DEF SlabInv, FreeOK
  <2>5. \A q, s \in Procs : freeing'[q] # NoBlock /\ freeing'[q] = freeing'[s] => q = s
    BY <1>5, <2>2 DEF SlabInv, FreeOK
  <2>6. \A b \in freeflag' : Listed(b) \/ \E q \in Procs : freeing'[q] = b
    <3>1. \A b \in freeflag : Listed(b) \/ \E q \in Procs : freeing[q] = b
      BY Zenon DEF SlabInv, FreeOK
    <3>2. \A b \in freeflag : b # NoBlock
      BY BlockFacts, KmallocAssumption DEF SlabInv, Shape, HeldOK, NoBlock
    <3>3. \A b, q : b \in freeflag /\ q \in Procs /\ freeing[q] = b => freeing'[q] = b
      BY Zenon, <1>2, <1>5, <3>2
    <3> QED  BY Zenon, <1>2, <1>5, <3>1, <3>3
  <2>7. \A q : Listed(freeing[q])' = Listed(freeing'[q])
    BY Zenon, <1>2 DEF Listed
  <2> QED  BY Zenon, <1>3, <2>3, <2>4, <2>5, <2>6, <2>7 DEF FreeOK
<1>11. FreshOK' /\ PagesOK'
  BY <1>2 DEF SlabInv, FreshOK, PagesOK
<1>12. DmaOK'
  BY Zenon, <1>2, <1>3 DEF SlabInv, DmaOK
<1>13. ObjectsOK'
  <2>1. \A h : Fits(h)' = Fits(h)
    BY Zenon, <1>2 DEF Fits, End
  <2> QED  BY Zenon, <1>5, <2>1 DEF SlabInv, ObjectsOK
<1>14. CallOK'
  BY Zenon, <1>2 DEF SlabInv, CallOK
<1>15. NoFalsePanic'
  BY <1>2, Zenon DEF SlabInv, NoFalsePanic
<1> QED  BY Zenon, <1>8, <1>9, <1>10, <1>11, <1>12, <1>13, <1>14, <1>15 DEF SlabInv

\* What is known when kfree has the lock: the block is off the lists, and the
\* class list of its page is the one kfree finds.
LEMMA LinkFreedFacts ==
  ASSUME SlabInv, NEW p \in Procs, LinkFreed(p)
  PROVE  LET b == freeing[p]  f == freeing[p][1]  z == FrameZone[freeing[p][1]]  c == order[freeing[p][1]]
         IN /\ b \in freeflag /\ b \in AllBlocks /\ ~Listed(b) /\ b = <<f, b[2]>>
            /\ f \in Frames /\ b[2] \in Nat /\ z \in Zones /\ c \in Classes
            /\ slablock = NoCall /\ b # NoBlock
            /\ blocks' = [blocks EXCEPT ![f] = <<b[2]>> \o @]
            /\ nfree' = [nfree EXCEPT ![f] = @ + 1]
            /\ firstfree' = [firstfree EXCEPT ![z][c] = PagesAfterFree(@, f, nfree[f] + 1)]
            /\ classfree' = [classfree EXCEPT ![z][c] = @ + 1]
            /\ freeing' = [freeing EXCEPT ![p] = NoBlock]
            /\ UNCHANGED <<free, order, freeflag, dmaflag, slablock, given, panic>>
<1> DEFINE b == freeing[p]
<1>1. b # NoBlock /\ slablock = NoCall
  BY Zenon DEF LinkFreed
<1>2. b \in freeflag /\ b \in AllBlocks /\ ~Listed(b)
  BY Zenon, <1>1 DEF SlabInv, FreeOK, HeldOK
<1>3. b \in Frames \X Nat /\ b = <<b[1], b[2]>> /\ order[b[1]] \in Classes
  BY Zenon, <1>2, BlockFacts DEF SlabInv, Shape
<1>4. ZoneOfBlock(b) = FrameZone[b[1]] /\ FrameZone[b[1]] \in Zones
  BY Zenon, <1>2, OffListZone
<1>5. b[1] \in Frames /\ b[2] \in Nat
  BY Zenon, <1>3
<1>6. /\ blocks' = [blocks EXCEPT ![b[1]] = <<b[2]>> \o @]
      /\ nfree' = [nfree EXCEPT ![b[1]] = @ + 1]
      /\ firstfree' = [firstfree EXCEPT ![ZoneOfBlock(b)][order[b[1]]] =
                         PagesAfterFree(@, b[1], nfree[b[1]] + 1)]
      /\ classfree' = [classfree EXCEPT ![ZoneOfBlock(b)][order[b[1]]] = @ + 1]
      /\ freeing' = [freeing EXCEPT ![p] = NoBlock]
      /\ UNCHANGED <<free, order, freeflag, dmaflag, slablock, given, panic>>
  BY Zenon DEF LinkFreed
<1> HIDE DEF b
<1>7. /\ firstfree' = [firstfree EXCEPT ![FrameZone[b[1]]][order[b[1]]] =
                         PagesAfterFree(@, b[1], nfree[b[1]] + 1)]
      /\ classfree' = [classfree EXCEPT ![FrameZone[b[1]]][order[b[1]]] = @ + 1]
  BY Zenon, <1>4, <1>6
<1> QED  BY <1>1, <1>2, <1>3, <1>4, <1>5, <1>6, <1>7, Zenon DEF b

\* The step of LinkFreed: b, the block that p frees, joins the list of page f
\* and f the list of class c of zone z.
Linking(p, b, f, z, c) ==
  /\ b \in freeflag /\ ~Listed(b) /\ b = <<f, b[2]>> /\ b[2] \in Nat
  /\ freeing[p] = b /\ b # NoBlock /\ freeing' = [freeing EXCEPT ![p] = NoBlock]
  /\ OfClass(f, z, c) /\ order[f] = c
  /\ BlocksChange(f, Elems(blocks[f]) \cup {b[2]})
  /\ PagesChange(z, c, Elems(firstfree[z][c]) \cup {f})
  /\ classfree' = [classfree EXCEPT ![z][c] = @ + 1]
  /\ slablock = NoCall /\ UNCHANGED <<free, order, freeflag, dmaflag, slablock, given, panic>>

\* page->next and the counter of the page show whether it is on the list.
LEMMA PagesAfterFreeFacts ==
  ASSUME NEW l \in Seq(Frames), Once(l), NEW f \in Frames, NEW n \in Nat, f \in Elems(l) <=> n # 0
  PROVE  LET m == PagesAfterFree(l, f, n + 1)
         IN m \in Seq(Frames) /\ Once(m) /\ Elems(m) = Elems(l) \cup {f}
<1>1. CASE n = 0
  <2>1. Len(l) \in Nat /\ \A i \in 1..Len(l) : l[i] # f
    BY <1>1 DEF Elems
  <2>2. ~HasNext(l, f)
    <3>1. \A i \in 1..(Len(l) - 1) : i \in 1..Len(l)
      BY <2>1
    <3> QED  BY Zenon, <2>1, <3>1 DEF HasNext
  <2>3. PagesAfterFree(l, f, n + 1) = <<f>> \o l
    BY <1>1, <2>2 DEF PagesAfterFree
  <2>4. f \notin Elems(l)
    BY Zenon, <1>1
  <2>5. <<f>> \o l \in Seq(Frames) /\ Once(<<f>> \o l) /\ Elems(<<f>> \o l) = Elems(l) \cup {f}
    BY <2>4, ConsFacts
  <2> QED  BY <2>3, <2>5, Zenon
<1>2. CASE n # 0
  <2>1. PagesAfterFree(l, f, n + 1) = l
    BY <1>2 DEF PagesAfterFree
  <2> QED  BY Zenon, <1>2, <2>1
<1> QED  BY Zenon, <1>1, <1>2

\* The step of kfree that links a block, with its block, page and list named.
LEMMA LinkFreedLinks ==
  ASSUME SlabInv, NEW p \in Procs, LinkFreed(p)
  PROVE  \E b, f, z, c : Linking(p, b, f, z, c)
<1>1. PICK b : b = freeing[p]
  OBVIOUS
<1>2. PICK f : f = b[1]
  OBVIOUS
<1>3. PICK z : z = FrameZone[f]
  OBVIOUS
<1>4. PICK c : c = order[f]
  OBVIOUS
<1>5. /\ b \in freeflag /\ b \in AllBlocks /\ ~Listed(b) /\ b = <<f, b[2]>>
      /\ f \in Frames /\ b[2] \in Nat /\ z \in Zones /\ c \in Classes
      /\ slablock = NoCall /\ b # NoBlock
      /\ UNCHANGED <<free, order, freeflag, dmaflag, slablock, given, panic>>
  BY LinkFreedFacts, <1>1, <1>2, <1>3, <1>4, Zenon
<1>6. /\ blocks' = [blocks EXCEPT ![f] = <<b[2]>> \o @]
      /\ nfree' = [nfree EXCEPT ![f] = @ + 1]
      /\ firstfree' = [firstfree EXCEPT ![z][c] = PagesAfterFree(@, f, nfree[f] + 1)]
      /\ classfree' = [classfree EXCEPT ![z][c] = @ + 1]
      /\ freeing' = [freeing EXCEPT ![p] = NoBlock]
  BY LinkFreedFacts, <1>1, <1>2, <1>3, <1>4, Zenon
<1>7. /\ blocks \in [Frames -> Seq(Nat)] /\ nfree \in [Frames -> Nat]
      /\ firstfree \in [Zones -> [Classes -> Seq(Frames)]]
      /\ order \in [Frames -> Classes \cup {-1}]
  BY Zenon DEF SlabInv, Shape
<1>8. f \in Frames /\ z \in Zones /\ c \in Classes /\ b[2] \in Nat /\ b[2] \notin Elems(blocks[f])
  BY Zenon, <1>2, <1>5 DEF Listed
<1>9. BlocksChange(f, Elems(blocks[f]) \cup {b[2]})
  <2>1. blocks[f] \in Seq(Nat) /\ Once(blocks[f]) /\ nfree[f] = Len(blocks[f]) /\ Len(blocks[f]) \in Nat
    BY <1>7, <1>8 DEF SlabInv, FreeOK, PagesOK
  <2> DEFINE t == <<b[2]>> \o blocks[f]
  <2>2. t \in Seq(Nat) /\ Len(t) = Len(blocks[f]) + 1 /\ Once(t) /\ Elems(t) = Elems(blocks[f]) \cup {b[2]}
    BY <1>8, <2>1, ConsFacts
  <2>3. blocks' = [blocks EXCEPT ![f] = t] /\ nfree' = [nfree EXCEPT ![f] = Len(t)]
    BY <1>6, <1>7, <1>8, <2>1, <2>2, Zenon
  <2> HIDE DEF t
  <2>4. Len(t) \in Nat
    BY <2>2
  <2> QED  BY Zenon, <1>7, <1>8, <2>2, <2>3, <2>4 DEF BlocksChange
<1>10. PagesChange(z, c, Elems(firstfree[z][c]) \cup {f})
  <2> DEFINE l == firstfree[z][c]
             m == PagesAfterFree(l, f, nfree[f] + 1)
  <2>1. l \in Seq(Frames) /\ Once(l) /\ nfree[f] \in Nat
    BY <1>7, <1>8 DEF SlabInv, PagesOK
  <2>2. f \in Elems(l) <=> nfree[f] # 0
    <3>1. f \in Elems(l) <=> blocks[f] # <<>>
      BY <1>3, <1>4, <1>8 DEF SlabInv, PagesOK
    <3>2. nfree[f] = Len(blocks[f]) /\ blocks[f] \in Seq(Nat)
      BY Zenon, <1>7, <1>8 DEF SlabInv, PagesOK
    <3>3. Len(blocks[f]) = 0 <=> blocks[f] = <<>>
      BY Zenon, <3>2, EmptyList
    <3> QED  BY Zenon, <3>1, <3>2, <3>3
  <2>3. m \in Seq(Frames) /\ Once(m) /\ Elems(m) = Elems(l) \cup {f}
    <3> HIDE DEF l
    <3> QED  BY Zenon, <1>8, <2>1, <2>2, PagesAfterFreeFacts
  <2>4. firstfree' = [firstfree EXCEPT ![z][c] = m]
    BY Zenon, <1>6, <1>7, <1>8
  <2> HIDE DEF m
  <2> QED  BY Zenon, <1>7, <1>8, <2>3, <2>4 DEF PagesChange
<1>11. order' = order
  BY Zenon, <1>5
<1>12. OfClass(f, z, c) /\ order[f] = c
  BY Zenon, <1>3, <1>4, <1>7, <1>8, <1>11 DEF OfClass
<1> QED  BY <1>1, <1>5, <1>6, <1>9, <1>10, <1>12, Zenon DEF Linking

\* Under the lock, the block is on the list instead of in the kfree.
LEMMA LinkingFree ==
  ASSUME SlabInv, NEW p \in Procs, NEW b, NEW f, NEW z, NEW c, Linking(p, b, f, z, c)
  PROVE  FreeOK' /\ DmaOK'
<1>1. /\ b \in freeflag /\ ~Listed(b) /\ b = <<f, b[2]>> /\ freeing[p] = b /\ b # NoBlock /\ f \in Frames
      /\ order' = order /\ freeflag' = freeflag /\ dmaflag' = dmaflag
  BY Zenon DEF Linking, OfClass
<1>2. BlocksChange(f, Elems(blocks[f]) \cup {b[2]})
  BY Zenon DEF Linking
<1>3. freeing'[p] = NoBlock /\ \A q \in Procs : q # p => freeing'[q] = freeing[q]
  BY Zenon DEF Linking, SlabInv, Shape
<1>4. AllBlocks' = AllBlocks
  BY Zenon, <1>1, SameCut
<1>5. \A a \in AllBlocks : a[1] \in Frames /\ a = <<a[1], a[2]>>
  BY Zenon, BlockPairs DEF SlabInv
<1>6. \A a \in AllBlocks : a[2] \in Elems(blocks'[a[1]]) <=> Listed(a) \/ a = b
  <2>1. \A a \in AllBlocks : a[1] # f => (a[2] \in Elems(blocks'[a[1]]) <=> Listed(a))
    BY Zenon, <1>1, <1>2, <1>5, ListedAfter
  <2>2. \A a \in AllBlocks : a[1] = f => (a[2] \in Elems(blocks'[a[1]]) <=> a[2] \in Elems(blocks[f]) \cup {b[2]})
    BY <1>1, <1>2, <1>5, ListedAfter
  <2> QED  BY <1>1, <1>5, <2>1, <2>2 DEF Listed
<1>7. ASSUME NEW e \in Frames
      PROVE  Once(blocks'[e]) /\ \A o \in Elems(blocks'[e]) : <<e, o>> \in freeflag
  <2>1. Once(blocks[e]) /\ \A o \in Elems(blocks[e]) : <<e, o>> \in freeflag
    BY Zenon DEF SlabInv, FreeOK
  <2>2. Once(blocks'[f]) /\ Elems(blocks'[f]) = Elems(blocks[f]) \cup {b[2]} /\ (e # f => blocks'[e] = blocks[e])
    BY Zenon, <1>2 DEF BlocksChange
  <2> QED  BY Zenon, <1>1, <2>1, <2>2
<1>8. \A q \in Procs : freeing'[q] # NoBlock =>
        q # p /\ freeing'[q] = freeing[q] /\ freeing[q] # b /\ freeing[q] \in freeflag /\ ~Listed(freeing[q])
  BY Zenon, <1>1, <1>3 DEF SlabInv, FreeOK
<1>9. freeflag \subseteq AllBlocks
  BY Zenon DEF SlabInv, HeldOK
<1>10. FreeOK'
  <2>1. \A q \in Procs : freeing'[q] # NoBlock =>
          freeing'[q] \in freeflag /\ freeing'[q][2] \notin Elems(blocks'[freeing'[q][1]])
    BY Zenon, <1>6, <1>8, <1>9
  <2>2. \A q, t \in Procs : freeing'[q] # NoBlock /\ freeing'[q] = freeing'[t] => q = t
    BY <1>8 DEF SlabInv, FreeOK
  <2>3. \A a \in freeflag : a[2] \in Elems(blocks'[a[1]]) \/ \E q \in Procs : freeing'[q] = a
    <3>1. \A a \in freeflag : a \in AllBlocks /\ (Listed(a) \/ \E q \in Procs : freeing[q] = a)
      BY Zenon, <1>9 DEF SlabInv, FreeOK
    <3> QED  BY <1>1, <1>3, <1>6, <3>1
  <2> QED  BY Zenon, <1>1, <1>7, <2>1, <2>2, <2>3 DEF FreeOK, Listed
<1>11. DmaOK'
  BY Zenon, <1>1, <1>4, <1>6 DEF SlabInv, DmaOK, Listed
<1> QED  BY Zenon, <1>10, <1>11

\* The end of kfree: the block goes from the kfree to the list of its page.
LEMMA LinkFreedStep ==
  ASSUME SlabInv, NEW p \in Procs, LinkFreed(p)
  PROVE  SlabInv'
<1>1. PICK b, f, z, c : Linking(p, b, f, z, c)
  BY Zenon, LinkFreedLinks
<1>2. /\ b \in freeflag /\ ~Listed(b) /\ b = <<f, b[2]>>
      /\ slablock = NoCall /\ UNCHANGED <<free, order, freeflag, dmaflag, slablock, given, panic>>
  BY Zenon, <1>1 DEF Linking
<1>3. /\ OfClass(f, z, c) /\ order[f] = c
      /\ BlocksChange(f, Elems(blocks[f]) \cup {b[2]})
      /\ PagesChange(z, c, Elems(firstfree[z][c]) \cup {f})
  BY Zenon, <1>1 DEF Linking
<1>4. AllBlocks' = AllBlocks /\ \A h : Fits(h)' = Fits(h)
  BY Zenon, <1>2, SameCut
<1>5. Shape'
  <2>1. freeing' \in [Procs -> (Frames \X Nat) \cup {NoBlock}]
    BY Zenon, <1>1 DEF Linking, SlabInv, Shape
  <2> QED  BY Zenon, <1>2, <1>3, <2>1 DEF SlabInv, Shape, BlocksChange, PagesChange
<1>6. FreshOK'
  <2>1. order[f] # -1 /\ \A e \in Frames : e # f => blocks'[e] = blocks[e]
    BY <1>3, KmallocAssumption DEF OfClass, Classes, BlocksChange
  <2> QED  BY Zenon, <1>2, <2>1 DEF SlabInv, FreshOK
<1>7. HeldOK'
  BY Zenon, <1>2, <1>4, HeldKept DEF SlabInv
<1>8. FreeOK' /\ DmaOK'
  BY Zenon, <1>1, LinkingFree
<1>9. PagesOK'
  <2>1. Elems(blocks[f]) \cup {b[2]} # {}
    OBVIOUS
  <2>2. Shape /\ PagesOK
    BY Zenon DEF SlabInv
  <2> QED  BY Zenon, <1>3, <2>1, <2>2, PagesStep
<1>10. ObjectsOK'
  BY Zenon, <1>2, <1>4 DEF SlabInv, ObjectsOK
<1>11. CallOK'
  BY Zenon, <1>2 DEF CallOK
<1>12. NoFalsePanic'
  BY <1>2, Zenon DEF SlabInv, NoFalsePanic
<1> QED  BY Zenon, <1>5, <1>6, <1>7, <1>8, <1>9, <1>10, <1>11, <1>12 DEF SlabInv

----------------------------------------------------------------------------
(* The steps of kmalloc under the lock *)

\* What is known when kmalloc finds a page: the first block of the list is
\* free, as kmalloc's own check expects.
LEMMA TakeBlockFacts ==
  ASSUME SlabInv, TakeBlock
  PROVE  LET z == slablock.zone  c == slablock.class  r == slablock.request  p == slablock.proc
             f == Head(firstfree[z][c])  b == <<f, Head(blocks[f])>>
         IN /\ slablock \in Calls /\ TotalSize(r) + HdrSize <= BLOCKSIZE(c)
            /\ f \in Frames /\ order[f] = c /\ FrameZone[f] = z
            /\ firstfree[z][c] # <<>> /\ blocks[f] # <<>>
            /\ b \in freeflag /\ b \in AllBlocks /\ Listed(b)
            /\ blocks' = [blocks EXCEPT ![f] = Tail(@)]
            /\ nfree' = [nfree EXCEPT ![f] = @ - 1]
            /\ firstfree' = [firstfree EXCEPT ![z][c] = PagesAfterTake(@, nfree[f] - 1)]
            /\ classfree' = [classfree EXCEPT ![z][c] = @ - 1]
            /\ freeflag' = freeflag \ {b}
            /\ dmaflag' = IF z = "DMA16" THEN dmaflag \cup {b} ELSE dmaflag
            /\ given' = [given EXCEPT ![p] =
                           @ \cup {[blk |-> b, ptr |-> UserPtr(b, r), size |-> r.size, align |-> r.align]}]
            /\ slablock' = NoCall
            /\ UNCHANGED <<free, order, freeing, panic>>
<1> DEFINE z == slablock.zone
           c == slablock.class
           l == firstfree[z][c]
           f == Head(l)
           b == <<f, Head(blocks[f])>>
<1>1. slablock # NoCall /\ l # <<>>
  BY Zenon DEF TakeBlock, InLoop
<1>2. slablock \in Calls /\ TotalSize(slablock.request) + HdrSize <= BLOCKSIZE(c)
  BY Zenon, <1>1 DEF SlabInv, CallOK
<1>3. z \in Zones /\ c \in Classes
  BY Zenon, <1>2 DEF Calls
<1>4. l \in Seq(Frames) /\ Once(l)
  BY <1>3 DEF SlabInv, Shape, PagesOK
<1>5. f \in Frames /\ f \in Elems(l)
  BY Zenon, <1>1, <1>4, TailFacts
<1>6. order[f] = c /\ FrameZone[f] = z /\ blocks[f] # <<>>
  BY <1>3, <1>5 DEF SlabInv, PagesOK
<1>7. blocks[f] \in Seq(Nat) /\ Once(blocks[f])
  BY Zenon, <1>5 DEF SlabInv, Shape, FreeOK
<1>8. Head(blocks[f]) \in Elems(blocks[f])
  BY <1>6, <1>7, TailFacts
<1>9. b \in freeflag
  BY Zenon, <1>5, <1>8 DEF SlabInv, FreeOK
<1>10. b \in AllBlocks /\ Listed(b)
  BY Zenon, <1>8, <1>9 DEF SlabInv, HeldOK, Listed
<1>11. ~(b \notin freeflag)
  BY Zenon, <1>9
<1> HIDE DEF l, b
<1>12. /\ blocks' = [blocks EXCEPT ![f] = Tail(@)]
       /\ nfree' = [nfree EXCEPT ![f] = @ - 1]
       /\ firstfree' = [firstfree EXCEPT ![z][c] = PagesAfterTake(@, nfree[f] - 1)]
       /\ classfree' = [classfree EXCEPT ![z][c] = @ - 1]
       /\ freeflag' = freeflag \ {b}
       /\ dmaflag' = IF z = "DMA16" THEN dmaflag \cup {b} ELSE dmaflag
       /\ given' = [given EXCEPT ![slablock.proc] =
                      @ \cup {[blk |-> b, ptr |-> UserPtr(b, slablock.request),
                             size |-> slablock.request.size, align |-> slablock.request.align]}]
       /\ slablock' = NoCall
       /\ UNCHANGED <<free, order, freeing, panic>>
  BY <1>11, Zenon DEF TakeBlock, BlocksAfterTake, l, b
<1> QED  BY <1>1, <1>2, <1>5, <1>6, <1>9, <1>10, <1>12, Zenon DEF l, b

\* The step of TakeBlock: b, the first block of page f, goes to p as object g.
Taking(p, b, f, z, c, g) ==
  /\ p \in Procs /\ b \in freeflag /\ b \in AllBlocks /\ Listed(b) /\ b[1] = f
  /\ g \in Objects /\ Fits(g) /\ g.blk = b
  /\ OfClass(f, z, c) /\ order[f] = c
  /\ BlocksChange(f, Elems(blocks[f]) \ {b[2]})
  /\ PagesChange(z, c, IF Elems(blocks[f]) \ {b[2]} = {} THEN Elems(firstfree[z][c]) \ {f}
                       ELSE Elems(firstfree[z][c]) \cup {f})
  /\ classfree' = [classfree EXCEPT ![z][c] = @ - 1]
  /\ freeflag' = freeflag \ {b}
  /\ dmaflag' = IF z = "DMA16" THEN dmaflag \cup {b} ELSE dmaflag
  /\ given' = [given EXCEPT ![p] = @ \cup {g}]
  /\ slablock' = NoCall /\ UNCHANGED <<free, order, freeing, panic>>

\* The counter of the page shows whether its last block goes.
LEMMA PagesAfterTakeFacts ==
  ASSUME NEW l \in Seq(Frames), Once(l), l # <<>>, NEW t \in Seq(Nat)
  PROVE  LET m == PagesAfterTake(l, Len(t))
         IN /\ m \in Seq(Frames) /\ Once(m)
            /\ Elems(m) = IF Elems(t) = {} THEN Elems(l) \ {Head(l)} ELSE Elems(l) \cup {Head(l)}
<1>1. /\ Head(l) \in Elems(l) /\ Tail(l) \in Seq(Frames) /\ Once(Tail(l))
      /\ Elems(Tail(l)) = Elems(l) \ {Head(l)}
  BY Zenon, TailFacts
<1>2. Len(t) = 0 <=> Elems(t) = {}
  BY Zenon, EmptyList, NoElems
<1> QED  BY <1>1, <1>2, Zenon DEF PagesAfterTake

\* TakeBlock takes the first block of the first page, and makes an object of it.
LEMMA TakeBlockTakes ==
  ASSUME SlabInv, TakeBlock
  PROVE  \E p, b, f, z, c, g : Taking(p, b, f, z, c, g)
<1>1. PICK z : z = slablock.zone
  OBVIOUS
<1>2. PICK c : c = slablock.class
  OBVIOUS
<1>3. PICK r : r = slablock.request
  OBVIOUS
<1>4. PICK p : p = slablock.proc
  OBVIOUS
<1>5. PICK f : f = Head(firstfree[z][c])
  OBVIOUS
<1>6. PICK b : b = <<f, Head(blocks[f])>>
  BY Zenon
<1>7. PICK g : g = [blk |-> b, ptr |-> UserPtr(b, r), size |-> r.size, align |-> r.align]
  BY Zenon
<1>8. /\ slablock \in Calls /\ TotalSize(r) + HdrSize <= BLOCKSIZE(c)
      /\ f \in Frames /\ order[f] = c /\ FrameZone[f] = z
      /\ firstfree[z][c] # <<>> /\ blocks[f] # <<>>
      /\ b \in freeflag /\ b \in AllBlocks /\ Listed(b)
  BY TakeBlockFacts, <1>1, <1>2, <1>3, <1>5, <1>6, Zenon
<1>9. /\ blocks' = [blocks EXCEPT ![f] = Tail(@)]
      /\ nfree' = [nfree EXCEPT ![f] = @ - 1]
      /\ firstfree' = [firstfree EXCEPT ![z][c] = PagesAfterTake(@, nfree[f] - 1)]
  BY TakeBlockFacts, <1>1, <1>2, <1>5, Zenon
<1>10. /\ classfree' = [classfree EXCEPT ![z][c] = @ - 1]
       /\ freeflag' = freeflag \ {b}
       /\ dmaflag' = IF z = "DMA16" THEN dmaflag \cup {b} ELSE dmaflag
       /\ given' = [given EXCEPT ![p] = @ \cup {g}]
       /\ slablock' = NoCall
       /\ UNCHANGED <<free, order, freeing, panic>>
  BY TakeBlockFacts, <1>1, <1>2, <1>3, <1>4, <1>5, <1>6, <1>7, Zenon
<1>11. z \in Zones /\ c \in Classes /\ r \in Requests /\ p \in Procs
  BY Zenon, <1>1, <1>2, <1>3, <1>4, <1>8 DEF Calls
<1>12. /\ blocks \in [Frames -> Seq(Nat)] /\ nfree \in [Frames -> Nat]
       /\ firstfree \in [Zones -> [Classes -> Seq(Frames)]]
       /\ order \in [Frames -> Classes \cup {-1}]
  BY Zenon DEF SlabInv, Shape
<1>13. b[1] = f /\ b[2] = Head(blocks[f])
  BY Zenon, <1>6
<1>14. g \in Objects /\ Fits(g) /\ g.blk = b
  <2>1. TotalSize(r) + HdrSize <= BLOCKSIZE(order[b[1]]) /\ b \in AllBlocks
    BY Zenon, <1>8, <1>13
  <2>2. g.blk = b
    BY Zenon, <1>7
  <2> QED  BY Zenon, <1>7, <1>11, <1>12, <2>1, <2>2, ObjectFits
<1>15. OfClass(f, z, c) /\ order[f] = c
  BY Zenon, <1>8, <1>10, <1>11, <1>12 DEF OfClass
<1> DEFINE t == Tail(blocks[f])
<1>16. t \in Seq(Nat) /\ Once(t) /\ Elems(t) = Elems(blocks[f]) \ {b[2]} /\ nfree[f] - 1 = Len(t) /\ Len(t) \in Nat
  <2>1. blocks[f] \in Seq(Nat) /\ Once(blocks[f]) /\ blocks[f] # <<>> /\ nfree[f] = Len(blocks[f])
    BY <1>8, <1>12 DEF SlabInv, FreeOK, PagesOK
  <2> QED  BY <1>13, <2>1, TailFacts
<1>17. blocks' = [blocks EXCEPT ![f] = t] /\ nfree' = [nfree EXCEPT ![f] = Len(t)]
  BY <1>8, <1>9, <1>12, <1>16, Zenon
<1> HIDE DEF t
<1>18. BlocksChange(f, Elems(blocks[f]) \ {b[2]})
  BY Zenon, <1>8, <1>12, <1>16, <1>17 DEF BlocksChange
<1> DEFINE m == PagesAfterTake(firstfree[z][c], Len(t))
<1>19. /\ m \in Seq(Frames) /\ Once(m)
       /\ Elems(m) = IF Elems(blocks[f]) \ {b[2]} = {} THEN Elems(firstfree[z][c]) \ {f}
                     ELSE Elems(firstfree[z][c]) \cup {f}
  <2>1. firstfree[z][c] \in Seq(Frames) /\ Once(firstfree[z][c]) /\ firstfree[z][c] # <<>>
    BY <1>8, <1>11, <1>12 DEF SlabInv, PagesOK
  <2> QED  BY <1>5, <1>16, <2>1, PagesAfterTakeFacts, Zenon
<1>20. firstfree' = [firstfree EXCEPT ![z][c] = m]
  BY <1>9, <1>11, <1>12, <1>16, Zenon
<1> HIDE DEF m
<1>21. PagesChange(z, c, Elems(m))
  BY <1>11, <1>12, <1>19, <1>20, Zenon DEF PagesChange
<1>22. PagesChange(z, c, IF Elems(blocks[f]) \ {b[2]} = {} THEN Elems(firstfree[z][c]) \ {f}
                         ELSE Elems(firstfree[z][c]) \cup {f})
  BY <1>19, <1>21, Zenon
<1> QED  BY <1>8, <1>10, <1>11, <1>13, <1>14, <1>15, <1>18, <1>22, Zenon DEF Taking

\* The block's holder is p, and nobody else.
LEMMA TakingHeld ==
  ASSUME SlabInv, NEW p, NEW b, NEW f, NEW z, NEW c, NEW g, Taking(p, b, f, z, c, g)
  PROVE  HeldOK' /\ ObjectsOK'
<1>1. /\ p \in Procs /\ b \in freeflag /\ b \in AllBlocks /\ Fits(g) /\ g.blk = b
      /\ order' = order /\ freeflag' = freeflag \ {b}
  BY Zenon DEF Taking
<1>2. given'[p] = given[p] \cup {g} /\ \A q \in Procs : q # p => given'[q] = given[q]
  BY Zenon DEF Taking, SlabInv, Shape
<1>3. AllBlocks' = AllBlocks /\ \A h : Fits(h)' = Fits(h)
  BY Zenon, <1>1, SameCut
<1>4. \A q \in Procs : \A h \in given'[q] : (q = p /\ h = g) \/ (h \in given[q] /\ h.blk # b)
  <2>1. \A q \in Procs : \A h \in given[q] : h.blk # b
    BY Zenon, <1>1 DEF SlabInv, HeldOK
  <2> QED  BY Zenon, <1>2, <2>1
<1>5. \A q \in Procs : given[q] \subseteq given'[q]
  BY Zenon, <1>2
<1>6. \A q \in Procs : \A h \in given'[q] : h.blk \in AllBlocks /\ h.blk \notin freeflag'
  BY Zenon, <1>1, <1>4 DEF SlabInv, HeldOK
<1>7. \A a \in AllBlocks : a \notin freeflag' => \E q \in Procs : \E h \in given'[q] : h.blk = a
  <2>1. \E q \in Procs : \E h \in given'[q] : h.blk = b
    BY Zenon, <1>1, <1>2
  <2> QED  BY Zenon, <1>1, <1>5, <2>1 DEF SlabInv, HeldOK
<1>8. \A q, t \in Procs : \A h \in given'[q], k \in given'[t] : h.blk = k.blk => q = t /\ h = k
  BY <1>1, <1>4 DEF SlabInv, HeldOK
<1>9. HeldOK'
  BY Zenon, <1>1, <1>3, <1>6, <1>7, <1>8 DEF SlabInv, HeldOK
<1>10. ObjectsOK'
  BY Zenon, <1>1, <1>3, <1>4 DEF SlabInv, ObjectsOK
<1> QED  BY Zenon, <1>9, <1>10

\* The block is off the list, and its flag tells the zone of its page.
LEMMA TakingFree ==
  ASSUME SlabInv, NEW p, NEW b, NEW f, NEW z, NEW c, NEW g, Taking(p, b, f, z, c, g)
  PROVE  FreeOK' /\ DmaOK'
<1>1. /\ b \in freeflag /\ b \in AllBlocks /\ Listed(b) /\ b[1] = f
      /\ order' = order /\ freeflag' = freeflag \ {b} /\ freeing' = freeing
      /\ dmaflag' = IF z = "DMA16" THEN dmaflag \cup {b} ELSE dmaflag
  BY Zenon DEF Taking
<1>2. BlocksChange(f, Elems(blocks[f]) \ {b[2]}) /\ f \in Frames /\ FrameZone[f] = z
  BY Zenon DEF Taking, OfClass
<1>3. AllBlocks' = AllBlocks
  BY Zenon, <1>1, SameCut
<1>4. \A a \in AllBlocks : a[1] \in Frames /\ a = <<a[1], a[2]>>
  BY Zenon, BlockPairs DEF SlabInv
<1>5. \A a \in AllBlocks : a[2] \in Elems(blocks'[a[1]]) <=> Listed(a) /\ a # b
  <2>1. \A a \in AllBlocks : a[1] # f => (a[2] \in Elems(blocks'[a[1]]) <=> Listed(a))
    BY Zenon, <1>2, <1>4, ListedAfter
  <2>2. \A a \in AllBlocks : a[1] = f => (a[2] \in Elems(blocks'[a[1]]) <=> a[2] \in Elems(blocks[f]) \ {b[2]})
    BY <1>2, <1>4, ListedAfter
  <2> QED  BY Zenon, <1>1, <1>4, <2>1, <2>2 DEF Listed
<1>6. ASSUME NEW e \in Frames
      PROVE  Once(blocks'[e]) /\ \A o \in Elems(blocks'[e]) : <<e, o>> \in freeflag'
  <2>1. Once(blocks[e]) /\ \A o \in Elems(blocks[e]) : <<e, o>> \in freeflag
    BY Zenon DEF SlabInv, FreeOK
  <2>2. /\ Once(blocks'[f]) /\ Elems(blocks'[f]) = Elems(blocks[f]) \ {b[2]}
        /\ (e # f => blocks'[e] = blocks[e])
    BY Zenon, <1>2 DEF BlocksChange
  <2> QED  BY <1>1, <2>1, <2>2
<1>7. freeflag \subseteq AllBlocks
  BY Zenon DEF SlabInv, HeldOK
<1>8. FreeOK'
  <2>1. \A q \in Procs : freeing[q] # NoBlock =>
          freeing[q] \in freeflag' /\ freeing[q][2] \notin Elems(blocks'[freeing[q][1]])
    <3>1. \A q \in Procs : freeing[q] # NoBlock => freeing[q] \in freeflag /\ ~Listed(freeing[q])
      BY Zenon DEF SlabInv, FreeOK
    <3> QED  BY Zenon, <1>1, <1>5, <1>7, <3>1
  <2>2. \A q, t \in Procs : freeing[q] # NoBlock /\ freeing[q] = freeing[t] => q = t
    BY Zenon DEF SlabInv, FreeOK
  <2>3. \A a \in freeflag' : a[2] \in Elems(blocks'[a[1]]) \/ \E q \in Procs : freeing[q] = a
    <3>1. \A a \in freeflag : Listed(a) \/ \E q \in Procs : freeing[q] = a
      BY Zenon DEF SlabInv, FreeOK
    <3> QED  BY Zenon, <1>1, <1>5, <1>7, <3>1
  <2> QED  BY Zenon, <1>1, <1>6, <2>1, <2>2, <2>3 DEF FreeOK, Listed
<1>9. DmaOK'
  BY Zenon, <1>1, <1>2, <1>3, <1>5 DEF SlabInv, DmaOK, Listed
<1> QED  BY Zenon, <1>8, <1>9

\* kmalloc takes a block: it goes from the list of its page to the caller.
LEMMA TakeBlockStep ==
  ASSUME SlabInv, TakeBlock
  PROVE  SlabInv'
<1>1. PICK p, b, f, z, c, g : Taking(p, b, f, z, c, g)
  BY Zenon, TakeBlockTakes
<1>2. HeldOK' /\ ObjectsOK' /\ FreeOK' /\ DmaOK'
  BY <1>1, TakingHeld, TakingFree, Zenon
<1>3. /\ OfClass(f, z, c) /\ order[f] = c
      /\ BlocksChange(f, Elems(blocks[f]) \ {b[2]})
      /\ PagesChange(z, c, IF Elems(blocks[f]) \ {b[2]} = {} THEN Elems(firstfree[z][c]) \ {f}
                           ELSE Elems(firstfree[z][c]) \cup {f})
  BY <1>1, Zenon DEF Taking
<1>4. slablock' = NoCall /\ UNCHANGED <<free, order, freeing, panic>>
  BY Zenon, <1>1 DEF Taking
<1>5. Shape'
  <2>1. given' \in [Procs -> SUBSET Objects]
    BY Zenon, <1>1 DEF Taking, SlabInv, Shape
  <2> QED  BY Zenon, <1>2, <1>3, <1>4, <2>1 DEF SlabInv, Shape, BlocksChange, PagesChange
<1>6. FreshOK'
  <2>1. order[f] # -1 /\ \A e \in Frames : e # f => blocks'[e] = blocks[e]
    BY <1>3, KmallocAssumption DEF OfClass, Classes, BlocksChange
  <2> QED  BY Zenon, <1>4, <2>1 DEF SlabInv, FreshOK
<1>7. PagesOK'
  <2>1. Shape /\ PagesOK
    BY Zenon DEF SlabInv
  <2> QED  BY Zenon, <1>3, <2>1, PagesStep
<1>8. CallOK'
  BY Zenon, <1>4 DEF CallOK
<1>9. NoFalsePanic'
  BY <1>4, Zenon DEF SlabInv, NoFalsePanic
<1> QED  BY Zenon, <1>2, <1>5, <1>6, <1>7, <1>8, <1>9 DEF SlabInv

\* The blocks a page of a class is cut into.
Cuts(f, c) == {<<f, Offset(c, i)>> : i \in 1..NBLOCKS(c)}

\* The list of a new page: every block of the page, once.
LEMMA NewPageList ==
  ASSUME NEW c \in Classes, NEW f
  PROVE  /\ OffsetsOf(c) \in Seq(Nat) /\ Len(OffsetsOf(c)) = NBLOCKS(c) /\ OffsetsOf(c) # <<>>
         /\ Once(OffsetsOf(c)) /\ Elems(OffsetsOf(c)) = {Offset(c, i) : i \in 1..NBLOCKS(c)}
         /\ {<<f, OffsetsOf(c)[i]>> : i \in 1..NBLOCKS(c)} = Cuts(f, c)
<1> DEFINE N == NBLOCKS(c)
           s == OffsetsOf(c)
<1>1. N \in Nat /\ N >= 1 /\ BLOCKSIZE(c) \in Nat /\ BLOCKSIZE(c) >= 16
  BY Zenon, ClassSizes DEF HdrSize
<1>2. \A i \in 1..N : s[i] = Offset(c, i)
  BY Zenon DEF OffsetsOf, Offset
<1>3. \A i \in 1..N : Offset(c, i) \in Nat
  BY Zenon, CutInPage
<1>4. \A i, j \in 1..N : Offset(c, i) = Offset(c, j) => i = j
  <2>1. \A i, j \in 1..N : i < j => Offset(c, i) + BLOCKSIZE(c) <= Offset(c, j)
    BY Zenon, CutsApart
  <2> HIDE DEF N
  <2>2. \A i, j \in 1..N : i < j => Offset(c, i) # Offset(c, j)
    BY <1>1, <1>3, <2>1
  <2> QED  BY <1>1, <2>2
<1>5. s = [i \in 1..N |-> Offset(c, i)]
  BY Zenon DEF OffsetsOf, Offset
<1> HIDE DEF N, s
<1>6. s \in Seq(Nat) /\ Len(s) = N
  BY <1>1, <1>3, <1>5
<1>7. Once(s) /\ Elems(s) = {Offset(c, i) : i \in 1..N}
  BY <1>2, <1>4, <1>6 DEF Once, Elems
<1>8. s # <<>>
  BY <1>1, <1>6
<1>9. {<<f, s[i]>> : i \in 1..N} = Cuts(f, c)
  BY Zenon, <1>2 DEF Cuts, N
<1> QED  BY Zenon, <1>6, <1>7, <1>8, <1>9 DEF N, s

\* What is known when the class has no page: the new one was free, and it is
\* the first of the tries.
LEMMA GrowSlabFacts ==
  ASSUME SlabInv, GrowSlab
  PROVE  LET z == slablock.zone  c == slablock.class
         IN /\ slablock \in Calls /\ TotalSize(slablock.request) + HdrSize <= BLOCKSIZE(c)
            /\ firstfree[z][c] = <<>> /\ slablock.tries \in Nat \ {0, 1}
            /\ \E f \in free :
                 /\ FrameZone[f] = z /\ free' = free \ {f}
                 /\ order' = [order EXCEPT ![f] = c]
                 /\ blocks' = [blocks EXCEPT ![f] = OffsetsOf(c)]
                 /\ nfree' = [nfree EXCEPT ![f] = NBLOCKS(c)]
                 /\ firstfree' = [firstfree EXCEPT ![z][c] = <<f>> \o @]
                 /\ freeflag' = freeflag \cup Cuts(f, c)
            /\ classfree' = [classfree EXCEPT ![z][c] = @ + NBLOCKS(c)]
            /\ slablock' = [slablock EXCEPT !.tries = @ - 1]
            /\ UNCHANGED <<dmaflag, given, freeing, panic>>
<1> DEFINE z == slablock.zone
           c == slablock.class
<1>1. slablock # NoCall /\ firstfree[z][c] = <<>>
  BY Zenon DEF GrowSlab, InLoop
<1>2. /\ slablock \in Calls /\ TotalSize(slablock.request) + HdrSize <= BLOCKSIZE(c)
      /\ slablock.tries = Tries
  BY Zenon, <1>1 DEF SlabInv, CallOK
<1>3. slablock.tries \in Nat \ {0, 1}
  BY Zenon, <1>2, KmallocAssumption DEF Tries
<1>4. c \in Classes
  BY Zenon, <1>2 DEF Calls
<1>5. /\ \E page \in free :
          /\ FrameZone[page] = z
          /\ free' = free \ {page}
          /\ order' = [order EXCEPT ![page] = c]
          /\ blocks' = [blocks EXCEPT ![page] = OffsetsOf(c)]
          /\ nfree' = [nfree EXCEPT ![page] = NBLOCKS(c)]
          /\ firstfree' = [firstfree EXCEPT ![z][c] = <<page>> \o @]
          /\ freeflag' = freeflag \cup {<<page, OffsetsOf(c)[i]>> : i \in 1..NBLOCKS(c)}
      /\ classfree' = [classfree EXCEPT ![z][c] = @ + NBLOCKS(c)]
      /\ slablock' = [slablock EXCEPT !.tries = @ - 1]
      /\ panic' = IF slablock.tries = 1 THEN "Unable to do malloc" ELSE panic
      /\ UNCHANGED <<dmaflag, given, freeing>>
  BY Zenon DEF GrowSlab
<1>6. PICK f \in free :
        /\ FrameZone[f] = z
        /\ free' = free \ {f}
        /\ order' = [order EXCEPT ![f] = c]
        /\ blocks' = [blocks EXCEPT ![f] = OffsetsOf(c)]
        /\ nfree' = [nfree EXCEPT ![f] = NBLOCKS(c)]
        /\ firstfree' = [firstfree EXCEPT ![z][c] = <<f>> \o @]
        /\ freeflag' = freeflag \cup {<<f, OffsetsOf(c)[i]>> : i \in 1..NBLOCKS(c)}
  BY <1>5, Zenon
<1>7. freeflag' = freeflag \cup Cuts(f, c)
  BY Zenon, <1>4, <1>6, NewPageList
<1>8. panic' = panic
  BY <1>3, <1>5, Zenon
<1> QED  BY <1>1, <1>2, <1>3, <1>5, <1>6, <1>7, <1>8, Zenon

\* The step of GrowSlab: the free page f is cut for class c of zone z.
Growing(f, z, c) ==
  /\ f \in free /\ free' = free \ {f}
  /\ OfClass(f, z, c) /\ order[f] = -1 /\ blocks[f] = <<>>
  /\ BlocksChange(f, {Offset(c, i) : i \in 1..NBLOCKS(c)})
  /\ firstfree[z][c] = <<>> /\ PagesChange(z, c, {f})
  /\ classfree' = [classfree EXCEPT ![z][c] = @ + NBLOCKS(c)]
  /\ freeflag' = freeflag \cup Cuts(f, c)
  /\ slablock' \in Calls /\ slablock'.zone = z /\ slablock'.class = c
  /\ TotalSize(slablock'.request) + HdrSize <= BLOCKSIZE(c)
  /\ UNCHANGED <<dmaflag, given, freeing, panic>>

\* The step that adds a page to a class, with the page and the list named.
LEMMA GrowSlabGrows ==
  ASSUME SlabInv, GrowSlab
  PROVE  \E f, z, c : Growing(f, z, c)
<1>1. PICK z : z = slablock.zone
  OBVIOUS
<1>2. PICK c : c = slablock.class
  OBVIOUS
<1>3. /\ slablock \in Calls /\ TotalSize(slablock.request) + HdrSize <= BLOCKSIZE(c)
      /\ firstfree[z][c] = <<>> /\ slablock.tries \in Nat \ {0, 1}
      /\ classfree' = [classfree EXCEPT ![z][c] = @ + NBLOCKS(c)]
      /\ slablock' = [slablock EXCEPT !.tries = @ - 1]
      /\ UNCHANGED <<dmaflag, given, freeing, panic>>
  BY GrowSlabFacts, <1>1, <1>2, Zenon
<1>4. PICK f \in free :
        /\ FrameZone[f] = z /\ free' = free \ {f}
        /\ order' = [order EXCEPT ![f] = c]
        /\ blocks' = [blocks EXCEPT ![f] = OffsetsOf(c)]
        /\ nfree' = [nfree EXCEPT ![f] = NBLOCKS(c)]
        /\ firstfree' = [firstfree EXCEPT ![z][c] = <<f>> \o @]
        /\ freeflag' = freeflag \cup Cuts(f, c)
  BY GrowSlabFacts, <1>1, <1>2, Zenon
<1>5. /\ free \subseteq Frames /\ order \in [Frames -> Classes \cup {-1}]
      /\ blocks \in [Frames -> Seq(Nat)] /\ nfree \in [Frames -> Nat]
      /\ firstfree \in [Zones -> [Classes -> Seq(Frames)]]
  BY Zenon DEF SlabInv, Shape
<1>6. f \in Frames /\ order[f] = -1 /\ blocks[f] = <<>> /\ z \in Zones /\ c \in Classes
  BY Zenon, <1>1, <1>2, <1>3, <1>5 DEF SlabInv, FreshOK, Calls
<1>7. OfClass(f, z, c)
  BY Zenon, <1>4, <1>5, <1>6 DEF OfClass
<1>8. BlocksChange(f, {Offset(c, i) : i \in 1..NBLOCKS(c)})
  <2>1. /\ OffsetsOf(c) \in Seq(Nat) /\ Len(OffsetsOf(c)) = NBLOCKS(c) /\ Once(OffsetsOf(c))
        /\ Elems(OffsetsOf(c)) = {Offset(c, i) : i \in 1..NBLOCKS(c)} /\ NBLOCKS(c) \in Nat
    BY Zenon, <1>6, NewPageList, ClassSizes
  <2>2. blocks'[f] = OffsetsOf(c) /\ nfree'[f] = NBLOCKS(c)
    BY Zenon, <1>4, <1>5, <1>6
  <2>3. /\ blocks' \in [Frames -> Seq(Nat)] /\ nfree' \in [Frames -> Nat]
        /\ \A e \in Frames : e # f => blocks'[e] = blocks[e] /\ nfree'[e] = nfree[e]
    BY Zenon, <1>4, <1>5, <1>6, <2>1
  <2> QED  BY Zenon, <2>1, <2>2, <2>3 DEF BlocksChange
<1>9. PagesChange(z, c, {f})
  <2>1. <<f>> \o firstfree[z][c] = <<f>>
    BY <1>3
  <2>2. firstfree' = [firstfree EXCEPT ![z][c] = <<f>>]
    BY <1>4, <1>5, <1>6, <2>1, Zenon
  <2>3. <<f>> \in Seq(Frames) /\ Once(<<f>>) /\ Elems(<<f>>) = {f}
    BY <1>6 DEF Once, Elems
  <2> QED  BY <1>5, <1>6, <2>2, <2>3, Zenon DEF PagesChange
<1>10. slablock' \in Calls /\ slablock'.zone = z /\ slablock'.class = c /\ slablock'.request = slablock.request
  BY <1>1, <1>2, <1>3 DEF Calls
<1>11. TotalSize(slablock'.request) + HdrSize <= BLOCKSIZE(c)
  BY Zenon, <1>3, <1>10
<1> QED  BY <1>3, <1>4, <1>6, <1>7, <1>8, <1>9, <1>10, <1>11, Zenon DEF Growing

\* The new blocks are those of the new page.
LEMMA GrowingBlocks ==
  ASSUME SlabInv, NEW f, NEW z, NEW c, Growing(f, z, c)
  PROVE  /\ AllBlocks' = AllBlocks \cup Cuts(f, c)
         /\ \A a \in AllBlocks : a[1] # f
         /\ \A a \in Cuts(f, c) : a[1] = f /\ a[2] \in Elems(blocks'[f])
<1>1. /\ f \in Frames /\ order[f] = -1 /\ c \in Classes /\ order'[f] = c
      /\ \A e \in Frames : e # f => order'[e] = order[e]
  BY Zenon DEF Growing, OfClass
<1>2. c # -1
  BY <1>1, KmallocAssumption DEF Classes
<1>3. \A a \in AllBlocks : a[1] # f
  BY Zenon, <1>1, BlockPairs DEF SlabInv
<1>4. \A a : a \in Cuts(f, c) <=> \E i \in 1..NBLOCKS(c) : a = <<f, Offset(c, i)>>
  BY Zenon DEF Cuts
<1>5. ASSUME NEW a
      PROVE  a \in AllBlocks' <=> a \in AllBlocks \cup Cuts(f, c)
  <2>1. a \in AllBlocks <=> \E e \in Frames : order[e] # -1 /\ \E i \in 1..NBLOCKS(order[e]) : a = <<e, Offset(order[e], i)>>
    BY Zenon, BlockIsCut
  <2>2. a \in AllBlocks' <=> \E e \in Frames : order'[e] # -1 /\ \E i \in 1..NBLOCKS(order'[e]) : a = <<e, Offset(order'[e], i)>>
    BY Zenon, BlockIsCutNext
  <2> QED  BY <1>1, <1>2, <1>4, <2>1, <2>2
<1>6. \A a \in Cuts(f, c) : a[1] = f /\ a[2] \in Elems(blocks'[f])
  <2>1. Elems(blocks'[f]) = {Offset(c, i) : i \in 1..NBLOCKS(c)}
    BY Zenon DEF Growing, BlocksChange
  <2> QED  BY <1>4, <2>1
<1> QED  BY Zenon, <1>3, <1>5, <1>6

\* The new blocks are free and listed, and the others where they were.
LEMMA GrowingPlaces ==
  ASSUME SlabInv, NEW f, NEW z, NEW c, Growing(f, z, c)
  PROVE  HeldOK' /\ FreeOK' /\ DmaOK'
<1>1. /\ AllBlocks' = AllBlocks \cup Cuts(f, c)
      /\ \A a \in AllBlocks : a[1] # f
      /\ \A a \in Cuts(f, c) : a[1] = f /\ a[2] \in Elems(blocks'[f])
  BY Zenon, GrowingBlocks
<1>2. f \in Frames /\ freeflag' = freeflag \cup Cuts(f, c) /\ UNCHANGED <<dmaflag, given, freeing>>
  BY Zenon DEF Growing, OfClass
<1>3. \A a \in Cuts(f, c) : a \notin AllBlocks
  BY Zenon, <1>1
<1>4. \A a \in AllBlocks : a[2] \in Elems(blocks'[a[1]]) <=> Listed(a)
  <2>1. \A a \in AllBlocks : a[1] \in Frames /\ a[1] # f
    BY Zenon, <1>1, BlockPairs DEF SlabInv
  <2>2. \A e \in Frames : e # f => blocks'[e] = blocks[e]
    BY Zenon DEF Growing, BlocksChange
  <2> QED  BY Zenon, <2>1, <2>2 DEF Listed
<1>5. freeflag \subseteq AllBlocks
  BY Zenon DEF SlabInv, HeldOK
<1>6. HeldOK'
  <2>1. \A q \in Procs : \A h \in given[q] : h.blk \in AllBlocks' /\ h.blk \notin freeflag'
    BY Zenon, <1>1, <1>2, <1>3 DEF SlabInv, HeldOK
  <2>2. \A a \in AllBlocks' : a \notin freeflag' => \E q \in Procs : \E h \in given[q] : h.blk = a
    BY Zenon, <1>1, <1>2 DEF SlabInv, HeldOK
  <2>3. freeflag' \subseteq AllBlocks'
    BY Zenon, <1>1, <1>2, <1>5
  <2> QED  BY <1>2, <2>1, <2>2, <2>3, SMTT(20) DEF SlabInv, HeldOK
<1>7. FreeOK'
  <2>1. ASSUME NEW e \in Frames
        PROVE  Once(blocks'[e]) /\ \A o \in Elems(blocks'[e]) : <<e, o>> \in freeflag'
    <3>1. CASE e = f
      <4>1. /\ Once(blocks'[f]) /\ Elems(blocks'[f]) = {Offset(c, i) : i \in 1..NBLOCKS(c)}
            /\ freeflag' = freeflag \cup Cuts(f, c)
        BY Zenon DEF Growing, BlocksChange
      <4> QED  BY Zenon, <3>1, <4>1 DEF Cuts
    <3>2. CASE e # f
      <4>1. blocks'[e] = blocks[e]
        BY Zenon, <3>2 DEF Growing, BlocksChange
      <4>2. Once(blocks[e]) /\ \A o \in Elems(blocks[e]) : <<e, o>> \in freeflag
        BY Zenon DEF SlabInv, FreeOK
      <4> QED  BY Zenon, <1>2, <4>1, <4>2
    <3> QED  BY Zenon, <3>1, <3>2
  <2>2. \A q \in Procs : freeing[q] # NoBlock =>
          freeing[q] \in freeflag' /\ freeing[q][2] \notin Elems(blocks'[freeing[q][1]])
    <3>1. \A q \in Procs : freeing[q] # NoBlock => freeing[q] \in freeflag /\ ~Listed(freeing[q])
      BY Zenon DEF SlabInv, FreeOK
    <3> QED  BY Zenon, <1>2, <1>4, <1>5, <3>1
  <2>3. \A q, t \in Procs : freeing[q] # NoBlock /\ freeing[q] = freeing[t] => q = t
    BY Zenon DEF SlabInv, FreeOK
  <2>4. \A a \in freeflag' : a[2] \in Elems(blocks'[a[1]]) \/ \E q \in Procs : freeing[q] = a
    <3>1. \A a \in freeflag : Listed(a) \/ \E q \in Procs : freeing[q] = a
      BY Zenon DEF SlabInv, FreeOK
    <3> QED  BY Zenon, <1>1, <1>2, <1>4, <1>5, <3>1
  <2> QED  BY Zenon, <1>2, <2>1, <2>2, <2>3, <2>4 DEF FreeOK, Listed
<1>8. DmaOK'
  BY Zenon, <1>1, <1>2, <1>4 DEF SlabInv, DmaOK, Listed
<1> QED  BY Zenon, <1>6, <1>7, <1>8

\* kmalloc cuts a new page into blocks, all of them on the page's list.
LEMMA GrowSlabStep ==
  ASSUME SlabInv, GrowSlab
  PROVE  SlabInv'
<1>1. PICK f, z, c : Growing(f, z, c)
  BY Zenon, GrowSlabGrows
<1>2. HeldOK' /\ FreeOK' /\ DmaOK'
  BY Zenon, <1>1, GrowingPlaces
<1>3. PICK E : E = {Offset(c, i) : i \in 1..NBLOCKS(c)}
  BY Zenon
<1>4. /\ f \in free /\ free' = free \ {f}
      /\ blocks[f] = <<>> /\ firstfree[z][c] = <<>>
  BY <1>1, Zenon DEF Growing
<1>5. OfClass(f, z, c) /\ BlocksChange(f, E) /\ PagesChange(z, c, {f})
  BY <1>1, <1>3, Zenon DEF Growing
<1>6. given' = given /\ freeing' = freeing /\ panic' = panic
  BY <1>1, Zenon DEF Growing
<1>7. /\ f \in Frames /\ z \in Zones /\ c \in Classes /\ order'[f] = c
      /\ order' \in [Frames -> Classes \cup {-1}]
      /\ \A e \in Frames : e # f => order'[e] = order[e]
  BY Zenon, <1>5 DEF OfClass, SlabInv, Shape
<1>8. Shape'
  <2>1. blocks' \in [Frames -> Seq(Nat)] /\ nfree' \in [Frames -> Nat]
    BY Zenon, <1>5 DEF BlocksChange
  <2>2. firstfree' \in [Zones -> [Classes -> Seq(Frames)]]
    BY Zenon, <1>5 DEF PagesChange
  <2>3. free' \subseteq Frames
    BY <1>4, <1>7 DEF SlabInv, Shape
  <2> QED  BY <1>6, <1>7, <2>1, <2>2, <2>3, Zenon DEF SlabInv, Shape
<1>9. FreshOK'
  <2>1. c # -1
    BY <1>7, KmallocAssumption DEF Classes
  <2>2. \A e \in Frames : e # f => blocks'[e] = blocks[e]
    BY Zenon, <1>5 DEF BlocksChange
  <2>3. free \subseteq Frames /\ FreshOK
    BY Zenon DEF SlabInv, Shape
  <2> QED  BY Zenon, <1>4, <1>7, <2>1, <2>2, <2>3 DEF FreshOK
<1>10. PagesOK'
  <2>1. E # {}
    <3>1. NBLOCKS(c) \in Nat /\ NBLOCKS(c) >= 1
      BY Zenon, <1>7, ClassSizes
    <3>2. 1 \in 1..NBLOCKS(c)
      BY <3>1
    <3> QED  BY <1>3, <3>2, Zenon
  <2>2. {f} = Elems(firstfree[z][c]) \cup {f}
    BY Zenon, <1>4, EmptyList
  <2>3. Shape /\ PagesOK
    BY Zenon DEF SlabInv
  <2> QED  BY Zenon, <1>4, <1>5, <2>1, <2>2, <2>3, PagesStep
<1>11. ObjectsOK'
  <2>1. ASSUME NEW q \in Procs, NEW h \in given[q]
        PROVE  Fits(h)'
    <3>1. Fits(h) /\ h.blk \in AllBlocks
      BY Zenon DEF SlabInv, ObjectsOK, HeldOK
    <3>2. h.blk[1] \in Frames /\ h.blk[1] # f
      BY Zenon, <1>1, <3>1, BlockPairs, GrowingBlocks DEF SlabInv
    <3>3. order'[h.blk[1]] = order[h.blk[1]]
      BY Zenon, <1>7, <3>2
    <3> QED  BY Zenon, <3>1, <3>3 DEF Fits, End
  <2> QED  BY Zenon, <1>6, <2>1 DEF ObjectsOK
<1>12. CallOK'
  <2>1. f \in Elems(firstfree'[z][c])
    BY Zenon, <1>5 DEF PagesChange
  <2>2. firstfree'[z][c] # <<>>
    BY Zenon, <2>1, EmptyList
  <2>3. /\ slablock' \in Calls /\ slablock'.zone = z /\ slablock'.class = c
        /\ TotalSize(slablock'.request) + HdrSize <= BLOCKSIZE(c)
    BY <1>1, Zenon DEF Growing
  <2> QED  BY <2>2, <2>3, Zenon DEF CallOK
<1>13. NoFalsePanic'
  BY <1>6, Zenon DEF SlabInv, NoFalsePanic
<1> QED  BY <1>2, <1>8, <1>9, <1>10, <1>11, <1>12, <1>13, Zenon DEF SlabInv

----------------------------------------------------------------------------
(* kmalloc up to the lock, and the steps together *)

\* What get_order returns: a class whose blocks hold the size and the header.
OrderFits ==
  \A n \in Nat : get_order(n) # NoClass =>
    get_order(n) \in Classes /\ n + HdrSize <= BLOCKSIZE(get_order(n))

\* kmalloc up to the lock asks for such a class.
LEMMA kmallocStep ==
  ASSUME OrderFits, SlabInv, NEW p \in Procs, NEW z \in Zones \cup {"DMA32"}, NEW r \in Requests, kmalloc(p, z, r)
  PROVE  SlabInv'
<1> DEFINE c == get_order(TotalSize(r))
<1>1. Rest'
  BY RestUnchanged, Zenon DEF SlabInv, Rest, kmalloc
<1>2. /\ UNCHANGED <<firstfree, order>>
      /\ \/ slablock' = slablock
         \/ /\ z # "DMA32" /\ c # NoClass
            /\ slablock' = [proc |-> p, zone |-> z, class |-> c, request |-> r, tries |-> Tries]
  BY Zenon DEF kmalloc, slabVars
<1>3. CallOK'
  <2>1. CASE slablock' = slablock
    BY <1>2, <2>1, Zenon DEF SlabInv, CallOK
  <2>2. CASE /\ z # "DMA32" /\ c # NoClass
             /\ slablock' = [proc |-> p, zone |-> z, class |-> c, request |-> r, tries |-> Tries]
    <3>1. TotalSize(r) \in Nat
      BY KmallocAssumption DEF TotalSize, PtrSize
    <3>2. c \in Classes /\ TotalSize(r) + HdrSize <= BLOCKSIZE(c)
      BY <2>2, <3>1, Zenon DEF OrderFits
    <3> HIDE DEF c
    <3>3. Tries \in Nat /\ z \in Zones
      BY Zenon, <2>2, KmallocAssumption DEF Tries
    <3>4. slablock' \in Calls
      BY Zenon, <2>2, <3>2, <3>3 DEF Calls
    <3> QED  BY Zenon, <2>2, <3>2, <3>4 DEF CallOK
  <2> QED  BY <1>2, <2>1, <2>2, Zenon
<1>4. NoFalsePanic'
  <2>1. \/ panic' = panic
        \/ panic' \in {"kmalloc of DMA32 not enabled yet!", "kmalloc of large page"}
    BY Zenon DEF kmalloc
  <2> QED  BY <2>1, Zenon DEF SlabInv, NoFalsePanic
<1> QED  BY <1>1, <1>3, <1>4, Zenon DEF SlabInv, Rest

\* The state apart from the counters of the classes.
LEMMA SlabStep ==
  ASSUME OrderFits, SlabInv, [Next]_vars
  PROVE  SlabInv'
<1>1. CASE \E p \in Procs, z \in Zones \cup {"DMA32"}, r \in Requests : kmalloc(p, z, r)
  BY <1>1, kmallocStep, Zenon
<1>2. CASE TakeBlock
  BY <1>2, TakeBlockStep, Zenon
<1>3. CASE GrowSlab
  BY <1>3, GrowSlabStep, Zenon
<1>4. CASE NoPageLeft
  BY <1>4, NoPageLeftStep, Zenon
<1>5. CASE \E p \in Procs : \E g \in given[p] : kfree(p, g)
  BY <1>5, kfreeStep, Zenon
<1>6. CASE \E p \in Procs : LinkFreed(p)
  BY <1>6, LinkFreedStep, Zenon
<1>7. CASE UNCHANGED vars
  BY <1>7, StutterStep, Zenon
<1> QED  BY <1>1, <1>2, <1>3, <1>4, <1>5, <1>6, <1>7, Zenon DEF Next

\* Init, with no page cut and nothing given.
LEMMA SlabInit ==
  ASSUME Init
  PROVE  SlabInv
<1>1. /\ free = Frames /\ freeflag = {} /\ dmaflag = {} /\ slablock = NoCall
      /\ firstfree = [z \in Zones |-> [c \in Classes |-> <<>>]]
      /\ order = [f \in Frames |-> -1] /\ blocks = [f \in Frames |-> <<>>]
      /\ nfree = [f \in Frames |-> 0]
      /\ given = [p \in Procs |-> {}] /\ freeing = [p \in Procs |-> NoBlock]
  BY Zenon DEF Init
<1>2. NoFalsePanic
  BY Zenon DEF Init, NoFalsePanic
<1>3. AllBlocks = {}
  BY Zenon, <1>1 DEF AllBlocks, SlabPages
<1>4. Shape /\ FreshOK
  BY <1>1 DEF Shape, FreshOK
<1>5. HeldOK /\ DmaOK /\ ObjectsOK /\ CallOK
  BY Zenon, <1>1, <1>3 DEF HeldOK, DmaOK, ObjectsOK, CallOK
<1>6. FreeOK /\ PagesOK
  <2>1. \A f \in Frames : blocks[f] = <<>> /\ nfree[f] = 0
    BY Zenon, <1>1
  <2>2. FreeOK
    BY Zenon, <1>1, <2>1, EmptyList DEF FreeOK
  <2>3. Len(<<>>) = 0 /\ \A z \in Zones, c \in Classes : firstfree[z][c] = <<>>
    BY Zenon, <1>1
  <2> QED  BY Zenon, <2>1, <2>2, <2>3, EmptyList DEF PagesOK
<1> QED  BY <1>2, <1>4, <1>5, <1>6, Zenon DEF SlabInv

----------------------------------------------------------------------------
(* What the invariant says of objects, blocks and pages *)

\* Objects lie in blocks, and blocks apart.
LEMMA InvObjects == SlabInv => ObjectsDisjoint
<1> SUFFICES ASSUME SlabInv PROVE ObjectsDisjoint
  OBVIOUS
<1>1. order \in [Frames -> Classes \cup {-1}] /\ given \in [Procs -> SUBSET Objects]
  BY Zenon DEF SlabInv, Shape
<1>2. \A g \in Given : \E p \in Procs : g \in given[p]
  BY Zenon DEF Given
<1>3. ASSUME NEW g \in Given
      PROVE  /\ g.blk \in AllBlocks /\ g.ptr \in Nat /\ g.size \in Nat
             /\ g.ptr >= Start(g.blk) + 16 /\ g.ptr + g.size <= End(g.blk)
             /\ g.align # 0 => g.ptr >= Payload(g.blk) + PtrSize /\ g.ptr % g.align = 0
  <2>1. PICK p \in Procs : g \in given[p]
    BY Zenon, <1>2
  <2>2. g.blk \in AllBlocks /\ Fits(g) /\ g.ptr \in Nat /\ g.size \in Nat
    BY <1>1, <2>1 DEF SlabInv, HeldOK, ObjectsOK, Objects
  <2>3. Payload(g.blk) = Start(g.blk) + 16
    BY Zenon DEF Payload, Start, HdrSize
  <2> QED  BY Zenon, <2>2, <2>3 DEF Fits
<1>4. \A a \in AllBlocks : Start(a) \in Nat /\ End(a) \in Nat /\ Start(a) + 16 <= End(a)
  <2>1. \A a \in AllBlocks : /\ Start(a) \in Nat /\ BLOCKSIZE(order[a[1]]) \in Nat
                             /\ BLOCKSIZE(order[a[1]]) >= 16
    BY Zenon, <1>1, BlockFacts DEF HdrSize
  <2> QED  BY <2>1 DEF End
<1>5. \A a, b \in AllBlocks : a # b => End(a) <= Start(b) \/ End(b) <= Start(a)
  BY Zenon, <1>1, BlocksApart
<1>6. \A g, h \in Given : g # h => g.blk # h.blk
  BY <1>2 DEF SlabInv, HeldOK
<1>7. ASSUME NEW g \in Given, NEW h \in Given, g # h
      PROVE  g.ptr + g.size <= h.ptr \/ h.ptr + h.size <= g.ptr
  <2>1. End(g.blk) <= Start(h.blk) \/ End(h.blk) <= Start(g.blk)
    BY Zenon, <1>3, <1>5, <1>6, <1>7
  <2>2. /\ Start(g.blk) \in Nat /\ End(g.blk) \in Nat /\ Start(h.blk) \in Nat /\ End(h.blk) \in Nat
        /\ g.ptr \in Nat /\ g.size \in Nat /\ h.ptr \in Nat /\ h.size \in Nat
        /\ g.ptr >= Start(g.blk) + 16 /\ g.ptr + g.size <= End(g.blk)
        /\ h.ptr >= Start(h.blk) + 16 /\ h.ptr + h.size <= End(h.blk)
    BY Zenon, <1>3, <1>4
  <2> QED  BY <2>1, <2>2
<1>8. ASSUME NEW g \in Given, NEW b \in AllBlocks
      PROVE  g.ptr + g.size <= b[1] * PAGESIZE + b[2] \/ b[1] * PAGESIZE + b[2] + HdrSize <= g.ptr
  <2>1. b = g.blk \/ End(g.blk) <= Start(b) \/ End(b) <= Start(g.blk)
    BY Zenon, <1>3, <1>5
  <2>2. /\ Start(g.blk) \in Nat /\ End(g.blk) \in Nat /\ Start(b) \in Nat /\ End(b) \in Nat
        /\ g.ptr \in Nat /\ g.size \in Nat /\ Start(b) + 16 <= End(b)
        /\ g.ptr >= Start(g.blk) + 16 /\ g.ptr + g.size <= End(g.blk)
    BY Zenon, <1>3, <1>4
  <2>3. g.ptr + g.size <= Start(b) \/ Start(b) + 16 <= g.ptr
    BY <2>1, <2>2
  <2> QED  BY Zenon, <2>3 DEF Start, HdrSize
<1>9. \A p \in Procs, q \in Procs : p # q => given[p] \cap given[q] = {}
  BY DEF SlabInv, HeldOK
<1> QED  BY <1>3, <1>7, <1>8, <1>9, Zenon DEF ObjectsDisjoint

\* Who holds a block, and who is in the middle of freeing it.
Holders(b) == {g \in Given : g.blk = b}
Freers(b) == {p \in Procs : freeing[p] = b}

\* A block is in exactly one place: held, in a kfree, or on its page's list.
LEMMA OnePlace ==
  ASSUME SlabInv, NEW b \in AllBlocks
  PROVE  /\ b \in OnList(b[1]) <=> Listed(b)
         /\ \/ b \notin freeflag /\ ~Listed(b) /\ Freers(b) = {} /\ \E g : Holders(b) = {g}
            \/ b \in freeflag /\ Listed(b) /\ Freers(b) = {} /\ Holders(b) = {}
            \/ b \in freeflag /\ ~Listed(b) /\ Holders(b) = {} /\ \E p : Freers(b) = {p}
<1>1. b = <<b[1], b[2]>> /\ b[1] \in Frames /\ b # NoBlock
  BY Zenon, BlockPairs DEF SlabInv
<1>2. b \in OnList(b[1]) <=> Listed(b)
  BY <1>1 DEF OnList, Listed, Elems
<1>3. CASE b \notin freeflag
  <2>1. ~Listed(b)
    BY <1>1, <1>3 DEF SlabInv, FreeOK, Listed
  <2>2. Freers(b) = {}
    BY Zenon, <1>1, <1>3 DEF SlabInv, FreeOK, Freers
  <2>3. PICK p \in Procs : \E g \in given[p] : g.blk = b
    BY Zenon, <1>3 DEF SlabInv, HeldOK
  <2>4. PICK g \in given[p] : g.blk = b
    BY Zenon, <2>3
  <2>5. \A h \in Given : \E q \in Procs : h \in given[q]
    BY Zenon DEF Given
  <2>6. g \in Given
    BY Zenon, <2>4 DEF Given
  <2>7. \A h \in Given : h.blk = b => h = g
    BY <2>4, <2>5 DEF SlabInv, HeldOK
  <2>8. Holders(b) = {g}
    BY Zenon, <2>4, <2>6, <2>7 DEF Holders
  <2> QED  BY <1>2, <1>3, <2>1, <2>2, <2>8, Zenon
<1>4. CASE b \in freeflag
  <2>1. Holders(b) = {}
    BY <1>4 DEF SlabInv, HeldOK, Given, Holders
  <2>2. CASE Listed(b)
    <3>1. Freers(b) = {}
      BY Zenon, <1>1, <2>2 DEF SlabInv, FreeOK, Freers
    <3> QED  BY <1>2, <1>4, <2>1, <2>2, <3>1, Zenon
  <2>3. CASE ~Listed(b)
    <3>1. PICK p \in Procs : freeing[p] = b
      BY Zenon, <1>4, <2>3 DEF SlabInv, FreeOK
    <3>2. Freers(b) = {p}
      BY Zenon, <1>1, <3>1 DEF SlabInv, FreeOK, Freers
    <3> QED  BY <1>2, <1>4, <2>1, <2>3, <3>2, Zenon
  <2> QED  BY <2>2, <2>3, Zenon
<1> QED  BY <1>3, <1>4, Zenon

\* The variables have their types.
LEMMA Types ==
  ASSUME SlabInv, CountersOK
  PROVE  TypeOK
<1>1. Marked \subseteq AllBlocks
  BY DEF SlabInv, FreeOK, HeldOK, Marked
<1>2. \A g \in Given : g.blk \in AllBlocks
  BY DEF SlabInv, HeldOK, Given
<1>3. freeflag \subseteq AllBlocks /\ dmaflag \subseteq AllBlocks
  BY Zenon DEF SlabInv, HeldOK, DmaOK
<1>4. \A z \in Zones, c \in Classes : \A i \in 1..Len(firstfree[z][c]) : firstfree[z][c][i] \in Frames
  <2>1. \A z \in Zones, c \in Classes : firstfree[z][c] \in Seq(Frames)
    BY Zenon DEF SlabInv, Shape
  <2> QED  BY <2>1
<1>5. classfree \in [Zones -> [Classes -> Nat]]
  BY Zenon DEF CountersOK
<1> QED  BY Zenon, <1>1, <1>2, <1>3, <1>4, <1>5 DEF SlabInv, Shape, TypeOK

\* The lists of pages hold the pages with a free block.
LEMMA PagesListed ==
  ASSUME SlabInv
  PROVE  PageListedIffFree
<1>1. \A f \in Frames : nfree[f] = Len(blocks[f])
  BY Zenon DEF SlabInv, PagesOK
<1>2. ASSUME NEW z \in Zones, NEW c \in Classes
      PROVE  LET s == firstfree[z][c]
             IN /\ {s[i] : i \in 1..Len(s)} =
                     {f \in SlabPages : order[f] = c /\ FrameZone[f] = z /\ nfree[f] > 0}
                /\ \A i, j \in 1..Len(s) : s[i] = s[j] => i = j
  <2> DEFINE s == firstfree[z][c]
  <2>1. s \in Seq(Frames) /\ Once(s)
    BY DEF SlabInv, Shape, PagesOK
  <2>2. \A f \in Frames : f \in Elems(s) <=> order[f] = c /\ FrameZone[f] = z /\ blocks[f] # <<>>
    BY SMTT(20) DEF SlabInv, PagesOK
  <2>3. \A f \in Frames : blocks[f] # <<>> <=> nfree[f] > 0
    <3>1. \A f \in Frames : blocks[f] \in Seq(Nat) /\ Len(blocks[f]) \in Nat
      BY DEF SlabInv, Shape
    <3> QED  BY <1>1, <3>1, EmptyList
  <2>4. c # -1
    BY KmallocAssumption DEF Classes
  <2>5. Elems(s) \subseteq Frames
    BY <2>1 DEF Elems
  <2> HIDE DEF s
  <2>6. Elems(s) = {f \in SlabPages : order[f] = c /\ FrameZone[f] = z /\ nfree[f] > 0}
    BY Zenon, <2>2, <2>3, <2>4, <2>5 DEF SlabPages
  <2> QED  BY <2>1, <2>6, Zenon DEF Elems, Once, s
<1>3. \A f \in SlabPages : nfree[f] = Len(blocks[f])
  BY Zenon, <1>1 DEF SlabPages
<1> QED  BY <1>2, <1>3, Zenon DEF PageListedIffFree

\* The slab grows only while no page of the class has a listed block.
LEMMA GrowthStep ==
  ASSUME SlabInv, [Next]_vars, free' # free,
         NEW f \in SlabPages, order[f] = slablock.class, FrameZone[f] = slablock.zone,
         NEW b \in BlocksOf(f)
  PROVE  InUse(b)
<1>1. GrowSlab
  <2>1. ASSUME \E p \in Procs, z \in Zones \cup {"DMA32"}, r \in Requests : kmalloc(p, z, r)
        PROVE  free' = free
    BY <2>1, Zenon DEF kmalloc
  <2>2. ASSUME TakeBlock PROVE free' = free
    BY <2>2, Zenon DEF TakeBlock
  <2>3. ASSUME NoPageLeft PROVE free' = free
    BY <2>3, Zenon DEF NoPageLeft
  <2>4. ASSUME \E p \in Procs : \E g \in given[p] : kfree(p, g) PROVE free' = free
    BY <2>4, Zenon DEF kfree
  <2>5. ASSUME \E p \in Procs : LinkFreed(p) PROVE free' = free
    BY <2>5, Zenon DEF LinkFreed
  <2>6. ASSUME UNCHANGED vars PROVE free' = free
    BY <2>6, Zenon DEF vars
  <2> QED  BY <2>1, <2>2, <2>3, <2>4, <2>5, <2>6, Zenon DEF Next
<1>2. firstfree[slablock.zone][slablock.class] = <<>> /\ slablock # NoCall
  BY <1>1, Zenon DEF GrowSlab, InLoop
<1>3. slablock.zone \in Zones /\ slablock.class \in Classes
  BY <1>2, Zenon DEF SlabInv, CallOK, Calls
<1>4. f \in Frames /\ f \notin Elems(firstfree[slablock.zone][slablock.class])
  <2>1. firstfree[slablock.zone][slablock.class] \in Seq(Frames)
    BY <1>3, Zenon DEF SlabInv, Shape
  <2>2. Elems(firstfree[slablock.zone][slablock.class]) = {}
    BY <1>2, <2>1, NoElems, Zenon
  <2> QED  BY <2>2, Zenon DEF SlabPages
<1>5. blocks[f] = <<>>
  BY <1>3, <1>4, Zenon DEF SlabInv, PagesOK
<1>6. b \in AllBlocks /\ b[1] = f
  <2>1. b \in AllBlocks
    BY Zenon DEF AllBlocks
  <2>2. b[1] = f
    BY DEF BlocksOf
  <2> QED  BY <2>1, <2>2, Zenon
<1>7. ~Listed(b)
  <2>1. <<>> \in Seq(Nat)
    OBVIOUS
  <2>2. Elems(<<>>) = {}
    BY <2>1, NoElems, Zenon
  <2> QED  BY <1>5, <1>6, <2>2, Zenon DEF Listed
<1>8. b # NoBlock
  BY <1>6, BlockPairs, Zenon DEF SlabInv
<1>9. CASE \E g : Holders(b) = {g}
  BY <1>9, Zenon DEF Holders, InUse
<1>10. CASE \E p : Freers(b) = {p}
  BY <1>8, <1>10, Zenon DEF Freers, InUse, Marked
<1> QED  BY <1>6, <1>7, <1>9, <1>10, OnePlace, Zenon

----------------------------------------------------------------------------
(* The counters *)

\* The free blocks of a class, in terms of the lists.
OnLists(ord, blks, z, c) ==
  UNION {{<<f, o>> : o \in Elems(blks[f])} : f \in {g \in Frames : ord[g] = c /\ FrameZone[g] = z}}

\* They are what CountersAgree counts, before and after a step.
LEMMA FreeBlocksAre ==
  ASSUME NEW z \in Zones, NEW c \in Classes
  PROVE  /\ FreeBlocks(z, c) = OnLists(order, blocks, z, c)
         /\ FreeBlocks(z, c)' = OnLists(order', blocks', z, c)
<1>1. c # -1
  BY KmallocAssumption DEF Classes
<1>2. FreeBlocks(z, c) = OnLists(order, blocks, z, c)
  BY <1>1 DEF FreeBlocks, OnLists, SlabPages, OnList, Elems
<1>3. FreeBlocks(z, c)' = OnLists(order', blocks', z, c)
  BY <1>1 DEF FreeBlocks, OnLists, SlabPages, OnList, Elems
<1> QED  BY Zenon, <1>2, <1>3

\* The blocks of page f in S are those of its list.
Part(S, f) == \A a : a \in S /\ a[1] = f <=> \E o \in Elems(blocks[f]) : a = <<f, o>>

\* T is S with the blocks of page f replaced by those at E.
Becomes(S, T, f, E) == \A a : a \in T <=> (a \in S /\ a[1] # f) \/ \E o \in E : a = <<f, o>>

\* A step that changes the list of one page changes the free blocks of one
\* class, by the blocks of that page.
LEMMA OnListsHere ==
  ASSUME NEW f, NEW z, NEW c, OfClass(f, z, c), NEW E, BlocksChange(f, E)
  PROVE  Becomes(OnLists(order, blocks, z, c), OnLists(order', blocks', z, c), f, E)
<1>1. /\ f \in Frames /\ FrameZone[f] = z /\ order'[f] = c
      /\ \A e \in Frames : e # f => order'[e] = order[e]
  BY Zenon DEF OfClass
<1>2. Elems(blocks'[f]) = E /\ \A e \in Frames : e # f => blocks'[e] = blocks[e]
  BY Zenon DEF BlocksChange
<1>3. \A a : a \in OnLists(order', blocks', z, c) <=>
        \E e \in Frames : order'[e] = c /\ FrameZone[e] = z /\ \E o \in Elems(blocks'[e]) : a = <<e, o>>
  BY DEF OnLists
<1>4. \A a : a \in OnLists(order, blocks, z, c) <=>
        \E e \in Frames : order[e] = c /\ FrameZone[e] = z /\ \E o \in Elems(blocks[e]) : a = <<e, o>>
  BY DEF OnLists
<1> QED  BY <1>1, <1>2, <1>3, <1>4, SMTT(20) DEF Becomes

\* Those of the other classes stay.
LEMMA OnListsElsewhere ==
  ASSUME NEW f, NEW z, NEW c, OfClass(f, z, c), NEW E, BlocksChange(f, E),
         NEW y \in Zones, NEW d \in Classes, ~(y = z /\ d = c)
  PROVE  OnLists(order', blocks', y, d) = OnLists(order, blocks, y, d)
<1>1. d # -1
  BY KmallocAssumption DEF Classes
<1>2. \A e \in Frames : /\ (order'[e] = d /\ FrameZone[e] = y) => e # f /\ order[e] = d
                        /\ (order[e] = d /\ FrameZone[e] = y) => e # f /\ order'[e] = d
  BY Zenon, <1>1 DEF OfClass
<1>3. \A e \in Frames : e # f => blocks'[e] = blocks[e]
  BY Zenon DEF BlocksChange
<1>4. \A a : a \in OnLists(order', blocks', y, d) <=>
        \E e \in Frames : order'[e] = d /\ FrameZone[e] = y /\ \E o \in Elems(blocks'[e]) : a = <<e, o>>
  BY DEF OnLists
<1>5. \A a : a \in OnLists(order, blocks, y, d) <=>
        \E e \in Frames : order[e] = d /\ FrameZone[e] = y /\ \E o \in Elems(blocks[e]) : a = <<e, o>>
  BY DEF OnLists
<1>6. \A a : a \in OnLists(order', blocks', y, d) <=> a \in OnLists(order, blocks, y, d)
  BY <1>2, <1>3, <1>4, <1>5, SMTT(20)
<1> QED  BY <1>6, Zenon

\* What CountersOK says of one class.
Counted(z, c) ==
  IsFiniteSet(OnLists(order, blocks, z, c)) /\ classfree[z][c] = Cardinality(OnLists(order, blocks, z, c))

\* CountersOK in terms of the lists.
LEMMA CountersAre ==
  /\ CountersOK <=> classfree \in [Zones -> [Classes -> Nat]] /\ \A z \in Zones, c \in Classes : Counted(z, c)
  /\ CountersOK' <=> classfree' \in [Zones -> [Classes -> Nat]] /\ \A z \in Zones, c \in Classes : Counted(z, c)'
<1>1. CountersOK <=> classfree \in [Zones -> [Classes -> Nat]] /\ \A z \in Zones, c \in Classes : Counted(z, c)
  BY Zenon, FreeBlocksAre DEF CountersOK, Counted
<1>2. CountersOK' <=> classfree' \in [Zones -> [Classes -> Nat]] /\ \A z \in Zones, c \in Classes : Counted(z, c)'
  BY Zenon, FreeBlocksAre DEF CountersOK, Counted
<1> QED  BY Zenon, <1>1, <1>2

\* The counter of one class becomes n, and n is the number of its free blocks.
LEMMA CountersStep ==
  ASSUME CountersOK, NEW f, NEW z, NEW c, OfClass(f, z, c), NEW E, BlocksChange(f, E),
         NEW n \in Nat, classfree' = [classfree EXCEPT ![z][c] = n],
         NEW S, OnLists(order', blocks', z, c) = S, IsFiniteSet(S), n = Cardinality(S)
  PROVE  CountersOK'
<1>1. classfree \in [Zones -> [Classes -> Nat]] /\ z \in Zones /\ c \in Classes
  BY Zenon DEF CountersOK, OfClass
<1>2. /\ classfree' \in [Zones -> [Classes -> Nat]] /\ classfree'[z][c] = n
      /\ \A y \in Zones, d \in Classes : ~(y = z /\ d = c) => classfree'[y][d] = classfree[y][d]
  BY Zenon, <1>1
<1>3. Counted(z, c)'
  BY Zenon, <1>2 DEF Counted
<1>4. ASSUME NEW y \in Zones, NEW d \in Classes, ~(y = z /\ d = c)
      PROVE  Counted(y, d)'
  <2>1. OnLists(order', blocks', y, d) = OnLists(order, blocks, y, d)
    BY <1>4, OnListsElsewhere
  <2>2. classfree'[y][d] = classfree[y][d]
    BY Zenon, <1>2, <1>4
  <2>3. Counted(y, d)
    BY CountersAre, Zenon
  <2> QED  BY Zenon, <2>1, <2>2, <2>3 DEF Counted
<1>5. \A y \in Zones, d \in Classes : Counted(y, d)'
  BY <1>3, <1>4, Zenon
<1> QED  BY <1>2, <1>5, CountersAre, Zenon

\* A step that changes no list of blocks.
LEMMA CountersKept ==
  ASSUME CountersOK, order' = order, blocks' = blocks, classfree' = classfree
  PROVE  CountersOK'
<1>1. \A z \in Zones, c \in Classes : Counted(z, c)' = Counted(z, c)
  BY Zenon DEF Counted
<1> QED  BY <1>1, CountersAre, Zenon

\* The counter of the class is the number of elements of S.
CountedBy(z, c, S) ==
  /\ classfree \in [Zones -> [Classes -> Nat]] /\ z \in Zones /\ c \in Classes
  /\ IsFiniteSet(S) /\ classfree[z][c] = Cardinality(S) /\ classfree[z][c] \in Nat

\* What the counter of a class counts, and the part of one page in it.
LEMMA ClassCount ==
  ASSUME CountersOK, NEW f, NEW z, NEW c, OfClass(f, z, c), NEW S, S = OnLists(order, blocks, z, c)
  PROVE  /\ CountedBy(z, c, S) /\ (order[f] = c => Part(S, f))
         /\ order[f] = -1 => \A a \in S : a[1] # f
<1>1. z \in Zones /\ c \in Classes /\ f \in Frames /\ FrameZone[f] = z
  BY Zenon DEF OfClass
<1>2. classfree \in [Zones -> [Classes -> Nat]] /\ Counted(z, c)
  BY <1>1, CountersAre, Zenon
<1>3. classfree[z][c] \in Nat
  BY Zenon, <1>1, <1>2
<1>4. order[f] = c => Part(S, f)
  BY <1>1 DEF OnLists, Part
<1>5. order[f] = -1 => \A a \in S : a[1] # f
  <2>1. c # -1
    BY <1>1, KmallocAssumption DEF Classes
  <2> QED  BY <2>1 DEF OnLists
<1> QED  BY <1>1, <1>2, <1>3, <1>4, <1>5, Zenon DEF Counted, CountedBy

\* The cardinality of a set with one element more, one less, and of a union.
Cardinalities ==
  /\ \A S, x : IsFiniteSet(S) /\ x \notin S =>
       IsFiniteSet(S \cup {x}) /\ Cardinality(S \cup {x}) = Cardinality(S) + 1
  /\ \A S, x : IsFiniteSet(S) /\ x \in S =>
       IsFiniteSet(S \ {x}) /\ Cardinality(S \ {x}) = Cardinality(S) - 1 /\ Cardinality(S \ {x}) \in Nat
  /\ \A S, T : IsFiniteSet(S) /\ IsFiniteSet(T) /\ S \cap T = {} =>
       IsFiniteSet(S \cup T) /\ Cardinality(S \cup T) = Cardinality(S) + Cardinality(T)
  /\ \A f, c : c \in Classes => IsFiniteSet(Cuts(f, c)) /\ Cardinality(Cuts(f, c)) = NBLOCKS(c)

\* Linking a block adds it to the blocks of the class.
LEMMA LinkingCounted ==
  ASSUME Cardinalities, SlabInv, CountersOK,
         NEW p, NEW b, NEW f, NEW z, NEW c, Linking(p, b, f, z, c)
  PROVE  CountersOK'
<1>1. PICK S : S = OnLists(order, blocks, z, c)
  BY Zenon
<1>2. OfClass(f, z, c) /\ order[f] = c /\ BlocksChange(f, Elems(blocks[f]) \cup {b[2]})
  BY Zenon DEF Linking
<1>3. ~Listed(b) /\ b = <<f, b[2]>>
  BY Zenon DEF Linking
<1>4. CountedBy(z, c, S) /\ Part(S, f)
  BY <1>1, <1>2, ClassCount, Zenon
<1>5. b \notin S
  BY <1>3, <1>4 DEF Listed, Part
<1>6. PICK T : T = OnLists(order', blocks', z, c)
  BY Zenon
<1>7. T = S \cup {b}
  <2>1. Becomes(S, T, f, Elems(blocks[f]) \cup {b[2]})
    BY <1>1, <1>2, <1>6, OnListsHere, Zenon
  <2> QED  BY Zenon, <1>3, <1>4, <2>1 DEF Part, Becomes
<1>8. IsFiniteSet(S \cup {b}) /\ Cardinality(S \cup {b}) = classfree[z][c] + 1
  BY <1>4, <1>5, Zenon DEF Cardinalities, CountedBy
<1>9. PICK n \in Nat : n = classfree[z][c] + 1
  BY <1>4 DEF CountedBy
<1>10. classfree' = [classfree EXCEPT ![z][c] = n]
  <2>1. classfree' = [classfree EXCEPT ![z][c] = @ + 1]
    BY Zenon DEF Linking
  <2> QED  BY Zenon, <1>4, <1>9, <2>1 DEF CountedBy
<1> QED  BY <1>2, <1>6, <1>7, <1>8, <1>9, <1>10, CountersStep, Zenon

\* Taking a block takes it away.
LEMMA TakingCounted ==
  ASSUME Cardinalities, SlabInv, CountersOK,
         NEW p, NEW b, NEW f, NEW z, NEW c, NEW g, Taking(p, b, f, z, c, g)
  PROVE  CountersOK'
<1>1. PICK S : S = OnLists(order, blocks, z, c)
  BY Zenon
<1>2. OfClass(f, z, c) /\ order[f] = c /\ BlocksChange(f, Elems(blocks[f]) \ {b[2]})
  BY Zenon DEF Taking
<1>3. Listed(b) /\ b[1] = f /\ b = <<f, b[2]>>
  <2>1. Listed(b) /\ b[1] = f /\ b \in AllBlocks
    BY Zenon DEF Taking
  <2> QED  BY Zenon, <2>1, BlockPairs DEF SlabInv
<1>4. CountedBy(z, c, S) /\ Part(S, f)
  BY <1>1, <1>2, ClassCount, Zenon
<1>5. b \in S
  BY Zenon, <1>3, <1>4 DEF Listed, Part
<1>6. PICK T : T = OnLists(order', blocks', z, c)
  BY Zenon
<1>7. T = S \ {b}
  <2>1. Becomes(S, T, f, Elems(blocks[f]) \ {b[2]})
    BY <1>1, <1>2, <1>6, OnListsHere, Zenon
  <2> QED  BY <1>3, <1>4, <2>1 DEF Part, Becomes
<1>8. /\ IsFiniteSet(S \ {b}) /\ Cardinality(S \ {b}) = classfree[z][c] - 1
      /\ Cardinality(S \ {b}) \in Nat
  BY <1>4, <1>5, Zenon DEF Cardinalities, CountedBy
<1>9. PICK n \in Nat : n = classfree[z][c] - 1
  BY Zenon, <1>8
<1>10. classfree' = [classfree EXCEPT ![z][c] = n]
  <2>1. classfree' = [classfree EXCEPT ![z][c] = @ - 1]
    BY Zenon DEF Taking
  <2> QED  BY Zenon, <1>4, <1>9, <2>1 DEF CountedBy
<1> QED  BY <1>2, <1>6, <1>7, <1>8, <1>9, <1>10, CountersStep, Zenon

\* Growing adds the blocks of a page that had none.
LEMMA GrowingCounted ==
  ASSUME Cardinalities, SlabInv, CountersOK, NEW f, NEW z, NEW c, Growing(f, z, c)
  PROVE  CountersOK'
<1>1. PICK S : S = OnLists(order, blocks, z, c)
  BY Zenon
<1>2. PICK E : E = {Offset(c, i) : i \in 1..NBLOCKS(c)}
  BY Zenon
<1>3. PICK C : C = Cuts(f, c)
  BY Zenon
<1>4. OfClass(f, z, c) /\ BlocksChange(f, E) /\ order[f] = -1
  BY <1>2, Zenon DEF Growing
<1>5. CountedBy(z, c, S) /\ \A a \in S : a[1] # f
  BY <1>1, <1>4, ClassCount, Zenon
<1>6. IsFiniteSet(C) /\ Cardinality(C) = NBLOCKS(c)
  BY <1>3, <1>5, Zenon DEF Cardinalities, CountedBy
<1>7. \A a : a \in C <=> \E o \in E : a = <<f, o>>
  BY Zenon, <1>2, <1>3 DEF Cuts
<1>8. PICK T : T = OnLists(order', blocks', z, c)
  BY Zenon
<1>9. T = S \cup C
  <2>1. Becomes(S, T, f, E)
    BY <1>1, <1>4, <1>8, OnListsHere, Zenon
  <2> QED  BY Zenon, <1>5, <1>7, <2>1 DEF Becomes
<1>10. S \cap C = {}
  BY <1>5, <1>7
<1>11. IsFiniteSet(S \cup C) /\ Cardinality(S \cup C) = classfree[z][c] + NBLOCKS(c)
  <2>1. IsFiniteSet(S \cup C) /\ Cardinality(S \cup C) = Cardinality(S) + Cardinality(C)
    BY <1>5, <1>6, <1>10, Zenon DEF Cardinalities, CountedBy
  <2> QED  BY <1>5, <1>6, <2>1, Zenon DEF CountedBy
<1>12. NBLOCKS(c) \in Nat
  BY <1>5, ClassSizes, Zenon DEF CountedBy
<1>13. PICK n \in Nat : n = classfree[z][c] + NBLOCKS(c)
  BY <1>5, <1>12 DEF CountedBy
<1>14. classfree' = [classfree EXCEPT ![z][c] = n]
  <2>1. classfree' = [classfree EXCEPT ![z][c] = @ + NBLOCKS(c)]
    BY Zenon DEF Growing
  <2> QED  BY Zenon, <1>5, <1>13, <2>1 DEF CountedBy
<1> QED  BY <1>4, <1>8, <1>9, <1>11, <1>13, <1>14, CountersStep, Zenon

\* The counters, whatever the step.
LEMMA CounterStep ==
  ASSUME Cardinalities, SlabInv, CountersOK, [Next]_vars
  PROVE  CountersOK'
<1>1. CASE \/ \E p \in Procs, z \in Zones \cup {"DMA32"}, r \in Requests : kmalloc(p, z, r)
           \/ NoPageLeft \/ UNCHANGED vars
  <2>1. order' = order /\ blocks' = blocks /\ classfree' = classfree
    BY <1>1, Zenon DEF kmalloc, NoPageLeft, vars, slabVars
  <2> QED  BY <2>1, CountersKept, Zenon
<1>2. CASE \E p \in Procs : \E g \in given[p] : kfree(p, g)
  <2>1. order' = order /\ blocks' = blocks /\ classfree' = classfree
    BY <1>2, Zenon DEF kfree
  <2> QED  BY <2>1, CountersKept, Zenon
<1>3. CASE TakeBlock
  BY <1>3, TakeBlockTakes, TakingCounted, Zenon
<1>4. CASE GrowSlab
  BY <1>4, GrowSlabGrows, GrowingCounted, Zenon
<1>5. CASE \E p \in Procs : LinkFreed(p)
  BY <1>5, LinkFreedLinks, LinkingCounted, Zenon
<1> QED  BY <1>1, <1>2, <1>3, <1>4, <1>5, Zenon DEF Next

----------------------------------------------------------------------------
(* Least elements and cardinalities *)

FST == INSTANCE FiniteSetTheorems

\* The instance is about the same finite sets and cardinalities.
LEMMA SameSets ==
  /\ \A S : FST!IsFiniteSet(S) <=> IsFiniteSet(S)
  /\ \A S : FST!Cardinality(S) = Cardinality(S)
<1>1. ASSUME NEW S PROVE FST!IsFiniteSet(S) <=> IsFiniteSet(S)
  BY Zenon DEF FST!IsFiniteSet, IsFiniteSet
<1>2. ASSUME NEW S PROVE FST!Cardinality(S) = Cardinality(S)
  BY Zenon DEF FST!Cardinality, Cardinality
<1> QED  BY <1>1, <1>2, Zenon

\* A set of natural numbers has a least element.
LEMMA Least ==
  ASSUME NEW T \in SUBSET Nat, T # {}
  PROVE  \E n \in T : \A m \in T : n <= m
<1> DEFINE R == {ss \in Nat \X Nat : ss[1] < ss[2]}
<1>1. FST!IsWellFoundedOn(R, Nat)
  BY Zenon, FST!NatLessThanWellFounded DEF FST!OpToRel
<1> HIDE DEF R
<1>2. PICK n \in T : \A m \in T : ~(<<m, n>> \in R)
  BY <1>1, FST!WFMin, Zenon
<1>3. n \in Nat /\ \A m \in T : ~(m < n) /\ m \in Nat
  BY <1>2, Zenon DEF R
<1> QED  BY <1>2, <1>3

\* get_order returns the smallest class that fits.
LEMMA get_order_Fits == OrderFits
<1> SUFFICES ASSUME NEW n \in Nat, get_order(n) # NoClass
             PROVE  get_order(n) \in Classes /\ n + HdrSize <= BLOCKSIZE(get_order(n))
  BY Zenon DEF OrderFits
<1>1. PICK fits : fits = {c \in Classes : n + HdrSize <= BLOCKSIZE(c)}
  BY Zenon
<1>2. fits # {} /\ get_order(n) = Min(fits)
  BY Zenon, <1>1 DEF get_order
<1>3. fits \in SUBSET Nat
  BY <1>1, KmallocAssumption DEF Classes
<1>4. \E x \in fits : \A y \in fits : x <= y
  BY <1>2, <1>3, Least, Zenon
<1>5. Min(fits) \in fits
  BY Zenon, <1>4 DEF Min
<1> QED  BY <1>1, <1>2, <1>5

\* L is the set of the N blocks that s lists for page f, each once.
Lists(s, N, f, L) ==
  N \in Nat /\ L = {<<f, s[i]>> : i \in 1..N} /\ \A i, j \in 1..N : s[i] = s[j] => i = j

\* A list without repetition has as many elements as places.
LEMMA CountOnce ==
  ASSUME NEW s, NEW N, NEW f, NEW L, Lists(s, N, f, L)
  PROVE  IsFiniteSet(L) /\ Cardinality(L) = N
<1> DEFINE F == [i \in 1..N |-> <<f, s[i]>>]
<1>1. F \in FST!Bijection(1..N, L) /\ N \in Nat
  BY Zenon DEF Lists, FST!Bijection, FST!Injection, FST!IsInjective, FST!Surjection
<1>2. FST!ExistsBijection(1..N, L)
  BY <1>1, Zenon DEF FST!ExistsBijection
<1>3. FST!IsFiniteSet(L) /\ FST!Cardinality(L) = N
  BY <1>1, <1>2, FST!FS_CountingElements, FST!FS_NatBijection
<1> QED  BY <1>3, SameSets, Zenon

\* The blocks of a page are NBLOCKS many.
LEMMA CutsCounted ==
  ASSUME NEW c \in Classes, NEW f
  PROVE  IsFiniteSet(Cuts(f, c)) /\ Cardinality(Cuts(f, c)) = NBLOCKS(c)
<1>1. PICK s : s = OffsetsOf(c)
  BY Zenon
<1>2. PICK N : N = NBLOCKS(c)
  BY Zenon
<1>3. Len(s) = N /\ Once(s) /\ Cuts(f, c) = {<<f, s[i]>> : i \in 1..N} /\ N \in Nat
  BY <1>1, <1>2, NewPageList, ClassSizes, Zenon
<1>4. Lists(s, N, f, Cuts(f, c))
  BY <1>3, Zenon DEF Lists, Once
<1> QED  BY <1>2, <1>4, CountOnce, Zenon

\* The cardinalities the counters rest on.
LEMMA CardinalitiesHold == Cardinalities
<1>1. ASSUME NEW S, NEW x, IsFiniteSet(S), x \notin S
      PROVE  IsFiniteSet(S \cup {x}) /\ Cardinality(S \cup {x}) = Cardinality(S) + 1
  BY <1>1, SameSets, FST!FS_AddElement, Zenon
<1>2. ASSUME NEW S, NEW x, IsFiniteSet(S), x \in S
      PROVE  /\ IsFiniteSet(S \ {x}) /\ Cardinality(S \ {x}) = Cardinality(S) - 1
             /\ Cardinality(S \ {x}) \in Nat
  BY <1>2, SameSets, FST!FS_RemoveElement, FST!FS_CardinalityType, Zenon
<1>3. ASSUME NEW S, NEW T, IsFiniteSet(S), IsFiniteSet(T), S \cap T = {}
      PROVE  IsFiniteSet(S \cup T) /\ Cardinality(S \cup T) = Cardinality(S) + Cardinality(T)
  <2>1. /\ IsFiniteSet(S \cup T)
        /\ Cardinality(S \cup T) = Cardinality(S) + Cardinality(T) - Cardinality(S \cap T)
    BY <1>3, SameSets, FST!FS_Union, Zenon
  <2>2. Cardinality(S \cap T) = 0
    BY <1>3, SameSets, FST!FS_EmptySet, Zenon
  <2>3. Cardinality(S) \in Nat /\ Cardinality(T) \in Nat
    BY <1>3, SameSets, FST!FS_CardinalityType, Zenon
  <2> QED  BY <2>1, <2>2, <2>3
<1>4. ASSUME NEW f, NEW c, c \in Classes
      PROVE  IsFiniteSet(Cuts(f, c)) /\ Cardinality(Cuts(f, c)) = NBLOCKS(c)
  BY <1>4, CutsCounted, Zenon
<1> QED  BY <1>1, <1>2, <1>3, <1>4, Zenon DEF Cardinalities

----------------------------------------------------------------------------
(* The theorems *)

\* At the start the counters are 0 and the lists empty.
LEMMA InvInit == Init => Inv
<1> SUFFICES ASSUME Init PROVE CountersOK
  BY SlabInit, Zenon DEF Inv
<1>1. order = [f \in Frames |-> -1] /\ classfree = [z \in Zones |-> [c \in Classes |-> 0]]
  BY Zenon DEF Init
<1>2. SlabPages = {}
  BY Zenon, <1>1 DEF SlabPages
<1>3. \A z, c : FreeBlocks(z, c) = {}
  BY Zenon, <1>2 DEF FreeBlocks
<1>4. IsFiniteSet({}) /\ Cardinality({}) = 0
  BY SameSets, FST!FS_EmptySet, Zenon
<1>5. classfree \in [Zones -> [Classes -> Nat]] /\ \A z \in Zones, c \in Classes : classfree[z][c] = 0
  BY Zenon, <1>1
<1> QED  BY <1>3, <1>4, <1>5, Zenon DEF CountersOK

\* The inductive invariant, for every number of callers, frames and classes:
\* whatever the callers are in the middle of, every block is in one place.
THEOREM Invariance == Spec => []Inv
<1>1. ASSUME Inv, [Next]_vars PROVE Inv'
  BY <1>1, get_order_Fits, CardinalitiesHold, SlabStep, CounterStep, Zenon DEF Inv
<1> QED  BY InvInit, <1>1, PTL DEF Spec

\* Every block is counted in one place.
LEMMA InvBlocks ==
  ASSUME SlabInv
  PROVE  EveryBlockOnce
<1>1. \A f \in SlabPages : Cardinality(OnList(f)) = Len(blocks[f])
  <2>1. \A f \in SlabPages : Len(blocks[f]) \in Nat /\ Once(blocks[f])
    BY DEF SlabInv, Shape, FreeOK, SlabPages
  <2>2. \A f \in SlabPages : Lists(blocks[f], Len(blocks[f]), f, OnList(f))
    BY <2>1, Zenon DEF Lists, Once, OnList
  <2> QED  BY <2>2, CountOnce, Zenon
<1>2. ASSUME NEW b \in AllBlocks
      PROVE  LET holders == Cardinality({g \in Given : g.blk = b})
                 marking == Cardinality({p \in Procs : freeing[p] = b})
                 listed == IF b \in OnList(b[1]) THEN 1 ELSE 0
             IN holders + marking + listed = 1 /\ (b \in freeflag <=> holders = 0)
  <2>1. PICK H : H = Holders(b)
    BY Zenon
  <2>2. PICK M : M = Freers(b)
    BY Zenon
  <2>3. PICK on : on = (IF b \in OnList(b[1]) THEN 1 ELSE 0)
    BY Zenon
  <2>4. /\ b \in OnList(b[1]) <=> Listed(b)
        /\ \/ b \notin freeflag /\ ~Listed(b) /\ M = {} /\ \E g : H = {g}
           \/ b \in freeflag /\ Listed(b) /\ M = {} /\ H = {}
           \/ b \in freeflag /\ ~Listed(b) /\ H = {} /\ \E p : M = {p}
    BY <2>1, <2>2, OnePlace, Zenon
  <2>5. Cardinality({}) = 0 /\ \A x : Cardinality({x}) = 1
    BY SameSets, FST!FS_EmptySet, FST!FS_Singleton, Zenon
  <2>6. \/ b \notin freeflag /\ Cardinality(H) = 1 /\ Cardinality(M) = 0 /\ on = 0
        \/ b \in freeflag /\ Cardinality(H) = 0 /\ Cardinality(M) = 0 /\ on = 1
        \/ b \in freeflag /\ Cardinality(H) = 0 /\ Cardinality(M) = 1 /\ on = 0
    BY <2>3, <2>4, <2>5, Zenon
  <2>7. Cardinality(H) + Cardinality(M) + on = 1 /\ (b \in freeflag <=> Cardinality(H) = 0)
    BY <2>6, SMTT(20)
  <2> QED  BY <2>1, <2>2, <2>3, <2>7, Zenon DEF Holders, Freers
<1>3. panic \notin {"page->firstfree is not free!", "Try to free a FREE block ??"}
  BY Zenon DEF SlabInv, NoFalsePanic
<1> QED  BY <1>1, <1>2, <1>3, Zenon DEF EveryBlockOnce

\* What two callers hold never overlaps, and no object reaches the header of a
\* block: the bytes kmalloc and kmalloc_aligned give out are the caller's alone.
THEOREM ObjectsAreAlwaysDisjoint == Spec => []ObjectsDisjoint
BY Invariance, InvObjects, PTL DEF Inv

\* Blocks, flags, lists of blocks, lists of pages and counters of the slabs
\* always agree, in the middle of a kfree too.
THEOREM SlabIsAlwaysConsistent == Spec => []SlabIsConsistent
<1>1. ASSUME Inv PROVE SlabIsConsistent
  <2>1. SlabInv /\ CountersOK
    BY <1>1, Zenon DEF Inv
  <2>2. CountersAgree
    BY <2>1, Zenon DEF CountersOK, CountersAgree
  <2> QED  BY <2>1, <2>2, Types, PagesListed, InvBlocks, Zenon DEF SlabIsConsistent
<1> QED  BY Invariance, <1>1, PTL

\* The tries of kmalloc never run out.
THEOREM TriesAreAlwaysEnough == Spec => []GivesUpOnlyWithoutMemory
<1>1. Inv => GivesUpOnlyWithoutMemory
  BY Zenon DEF Inv, SlabInv, NoFalsePanic, GivesUpOnlyWithoutMemory
<1> QED  BY Invariance, <1>1, PTL

\* kmalloc takes a page from the page allocator only while no block of the class
\* and zone is free: a page that has been full is found again as soon as one of
\* its blocks is freed, so none is lost.
THEOREM AlwaysGrowsOnlyWhenFull == Spec => GrowsOnlyWhenFull
<1>1. ASSUME Inv, [Next]_vars
      PROVE  [free' # free =>
                \A f \in SlabPages :
                  order[f] = slablock.class /\ FrameZone[f] = slablock.zone =>
                    \A b \in BlocksOf(f) : InUse(b)]_vars
  BY <1>1, GrowthStep, Zenon DEF Inv
<1> QED  BY Invariance, <1>1, PTL DEF Spec, GrowsOnlyWhenFull

=============================================================================
