---------------------------- MODULE Buddy_proofs ----------------------------
(***************************************************************************)
(* Proofs about Buddy, for any memory map, any number of page frames and   *)
(* any largest order: free lists and callers' blocks share out exactly the *)
(* released memory at every step, free buddies are merged, an allocation   *)
(* fails only when it must, and the allocator implements PageAllocator.    *)
(* First the lemmas about the operators Buddy is built from: buddies and   *)
(* their alignment, list_add and list_del, and what merging, splitting and *)
(* releasing does to a set of blocks that shares out memory; then the      *)
(* inductive invariant, and its preservation one action at a time.         *)
(***************************************************************************)
EXTENDS Buddy, TLAPS

LOCAL INSTANCE WellFoundedInduction

----------------------------------------------------------------------------
(* Numbers.                                                                *)

\* Induction on the natural numbers, as their well-ordering.
LEMMA Least ==
  ASSUME NEW T \in SUBSET Nat, T # {}
  PROVE  \E n \in T : \A m \in T : n <= m
<1> DEFINE R == {ss \in Nat \X Nat : ss[1] < ss[2]}
<1>1. IsWellFoundedOn(R, Nat)
  BY Zenon, NatLessThanWellFounded DEF OpToRel
<1> HIDE DEF R
<1>2. PICK n \in T : \A m \in T : ~(<<m, n>> \in R)
  BY Zenon, <1>1, WFMin
<1>3. \A m \in T : ~(m < n)
  BY Zenon, <1>2 DEF R
<1> QED BY <1>2, <1>3

\* Every block holds at least one page frame.
LEMMA SizeIsPositive == \A o \in 0..(MAXORDER + 1) : Size[o] \in Nat \ {0}
<1> DEFINE T == {o \in 0..(MAXORDER + 1) : Size[o] = 0}
<1>1. T \in SUBSET Nat
  BY BuddyAssumption
<1>2. ASSUME T # {} PROVE FALSE
  <2>1. PICK n \in T : \A m \in T : n <= m
    BY Zenon, <1>1, <1>2, Least
  <2>2. n # 0
    BY BuddyAssumption, <2>1
  <2>3. n - 1 \in Orders /\ n - 1 \notin T
    BY BuddyAssumption, <2>1, <2>2 DEF Orders
  <2>4. Size[n - 1] \in Nat /\ Size[n - 1] # 0 /\ Size[(n - 1) + 1] = 2 * Size[n - 1]
    BY BuddyAssumption, <2>3 DEF Orders
  <2> QED BY <2>1, <2>4
<1> QED BY Zenon, <1>2, BuddyAssumption

\* The remainder is what is left of a multiple.
LEMMA Remainder ==
  ASSUME NEW p \in Nat, NEW m \in Nat \ {0}, NEW q \in Nat, NEW r \in 0..(m - 1), p = m * q + r
  PROVE  p % m = r
OBVIOUS

\* Division with remainder.
LEMMA Quotient ==
  ASSUME NEW p \in Nat, NEW m \in Nat \ {0}
  PROVE  p \div m \in Nat /\ p % m \in 0..(m - 1) /\ p = m * (p \div m) + (p % m)
OBVIOUS

\* An aligned block is the lower or the upper half of one of twice its size.
LEMMA Halves ==
  ASSUME NEW p \in Nat, NEW m \in Nat \ {0}, p % m = 0
  PROVE  /\ p % (2 * m) \in {0, m}
         /\ p % (2 * m) = m => p >= m /\ (p - m) % (2 * m) = 0 /\ (p - m) % m = 0
         /\ p % (2 * m) = 0 => (p + m) % (2 * m) = m /\ (p + m) % m = 0
<1>1. PICK k \in Nat : p = m * k
  <2>1. p \div m \in Nat /\ p = m * (p \div m) + (p % m)
    BY Zenon, Quotient
  <2> QED BY <2>1
<1>2. PICK j \in Nat : k = 2 * j \/ k = 2 * j + 1
  <2>1. k = 2 * (k \div 2) + (k % 2) /\ k \div 2 \in Nat /\ k % 2 \in {0, 1}
    OBVIOUS
  <2> QED BY <2>1
<1>3. 2 * m \in Nat \ {0} /\ 0 \in 0..(2 * m - 1) /\ m \in 0..(2 * m - 1) /\ 0 \in 0..(m - 1)
  OBVIOUS
<1>4. CASE k = 2 * j
  <2>1. p = (2 * m) * j + 0 /\ p + m = (2 * m) * j + m /\ p + m = m * (k + 1) + 0
    BY <1>1, <1>4
  <2>2. p % (2 * m) = 0 /\ (p + m) % (2 * m) = m /\ (p + m) % m = 0
    BY <2>1, <1>3, Remainder
  <2> QED BY Zenon, <2>2
<1>5. CASE k = 2 * j + 1
  <2>1. p = (2 * m) * j + m /\ p - m = (2 * m) * j + 0 /\ p - m = m * (2 * j) + 0 /\ p - m \in Nat
    BY <1>1, <1>5
  <2>2. p % (2 * m) = m /\ (p - m) % (2 * m) = 0 /\ (p - m) % m = 0
    BY <2>1, <1>3, Remainder
  <2> QED BY <2>1, <2>2
<1> QED BY Zenon, <1>2, <1>4, <1>5

\* A multiple of twice the size is one of the size.
LEMMA Coarser ==
  ASSUME NEW p \in Nat, NEW m \in Nat \ {0}, p % (2 * m) = 0
  PROVE  p % m = 0
<1>1. PICK k \in Nat : p = (2 * m) * k
  <2> DEFINE n == 2 * m
  <2>1. n \in Nat \ {0}
    OBVIOUS
  <2> HIDE DEF n
  <2>2. p \div n \in Nat /\ p = n * (p \div n) + (p % n)
    BY Zenon, <2>1, Quotient
  <2>3. p = n * (p \div n)
    BY <2>1, <2>2 DEF n
  <2> QED BY Zenon, <2>2, <2>3 DEF n
<1>2. p = m * (2 * k) + 0 /\ 0 \in 0..(m - 1)
  BY <1>1
<1> QED BY <1>2, Remainder

\* What idx % (1<<(order+1)) tells _addToBuddyFreeList: the buddy of an aligned
\* block is the other half of the block of twice the size, and its own buddy is
\* the block.
LEMMA BuddyFacts ==
  ASSUME NEW p \in Nat, NEW o \in Orders, p % Size[o] = 0
  PROVE  /\ BuddyIdx(p, o) \in Nat /\ BuddyIdx(p, o) % Size[o] = 0
         /\ BuddyIdx(p, o) # p /\ BuddyIdx(BuddyIdx(p, o), o) = p
         /\ p % Size[o + 1] = 0 =>
              BuddyIdx(p, o) = p + Size[o] /\ BuddyIdx(p, o) % Size[o + 1] # 0
         /\ p % Size[o + 1] # 0 =>
              BuddyIdx(p, o) = p - Size[o] /\ BuddyIdx(p, o) % Size[o + 1] = 0
<1>1. /\ Size[o] \in Nat \ {0} /\ Size[o + 1] = 2 * Size[o]
      /\ o + 1 \in 0..(MAXORDER + 1) /\ o \in 0..(MAXORDER + 1)
  BY BuddyAssumption, SizeIsPositive DEF Orders
<1> DEFINE m == Size[o]
<1> HIDE DEF m
<1>2. m \in Nat \ {0} /\ p % m = 0
  BY Zenon, <1>1 DEF m
<1>3. CASE p % (2 * m) = 0
  <2>1. (p + m) % (2 * m) = m /\ (p + m) % m = 0
    BY Zenon, <1>2, <1>3, Halves
  <2>2. BuddyIdx(p, o) = p + m
    BY Zenon, <1>1, <1>3 DEF BuddyIdx, m
  <2>3. BuddyIdx(p + m, o) = p
    BY <1>1, <1>2, <2>1 DEF BuddyIdx, m
  <2> QED BY <1>1, <1>2, <1>3, <2>1, <2>2, <2>3 DEF m
<1>4. CASE p % (2 * m) # 0
  <2>1. p % (2 * m) = m /\ p >= m /\ (p - m) % (2 * m) = 0 /\ (p - m) % m = 0
    BY Zenon, <1>2, <1>4, Halves
  <2>2. BuddyIdx(p, o) = p - m
    BY Zenon, <1>1, <1>4, <2>1 DEF BuddyIdx, m
  <2>3. BuddyIdx(p - m, o) = p
    BY <1>1, <1>2, <2>1 DEF BuddyIdx, m
  <2> QED BY <1>1, <1>2, <1>4, <2>1, <2>2, <2>3 DEF m
<1> QED BY Zenon, <1>3, <1>4

----------------------------------------------------------------------------
(* The lists of include/list.h.                                            *)

NoDup(s) == \A i, j \in DOMAIN s : s[i] = s[j] => i = j

\* list_del takes out one element and keeps the rest.
LEMMA UnlinkFacts ==
  ASSUME NEW S, NEW s \in Seq(S), NEW p, NoDup(s)
  PROVE  /\ Unlink(s, p) \in Seq(S) /\ NoDup(Unlink(s, p))
         /\ ElementsOf(Unlink(s, p)) = ElementsOf(s) \ {p}
<1>1. CASE p \notin ElementsOf(s)
  <2>1. Unlink(s, p) = s
    BY Zenon, <1>1 DEF Unlink
  <2> QED BY Zenon, <1>1, <2>1
<1>2. CASE p \in ElementsOf(s)
  <2> DEFINE k == CHOOSE i \in DOMAIN s : s[i] = p
             n == Len(s) - 1
             t == [i \in 1..n |-> IF i < k THEN s[i] ELSE s[i + 1]]
  <2>1. DOMAIN s = 1..Len(s) /\ Len(s) \in Nat /\ \A i \in 1..Len(s) : s[i] \in S
    OBVIOUS
  <2>2. k \in 1..Len(s) /\ s[k] = p
    BY Zenon, <1>2, <2>1 DEF ElementsOf
  <2>3. Unlink(s, p) = t
    BY Zenon, <1>2 DEF Unlink
  <2> HIDE DEF k
  <2>4. n \in Nat /\ \A i \in 1..n : t[i] \in S
    BY <2>1, <2>2
  <2>5. t \in Seq(S) /\ DOMAIN t = 1..n
    BY <2>4
  <2>6. NoDup(t)
    BY <2>1, <2>2, <2>5 DEF NoDup
  <2>7. ASSUME NEW x \in ElementsOf(t) PROVE x \in ElementsOf(s) \ {p}
    <3>1. PICK i \in 1..n : x = t[i]
      BY Zenon, <2>5 DEF ElementsOf
    <3> QED BY <3>1, <2>1, <2>2 DEF NoDup, ElementsOf
  <2>8. ASSUME NEW x \in ElementsOf(s) \ {p} PROVE x \in ElementsOf(t)
    <3>1. PICK i \in 1..Len(s) : x = s[i] /\ i # k
      BY Zenon, <2>1, <2>2 DEF ElementsOf
    <3>2. CASE i < k
      <4>1. i \in 1..n /\ t[i] = x
        BY <3>1, <3>2, <2>1, <2>2
      <4> QED BY Zenon, <4>1, <2>5 DEF ElementsOf
    <3>3. CASE i > k
      <4>1. i - 1 \in 1..n /\ t[i - 1] = x
        BY <3>1, <3>3, <2>1, <2>2
      <4> QED BY Zenon, <4>1, <2>5 DEF ElementsOf
    <3> QED BY <3>1, <3>2, <3>3, <2>1, <2>2
  <2> HIDE DEF t
  <2> QED BY Zenon, <2>3, <2>5, <2>6, <2>7, <2>8
<1> QED BY Zenon, <1>1, <1>2

\* list_add puts a new element in front.
LEMMA PushFacts ==
  ASSUME NEW S, NEW s \in Seq(S), NEW p \in S, NoDup(s), p \notin ElementsOf(s)
  PROVE  /\ <<p>> \o s \in Seq(S) /\ NoDup(<<p>> \o s)
         /\ ElementsOf(<<p>> \o s) = ElementsOf(s) \cup {p}
<1> DEFINE t == <<p>> \o s
<1>1. DOMAIN s = 1..Len(s) /\ Len(s) \in Nat
  OBVIOUS
<1>2. /\ t \in Seq(S) /\ DOMAIN t = 1..(Len(s) + 1)
      /\ t[1] = p /\ \A i \in 1..Len(s) : t[i + 1] = s[i]
  BY <1>1
<1> HIDE DEF t
<1>3. \A i \in DOMAIN t : i = 1 \/ (i - 1 \in 1..Len(s) /\ t[i] = s[i - 1])
  <2> TAKE i \in DOMAIN t
  <2>1. i = 1 \/ i - 1 \in 1..Len(s)
    BY <1>1, <1>2
  <2>2. i - 1 \in 1..Len(s) => t[(i - 1) + 1] = s[i - 1]
    BY Zenon, <1>2
  <2> QED BY <2>1, <2>2, <1>1, <1>2
<1>4. NoDup(t)
  <2> SUFFICES ASSUME NEW i \in DOMAIN t, NEW j \in DOMAIN t, t[i] = t[j] PROVE i = j
    BY Zenon DEF NoDup
  <2>1. i \in Nat /\ j \in Nat
    BY <1>1, <1>2
  <2> QED BY <1>1, <1>2, <1>3, <2>1 DEF NoDup, ElementsOf
<1>5. ElementsOf(t) = ElementsOf(s) \cup {p}
  <2>1. \A x \in ElementsOf(t) : x = p \/ x \in ElementsOf(s)
    BY <1>1, <1>2, <1>3 DEF ElementsOf
  <2>2. \A x \in ElementsOf(s) : x \in ElementsOf(t)
    <3> SUFFICES ASSUME NEW i \in 1..Len(s) PROVE s[i] \in ElementsOf(t)
      BY Zenon, <1>1 DEF ElementsOf
    <3> QED BY <1>1, <1>2 DEF ElementsOf
  <2>3. p \in ElementsOf(t)
    BY <1>1, <1>2 DEF ElementsOf
  <2> QED BY Zenon, <2>1, <2>2, <2>3
<1> QED BY Zenon, <1>2, <1>4, <1>5 DEF t

\* A set of free lists in which no list holds a page twice, and the pages on
\* one of its lists.
ListsOf(fl) == /\ fl \in [Zones -> [Orders -> Seq(Pages)]]
               /\ \A z \in Zones, o \in Orders : NoDup(fl[z][o])

On(fl, z, o) == ElementsOf(fl[z][o])

\* list_del takes a page off every list of its zone, and changes no other list.
LEMMA list_del_Facts ==
  ASSUME NEW fl, ListsOf(fl), NEW p \in Pages, zone \in [Pages -> Zones],
         \A z \in Zones, o \in Orders : p \in On(fl, z, o) => z = zone[p]
  PROVE  /\ ListsOf(list_del(fl, p))
         /\ \A z \in Zones, o \in Orders : On(list_del(fl, p), z, o) = On(fl, z, o) \ {p}
<1> DEFINE fd == list_del(fl, p)
<1>1. zone[p] \in Zones
  OBVIOUS
<1>2. \A z \in Zones, o \in Orders :
        fd[z][o] = IF z = zone[p] THEN Unlink(fl[z][o], p) ELSE fl[z][o]
  BY Zenon, <1>1 DEF list_del, ListsOf
<1>3. \A z \in Zones, o \in Orders : fl[z][o] \in Seq(Pages) /\ NoDup(fl[z][o])
  BY Zenon DEF ListsOf
<1>4. \A z \in Zones, o \in Orders :
        /\ Unlink(fl[z][o], p) \in Seq(Pages) /\ NoDup(Unlink(fl[z][o], p))
        /\ ElementsOf(Unlink(fl[z][o], p)) = ElementsOf(fl[z][o]) \ {p}
  BY Zenon, <1>3, UnlinkFacts
<1>5. fd \in [Zones -> [Orders -> Seq(Pages)]]
  BY Zenon, <1>1, <1>3, <1>4 DEF list_del, ListsOf
<1> HIDE DEF fd
<1>6. \A z \in Zones, o \in Orders : NoDup(fd[z][o])
  BY <1>2, <1>3, <1>4
<1>7. \A z \in Zones, o \in Orders : On(fd, z, o) = On(fl, z, o) \ {p}
  <2> TAKE z \in Zones, o \in Orders
  <2>1. CASE z = zone[p]
    BY Zenon, <2>1, <1>2, <1>4 DEF On
  <2>2. CASE z # zone[p]
    <3>1. fd[z][o] = fl[z][o] /\ p \notin On(fl, z, o)
      BY Zenon, <2>2, <1>2
    <3> QED BY Zenon, <3>1 DEF On
  <2> QED BY Zenon, <2>1, <2>2
<1> QED BY Zenon, <1>5, <1>6, <1>7 DEF ListsOf, fd

\* list_add puts a page on one list, and changes no other.
LEMMA list_add_Facts ==
  ASSUME NEW fl, ListsOf(fl), NEW p \in Pages, NEW z \in Zones, NEW o \in Orders,
         p \notin On(fl, z, o)
  PROVE  /\ ListsOf(list_add(fl, z, o, p))
         /\ \A y \in Zones, k \in Orders :
              On(list_add(fl, z, o, p), y, k) =
                IF y = z /\ k = o THEN On(fl, y, k) \cup {p} ELSE On(fl, y, k)
<1> DEFINE fa == list_add(fl, z, o, p)
<1>1. \A y \in Zones, k \in Orders : fl[y][k] \in Seq(Pages) /\ NoDup(fl[y][k])
  BY Zenon DEF ListsOf
<1>2. /\ <<p>> \o fl[z][o] \in Seq(Pages) /\ NoDup(<<p>> \o fl[z][o])
      /\ ElementsOf(<<p>> \o fl[z][o]) = ElementsOf(fl[z][o]) \cup {p}
  BY <1>1, PushFacts DEF On
<1>3. \A y \in Zones, k \in Orders :
        fa[y][k] = IF y = z /\ k = o THEN <<p>> \o fl[z][o] ELSE fl[y][k]
  BY Zenon DEF list_add, ListsOf
<1>4. fa \in [Zones -> [Orders -> Seq(Pages)]]
  BY Zenon, <1>1, <1>2 DEF list_add, ListsOf
<1> HIDE DEF fa
<1>5. \A y \in Zones, k \in Orders : NoDup(fa[y][k])
  BY Zenon, <1>1, <1>2, <1>3
<1>6. \A y \in Zones, k \in Orders :
        On(fa, y, k) = IF y = z /\ k = o THEN On(fl, y, k) \cup {p} ELSE On(fl, y, k)
  BY Zenon, <1>2, <1>3 DEF On
<1> QED BY Zenon, <1>4, <1>5, <1>6 DEF ListsOf, fa

----------------------------------------------------------------------------
(* Blocks.                                                                 *)

\* The blocks that start at the frames of H, with the sizes given by ord, share
\* out the frames of R: each is aligned and lies in one zone of zn.
Partition(H, ord, R, zn) ==
  /\ \A p \in H : p \in Pages /\ ord[p] \in Orders /\ p % Size[ord[p]] = 0
  /\ \A p \in H : \A x \in Block(p, ord[p]) : x \in R /\ zn[x] = zn[p]
  /\ \A x \in R : \E p \in H : x \in Block(p, ord[p])
  /\ \A p, q \in H : \A x \in Block(p, ord[p]) : x \in Block(q, ord[q]) => p = q

\* The size of a block, and the frames in it.
LEMMA SizeFacts ==
  ASSUME NEW o \in Orders
  PROVE  /\ Size[o] \in Nat \ {0} /\ Size[o + 1] = 2 * Size[o]
         /\ \A p \in Nat : p \in Block(p, o)
         /\ \A p \in Nat : \A x : x \in Block(p, o) <=> x \in Int /\ p <= x /\ x < p + Size[o]
<1>1. Size[o] \in Nat \ {0} /\ Size[o + 1] = 2 * Size[o]
  BY BuddyAssumption, SizeIsPositive DEF Orders
<1> QED BY <1>1 DEF Block

\* The orders beside an order.
LEMMA OrderFacts ==
  ASSUME NEW o \in Orders
  PROVE  /\ o < MAXORDER => o + 1 \in Orders
         /\ o > 0 => o - 1 \in Orders /\ o = (o - 1) + 1
  BY BuddyAssumption DEF Orders

\* The order below the one a split starts from.
LEMMA OrderBelow ==
  ASSUME NEW k \in Orders, NEW w \in Orders, k > w
  PROVE  k - 1 \in Orders /\ k > 0 /\ w <= k - 1 /\ k - 1 # k
<1>1. MAXORDER \in Nat
  BY Zenon, BuddyAssumption
<1> QED BY <1>1 DEF Orders

\* The orders at which blocks merge.
LEMMA LowOrders == \A o \in 0..(MAXORDER - 1) : o \in Orders /\ o < MAXORDER
<1>1. MAXORDER \in Nat
  BY Zenon, BuddyAssumption
<1> QED BY <1>1 DEF Orders

\* The two halves of a block make it up and do not overlap.
LEMMA HalvesOfBlock ==
  ASSUME NEW p \in Nat, NEW o \in Orders, o + 1 \in Orders
  PROVE  /\ \A x : x \in Block(p, o + 1) <=> x \in Block(p, o) \/ x \in Block(p + Size[o], o)
         /\ ~\E x : x \in Block(p, o) /\ x \in Block(p + Size[o], o)
<1>1. /\ Size[o] \in Nat \ {0} /\ Size[o + 1] = 2 * Size[o]
      /\ \A x : x \in Block(p, o) <=> x \in Int /\ p <= x /\ x < p + Size[o]
  BY Zenon, SizeFacts
<1>2. p + Size[o] \in Nat
  BY <1>1
<1>3. \A x : x \in Block(p + Size[o], o) <=>
               x \in Int /\ p + Size[o] <= x /\ x < p + Size[o] + Size[o]
  BY Zenon, <1>2, SizeFacts
<1>4. \A x : x \in Block(p, o + 1) <=> x \in Int /\ p <= x /\ x < p + Size[o + 1]
  BY Zenon, SizeFacts
<1> QED BY <1>1, <1>3, <1>4

\* Page frames are numbers.
LEMMA PagesAreNat == Pages \subseteq Nat
  BY BuddyAssumption DEF Pages

\* A block contains its first frame.
LEMMA HeadIsInside ==
  ASSUME NEW H, NEW ord, NEW R, NEW zn, Partition(H, ord, R, zn), NEW p \in H
  PROVE  p \in Block(p, ord[p]) /\ p \in R
<1>1. p \in Nat /\ ord[p] \in Orders
  BY Zenon, PagesAreNat DEF Partition
<1>2. p \in Block(p, ord[p])
  BY Zenon, <1>1, SizeFacts
<1> QED BY Zenon, <1>2 DEF Partition

\* A block of a positive order is aligned to its half as well.
LEMMA PartitionAligned ==
  ASSUME NEW H, NEW ord, NEW R, NEW zn, Partition(H, ord, R, zn), NEW p \in H, ord[p] > 0
  PROVE  p % Size[(ord[p] - 1) + 1] = 0 /\ p % Size[ord[p] - 1] = 0
<1> DEFINE o == ord[p] - 1
<1>1. ord[p] \in Orders /\ p \in Nat /\ p % Size[ord[p]] = 0
  BY Zenon, PagesAreNat DEF Partition
<1>2. ord[p] = o + 1 /\ o \in Orders
  BY Zenon, <1>1, OrderFacts
<1> HIDE DEF o
<1>3. Size[o + 1] = 2 * Size[o] /\ Size[o] \in Nat \ {0}
  BY Zenon, <1>2, SizeFacts
<1>4. p % Size[o] = 0
  BY Zenon, <1>1, <1>2, <1>3, Coarser
<1> QED BY Zenon, <1>1, <1>2, <1>4 DEF o

\* Blocks that share out memory cover it.
LEMMA PartitionIsUnion ==
  ASSUME NEW H, NEW ord, NEW R, NEW zn, Partition(H, ord, R, zn)
  PROVE  UNION {Block(p, ord[p]) : p \in H} = R
  BY DEF Partition

\* Some of the blocks share out what they cover.
LEMMA SubPartition ==
  ASSUME NEW H, NEW ord, NEW R, NEW zn, Partition(H, ord, R, zn), NEW G \in SUBSET H
  PROVE  Partition(G, ord, UNION {Block(p, ord[p]) : p \in G}, zn)
  BY DEF Partition

\* Two buddies become one block of twice the size (_addToBuddyFreeList).
MergedInto(H, ord, zn, low, high, o, new) ==
  /\ low \in H /\ high \in H /\ o \in Orders /\ o + 1 \in Orders
  /\ ord[low] = o /\ ord[high] = o /\ zn[high] = zn[low]
  /\ high = low + Size[o] /\ low % Size[o + 1] = 0
  /\ new[low] = o + 1 /\ \A p \in H : p # low /\ p # high => new[p] = ord[p]

\* Two halves that merge share out the same memory as before.
LEMMA PartitionMerged ==
  ASSUME NEW H, NEW ord, NEW R, NEW zn, NEW low, NEW high, NEW o, NEW new,
         Partition(H, ord, R, zn), MergedInto(H, ord, zn, low, high, o, new)
  PROVE  Partition(H \ {high}, new, R, zn)
<1>0. /\ low \in H /\ high \in H /\ o \in Orders /\ o + 1 \in Orders
      /\ ord[low] = o /\ ord[high] = o /\ zn[high] = zn[low]
      /\ high = low + Size[o] /\ low % Size[o + 1] = 0
      /\ new[low] = o + 1 /\ \A p \in H : p # low /\ p # high => new[p] = ord[p]
  BY Zenon DEF MergedInto
<1> USE <1>0
<1> DEFINE G == H \ {low, high}
<1>1. low \in Nat /\ high \in Nat
  BY Zenon, PagesAreNat DEF Partition
<1>2. low # high
  BY <1>1, SizeFacts
<1>3. \A x : x \in Block(low, o + 1) <=> x \in Block(low, o) \/ x \in Block(high, o)
  BY Zenon, <1>1, HalvesOfBlock
<1>4. \A p \in H \ {high} : new[p] \in Orders /\ p % Size[new[p]] = 0 /\ p \in Pages
  BY Zenon DEF Partition
<1>5. \A p \in G : p \in H /\ p # low /\ p # high /\ Block(p, new[p]) = Block(p, ord[p])
  OBVIOUS
<1>6. Block(low, new[low]) = Block(low, o + 1)
  OBVIOUS
<1>7. \A p \in H \ {high} : p = low \/ p \in G
  OBVIOUS
<1> HIDE DEF G
<1>8. \A p \in H \ {high} : \A x \in Block(p, new[p]) : x \in R /\ zn[x] = zn[p]
  BY <1>3, <1>5, <1>6, <1>7 DEF Partition
<1>9. \A x \in R : \E p \in H \ {high} : x \in Block(p, new[p])
  <2> SUFFICES ASSUME NEW x \in R PROVE \E p \in H \ {high} : x \in Block(p, new[p])
    OBVIOUS
  <2>1. PICK p \in H : x \in Block(p, ord[p])
    BY Zenon DEF Partition
  <2>2. CASE p \in {low, high}
    BY Zenon, <1>2, <1>3, <1>6, <2>1, <2>2
  <2>3. CASE p \notin {low, high}
    BY Zenon, <1>5, <2>1, <2>3 DEF G
  <2> QED BY Zenon, <2>2, <2>3
<1>10. \A p, q \in G : \A x \in Block(p, new[p]) : x \in Block(q, new[q]) => p = q
  BY Zenon, <1>5 DEF Partition
<1>11. \A p \in G : \A x \in Block(p, new[p]) : x \notin Block(low, new[low])
  BY Zenon, <1>3, <1>5, <1>6 DEF Partition
<1>12. \A p, q \in H \ {high} : \A x \in Block(p, new[p]) : x \in Block(q, new[q]) => p = q
  BY <1>7, <1>10, <1>11
<1> QED BY Zenon, <1>4, <1>8, <1>9, <1>12 DEF Partition

\* A block becomes its two halves (_findFreePageInBuddy).
SplitInto(H, ord, p, q, o, new) ==
  /\ p \in H /\ o \in Orders /\ ord[p] = o + 1 /\ q = p + Size[o]
  /\ new[p] = o /\ new[q] = o /\ \A r \in H : r # p /\ r # q => new[r] = ord[r]

\* So do the two halves of a block that is split.
LEMMA PartitionSplit ==
  ASSUME NEW H, NEW ord, NEW R, NEW zn, NEW p, NEW q, NEW o, NEW new,
         Partition(H, ord, R, zn), R \subseteq Pages, SplitInto(H, ord, p, q, o, new)
  PROVE  /\ q \in Block(p, ord[p]) /\ q \notin H /\ q > p
         /\ Partition(H \cup {q}, new, R, zn)
<1>0. /\ p \in H /\ o \in Orders /\ ord[p] = o + 1 /\ q = p + Size[o]
      /\ new[p] = o /\ new[q] = o /\ \A r \in H : r # p /\ r # q => new[r] = ord[r]
  BY Zenon DEF SplitInto
<1> USE <1>0
<1>1. o + 1 \in Orders /\ p \in Nat /\ p % Size[o + 1] = 0
  <2>1. p \in Pages /\ ord[p] \in Orders /\ p % Size[ord[p]] = 0
    BY Zenon DEF Partition
  <2> QED BY Zenon, <2>1, PagesAreNat
<1>2. Size[o + 1] = 2 * Size[o] /\ Size[o] \in Nat \ {0}
  BY Zenon, <1>1, SizeFacts
<1>3. p % Size[o] = 0
  BY Zenon, <1>1, <1>2, Coarser
<1>4. q \in Nat /\ q > p /\ q % Size[o] = 0
  <2>1. p % (2 * Size[o]) = 0
    BY Zenon, <1>1, <1>2
  <2>2. (p + Size[o]) % Size[o] = 0
    BY Zenon, <1>1, <1>2, <1>3, <2>1, Halves
  <2> QED BY <1>1, <1>2, <2>2
<1>5. \A x : x \in Block(p, o + 1) <=> x \in Block(p, o) \/ x \in Block(q, o)
  BY Zenon, <1>1, HalvesOfBlock
<1>6. ~\E x : x \in Block(p, o) /\ x \in Block(q, o)
  BY Zenon, <1>1, HalvesOfBlock
<1>7. q \in Block(p, o + 1) /\ q \in Block(q, o)
  BY Zenon, <1>1, <1>4, <1>5, SizeFacts
<1>8. q \in R /\ zn[q] = zn[p] /\ q \in Pages
  BY Zenon, <1>1, <1>7 DEF Partition
<1>9. q \notin H
  <2> SUFFICES ASSUME q \in H PROVE FALSE
    OBVIOUS
  <2>1. q \in Block(q, ord[q]) /\ q \in Block(p, ord[p])
    BY Zenon, <1>1, <1>7, HeadIsInside
  <2>2. q = p
    BY Zenon, <2>1 DEF Partition
  <2> QED BY <1>1, <1>4, <2>2
<1>10. \A r \in H \ {p} : Block(r, new[r]) = Block(r, ord[r])
  BY Zenon, <1>9
<1>11. Block(p, new[p]) = Block(p, o) /\ Block(q, new[q]) = Block(q, o)
  OBVIOUS
<1>12. \A r \in H \cup {q} : r \in Pages /\ new[r] \in Orders /\ r % Size[new[r]] = 0
  BY Zenon, <1>1, <1>3, <1>4, <1>8, <1>9 DEF Partition
<1>13. \A r \in H \cup {q} : \A x \in Block(r, new[r]) : x \in R /\ zn[x] = zn[r]
  BY <1>1, <1>5, <1>8, <1>9, <1>10, <1>11 DEF Partition
<1>14. \A x \in R : \E r \in H \cup {q} : x \in Block(r, new[r])
  BY <1>1, <1>5, <1>10, <1>11 DEF Partition
<1>15. \A r, s \in H \cup {q} : \A x \in Block(r, new[r]) : x \in Block(s, new[s]) => r = s
  <2>1. \A r, s \in H : \A x \in Block(r, new[r]) : x \in Block(s, new[s]) => r = s
    BY <1>1, <1>5, <1>10, <1>11 DEF Partition
  <2>2. \A r \in H : \A x \in Block(r, new[r]) : x \notin Block(q, new[q])
    BY Zenon, <1>1, <1>5, <1>6, <1>10, <1>11 DEF Partition
  <2> QED BY <2>1, <2>2
<1> QED BY Zenon, <1>1, <1>3, <1>4, <1>7, <1>9, <1>12, <1>13, <1>14, <1>15 DEF Partition

\* Fresh frames become a block (phys_freepages_low).
ReleasedInto(H, ord, R, zn, w, o, new) ==
  /\ w \in Pages /\ o \in Orders /\ w % Size[o] = 0
  /\ \A x \in Block(w, o) : x \notin R /\ zn[x] = zn[w]
  /\ new[w] = o /\ \A p \in H : new[p] = ord[p]

\* A block of frames released adds those frames and no others.
LEMMA PartitionReleased ==
  ASSUME NEW H, NEW ord, NEW R, NEW zn, NEW w, NEW o, NEW new,
         Partition(H, ord, R, zn), ReleasedInto(H, ord, R, zn, w, o, new)
  PROVE  w \notin H /\ Partition(H \cup {w}, new, R \cup Block(w, o), zn)
<1>0. /\ w \in Pages /\ o \in Orders /\ w % Size[o] = 0
      /\ \A x \in Block(w, o) : x \notin R /\ zn[x] = zn[w]
      /\ new[w] = o /\ \A p \in H : new[p] = ord[p]
  BY Zenon DEF ReleasedInto
<1> USE <1>0
<1>1. w \notin H
  BY Zenon, HeadIsInside, SizeFacts, PagesAreNat
<1>2. \A p \in H : Block(p, new[p]) = Block(p, ord[p])
  OBVIOUS
<1>3. Block(w, new[w]) = Block(w, o)
  OBVIOUS
<1> QED BY Zenon, <1>1, <1>2, <1>3 DEF Partition

----------------------------------------------------------------------------
(* The inductive invariant.                                                *)

\* Exactly the frames the memory map left free are ever free or held, and
\* phys_freepages_low has not touched the frames ahead of it.
FramesOK ==
  /\ walk \in 0..(MaxPfn + 1)
  /\ \A p \in Pages : usecount[p] \in {0, 1} <=> p \in usable
  /\ \A p \in Pages : p >= walk => usecount[p] # 1 /\ order[p] = 0

\* A page on a free list is there once, is of the list's zone and order and is
\* not in use.
ListsOK ==
  /\ ListsOf(freelist)
  /\ \A z \in Zones, o \in Orders : \A p \in On(freelist, z, o) :
       zone[p] = z /\ order[p] = o /\ usecount[p] = 0

BlocksOK == Partition(Heads, order, Released, zone)

\* How far the operation in progress has come.  The block it merges is on no
\* list; the one it splits is still on its list, and when that is the block at
\* frame 0 it heads the first list that was not empty.
OpOK ==
  /\ op.at = "merge" =>
       /\ order[op.page] = op.order /\ usecount[op.page] = 0 /\ op.page \notin FreeHeads
  /\ op.at = "split" =>
       /\ op.page \in On(freelist, zone[op.page], op.order) /\ op.want <= op.order
       /\ zone[op.page] \in AllocZones
       /\ op.page = 0 =>
            /\ Head(freelist[zone[0]][op.order]) = 0
            /\ \A k \in op.want..(op.order - 1) : freelist[zone[0]][k] = <<>>

\* Two free buddies side by side are the halves of the block being split.
Merged ==
  op.at # "oom" =>
  \A z \in Zones : \A o \in 0..(MAXORDER - 1) : \A p \in On(freelist, z, o) :
    BuddyIdx(p, o) \in On(freelist, z, o) =>
      op.at = "split" /\ op.order = o /\ op.page \in {p, BuddyIdx(p, o)}

BuddyInv ==
  TypeOK /\ FramesOK /\ ListsOK /\ BlocksOK /\ OpOK /\ Merged /\ OutOfMemoryIsReal

\* What the operation in progress is made of.
LEMMA OpFacts ==
  ASSUME TypeOK
  PROVE  /\ op = Idle <=> op.at = "idle"
         /\ op.at \in {"idle", "merge", "split", "oom"}
         /\ op.at = "merge" => /\ op.page \in Pages /\ op.order \in Orders
                               /\ op \in [at : {"merge"}, page : Pages, order : Orders]
         /\ op.at = "split" =>
              /\ op.page \in Pages /\ op.order \in Orders /\ op.want \in Orders
              /\ op \in [at : {"split"}, page : Pages, order : Orders, want : Orders]
         /\ op.at = "oom" => op.zone \in Zones /\ op.want \in Orders
  BY DEF TypeOK, Idle

\* Where the pages on the free lists are.
LEMMA ListFacts ==
  ASSUME BuddyInv
  PROVE  /\ Heads \subseteq Pages /\ Heads \subseteq Released /\ Released \subseteq Pages
         /\ \A z \in Zones, o \in Orders : \A p \in On(freelist, z, o) :
              /\ p \in FreeHeads /\ p \in Heads /\ p \in Nat /\ p % Size[o] = 0
              /\ zone[p] = z /\ order[p] = o /\ usecount[p] = 0
         /\ \A p \in FreeHeads : p \in On(freelist, zone[p], order[p]) /\ usecount[p] = 0
         /\ \A p \in HeldHeads : p \notin FreeHeads /\ p \notin MovingHeads
         /\ \A p \in MovingHeads : p \notin FreeHeads
<1> USE DEF BuddyInv
<1>1. Heads \subseteq Pages /\ Heads \subseteq Released /\ Released \subseteq Pages
  <2>1. \A p \in Heads : p \in Released /\ p \in Pages
    <3>1. Partition(Heads, order, Released, zone)
      BY Zenon DEF BlocksOK
    <3>2. \A p \in Heads : p \in Pages
      BY Zenon, <3>1 DEF Partition
    <3> QED BY Zenon, <3>1, <3>2, HeadIsInside
  <2> QED BY Zenon, <2>1 DEF Released, TypeOK
<1>2. ASSUME NEW z \in Zones, NEW o \in Orders, NEW p \in On(freelist, z, o)
      PROVE  /\ p \in FreeHeads /\ p \in Heads /\ p \in Nat /\ p % Size[o] = 0
             /\ zone[p] = z /\ order[p] = o /\ usecount[p] = 0
  <2>1. zone[p] = z /\ order[p] = o /\ usecount[p] = 0
    BY <1>2 DEF ListsOK
  <2>2. p \in Pages
    <3>1. freelist[z][o] \in Seq(Pages)
      BY DEF TypeOK
    <3> QED BY <1>2, <3>1 DEF On, ElementsOf
  <2>3. p \in FreeHeads
    BY Zenon, <1>2, <2>1, <2>2 DEF FreeHeads, On
  <2>4. p \in Heads
    BY Zenon, <2>3 DEF Heads
  <2>5. p % Size[order[p]] = 0
    BY Zenon, <2>4 DEF BlocksOK, Partition
  <2> QED BY Zenon, <2>1, <2>2, <2>3, <2>4, <2>5, PagesAreNat
<1>3. ASSUME NEW p \in FreeHeads
      PROVE  p \in On(freelist, zone[p], order[p]) /\ usecount[p] = 0
  <2>1. PICK o \in Orders : p \in On(freelist, zone[p], o)
    BY Zenon DEF FreeHeads, On
  <2>2. zone[p] \in Zones
    BY Zenon DEF FreeHeads, TypeOK
  <2>3. order[p] = o /\ usecount[p] = 0
    BY <2>1, <2>2 DEF ListsOK
  <2> QED BY Zenon, <2>1, <2>3
<1>4. \A p \in MovingHeads : p \notin FreeHeads /\ usecount[p] = 0
  BY Zenon DEF MovingHeads, OpOK
<1>5. \A p \in HeldHeads : p \notin FreeHeads /\ p \notin MovingHeads
  BY <1>3, <1>4 DEF HeldHeads
<1> QED BY Zenon, <1>1, <1>2, <1>3, <1>4, <1>5

\* phys_freepages_low is past every frame it released.
LEMMA ReleasedIsPassed ==
  ASSUME BuddyInv, NEW p \in Released
  PROVE  p \in usable /\ p \in Pages /\ ~(p >= walk)
<1>1. p \in usable /\ p < walk
  BY Zenon DEF Released
<1>2. usable \subseteq Pages /\ walk \in Nat
  BY Zenon DEF BuddyInv, TypeOK
<1> QED BY <1>1, <1>2, PagesAreNat

\* The pages that are on a list of fl.
HeadsIn(fl) == {p \in Pages : \E o \in Orders : p \in On(fl, zone[p], o)}

\* The free blocks after a step are those on the new lists.
LEMMA FreeHeadsAfter == zone' = zone => FreeHeads' = HeadsIn(freelist')
  BY Zenon DEF FreeHeads, HeadsIn, On

\* list_del of a page takes it off its list, list_add puts it on one.
LEMMA AfterDel ==
  ASSUME BuddyInv, NEW p \in Pages
  PROVE  /\ ListsOf(list_del(freelist, p))
         /\ \A z \in Zones, o \in Orders : \A x :
              x \in On(list_del(freelist, p), z, o) <=> x \in On(freelist, z, o) /\ x # p
         /\ HeadsIn(list_del(freelist, p)) = FreeHeads \ {p}
<1> DEFINE fd == list_del(freelist, p)
<1>1. zone \in [Pages -> Zones] /\ ListsOf(freelist)
  BY Zenon DEF BuddyInv, TypeOK, ListsOK
<1>2. \A z \in Zones, o \in Orders : p \in On(freelist, z, o) => z = zone[p]
  BY Zenon, ListFacts
<1>3. ListsOf(fd) /\ \A z \in Zones, o \in Orders : On(fd, z, o) = On(freelist, z, o) \ {p}
  BY Zenon, <1>1, <1>2, list_del_Facts
<1> HIDE DEF fd
<1>4. \A z \in Zones, o \in Orders : \A x :
        x \in On(fd, z, o) <=> x \in On(freelist, z, o) /\ x # p
  BY Zenon, <1>3
<1>5. HeadsIn(fd) = FreeHeads \ {p}
  BY Zenon, <1>1, <1>4 DEF HeadsIn, FreeHeads, On
<1> QED BY Zenon, <1>3, <1>4, <1>5 DEF fd

\* The lists, and the blocks on them, after list_add.
LEMMA AfterAdd ==
  ASSUME NEW fl, ListsOf(fl), NEW p \in Pages, NEW o \in Orders, zone \in [Pages -> Zones],
         p \notin On(fl, zone[p], o)
  PROVE  /\ ListsOf(list_add(fl, zone[p], o, p))
         /\ \A z \in Zones, k \in Orders : \A x :
              x \in On(list_add(fl, zone[p], o, p), z, k) <=>
                x \in On(fl, z, k) \/ (x = p /\ z = zone[p] /\ k = o)
         /\ HeadsIn(list_add(fl, zone[p], o, p)) = HeadsIn(fl) \cup {p}
<1> DEFINE fa == list_add(fl, zone[p], o, p)
<1>1. zone[p] \in Zones
  OBVIOUS
<1>2. ListsOf(fa) /\ \A z \in Zones, k \in Orders :
        On(fa, z, k) = IF z = zone[p] /\ k = o THEN On(fl, z, k) \cup {p} ELSE On(fl, z, k)
  BY <1>1, list_add_Facts
<1> HIDE DEF fa
<1>3. \A z \in Zones, k \in Orders : \A x :
        x \in On(fa, z, k) <=> x \in On(fl, z, k) \/ (x = p /\ z = zone[p] /\ k = o)
  BY Zenon, <1>2
<1>4. HeadsIn(fa) = HeadsIn(fl) \cup {p}
  BY Zenon, <1>1, <1>3 DEF HeadsIn
<1> QED BY Zenon, <1>2, <1>3, <1>4 DEF fa

\* A step that leaves the blocks alone keeps them a partition.
LEMMA SameBlocks ==
  ASSUME BuddyInv, Heads' = Heads, Released' = Released, zone' = zone,
         \A p \in Heads : order'[p] = order[p]
  PROVE  BlocksOK'
<1>1. Partition(Heads, order, Released, zone)
  BY Zenon DEF BuddyInv, BlocksOK
<1>2. Partition(Heads, order', Released, zone)
  BY Zenon, <1>1 DEF Partition
<1> QED BY Zenon, <1>2 DEF BlocksOK

\* When the free blocks and the held ones stay, so does what PageAllocator sees.
LEMMA SameFrames ==
  ASSUME FreeHeads' \cup MovingHeads' = FreeHeads \cup MovingHeads, HeldHeads' = HeldHeads,
         order' = order
  PROVE  FreeFrames' = FreeFrames /\ HeldBlocks' = HeldBlocks
  BY Zenon DEF FreeFrames, HeldBlocks, Block

----------------------------------------------------------------------------
(* The steps that only change the operation in progress.                   *)

\* The head of a list is on it.
LEMMA HeadIsOnList ==
  ASSUME BuddyInv, NEW z \in Zones, NEW k \in Orders, freelist[z][k] # <<>>
  PROVE  Head(freelist[z][k]) \in On(freelist, z, k)
<1>1. freelist[z][k] \in Seq(Pages)
  BY DEF BuddyInv, TypeOK
<1>2. Head(freelist[z][k]) = freelist[z][k][1] /\ 1 \in DOMAIN freelist[z][k]
  BY <1>1
<1> QED BY Zenon, <1>2 DEF On, ElementsOf

\* A step that only changes op (and panic), from and to a state in which no
\* block is being merged.
LEMMA OnlyOpStep ==
  ASSUME BuddyInv, UNCHANGED <<mapVars, freelist, order, usecount, walk>>,
         MovingHeads = {}, MovingHeads' = {},
         op' = Idle \/ op' \in [at : {"split"}, page : Pages, order : Orders, want : Orders]
           \/ op' \in [at : {"oom"}, zone : Zones, want : Orders],
         OpOK', Merged', OutOfMemoryIsReal'
  PROVE  BuddyInv' /\ FreeFrames' = FreeFrames /\ HeldBlocks' = HeldBlocks
<1>1. /\ zone' = zone /\ segment' = segment /\ usable' = usable /\ freelist' = freelist
      /\ order' = order /\ usecount' = usecount /\ walk' = walk
  BY Zenon DEF mapVars
<1>2. /\ FreeHeads' = FreeHeads /\ HeldHeads' = HeldHeads /\ Heads' = Heads
      /\ Released' = Released
  BY Zenon, <1>1 DEF FreeHeads, HeldHeads, Heads, Released
<1>3. TypeOK'
  BY Zenon, <1>1 DEF BuddyInv, TypeOK
<1>4. FramesOK' /\ ListsOK'
  BY <1>1 DEF BuddyInv, FramesOK, ListsOK
<1>5. BlocksOK'
  BY Zenon, <1>1, <1>2, SameBlocks
<1>6. FreeFrames' = FreeFrames /\ HeldBlocks' = HeldBlocks
  BY Zenon, <1>1, <1>2, SameFrames
<1> QED BY Zenon, <1>3, <1>4, <1>5, <1>6 DEF BuddyInv

\* _alloc_pages_byorder finds a block or panics: it keeps the invariant and every block.
LEMMA alloc_Step ==
  ASSUME BuddyInv, NEW z \in AllocZones, NEW o \in Orders, _alloc_pages_byorder(z, o)
  PROVE  BuddyInv' /\ FreeFrames' = FreeFrames /\ HeldBlocks' = HeldBlocks
<1>1. op = Idle /\ UNCHANGED <<mapVars, freelist, order, usecount, walk>> /\ z \in Zones
  BY Zenon DEF _alloc_pages_byorder, AllocZones, Zones
<1>2. freelist' = freelist /\ zone' = zone /\ MovingHeads = {}
  BY Zenon, <1>1 DEF mapVars, MovingHeads, Idle
<1>3. CASE Levels(z, o) = {}
  <2>1. op' = [at |-> "oom", zone |-> z, want |-> o]
    BY Zenon, <1>3 DEF _alloc_pages_byorder
  <2>2. OutOfMemoryIsReal'
    BY Zenon, <1>2, <1>3, <2>1 DEF OutOfMemoryIsReal, Levels
  <2>3. OpOK' /\ Merged' /\ MovingHeads' = {}
    BY Zenon, <2>1 DEF OpOK, Merged, MovingHeads
  <2>4. op' \in [at : {"oom"}, zone : Zones, want : Orders]
    BY Zenon, <1>1, <2>1
  <2> QED BY Zenon, <1>1, <1>2, <2>2, <2>3, <2>4, OnlyOpStep
<1>4. CASE Levels(z, o) # {}
  <2> DEFINE h(k) == Head(freelist[z][k])
  <2>1. PICK k \in Levels(z, o) :
          /\ \A j \in Levels(z, o) : k <= j
          /\ op' = [at |-> "split", page |-> h(k), order |-> k, want |-> o]
    BY Zenon, <1>4 DEF _alloc_pages_byorder
  <2>2. k \in Orders /\ o <= k /\ freelist[z][k] # <<>>
    <3>1. k \in o..MAXORDER /\ freelist[z][k] # <<>>
      BY Zenon DEF Levels
    <3> QED BY <3>1, BuddyAssumption DEF Orders
  <2>3. h(k) \in On(freelist, z, k)
    BY Zenon, <1>1, <2>2, HeadIsOnList
  <2>4. zone[h(k)] = z /\ h(k) \in Pages
    BY Zenon, <1>1, <2>2, <2>3, ListFacts
  <2>5. \A j \in o..(k - 1) : freelist[z][j] = <<>>
    <3> SUFFICES ASSUME NEW j \in o..(k - 1), freelist[z][j] # <<>> PROVE FALSE
      OBVIOUS
    <3>1. j \in o..MAXORDER /\ ~(k <= j)
      <4>1. MAXORDER \in Nat /\ o \in Nat /\ k \in Nat /\ k <= MAXORDER
        BY <2>2, BuddyAssumption DEF Orders
      <4> QED BY <4>1
    <3> QED BY Zenon, <2>1, <3>1 DEF Levels
  <2>6. OpOK'
    <3>1. /\ op'.at = "split" /\ op'.page = h(k) /\ op'.order = k /\ op'.want = o
      BY Zenon, <2>1
    <3>2. h(k) = 0 => Head(freelist[zone[0]][k]) = 0 /\ zone[0] = z
      BY Zenon, <2>4
    <3> HIDE DEF h
    <3> QED BY Zenon, <1>2, <2>2, <2>3, <2>4, <2>5, <3>1, <3>2 DEF OpOK
  <2>7. OutOfMemoryIsReal' /\ MovingHeads' = {}
    BY Zenon, <2>1 DEF OutOfMemoryIsReal, MovingHeads
  <2>8. Merged'
    BY Zenon, <1>1, <1>2 DEF BuddyInv, Merged, Idle
  <2>9. op' \in [at : {"split"}, page : Pages, order : Orders, want : Orders]
    BY Zenon, <2>1, <2>2, <2>4
  <2> QED BY Zenon, <1>1, <1>2, <2>6, <2>7, <2>8, <2>9, OnlyOpStep
<1> QED BY Zenon, <1>3, <1>4

\* So does the search that takes frame 0 for a failure.
LEMMA SplitOfFrameZeroStep ==
  ASSUME BuddyInv, SplitOfFrameZero
  PROVE  BuddyInv' /\ FreeFrames' = FreeFrames /\ HeldBlocks' = HeldBlocks
<1> DEFINE z == zone[0]
           k == op.order
           o == op.want
<1>1. /\ op.at = "split" /\ k > o /\ op.page = 0
      /\ op' = [at |-> "oom", zone |-> z, want |-> o]
      /\ UNCHANGED <<mapVars, freelist, order, usecount, walk>>
  BY Zenon DEF SplitOfFrameZero
<1>2. k \in Orders /\ o \in Orders /\ 0 \in Pages
  BY Zenon, <1>1, OpFacts DEF BuddyInv
<1>3. z \in Zones /\ freelist' = freelist
  BY Zenon, <1>1, <1>2 DEF BuddyInv, TypeOK
<1>4. /\ 0 \in On(freelist, z, k) /\ Head(freelist[z][k]) = 0
      /\ \A j \in o..(k - 1) : freelist[z][j] = <<>>
  BY Zenon, <1>1 DEF BuddyInv, OpOK
<1> HIDE DEF z, k, o
<1>5. freelist[z][k] # <<>>
  BY <1>4 DEF On, ElementsOf
<1>6. k \in o..MAXORDER
  BY <1>1, <1>2, BuddyAssumption DEF Orders
<1>7. k \in Levels(z, o) /\ \A j \in Levels(z, o) : k <= j
  <2>1. \A j \in o..MAXORDER : j < k => j \in o..(k - 1)
    BY <1>2, BuddyAssumption DEF Orders
  <2>2. \A j \in o..MAXORDER : j < k \/ k <= j
    BY <1>2, BuddyAssumption DEF Orders
  <2> QED BY Zenon, <1>4, <1>5, <1>6, <2>1, <2>2 DEF Levels
<1>8. OutOfMemoryIsReal'
  <2>1. op'.zone = z /\ op'.want = o
    BY Zenon, <1>1
  <2>2. {j \in op'.want..MAXORDER : freelist'[op'.zone][j] # <<>>} = Levels(z, o)
    BY Zenon, <1>3, <2>1 DEF Levels
  <2> QED BY Zenon, <1>1, <1>3, <1>4, <1>7, <2>1, <2>2 DEF OutOfMemoryIsReal
<1>9. OpOK' /\ Merged' /\ MovingHeads = {} /\ MovingHeads' = {}
  BY Zenon, <1>1 DEF OpOK, Merged, MovingHeads
<1>10. op' \in [at : {"oom"}, zone : Zones, want : Orders]
  BY Zenon, <1>1, <1>2, <1>3
<1> QED BY Zenon, <1>1, <1>8, <1>9, <1>10, OnlyOpStep

\* The invariant says what the runs check.
THEOREM InvariantIsStrongEnough ==
  BuddyInv => BlocksPartitionMemory /\ Coalesced /\ OutOfMemoryIsReal
<1> SUFFICES ASSUME BuddyInv PROVE BlocksPartitionMemory /\ Coalesced /\ OutOfMemoryIsReal
  OBVIOUS
<1>1. NoOverlap
  BY Zenon DEF BuddyInv, BlocksOK, Partition, NoOverlap
<1>2. NoPageLost
  BY Zenon, PartitionIsUnion DEF BuddyInv, BlocksOK, NoPageLost
<1>3. ListsAgree
  <2> SUFFICES ASSUME NEW z \in Zones, NEW o \in Orders,
                      NEW i \in DOMAIN freelist[z][o]
               PROVE  LET s == freelist[z][o]
                      IN /\ zone[s[i]] = z /\ order[s[i]] = o /\ usecount[s[i]] = 0
                         /\ s[i] % Size[o] = 0
                         /\ \A j \in DOMAIN s : s[j] = s[i] => j = i
    BY Zenon DEF ListsAgree
  <2>1. freelist[z][o][i] \in On(freelist, z, o)
    BY Zenon DEF On, ElementsOf
  <2>2. NoDup(freelist[z][o])
    BY Zenon DEF BuddyInv, ListsOK, ListsOf
  <2>3. \A j \in DOMAIN freelist[z][o] : freelist[z][o][j] = freelist[z][o][i] => j = i
    BY Zenon, <2>2 DEF NoDup
  <2> QED BY <2>1, <2>3, ListFacts
<1>4. Coalesced
  BY DEF BuddyInv, Merged, Coalesced, Idle, On
<1> QED BY Zenon, <1>1, <1>2, <1>3, <1>4 DEF BuddyInv, BlocksPartitionMemory

\* The page frame map as phys_pagemap_init leaves it, with empty lists, satisfies
\* the invariant.
THEOREM InvariantInit == Init => BuddyInv
<1> SUFFICES ASSUME Init PROVE BuddyInv
  OBVIOUS
<1>a. freelist = [z \in Zones |-> [o \in Orders |-> <<>>]]
  BY Zenon DEF Init
<1>b. order = [p \in Pages |-> 0] /\ usecount = InitialUseCount /\ walk = 0
  BY Zenon DEF Init
<1>c. usable = {p \in Pages : InitialUseCount[p] = 0}
  BY Zenon DEF Init
<1>d. op = Idle /\ zone = InitialZone /\ segment = InitialSegment
  BY Zenon DEF Init
<1>1. TypeOK
  <2>1. freelist \in [Zones -> [Orders -> Seq(Pages)]]
    BY <1>a
  <2>2. order \in [Pages -> -1..MAXORDER]
    BY <1>b, BuddyAssumption
  <2>3. usecount \in [Pages -> Nat] /\ usable \subseteq Pages /\ walk \in Nat
    BY Zenon, <1>b, <1>c, BuddyAssumption
  <2> QED BY Zenon, <1>d, <2>1, <2>2, <2>3, BuddyAssumption DEF TypeOK
<1>2. FramesOK
  <2>1. \A p \in Pages : InitialUseCount[p] # 1
    BY Zenon, BuddyAssumption
  <2>2. walk \in 0..(MaxPfn + 1)
    BY <1>b, BuddyAssumption
  <2> QED BY Zenon, <1>b, <1>c, <2>1, <2>2 DEF FramesOK
<1>3. \A z \in Zones, o \in Orders : freelist[z][o] = <<>> /\ On(freelist, z, o) = {}
  <2>1. \A z \in Zones, o \in Orders : freelist[z][o] = <<>>
    BY Zenon, <1>a
  <2>2. ElementsOf(<<>>) = {}
    BY DEF ElementsOf
  <2> QED BY Zenon, <2>1, <2>2 DEF On
<1>4. ListsOK
  <2>1. NoDup(<<>>)
    BY DEF NoDup
  <2> QED BY Zenon, <1>1, <1>3, <2>1 DEF ListsOK, ListsOf, TypeOK
<1>5. Heads = {} /\ Released = {}
  <2>1. FreeHeads = {}
    BY Zenon, <1>1, <1>3 DEF FreeHeads, On, TypeOK
  <2>2. HeldHeads = {} /\ MovingHeads = {}
    BY Zenon, <1>b, <1>d, BuddyAssumption DEF HeldHeads, MovingHeads, Idle
  <2>3. Released = {}
    <3>1. \A p \in Pages : ~(p < 0)
      BY PagesAreNat
    <3> QED BY Zenon, <1>1, <1>b, <3>1 DEF Released, TypeOK
  <2> QED BY Zenon, <2>1, <2>2, <2>3 DEF Heads
<1>6. BlocksOK
  BY Zenon, <1>5 DEF BlocksOK, Partition
<1>7. OpOK /\ OutOfMemoryIsReal
  BY Zenon, <1>d DEF OpOK, OutOfMemoryIsReal, Idle
<1>8. Merged
  BY Zenon, <1>3, LowOrders DEF Merged
<1> QED BY Zenon, <1>1, <1>2, <1>4, <1>6, <1>7, <1>8 DEF BuddyInv

----------------------------------------------------------------------------
(* Every step keeps it.                                                    *)

\* The end of _addToBuddyFreeList: the block goes from the operation to its list.
LEMMA AddToFreeListStep ==
  ASSUME BuddyInv, AddToFreeList
  PROVE  BuddyInv' /\ FreeFrames' = FreeFrames /\ HeldBlocks' = HeldBlocks
<1> DEFINE p == op.page
           o == op.order
           fd == list_del(freelist, p)
<1>1. p \in Pages /\ o \in Orders /\ zone \in [Pages -> Zones] /\ p \in MovingHeads
  BY Zenon, OpFacts DEF BuddyInv, TypeOK, AddToFreeList, MovingHeads
<1>2. p \notin FreeHeads /\ order[p] = o /\ usecount[p] = 0 /\ zone[p] \in Zones
  BY Zenon, <1>1 DEF BuddyInv, OpOK, AddToFreeList
<1>3. /\ freelist' = list_add(fd, zone[p], o, p) /\ op' = Idle /\ zone' = zone
      /\ segment' = segment /\ usable' = usable /\ order' = order /\ usecount' = usecount
      /\ walk' = walk
      /\ ~MayMerge(o) \/ ~BuddyIsFree(p, o)
  BY Zenon DEF AddToFreeList, mapVars
<1> HIDE DEF p, o
<1>4. /\ ListsOf(fd) /\ HeadsIn(fd) = FreeHeads
      /\ \A z \in Zones, k \in Orders : \A x : x \in On(fd, z, k) <=> x \in On(freelist, z, k)
  <2>1. \A z \in Zones, k \in Orders : p \notin On(freelist, z, k)
    BY Zenon, <1>2, ListFacts
  <2>2. /\ ListsOf(fd) /\ HeadsIn(fd) = FreeHeads \ {p}
        /\ \A z \in Zones, k \in Orders : \A x :
             x \in On(fd, z, k) <=> x \in On(freelist, z, k) /\ x # p
    BY Zenon, <1>1, AfterDel
  <2> HIDE DEF fd
  <2> QED BY Zenon, <1>2, <2>1, <2>2
<1>5. p \notin On(fd, zone[p], o)
  BY Zenon, <1>1, <1>2, <1>4, ListFacts
<1> HIDE DEF fd
<1>6. /\ ListsOf(freelist') /\ HeadsIn(freelist') = FreeHeads \cup {p}
      /\ \A z \in Zones, k \in Orders : \A x :
           x \in On(freelist', z, k) <=> x \in On(freelist, z, k) \/ (x = p /\ z = zone[p] /\ k = o)
  BY SMTT(20), <1>1, <1>3, <1>4, <1>5, AfterAdd
<1>7. FreeHeads' = FreeHeads \cup {p} /\ MovingHeads' = {} /\ MovingHeads = {p} /\ HeldHeads' = HeldHeads
  BY Zenon, <1>1, <1>3, <1>6, FreeHeadsAfter DEF MovingHeads, HeldHeads, Idle, p
<1>8. Heads' = Heads /\ Released' = Released
  BY Zenon, <1>3, <1>7 DEF Heads, Released
<1>9. TypeOK'
  BY Zenon, <1>3, <1>6 DEF BuddyInv, TypeOK, ListsOf
<1>10. FramesOK'
  BY Zenon, <1>3 DEF BuddyInv, FramesOK
<1>11. ListsOK'
  BY <1>2, <1>3, <1>6 DEF BuddyInv, ListsOK
<1>12. BlocksOK'
  BY Zenon, <1>3, <1>8, SameBlocks
<1>13. OpOK' /\ OutOfMemoryIsReal'
  BY Zenon, <1>3 DEF OpOK, OutOfMemoryIsReal, Idle
<1>14. Merged'
  <2> SUFFICES ASSUME NEW z \in Zones, NEW k \in 0..(MAXORDER - 1), NEW x \in On(freelist', z, k),
                      BuddyIdx(x, k) \in On(freelist', z, k)
               PROVE  FALSE
    BY Zenon, <1>3 DEF Merged, Idle
  <2>1. k \in Orders /\ k < MAXORDER
    BY Zenon, LowOrders
  <2>2. ~(x \in On(freelist, z, k) /\ BuddyIdx(x, k) \in On(freelist, z, k))
    BY Zenon, <2>1 DEF BuddyInv, Merged, AddToFreeList
  <2>3. z = zone[p] /\ k = o /\ (x = p \/ BuddyIdx(x, k) = p)
    BY Zenon, <2>1, <2>2, <1>6
  <2>4. BuddyIdx(p, o) \notin On(freelist, zone[p], o)
    BY Zenon, <1>3, <2>1, <2>3 DEF MayMerge, BuddyIsFree, On
  <2>5. x \in Nat /\ x % Size[o] = 0 /\ p \in Nat /\ p % Size[o] = 0
    <3>1. p \in Heads
      BY Zenon, <1>1 DEF Heads
    <3>2. p % Size[o] = 0
      BY Zenon, <1>2, <3>1 DEF BuddyInv, BlocksOK, Partition
    <3> QED BY <1>1, <1>6, <2>1, <2>3, <3>2, ListFacts, PagesAreNat
  <2>6. BuddyIdx(p, o) # p /\ BuddyIdx(x, o) # x /\ BuddyIdx(BuddyIdx(x, o), o) = x
    BY Zenon, <1>1, <2>5, BuddyFacts
  <2> QED BY <1>6, <2>1, <2>3, <2>4, <2>6
<1>15. FreeFrames' = FreeFrames /\ HeldBlocks' = HeldBlocks
  BY Zenon, <1>3, <1>7, SameFrames
<1> QED BY Zenon, <1>9, <1>10, <1>11, <1>12, <1>13, <1>14, <1>15 DEF BuddyInv

\* page_free_page_pfn gives the block of a caller back to the free frames.
LEMMA page_free_Step ==
  ASSUME BuddyInv, NEW p \in Pages, page_free_page_pfn(p)
  PROVE  /\ BuddyInv' /\ <<p, order[p]>> \in HeldBlocks
         /\ FreeFrames' = FreeFrames \cup Block(p, order[p])
         /\ HeldBlocks' = HeldBlocks \ {<<p, order[p]>>}
<1>1. /\ op = Idle /\ walk > MaxPfn /\ usecount[p] = 1
      /\ usecount' = [usecount EXCEPT ![p] = 0]
      /\ op' = [at |-> "merge", page |-> p, order |-> order[p]]
      /\ zone' = zone /\ segment' = segment /\ usable' = usable /\ freelist' = freelist
      /\ order' = order /\ walk' = walk
  BY Zenon DEF page_free_page_pfn, mapVars
<1>2. p \in HeldHeads /\ p \in Heads /\ p \notin FreeHeads
  BY Zenon, <1>1, ListFacts DEF HeldHeads, Heads
<1>3. order[p] \in Orders
  BY Zenon, <1>2 DEF BuddyInv, BlocksOK, Partition
<1>4. \A x \in Pages : usecount'[x] = IF x = p THEN 0 ELSE usecount[x]
  BY Zenon, <1>1 DEF BuddyInv, TypeOK
<1>5. /\ FreeHeads' = FreeHeads /\ MovingHeads = {} /\ MovingHeads' = {p}
      /\ HeldHeads' = HeldHeads \ {p}
  BY <1>1, <1>4 DEF FreeHeads, MovingHeads, HeldHeads, Idle
<1>6. Heads' = Heads /\ Released' = Released
  BY Zenon, <1>1, <1>2, <1>5 DEF Heads, Released
<1>7. TypeOK'
  BY Zenon, <1>1, <1>3 DEF BuddyInv, TypeOK
<1>8. FramesOK'
  BY Zenon, <1>1, <1>4 DEF BuddyInv, FramesOK
<1>9. ListsOK'
  <2>1. ASSUME NEW z \in Zones, NEW o \in Orders, NEW x \in On(freelist, z, o)
        PROVE  zone[x] = z /\ order[x] = o /\ usecount'[x] = 0
    BY <1>4, ListFacts
  <2> QED BY SMTT(20), <1>1, <2>1 DEF BuddyInv, ListsOK
<1>10. BlocksOK'
  BY Zenon, <1>1, <1>6, SameBlocks
<1>11. OpOK'
  BY Zenon, <1>1, <1>2, <1>4, <1>5 DEF OpOK
<1>12. OutOfMemoryIsReal'
  BY Zenon, <1>1 DEF OutOfMemoryIsReal
<1>13. Merged'
  BY Zenon, <1>1 DEF BuddyInv, Merged, Idle
<1>14. FreeFrames' = FreeFrames \cup Block(p, order[p])
  BY Zenon, <1>1, <1>5 DEF FreeFrames, Block
<1>15. <<p, order[p]>> \in HeldBlocks /\ HeldBlocks' = HeldBlocks \ {<<p, order[p]>>}
  BY <1>1, <1>2, <1>5 DEF HeldBlocks
<1> QED BY Zenon, <1>7, <1>8, <1>9, <1>10, <1>11, <1>12, <1>13, <1>14, <1>15 DEF BuddyInv

\* The end of an allocation hands an aligned free block of the zone and the order
\* asked for to the caller.
LEMMA TakePageStep ==
  ASSUME BuddyInv, TakePage
  PROVE  /\ BuddyInv'
         /\ \E p \in Pages, o \in Orders :
              /\ zone[p] \in AllocZones /\ Block(p, o) \subseteq FreeFrames /\ p % Size[o] = 0
              /\ \A q \in Block(p, o) : zone[q] = zone[p]
              /\ FreeFrames' = FreeFrames \ Block(p, o)
              /\ HeldBlocks' = HeldBlocks \cup {<<p, o>>}
<1> DEFINE p == op.page
           o == op.order
<1>1. /\ op.at = "split" /\ freelist' = list_del(freelist, p)
      /\ usecount' = [usecount EXCEPT ![p] = @ + 1] /\ op' = Idle
      /\ zone' = zone /\ segment' = segment /\ usable' = usable
      /\ order' = order /\ walk' = walk
  BY Zenon DEF TakePage, Take, mapVars
<1>2. p \in Pages /\ o \in Orders
  BY Zenon, <1>1, OpFacts DEF BuddyInv
<1>3. p \in On(freelist, zone[p], o) /\ zone[p] \in AllocZones /\ zone[p] \in Zones
  BY Zenon, <1>1, <1>2 DEF BuddyInv, OpOK, TypeOK
<1> HIDE DEF p, o
<1>4. /\ p \in FreeHeads /\ p \in Heads /\ p % Size[o] = 0 /\ order[p] = o /\ usecount[p] = 0
      /\ p \in Released
  BY <1>2, <1>3, ListFacts
<1>5. /\ ListsOf(freelist') /\ HeadsIn(freelist') = FreeHeads \ {p}
      /\ \A z \in Zones, k \in Orders : \A x :
           x \in On(freelist', z, k) <=> x \in On(freelist, z, k) /\ x # p
  BY Zenon, <1>1, <1>2, AfterDel
<1>6. \A x \in Pages : usecount'[x] = IF x = p THEN 1 ELSE usecount[x]
  BY <1>1, <1>2, <1>4 DEF BuddyInv, TypeOK
<1>7. /\ FreeHeads' = FreeHeads \ {p} /\ MovingHeads = {} /\ MovingHeads' = {}
      /\ HeldHeads' = HeldHeads \cup {p}
  BY Zenon, <1>1, <1>2, <1>5, <1>6, FreeHeadsAfter DEF MovingHeads, HeldHeads, Idle
<1>8. Heads' = Heads /\ Released' = Released
  BY Zenon, <1>1, <1>4, <1>7 DEF Heads, Released
<1>9. TypeOK'
  <2>1. usecount' \in [Pages -> Nat]
    <3>1. usecount \in [Pages -> Nat]
      BY Zenon DEF BuddyInv, TypeOK
    <3> QED BY <1>1, <1>2, <3>1
  <2> QED BY Zenon, <1>1, <1>5, <2>1 DEF BuddyInv, TypeOK, ListsOf
<1>10. FramesOK'
  <2>1. p \in usable /\ ~(p >= walk)
    BY Zenon, <1>4, ReleasedIsPassed
  <2> QED BY Zenon, <1>1, <1>2, <1>6, <2>1 DEF BuddyInv, FramesOK
<1>11. ListsOK'
  <2>1. ASSUME NEW z \in Zones, NEW k \in Orders, NEW x \in On(freelist', z, k)
        PROVE  zone[x] = z /\ order[x] = k /\ usecount'[x] = 0
    <3>1. x \in On(freelist, z, k) /\ x # p
      BY Zenon, <1>5
    <3> QED BY <3>1, <1>6, ListFacts
  <2> QED BY <1>1, <1>5, <2>1 DEF ListsOK
<1>12. BlocksOK'
  BY Zenon, <1>1, <1>8, SameBlocks
<1>13. OpOK' /\ OutOfMemoryIsReal'
  BY Zenon, <1>1 DEF OpOK, OutOfMemoryIsReal, Idle
<1>14. Merged'
  <2> SUFFICES ASSUME NEW z \in Zones, NEW k \in 0..(MAXORDER - 1), NEW x \in On(freelist', z, k),
                      BuddyIdx(x, k) \in On(freelist', z, k)
               PROVE  FALSE
    BY Zenon, <1>1 DEF Merged, Idle
  <2>1. /\ x \in On(freelist, z, k) /\ x # p
        /\ BuddyIdx(x, k) \in On(freelist, z, k) /\ BuddyIdx(x, k) # p
    BY Zenon, <1>5, LowOrders
  <2> QED BY Zenon, <1>1, <2>1 DEF BuddyInv, Merged, p
<1>15. Block(p, o) \subseteq FreeFrames
  BY Zenon, <1>4 DEF FreeFrames
<1>16. FreeFrames' = FreeFrames \ Block(p, o)
  <2>1. \A q \in FreeHeads \ {p} : \A x \in Block(q, order[q]) : x \notin Block(p, o)
    BY Zenon, <1>4 DEF BuddyInv, BlocksOK, Partition, Heads
  <2>2. FreeFrames = UNION {Block(q, order[q]) : q \in FreeHeads}
    BY Zenon, <1>7 DEF FreeFrames
  <2>3. FreeFrames' = UNION {Block(q, order[q]) : q \in FreeHeads \ {p}}
    BY Zenon, <1>1, <1>7 DEF FreeFrames, Block
  <2> QED BY Zenon, <1>4, <2>1, <2>2, <2>3
<1>17. HeldBlocks' = HeldBlocks \cup {<<p, o>>}
  BY Zenon, <1>1, <1>4, <1>7 DEF HeldBlocks
<1>18. \A q \in Block(p, o) : zone[q] = zone[p]
  BY Zenon, <1>4 DEF BuddyInv, BlocksOK, Partition
<1> QED BY Zenon, <1>2, <1>3, <1>4, <1>9, <1>10, <1>11, <1>12, <1>13, <1>14, <1>15, <1>16, <1>17, <1>18
        DEF BuddyInv

\* The block in hand and its free buddy, in the order they lie in memory.
LEMMA MergeEffect ==
  ASSUME BuddyInv, Merge
  PROVE  LET p == op.page
             o == op.order
             b == BuddyIdx(p, o)
         IN \E low, high \in Heads :
              /\ {low, high} = {p, b} /\ low # high /\ high = low + Size[o] /\ low % Size[o + 1] = 0
              /\ o < MAXORDER /\ order[low] = o /\ order[high] = o /\ zone[high] = zone[low]
              /\ usecount[low] = 0 /\ usecount[high] = 0
              /\ b \in FreeHeads /\ p \notin FreeHeads /\ p \in MovingHeads
              /\ freelist' = list_del(freelist, b)
              /\ order' = [order EXCEPT ![low] = @ + 1, ![high] = -1]
              /\ op' = [op EXCEPT !.page = low, !.order = @ + 1]
<1> DEFINE p == op.page
           o == op.order
           b == BuddyIdx(p, o)
           low == IF p % Size[o + 1] = 0 THEN p ELSE b
           high == IF low = b THEN p ELSE b
<1>1. /\ op.at = "merge" /\ MayMerge(o) /\ BuddyIsFree(p, o)
      /\ freelist' = list_del(freelist, b)
      /\ order' = [order EXCEPT ![low] = @ + 1, ![high] = -1]
      /\ op' = [op EXCEPT !.page = low, !.order = @ + 1]
  BY Zenon DEF Merge
<1>2. p \in Pages /\ o \in Orders /\ p \in MovingHeads /\ p \in Heads /\ o < MAXORDER
  BY Zenon, <1>1, OpFacts DEF BuddyInv, MovingHeads, Heads, MayMerge
<1>3. order[p] = o /\ usecount[p] = 0 /\ p \notin FreeHeads
  BY Zenon, <1>1 DEF BuddyInv, OpOK
<1> HIDE DEF p, o
<1>4. p % Size[o] = 0 /\ p \in Nat
  BY Zenon, <1>2, <1>3, PagesAreNat DEF BuddyInv, BlocksOK, Partition
<1>5. /\ b # p
      /\ p % Size[o + 1] = 0 => b = p + Size[o]
      /\ p % Size[o + 1] # 0 => b = p - Size[o] /\ b % Size[o + 1] = 0
  BY Zenon, <1>2, <1>4, BuddyFacts
<1>6. zone[p] \in Zones /\ b \in On(freelist, zone[p], o)
  BY Zenon, <1>1, <1>2 DEF BuddyInv, TypeOK, BuddyIsFree, On
<1> HIDE DEF b
<1>7. b \in FreeHeads /\ b \in Heads /\ zone[b] = zone[p] /\ order[b] = o /\ usecount[b] = 0
  BY SMTT(20), <1>2, <1>6, ListFacts
<1>8. /\ {low, high} = {p, b} /\ low # high /\ low \in Heads /\ high \in Heads
      /\ order[low] = o /\ order[high] = o /\ zone[high] = zone[low]
      /\ usecount[low] = 0 /\ usecount[high] = 0
  BY Zenon, <1>2, <1>3, <1>5, <1>7
<1>9. high = low + Size[o] /\ low % Size[o + 1] = 0
  <2>1. Size[o] \in Nat
    BY Zenon, <1>2, SizeFacts
  <2>2. CASE p % Size[o + 1] = 0
    <3>1. low = p /\ high = b
      BY Zenon, <1>5, <2>2
    <3> QED BY Zenon, <1>5, <2>2, <3>1
  <2>3. CASE p % Size[o + 1] # 0
    <3>1. low = b /\ high = p
      BY Zenon, <2>3
    <3>2. b = p - Size[o] => p = b + Size[o]
      BY <1>4, <2>1
    <3> QED BY Zenon, <1>5, <2>3, <3>1, <3>2
  <2> QED BY Zenon, <2>2, <2>3
<1> HIDE DEF low, high
<1> QED BY Zenon, <1>1, <1>2, <1>3, <1>7, <1>8, <1>9 DEF p, o, b

\* A merge of two free buddies changes blocks but no frame.
LEMMA MergeStep ==
  ASSUME BuddyInv, Merge
  PROVE  BuddyInv' /\ FreeFrames' = FreeFrames /\ HeldBlocks' = HeldBlocks
<1> DEFINE p == op.page
           o == op.order
           b == BuddyIdx(p, o)
<1>1. PICK low \in Heads, high \in Heads :
        /\ {low, high} = {p, b} /\ low # high /\ high = low + Size[o] /\ low % Size[o + 1] = 0
        /\ o < MAXORDER /\ order[low] = o /\ order[high] = o /\ zone[high] = zone[low]
        /\ usecount[low] = 0 /\ usecount[high] = 0
        /\ b \in FreeHeads /\ p \notin FreeHeads /\ p \in MovingHeads
        /\ freelist' = list_del(freelist, b)
        /\ order' = [order EXCEPT ![low] = @ + 1, ![high] = -1]
        /\ op' = [op EXCEPT !.page = low, !.order = @ + 1]
  BY Zenon, MergeEffect
<1>2. /\ op.at = "merge" /\ zone' = zone /\ segment' = segment /\ usable' = usable
      /\ usecount' = usecount /\ walk' = walk
  BY Zenon DEF Merge, mapVars
<1>3. MovingHeads = {p} /\ p \in Pages /\ o \in Orders /\ o + 1 \in Orders
  BY Zenon, <1>1, <1>2, OpFacts, OrderFacts DEF BuddyInv, MovingHeads
<1>4. op' = [at |-> "merge", page |-> low, order |-> o + 1]
  BY Zenon, <1>1, <1>2, OpFacts DEF BuddyInv
<1> HIDE DEF p, o, b
<1>5. low \in Pages /\ high \in Pages /\ b \in Pages /\ low \in Released /\ high \in Released
  BY <1>1, ListFacts
<1>6. /\ order'[low] = o + 1 /\ \A x \in Pages : x # low /\ x # high => order'[x] = order[x]
      /\ order' \in [Pages -> -1..MAXORDER]
  <2>1. order \in [Pages -> -1..MAXORDER]
    BY Zenon DEF BuddyInv, TypeOK
  <2>2. -1 \in -1..MAXORDER /\ o + 1 \in -1..MAXORDER
    BY <1>3, BuddyAssumption DEF Orders
  <2> QED BY Zenon, <1>1, <1>5, <2>1, <2>2
<1>7. /\ ListsOf(freelist') /\ HeadsIn(freelist') = FreeHeads \ {b}
      /\ \A z \in Zones, k \in Orders : \A x :
           x \in On(freelist', z, k) <=> x \in On(freelist, z, k) /\ x # b
  BY Zenon, <1>1, <1>5, AfterDel
<1>8. FreeHeads' = FreeHeads \ {b} /\ MovingHeads' = {low} /\ HeldHeads' = HeldHeads
  BY Zenon, <1>2, <1>4, <1>7, FreeHeadsAfter DEF MovingHeads, HeldHeads
<1>9. low \notin HeldHeads /\ high \notin HeldHeads
  BY <1>1 DEF HeldHeads
<1>10. /\ FreeHeads' \cup MovingHeads' = (FreeHeads \cup MovingHeads) \ {high}
       /\ Heads' = Heads \ {high} /\ Released' = Released
  BY Zenon, <1>1, <1>2, <1>3, <1>8, <1>9 DEF Heads, Released
<1>11. TypeOK'
  BY Zenon, <1>2, <1>3, <1>4, <1>5, <1>6, <1>7 DEF BuddyInv, TypeOK, ListsOf
<1>12. FramesOK'
  <2>1. ~(low >= walk) /\ ~(high >= walk)
    BY Zenon, <1>5, ReleasedIsPassed
  <2> QED BY Zenon, <1>2, <1>6, <2>1 DEF BuddyInv, FramesOK
<1>13. ListsOK'
  <2>1. ASSUME NEW z \in Zones, NEW k \in Orders, NEW x \in On(freelist', z, k)
        PROVE  zone[x] = z /\ order'[x] = k /\ usecount[x] = 0
    <3>1. x \in On(freelist, z, k) /\ x # b
      BY Zenon, <1>7
    <3>2. x \in FreeHeads /\ x \in Pages /\ zone[x] = z /\ order[x] = k /\ usecount[x] = 0
      BY Zenon, <3>1, ListFacts
    <3> QED BY Zenon, <1>1, <1>6, <3>1, <3>2
  <2> QED BY <1>2, <1>7, <2>1 DEF ListsOK
<1>14. \A x \in Heads : x # low /\ x # high => order'[x] = order[x]
  BY Zenon, <1>6, ListFacts
<1>a. /\ high = low + Size[o] /\ low % Size[o + 1] = 0 /\ order[low] = o /\ order[high] = o
      /\ zone[high] = zone[low] /\ order'[low] = o + 1
  BY Zenon, <1>1, <1>6
<1>15. BlocksOK'
  <2>1. Partition(Heads, order, Released, zone)
    BY Zenon DEF BuddyInv, BlocksOK
  <2>2. Partition(Heads \ {high}, order', Released, zone)
    <3>1. MergedInto(Heads, order, zone, low, high, o, order')
      BY Zenon, <1>3, <1>14, <1>a DEF MergedInto
    <3> QED BY Zenon, <2>1, <3>1, PartitionMerged
  <2> QED BY Zenon, <1>2, <1>10, <2>2 DEF BlocksOK
<1>16. OpOK'
  <2>1. op'.at = "merge" /\ op'.page = low /\ op'.order = o + 1
    BY Zenon, <1>4
  <2>2. low \notin FreeHeads' /\ usecount'[low] = 0
    BY Zenon, <1>1, <1>2, <1>8
  <2> QED BY Zenon, <1>6, <2>1, <2>2 DEF OpOK
<1>17. OutOfMemoryIsReal'
  BY Zenon, <1>4 DEF OutOfMemoryIsReal
<1>18. Merged'
  BY Zenon, <1>2, <1>4, <1>7, LowOrders DEF BuddyInv, Merged
<1>19. FreeFrames' = FreeFrames
  <2> DEFINE G == FreeHeads \cup MovingHeads
  <2>1. Partition(G, order, FreeFrames, zone)
    <3>1. G \in SUBSET Heads
      BY Zenon DEF Heads
    <3> QED BY <3>1, SubPartition DEF BuddyInv, BlocksOK, FreeFrames
  <2>2. low \in G /\ high \in G /\ \A x \in G : x # low /\ x # high => order'[x] = order[x]
    BY Zenon, <1>1, <1>14 DEF Heads
  <2>3. Partition(G \ {high}, order', FreeFrames, zone)
    <3> HIDE DEF G
    <3>1. MergedInto(G, order, zone, low, high, o, order')
      BY Zenon, <1>3, <1>a, <2>2 DEF MergedInto
    <3> QED BY Zenon, <2>1, <3>1, PartitionMerged
  <2>4. UNION {Block(x, order'[x]) : x \in G \ {high}} = FreeFrames
    BY Zenon, <2>3, PartitionIsUnion
  <2> QED BY Zenon, <1>10, <2>4 DEF FreeFrames, Block
<1>20. HeldBlocks' = HeldBlocks
  <2>1. \A x \in HeldHeads : order'[x] = order[x]
    BY Zenon, <1>6, <1>9 DEF HeldHeads
  <2> QED BY Zenon, <1>8, <2>1 DEF HeldBlocks
<1> QED BY SMTT(20), <1>11, <1>12, <1>13, <1>15, <1>16, <1>17, <1>18, <1>19, <1>20 DEF BuddyInv

\* A split changes blocks but no frame.
LEMMA SplitStep ==
  ASSUME BuddyInv, Split
  PROVE  BuddyInv' /\ FreeFrames' = FreeFrames /\ HeldBlocks' = HeldBlocks
<1> DEFINE p == op.page
           k == op.order
           o == k - 1
           q == p + Size[o]
           fd == list_del(freelist, p)
           fp == list_add(fd, zone[p], o, p)
<1>1. /\ op.at = "split" /\ k > op.want /\ p > 0
      /\ freelist' = list_add(fp, zone[p], o, q)
      /\ order' = [order EXCEPT ![p] = o, ![q] = o] /\ op' = [op EXCEPT !.order = o]
  BY Zenon DEF Split, HalvesOf
<1>0. /\ zone' = zone /\ segment' = segment /\ usable' = usable
      /\ usecount' = usecount /\ walk' = walk
  BY Zenon DEF Split, mapVars
<1>2. p \in Pages /\ k \in Orders /\ op.want \in Orders
  BY Zenon, <1>1, OpFacts DEF BuddyInv
<1>3. p \in On(freelist, zone[p], k) /\ zone[p] \in AllocZones /\ zone[p] \in Zones
  BY Zenon, <1>1, <1>2 DEF BuddyInv, OpOK, TypeOK
<1>4. o \in Orders /\ k > 0 /\ op.want <= o /\ o # k
  BY Zenon, <1>1, <1>2, OrderBelow
<1>5. op' = [at |-> "split", page |-> p, order |-> o, want |-> op.want]
  BY Zenon, <1>1, OpFacts DEF BuddyInv
<1>6. p \in FreeHeads /\ p \in Heads /\ order[p] = k /\ usecount[p] = 0 /\ p \in Released
  BY <1>2, <1>3, ListFacts
<1>7. order \in [Pages -> -1..MAXORDER] /\ zone \in [Pages -> Zones]
  BY Zenon DEF BuddyInv, TypeOK
<1>8. Released \subseteq Pages /\ Partition(Heads, order, Released, zone)
  BY Zenon, ListFacts DEF BuddyInv, BlocksOK
<1> HIDE DEF o, k, p, q, fd, fp
<1>9. order'[p] = o /\ (q \in Pages => order'[q] = o) /\ \A x \in Pages \ {p, q} : order'[x] = order[x]
  BY Zenon, <1>1, <1>2, <1>7
<1>10. q \in Pages
  <2>1. q \in Block(p, k)
    <3>1. p \in Nat /\ k = o + 1 /\ Size[o] \in Nat \ {0} /\ Size[o + 1] = 2 * Size[o]
      BY Zenon, <1>2, <1>4, PagesAreNat, OrderFacts, SizeFacts DEF o
    <3> QED BY <3>1 DEF q, Block
  <2> QED BY Zenon, <1>6, <1>8, <2>1 DEF Partition
<1>11. \A x \in Heads : x # p /\ x # q => order'[x] = order[x]
  BY Zenon, <1>9, ListFacts
<1>a. order[p] = o + 1
  BY Zenon, <1>2, <1>4, <1>6, OrderFacts DEF o
<1>12. /\ q \in Block(p, order[p]) /\ q \notin Heads /\ q > p
       /\ Partition(Heads \cup {q}, order', Released, zone)
  <2>1. SplitInto(Heads, order, p, q, o, order')
    BY Zenon, <1>4, <1>6, <1>9, <1>10, <1>11, <1>a DEF SplitInto, q
  <2> QED BY Zenon, <1>8, <2>1, PartitionSplit
<1>13. zone[q] = zone[p] /\ q \in Released
  BY Zenon, <1>6, <1>8, <1>12 DEF Partition
<1>14. usecount[q] = 0 /\ q \notin FreeHeads /\ q # p
  <2>1. usecount[q] \in {0, 1}
    BY Zenon, <1>10, <1>13 DEF Released, BuddyInv, FramesOK
  <2> QED BY Zenon, <1>6, <1>10, <1>12, <2>1 DEF Heads, HeldHeads
<1>15. /\ ListsOf(fd) /\ HeadsIn(fd) = FreeHeads \ {p}
       /\ \A z \in Zones, j \in Orders : \A x :
            x \in On(fd, z, j) <=> x \in On(freelist, z, j) /\ x # p
  BY Zenon, <1>2, AfterDel DEF fd
<1>16. /\ ListsOf(fp) /\ HeadsIn(fp) = FreeHeads
       /\ \A z \in Zones, j \in Orders : \A x :
            x \in On(fp, z, j) <=>
              (x \in On(freelist, z, j) /\ x # p) \/ (x = p /\ z = zone[p] /\ j = o)
  <2>1. /\ ListsOf(fp) /\ HeadsIn(fp) = HeadsIn(fd) \cup {p}
        /\ \A z \in Zones, j \in Orders : \A x :
             x \in On(fp, z, j) <=> x \in On(fd, z, j) \/ (x = p /\ z = zone[p] /\ j = o)
    BY SMTT(20), <1>2, <1>3, <1>4, <1>7, <1>15, AfterAdd DEF fp
  <2> QED BY <1>6, <1>15, <2>1
<1>17. q \notin On(fp, zone[q], o)
  BY <1>3, <1>4, <1>13, <1>14, <1>16, ListFacts
<1>18. /\ ListsOf(freelist') /\ HeadsIn(freelist') = FreeHeads \cup {q}
       /\ \A z \in Zones, j \in Orders : \A x :
            x \in On(freelist', z, j) <=>
              (x \in On(freelist, z, j) /\ x # p) \/ (x \in {p, q} /\ z = zone[p] /\ j = o)
  <2>1. freelist' = list_add(fp, zone[q], o, q)
    BY Zenon, <1>1, <1>13
  <2>2. /\ ListsOf(freelist') /\ HeadsIn(freelist') = HeadsIn(fp) \cup {q}
        /\ \A z \in Zones, j \in Orders : \A x :
             x \in On(freelist', z, j) <=> x \in On(fp, z, j) \/ (x = q /\ z = zone[q] /\ j = o)
    BY <1>4, <1>7, <1>10, <1>16, <1>17, <2>1, AfterAdd
  <2> QED BY Zenon, <1>13, <1>16, <2>2
<1>19. FreeHeads' = FreeHeads \cup {q} /\ MovingHeads' = {} /\ MovingHeads = {} /\ HeldHeads' = HeldHeads
  BY Zenon, <1>0, <1>1, <1>5, <1>18, FreeHeadsAfter DEF MovingHeads, HeldHeads
<1>20. Heads' = Heads \cup {q} /\ Released' = Released
  BY Zenon, <1>0, <1>19 DEF Heads, Released
<1>21. TypeOK'
  <2>1. order' \in [Pages -> -1..MAXORDER]
    <3>1. o \in -1..MAXORDER
      BY <1>4, BuddyAssumption DEF Orders
    <3> QED BY Zenon, <1>1, <1>7, <3>1
  <2>2. op' \in [at : {"split"}, page : Pages, order : Orders, want : Orders]
    BY Zenon, <1>2, <1>4, <1>5
  <2> QED BY Zenon, <1>0, <1>18, <2>1, <2>2 DEF BuddyInv, TypeOK, ListsOf
<1>22. FramesOK'
  <2>1. ~(p >= walk) /\ ~(q >= walk)
    BY Zenon, <1>6, <1>13, ReleasedIsPassed
  <2> QED BY Zenon, <1>0, <1>9, <2>1 DEF BuddyInv, FramesOK
<1>23. ListsOK'
  <2>1. ASSUME NEW z \in Zones, NEW j \in Orders, NEW x \in On(freelist', z, j)
        PROVE  zone[x] = z /\ order'[x] = j /\ usecount[x] = 0
    <3>1. CASE x \in On(freelist, z, j) /\ x # p
      <4>1. x \in FreeHeads /\ x \in Pages /\ zone[x] = z /\ order[x] = j /\ usecount[x] = 0
        BY Zenon, <3>1, ListFacts
      <4> QED BY Zenon, <1>9, <1>14, <3>1, <4>1
    <3>2. CASE x \in {p, q} /\ z = zone[p] /\ j = o
      BY Zenon, <3>2, <1>6, <1>9, <1>10, <1>13, <1>14
    <3> QED BY Zenon, <1>18, <3>1, <3>2
  <2> QED BY SMTT(20), <1>0, <1>18, <2>1 DEF ListsOK
<1>24. BlocksOK'
  BY Zenon, <1>0, <1>12, <1>20 DEF BlocksOK
<1>25. OpOK'
  <2>1. op'.at = "split" /\ op'.page = p /\ op'.order = o /\ op'.want = op.want
    BY Zenon, <1>5
  <2>2. p \in On(freelist', zone[p], o) /\ p # 0
    BY <1>1, <1>2, <1>3, <1>4, <1>18, PagesAreNat
  <2> QED BY Zenon, <1>0, <1>3, <1>4, <2>1, <2>2 DEF OpOK
<1>26. OutOfMemoryIsReal'
  BY Zenon, <1>5 DEF OutOfMemoryIsReal
<1>27. Merged'
  <2> SUFFICES ASSUME NEW z \in Zones, NEW j \in 0..(MAXORDER - 1), NEW x \in On(freelist', z, j),
                      BuddyIdx(x, j) \in On(freelist', z, j)
               PROVE  j = o /\ p \in {x, BuddyIdx(x, j)}
    BY Zenon, <1>5 DEF Merged
  <2>1. j \in Orders
    BY Zenon, LowOrders
  <2>2. CASE x = p \/ BuddyIdx(x, j) = p
    BY Zenon, <1>18, <2>1, <2>2
  <2>3. CASE x # p /\ BuddyIdx(x, j) # p
    <3>1. ~(x \in On(freelist, z, j) /\ BuddyIdx(x, j) \in On(freelist, z, j))
      BY Zenon, <1>1, <2>3 DEF BuddyInv, Merged, p
    <3>2. z = zone[p] /\ j = o /\ (x = q \/ BuddyIdx(x, j) = q)
      BY Zenon, <1>18, <2>1, <2>3, <3>1
    <3>3. p \in Nat /\ p % Size[o + 1] = 0 /\ p % Size[o] = 0
      BY <1>2, <1>4, <1>6, <1>8, PagesAreNat, PartitionAligned DEF o
    <3>4. BuddyIdx(p, o) = q /\ BuddyIdx(q, o) = p
      <4>1. BuddyIdx(p, o) = p + Size[o] /\ BuddyIdx(BuddyIdx(p, o), o) = p
        BY Zenon, <1>4, <3>3, BuddyFacts
      <4> QED BY Zenon, <4>1 DEF q
    <3>5. x \in Nat /\ x % Size[o] = 0
      <4>1. CASE x \in On(freelist, z, o)
        BY SMTT(20), <1>4, <4>1, ListFacts
      <4>2. CASE x = q
        BY Zenon, <1>4, <3>3, <3>4, <4>2, BuddyFacts
      <4> QED BY Zenon, <1>18, <2>1, <2>3, <3>2, <4>1, <4>2
    <3>6. BuddyIdx(BuddyIdx(x, o), o) = x
      BY Zenon, <1>4, <3>5, BuddyFacts
    <3> QED BY Zenon, <2>3, <3>2, <3>4, <3>6
  <2> QED BY Zenon, <2>2, <2>3
<1>28. FreeFrames' = FreeFrames
  <2>1. FreeHeads \in SUBSET Heads /\ FreeFrames = UNION {Block(x, order[x]) : x \in FreeHeads}
    BY Zenon, <1>19 DEF Heads, FreeFrames
  <2>2. Partition(FreeHeads, order, FreeFrames, zone) /\ FreeFrames \subseteq Pages
    <3>1. Partition(FreeHeads, order, FreeFrames, zone)
      BY <1>8, <2>1, SubPartition
    <3> QED BY Zenon, <1>8, <2>1, <3>1 DEF Partition
  <2>3. \A x \in FreeHeads : x # p /\ x # q => order'[x] = order[x]
    BY Zenon, <1>11, <2>1
  <2>4. Partition(FreeHeads \cup {q}, order', FreeFrames, zone)
    <3>1. SplitInto(FreeHeads, order, p, q, o, order')
      BY Zenon, <1>4, <1>6, <1>9, <1>10, <1>a, <2>3 DEF SplitInto, q
    <3> QED BY Zenon, <2>2, <3>1, PartitionSplit
  <2>5. UNION {Block(x, order'[x]) : x \in FreeHeads \cup {q}} = FreeFrames
    BY Zenon, <2>4, PartitionIsUnion
  <2> QED BY Zenon, <1>19, <2>5 DEF FreeFrames, Block
<1>29. HeldBlocks' = HeldBlocks
  <2>1. \A x \in HeldHeads : order'[x] = order[x]
    BY <1>6, <1>9, <1>14 DEF HeldHeads
  <2> QED BY Zenon, <1>19, <2>1 DEF HeldBlocks
<1> QED BY Zenon, <1>21, <1>22, <1>23, <1>24, <1>25, <1>26, <1>27, <1>28, <1>29 DEF BuddyInv

\* phys_freepages_low passes over a frame that is in use or inside a block.
LEMMA SkipUsedStep ==
  ASSUME BuddyInv, SkipUsed
  PROVE  BuddyInv' /\ FreeFrames' = FreeFrames /\ HeldBlocks' = HeldBlocks
<1>1. /\ walk <= MaxPfn /\ walk' = walk + 1 /\ (order[walk] >= 1 \/ usecount[walk] >= 1)
      /\ zone' = zone /\ segment' = segment /\ usable' = usable /\ freelist' = freelist
      /\ order' = order /\ usecount' = usecount /\ op' = op
  BY Zenon DEF SkipUsed, mapVars
<1>2. walk \in Pages /\ walk \in Nat
  BY <1>1, BuddyAssumption DEF BuddyInv, FramesOK, Pages
<1>3. order[walk] = 0 /\ usecount[walk] # 1 /\ usecount[walk] \in Nat
  BY <1>2 DEF BuddyInv, FramesOK, TypeOK
<1>4. walk \notin usable
  BY <1>1, <1>2, <1>3 DEF BuddyInv, FramesOK
<1>5. Released' = Released
  <2>1. \A p \in usable : p < walk + 1 <=> p < walk
    <3>1. \A p \in usable : p \in Nat /\ p # walk
      BY Zenon, <1>4, PagesAreNat DEF BuddyInv, TypeOK
    <3> QED BY <1>2, <3>1
  <2> QED BY Zenon, <1>1, <2>1 DEF Released
<1>6. /\ FreeHeads' = FreeHeads /\ MovingHeads' = MovingHeads /\ HeldHeads' = HeldHeads
      /\ Heads' = Heads
  BY Zenon, <1>1 DEF FreeHeads, MovingHeads, HeldHeads, Heads
<1>7. TypeOK'
  BY SMTT(20), <1>1, <1>2 DEF BuddyInv, TypeOK
<1>8. FramesOK'
  <2>1. walk + 1 \in 0..(MaxPfn + 1)
    BY <1>1, <1>2, BuddyAssumption
  <2>2. \A p \in Pages : p >= walk + 1 => p >= walk
    BY <1>2, PagesAreNat
  <2> QED BY Zenon, <1>1, <2>1, <2>2 DEF BuddyInv, FramesOK
<1>9. ListsOK' /\ Merged'
  BY <1>1 DEF BuddyInv, ListsOK, Merged
<1>10. BlocksOK'
  BY Zenon, <1>1, <1>5, <1>6, SameBlocks
<1>11. OpOK' /\ OutOfMemoryIsReal'
  BY Zenon, <1>1, <1>6 DEF BuddyInv, OpOK, OutOfMemoryIsReal, Levels
<1>12. FreeFrames' = FreeFrames /\ HeldBlocks' = HeldBlocks
  BY Zenon, <1>1, <1>6, SameFrames
<1> QED BY Zenon, <1>7, <1>8, <1>9, <1>10, <1>11, <1>12 DEF BuddyInv

\* _testordertofree finds an aligned block of free frames of one zone.
LEMMA _testordertofreeFacts ==
  ASSUME NEW p \in Pages, usecount[p] = 0
  PROVE  LET o == _testordertofree(p)
         IN /\ o \in Orders /\ p % Size[o] = 0
            /\ \A q \in Block(p, o) : q \in Pages /\ zone[q] = zone[p] /\ usecount[q] = 0
<1> DEFINE Good(o) == Possible(p, Size[o]) /\ p % Size[o] = 0
           T == {o \in Orders : o = 0 \/ Good(o)}
           S == {n \in Nat : \E o \in T : n = MAXORDER - o}
<1>1. MAXORDER \in Nat /\ 0 \in Orders /\ Size[0] = 1 /\ p \in Nat
  BY BuddyAssumption, PagesAreNat DEF Orders
<1>2. \A o \in Orders : MAXORDER - o \in Nat /\ o \in Nat
  BY <1>1 DEF Orders
<1>3. PICK n \in S : \A m \in S : n <= m
  <2>1. 0 \in T
    BY Zenon, <1>1
  <2>2. S # {} /\ S \in SUBSET Nat
    BY Zenon, <1>2, <2>1
  <2> HIDE DEF S
  <2> QED BY Zenon, <2>2, Least
<1>4. PICK o \in T : n = MAXORDER - o
  OBVIOUS
<1> HIDE DEF Good
<1>5. \A k \in Orders : k > o => ~Good(k)
  <2> SUFFICES ASSUME NEW k \in Orders, k > o, Good(k) PROVE FALSE
    OBVIOUS
  <2>1. MAXORDER - k \in S
    BY Zenon, <1>2
  <2>2. n <= MAXORDER - k
    BY Zenon, <1>3, <2>1
  <2> QED BY <1>1, <1>2, <1>4, <2>2
<1>6. \E k \in Orders : (k = 0 \/ Good(k)) /\ \A j \in Orders : j > k => ~Good(j)
  BY Zenon, <1>4, <1>5
<1> DEFINE c == _testordertofree(p)
<1>7. c \in Orders /\ (c = 0 \/ Good(c))
  BY Zenon, <1>6 DEF _testordertofree, Good
<1> HIDE DEF c
<1>8. CASE c = 0
  <2>1. p % 1 = 0 /\ Block(p, 0) = {p}
    BY <1>1 DEF Block
  <2> QED BY Zenon, <1>1, <1>7, <1>8, <2>1 DEF c
<1>9. CASE Good(c)
  BY Zenon, <1>7, <1>9 DEF Good, Possible, Together, Block, c
<1> QED BY Zenon, <1>7, <1>8, <1>9

\* phys_freepages_low releases the largest aligned block of free frames.
LEMMA ReleaseFreeStep ==
  ASSUME BuddyInv, ReleaseFree
  PROVE  /\ BuddyInv' /\ HeldBlocks' = HeldBlocks
         /\ \E p \in Pages, o \in Orders :
              /\ Block(p, o) \subseteq usable /\ Block(p, o) \cap Released = {}
              /\ FreeFrames' = FreeFrames \cup Block(p, o)
<1> DEFINE w == walk
           o == _testordertofree(w)
<1>1. /\ op = Idle /\ w <= MaxPfn /\ usecount[w] < 1
      /\ order' = [order EXCEPT ![w] = o] /\ op' = [at |-> "merge", page |-> w, order |-> o]
      /\ walk' = w + Size[o]
  BY Zenon DEF ReleaseFree
<1>2. /\ zone' = zone /\ segment' = segment /\ usable' = usable /\ freelist' = freelist
      /\ usecount' = usecount
  BY Zenon DEF ReleaseFree, mapVars
<1>3. w \in Pages /\ w \in Nat /\ usecount[w] = 0
  <2>1. w \in Pages /\ w \in Nat
    BY <1>1, BuddyAssumption DEF BuddyInv, FramesOK, Pages
  <2>2. usecount[w] \in Nat
    BY Zenon, <2>1 DEF BuddyInv, TypeOK
  <2> QED BY <1>1, <2>1, <2>2
<1>4. /\ o \in Orders /\ w % Size[o] = 0
      /\ \A q \in Block(w, o) : q \in Pages /\ zone[q] = zone[w] /\ usecount[q] = 0
  BY Zenon, <1>3, _testordertofreeFacts
<1>5. \A p \in Pages : usecount[p] = 0 => p \in usable
  BY Zenon DEF BuddyInv, FramesOK
<1>6. order \in [Pages -> -1..MAXORDER] /\ usable \subseteq Pages
  BY Zenon DEF BuddyInv, TypeOK
<1> HIDE DEF o
<1>7. order'[w] = o /\ \A p \in Pages : p # w => order'[p] = order[p]
  BY Zenon, <1>1, <1>3, <1>6
<1>8. Size[o] \in Nat \ {0} /\ \A x : x \in Block(w, o) <=> x \in Int /\ w <= x /\ x < w + Size[o]
  BY Zenon, <1>3, <1>4, SizeFacts
<1>9. Block(w, o) \subseteq usable /\ Block(w, o) \cap Released = {}
  <2>1. \A x \in Block(w, o) : ~(x < w)
    BY <1>3, <1>8
  <2> QED BY Zenon, <1>4, <1>5, <2>1 DEF Released
<1>10. Released' = Released \cup Block(w, o)
  <2>1. \A p \in usable : p < w + Size[o] <=> p < w \/ p \in Block(w, o)
    <3>1. \A p \in usable : p \in Nat
      BY Zenon, <1>6, PagesAreNat
    <3> QED BY <1>3, <1>8, <3>1
  <2> QED BY Zenon, <1>1, <1>2, <1>9, <2>1 DEF Released
<1>11. Partition(Heads, order, Released, zone) /\ Heads \subseteq Pages
  BY Zenon, ListFacts DEF BuddyInv, BlocksOK
<1>12. w \notin Heads
  <2>1. w \notin Released
    BY SMTT(20), <1>3 DEF Released
  <2> QED BY Zenon, <2>1, ListFacts
<1>13. \A p \in Heads : order'[p] = order[p]
  BY Zenon, <1>7, <1>11, <1>12
<1>14. Partition(Heads \cup {w}, order', Released \cup Block(w, o), zone)
  <2>1. \A x \in Block(w, o) : x \notin Released /\ zone[x] = zone[w]
    BY Zenon, <1>4, <1>9
  <2>2. w \in Pages /\ o \in Orders /\ w % Size[o] = 0 /\ order'[w] = o
    BY Zenon, <1>3, <1>4, <1>7
  <2> HIDE DEF w
  <2>3. ReleasedInto(Heads, order, Released, zone, w, o, order')
    BY Zenon, <1>13, <2>1, <2>2 DEF ReleasedInto
  <2> QED BY Zenon, <1>11, <2>3, PartitionReleased
<1>15. /\ FreeHeads' = FreeHeads /\ MovingHeads = {} /\ MovingHeads' = {w}
       /\ HeldHeads' = HeldHeads
  BY Zenon, <1>1, <1>2 DEF FreeHeads, MovingHeads, HeldHeads, Idle
<1>16. BlocksOK'
  <2>1. Heads' = Heads \cup {w}
    BY Zenon, <1>15 DEF Heads
  <2> QED BY Zenon, <1>2, <1>10, <1>14, <2>1 DEF BlocksOK
<1>17. TypeOK'
  <2>1. order' \in [Pages -> -1..MAXORDER]
    <3>1. o \in -1..MAXORDER
      BY <1>4, BuddyAssumption DEF Orders
    <3> QED BY Zenon, <1>1, <1>6, <3>1
  <2>2. walk' \in Nat
    BY <1>1, <1>3, <1>8
  <2>3. op' \in [at : {"merge"}, page : Pages, order : Orders]
    BY Zenon, <1>1, <1>3, <1>4
  <2> QED BY Zenon, <1>2, <2>1, <2>2, <2>3 DEF BuddyInv, TypeOK
<1>18. FramesOK'
  <2>1. w + Size[o] \in 0..(MaxPfn + 1)
    <3>1. w + Size[o] - 1 \in Block(w, o)
      BY <1>3, <1>8
    <3>2. w + Size[o] - 1 \in Pages
      BY Zenon, <1>4, <3>1
    <3>3. MaxPfn \in Nat /\ w + Size[o] - 1 <= MaxPfn
      BY <3>2, BuddyAssumption DEF Pages
    <3> HIDE DEF w
    <3> QED BY <1>3, <1>8, <3>3
  <2>2. \A p \in Pages : p >= w + Size[o] => p >= w /\ p # w
    BY SMTT(20), <1>3, <1>8, PagesAreNat
  <2> QED BY Zenon, <1>1, <1>2, <1>7, <2>1, <2>2 DEF BuddyInv, FramesOK
<1>19. ListsOK'
  <2>1. ASSUME NEW z \in Zones, NEW k \in Orders, NEW x \in On(freelist, z, k)
        PROVE  zone[x] = z /\ order'[x] = k /\ usecount[x] = 0
    BY SMTT(20), <1>13, ListFacts
  <2> QED BY SMTT(20), <1>2, <2>1 DEF BuddyInv, ListsOK
<1>20. OpOK'
  <2>1. op'.at = "merge" /\ op'.page = w /\ op'.order = o /\ w \notin FreeHeads
    BY Zenon, <1>1, <1>12 DEF Heads
  <2> QED BY Zenon, <1>2, <1>3, <1>7, <1>15, <2>1 DEF OpOK
<1>21. OutOfMemoryIsReal'
  BY Zenon, <1>1 DEF OutOfMemoryIsReal
<1>22. Merged'
  BY Zenon, <1>1, <1>2 DEF BuddyInv, Merged, Idle
<1>23. HeldBlocks' = HeldBlocks
  <2>1. \A p \in HeldHeads : order'[p] = order[p]
    BY Zenon, <1>13 DEF Heads
  <2> QED BY Zenon, <1>15, <2>1 DEF HeldBlocks
<1>24. FreeFrames' = FreeFrames \cup Block(w, o)
  <2>1. \A p \in FreeHeads : Block(p, order'[p]) = Block(p, order[p])
    BY Zenon, <1>13 DEF Heads
  <2>2. Block(w, order'[w]) = Block(w, o)
    BY Zenon, <1>7
  <2>3. FreeFrames' = UNION {Block(p, order'[p]) : p \in FreeHeads \cup {w}}
    BY Zenon, <1>15 DEF FreeFrames, Block
  <2>4. FreeFrames = UNION {Block(p, order[p]) : p \in FreeHeads}
    BY Zenon, <1>15 DEF FreeFrames
  <2> QED BY <2>1, <2>2, <2>3, <2>4
<1> QED BY SMTT(20), <1>3, <1>4, <1>9, <1>16, <1>17, <1>18, <1>19, <1>20, <1>21, <1>22, <1>23, <1>24
        DEF BuddyInv

----------------------------------------------------------------------------
(* The theorems.                                                           *)

\* Every step of the allocator keeps the invariant, and is a step of
\* PageAllocator or leaves the free frames and the held blocks as they are.
LEMMA NextStep ==
  ASSUME BuddyInv, Next
  PROVE  BuddyInv' /\ ((PA!Next /\ UNCHANGED <<zone, usable>>)
                      \/ UNCHANGED <<zone, usable, FreeFrames, HeldBlocks>>)
<1>0. zone' = zone /\ usable' = usable
  BY Zenon DEF Next, ReleaseFree, SkipUsed, Merge, AddToFreeList, Split, SplitOfFrameZero, TakePage,
         page_free_page_pfn, _alloc_pages_byorder, mapVars
<1>1. CASE ReleaseFree
  <2>1. BuddyInv' /\ HeldBlocks' = HeldBlocks
    BY Zenon, <1>1, ReleaseFreeStep
  <2>2. PICK w \in Pages, k \in Orders :
          /\ Block(w, k) \subseteq usable /\ Block(w, k) \cap Released = {}
          /\ FreeFrames' = FreeFrames \cup Block(w, k)
    BY Zenon, <1>1, ReleaseFreeStep
  <2>3. \A x \in FreeFrames \cup UNION {PA!BlockOf(b) : b \in HeldBlocks} : x \in Released
    <3>1. \A q \in Heads : \A x \in Block(q, order[q]) : x \in Released
      BY Zenon DEF BuddyInv, BlocksOK, Partition
    <3>2. \A x \in FreeFrames : x \in Released
      BY Zenon, <3>1 DEF FreeFrames, Heads
    <3>3. \A b \in HeldBlocks : \A x \in PA!BlockOf(b) : x \in Released
      <4> TAKE b \in HeldBlocks
      <4>1. PICK q \in HeldHeads : b = <<q, order[q]>>
        BY Zenon DEF HeldBlocks
      <4>2. PA!BlockOf(b) = Block(q, order[q])
        BY Zenon, <4>1 DEF PA!BlockOf, Block
      <4> QED BY Zenon, <3>1, <4>2 DEF Heads
    <3> QED BY Zenon, <3>2, <3>3
  <2>4. Block(w, k) \cap (FreeFrames \cup UNION {PA!BlockOf(b) : b \in HeldBlocks}) = {}
    BY Zenon, <2>2, <2>3
  <2>5. PA!Release
    <3>1. w \in PA!PageFrames /\ k \in 0..MAXORDER
      BY Zenon DEF PA!PageFrames, Pages, Orders
    <3>2. PA!BlockOf(<<w, k>>) = Block(w, k)
      BY Zenon DEF PA!BlockOf, Block
    <3> QED BY Zenon, <2>1, <2>2, <2>4, <3>1, <3>2 DEF PA!Release
  <2> QED BY Zenon, <1>0, <2>1, <2>5 DEF PA!Next
<1>2. CASE TakePage
  <2>1. BuddyInv'
    BY Zenon, <1>2, TakePageStep
  <2>2. PICK p \in Pages, o \in Orders :
          /\ zone[p] \in AllocZones /\ Block(p, o) \subseteq FreeFrames /\ p % Size[o] = 0
          /\ \A q \in Block(p, o) : zone[q] = zone[p]
          /\ FreeFrames' = FreeFrames \ Block(p, o)
          /\ HeldBlocks' = HeldBlocks \cup {<<p, o>>}
    BY Zenon, <1>2, TakePageStep
  <2>3. PA!BlockOf(<<p, o>>) = Block(p, o)
    BY Zenon DEF PA!BlockOf, Block
  <2>4. PA!Alloc(zone[p], o)
    BY Zenon, <2>2, <2>3 DEF PA!Alloc, PA!PageFrames, Pages
  <2> QED BY Zenon, <1>0, <2>1, <2>2, <2>4 DEF PA!Next, AllocZones, Orders
<1>3. ASSUME NEW p \in Pages, page_free_page_pfn(p)
      PROVE  BuddyInv' /\ PA!Next
  <2>0. PICK b : b = <<p, order[p]>>
    BY Zenon
  <2>1. /\ BuddyInv' /\ b \in HeldBlocks
        /\ FreeFrames' = FreeFrames \cup Block(p, order[p]) /\ HeldBlocks' = HeldBlocks \ {b}
    BY Zenon, <1>3, <2>0, page_free_Step
  <2>2. PA!BlockOf(b) = Block(p, order[p])
    BY Zenon, <2>0 DEF PA!BlockOf, Block
  <2>3. PA!Free(b)
    BY Zenon, <2>1, <2>2 DEF PA!Free
  <2> QED BY Zenon, <2>1, <2>3 DEF PA!Next
<1>4. CASE SkipUsed
  BY Zenon, <1>0, <1>4, SkipUsedStep
<1>5. CASE Merge
  BY Zenon, <1>0, <1>5, MergeStep
<1>6. CASE AddToFreeList
  BY Zenon, <1>0, <1>6, AddToFreeListStep
<1>7. CASE Split
  BY Zenon, <1>0, <1>7, SplitStep
<1>8. CASE SplitOfFrameZero
  BY Zenon, <1>0, <1>8, SplitOfFrameZeroStep
<1>9. ASSUME NEW z \in AllocZones, NEW o \in Orders, _alloc_pages_byorder(z, o)
      PROVE  BuddyInv' /\ UNCHANGED <<FreeFrames, HeldBlocks>>
  BY Zenon, <1>9, alloc_Step
<1> QED BY SMTT(20), <1>0, <1>1, <1>2, <1>3, <1>4, <1>5, <1>6, <1>7, <1>8, <1>9 DEF Next

\* A step that changes nothing keeps the invariant.
LEMMA StutterStep ==
  ASSUME BuddyInv, UNCHANGED vars
  PROVE  BuddyInv' /\ UNCHANGED <<zone, usable, FreeFrames, HeldBlocks>>
<1>1. /\ zone' = zone /\ segment' = segment /\ usable' = usable /\ freelist' = freelist
      /\ order' = order /\ usecount' = usecount /\ op' = op /\ walk' = walk
  BY Zenon DEF vars, mapVars
<1>2. /\ FreeHeads' = FreeHeads /\ HeldHeads' = HeldHeads /\ MovingHeads' = MovingHeads
      /\ Heads' = Heads /\ Released' = Released
  BY Zenon, <1>1 DEF FreeHeads, HeldHeads, MovingHeads, Heads, Released
<1>3. TypeOK' /\ FramesOK' /\ ListsOK' /\ Merged'
  BY SMTT(20), <1>1 DEF BuddyInv, TypeOK, FramesOK, ListsOK, Merged
<1>4. OpOK' /\ OutOfMemoryIsReal'
  BY Zenon, <1>1, <1>2 DEF BuddyInv, OpOK, OutOfMemoryIsReal, Levels
<1>5. BlocksOK'
  BY Zenon, <1>1, <1>2, SameBlocks
<1> QED BY <1>1, <1>2, <1>3, <1>4, <1>5, SameFrames DEF BuddyInv

\* The invariant holds in every reachable state.
THEOREM Invariance == Spec => []BuddyInv
<1>1. Init => BuddyInv
  BY Zenon, InvariantInit
<1>2. BuddyInv /\ [Next]_vars => BuddyInv'
  BY Zenon, NextStep, StutterStep
<1> QED BY <1>1, <1>2, PTL DEF Spec

\* At every step of every operation the free lists, the callers' blocks and the
\* block in hand share out exactly the memory phys_freepages_low has released:
\* no two blocks overlap, no frame is lost or invented, and every page on a
\* free list is there once, aligned, unused and of the list's zone and order
\* (mem/page.c, include/list.h).
THEOREM BlocksAlwaysPartitionMemory == Spec => []BlocksPartitionMemory
  BY Invariance, InvariantIsStrongEnough, PTL

\* Between operations no free block below the largest order lies beside its free
\* buddy: _addToBuddyFreeList leaves nothing to merge.
THEOREM AlwaysCoalesced == Spec => []Coalesced
  BY Invariance, InvariantIsStrongEnough, PTL

\* _findFreePageInBuddy fails only when the zone has no block large enough, or
\* when the block it comes to first, and would have to split, is page frame 0.
THEOREM OutOfMemoryIsAlwaysReal == Spec => []OutOfMemoryIsReal
  BY Invariance, InvariantIsStrongEnough, PTL

\* The buddy allocator implements PageAllocator: releasing, allocating and
\* freeing are its steps, and merging and splitting do not show.
THEOREM ImplementsPageAllocator == Spec => PageAllocatorSpec
<1>1. Init => PA!Init
  <2> SUFFICES ASSUME Init PROVE FreeHeads = {} /\ MovingHeads = {} /\ HeldHeads = {}
    BY Zenon DEF PA!Init, FreeFrames, HeldBlocks
  <2>1. BuddyInv /\ walk = 0
    BY Zenon, InvariantInit DEF Init
  <2>2. \A p \in Released : p \in Pages /\ p < 0
    BY Zenon, <2>1 DEF BuddyInv, TypeOK, Released
  <2>3. Released = {}
    <3>1. \A p \in Pages : ~(p < 0)
      BY PagesAreNat
    <3> QED BY Zenon, <2>2, <3>1
  <2> QED BY Zenon, <2>1, <2>3, ListFacts DEF Heads
<1>2. BuddyInv /\ [Next]_vars
        => [PA!Next /\ UNCHANGED <<zone, usable>>]_<<zone, usable, FreeFrames, HeldBlocks>>
  BY Zenon, NextStep, StutterStep
<1>3. Spec => [][PA!Next /\ UNCHANGED <<zone, usable>>]_<<zone, usable, FreeFrames, HeldBlocks>>
  BY <1>2, Invariance, PTL DEF Spec
<1> QED BY <1>1, <1>3, PTL DEF Spec, PageAllocatorSpec, PA!Spec
=============================================================================
