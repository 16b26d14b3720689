---------------------------- MODULE Multiboot2 ----------------------------
(***************************************************************************)
(* The boot allocator (boot/bootmem.c) and what boot/multiboot2.c does     *)
(* with the boot loader's information: it chooses the memory of the boot   *)
(* allocator, moves the information and the boot modules there and copies  *)
(* the memory map.                                                         *)
(*                                                                         *)
(* A machine m is what the boot loader leaves: the memory map m.mmap, the  *)
(* words m.beyond that follow the map's tag, the end m.imgend of the boot  *)
(* image, the information itself at m.mbi (m.mbisize long) and the modules *)
(* m.mods.  Addresses and sizes are counted in words of 8 bytes.           *)
(***************************************************************************)
EXTENDS PhysMap

CONSTANTS
  KERNEL_PHYS_BASE, \* where the boot image begins: 1 MB
  BOOTMEM_START,    \* BOOTMEM_STARTMB: 16 MB
  BOOTMEM_ROOM,     \* and what must be free above it: 8 MB
  ENTRY,            \* words of an entry of either memory map: 3
  TAGHEADER,        \* words of the memory map tag before its entries: 2
  PAGE_T            \* words of a page_t: 5

Panicked == [panic |-> TRUE]

----------------------------------------------------------------------------
(* The boot allocator only moves its top; it never looks at maxsize.       *)

PAGEALIGN_DOWN(a) == (a \div PAGESIZE) * PAGESIZE

bootmem_alloc(b, size) == [b EXCEPT !.heaptop = @ + size]
bootmem_alloc_virt(b, size) == [b EXCEPT !.heaptop = PAGEALIGN_UP(@) + size]

----------------------------------------------------------------------------
(* Every loop over the map's tag compares the offset of an entry, counted  *)
(* from the first entry, with the size of the tag, counted from its header.*)

TagSize(m) == TAGHEADER + ENTRY * Len(m.mmap)

LoopCount(m) == Cardinality({i \in 0..(Len(m.mmap) + TAGHEADER) : i * ENTRY < TagSize(m)})

LoopEntries(m) == SubSeq(Append(m.mmap, m.beyond), 1, LoopCount(m))

Words(r) == r.start..(r.end - 1)

memcpy(ram, dst, src, n) ==
  [a \in DOMAIN ram \cup dst..(dst + n - 1) |->
     IF a \in dst..(dst + n - 1) THEN ram[src + (a - dst)] ELSE ram[a]]

\* The words of the information and of the modules, where they were loaded.
Loaded(m) ==
  LET at(a) == {k \in DOMAIN m.mods : a \in Words(m.mods[k])}
  IN [a \in m.mbi..(m.mbi + m.mbisize - 1) \cup UNION {Words(m.mods[k]) : k \in DOMAIN m.mods} |->
        IF at(a) = {} THEN <<0, a - m.mbi>>
        ELSE LET k == CHOOSE k \in at(a) : TRUE IN <<k, a - m.mods[k].start>>]

multiboot2_check_moduleoverlap_starts(m, new_mbi) ==
  \E k \in DOMAIN m.mods : m.mods[k].start > new_mbi

\* TRUE, a PANIC: a module ends above the place the information is moved to.
multiboot2_check_moduleoverlap(m, new_mbi) ==
  \E k \in DOMAIN m.mods : m.mods[k].start > new_mbi \/ m.mods[k].end > new_mbi

\* One module: copied to the top of the heap and added to the module list.
RelocateModule(s, mod) ==
  [s EXCEPT !.ram = memcpy(@, s.heaptop, mod.start, mod.end - mod.start),
            !.mods = Append(@, [start |-> s.heaptop, end |-> s.heaptop + (mod.end - mod.start)]),
            !.heaptop = @ + (mod.end - mod.start)]

Bootmemstart(m, e) ==
  IF LastByte(e) > BOOTMEM_START + BOOTMEM_ROOM THEN BOOTMEM_START
  ELSE IF e.addr <= m.imgend /\ m.imgend < LastByte(e) THEN PAGEALIGN_UP(m.imgend)
  ELSE e.addr

\* The first entry of more than 1 MB of available memory holds the boot
\* allocator, above the boot image; the information goes first, then the
\* modules in their order.  The result is the boot allocator, the module
\* list and the words of memory that were copied; or a PANIC.
multiboot2_set_bootmem(m) ==
  LET usable == SelectSeq(LoopEntries(m), Candidate)
      e == Head(usable)
      start == PAGEALIGN_UP(Bootmemstart(m, e))
      s0 == [ram |-> memcpy(Loaded(m), start, m.mbi, m.mbisize),
             heaptop |-> start + m.mbisize, mods |-> << >>]
      s == FoldLeft(RelocateModule, s0, m.mods)
  IN IF \/ usable = << >>
        \/ LastByte(e) > BOOTMEM_START + BOOTMEM_ROOM /\ m.imgend >= BOOTMEM_START
        \/ multiboot2_check_moduleoverlap(m, start)
     THEN Panicked
     ELSE [panic |-> FALSE, ram |-> s.ram, mods |-> s.mods,
           bootmem |-> [addr |-> start, heaptop |-> s.heaptop,
                        maxsize |-> (e.addr + e.size) - start]]

\* The entries multiboot2_set_bootmem_map writes; the marker follows them.
MapEntries(m) == LoopEntries(m)

\* The room it allocates for them.
multiboot2_set_bootmem_map(m, b) == bootmem_alloc(b, (TagSize(m) \div ENTRY + 1) * ENTRY)

\* The word that holds the type of the BOOTMEMTYPE_END entry.
EndMarker(m, mapaddr) == mapaddr + ENTRY * Len(MapEntries(m)) + 2
=============================================================================
