------------------------------- MODULE Boot -------------------------------
(***************************************************************************)
(* The boot of the first processor, from hal_start to the first user       *)
(* process: the boot loader's information, the page frame map, the kernel  *)
(* page table, the ACPI tables, the PCI functions and the start of         *)
(* STARTINIT.  It composes Multiboot2, PhysMap, PageTable, Acpi and        *)
(* PciConfig on one machine.                                               *)
(*                                                                         *)
(* The processor is sequential: pc is the next part of hal_start or        *)
(* kmain_bp_enter, and todo the mmu_map_page calls that the current part   *)
(* still has to make.  An initial state is one machine.                    *)
(***************************************************************************)
EXTENDS PageTable, Acpi, PciConfig

CONSTANTS
  Machines,
  BIOS_FIRST, BIOS_LAST,      \* 0x80000 - 0xFFFFF, as frames
  SHADOW_FIRST, SHADOW_LAST,  \* 0x3FDF000 - 0x3FFFFFF
  APIC_FIRST, APIC_LAST,      \* 0xFEC00000 - 0xFFFFFFFF
  RSDP_FIRST,                 \* 0xE0000: the first frame of the BIOS scan
  STACKORDER                  \* order of every stack

VARIABLES
  m,                \* the machine
  pc, todo,
  boot,             \* bootmem, module list, copied memory, memory map
  tableidx,         \* next ACPI table of acpi_memmap_acpi_entries
  devs,             \* PCI functions found and not yet probed
  regs,             \* the BAR registers of every function
  bars,             \* what pci_config_parse_bars found, of probed functions
  kernelmem,        \* frames the kernel allocated for stacks and slabs
  usermem,          \* frames allocated for the pages of the user process
  touched           \* frames of tables and devices that the last step used

hwvars == <<tableidx, devs, regs, bars>>
allocvars == <<kernelmem, usermem>>
vars == <<ptvars, m, pc, todo, boot, hwvars, allocvars, touched>>

map == MapEntries(m)

----------------------------------------------------------------------------
(* Pages and requests.                                                     *)

Indices(n) == <<n % FAN, (n \div FAN) % FAN, (n \div FAN^2) % FAN, n \div FAN^3>>

IdentityPage(pfn) == Indices(pfn)
KernelPage(pfn) == Indices(pfn + HALF * FAN^3)     \* PFN2VIRT, P2V

KernelRequest(root, v, pfn, dev) ==
  [root |-> root, v |-> v, to |-> pfn, us |-> FALSE, dev |-> dev]

mmu_map_device_region(pfns) ==
  [k \in DOMAIN pfns |-> KernelRequest(kernelpagetable, KernelPage(pfns[k]), pfns[k], TRUE)]

MemPages_short(e) == PageSeq(PHYS2PFN(e.addr), PHYS2PFN(LastByte(e)) - 1)

MemPages(e) == PageSeq(PHYS2PFN(e.addr), PHYS2PFN(LastByte(e)))

Misaligned(e) == e.type = "FREE" /\ e.addr # PAGEALIGN_DOWN(e.addr)

\* Every page of free memory, twice: where it is and in the kernel half.
\* The loop ends in a PANIC at an entry that does not begin with a page.
mmu_init_kernel_pagetable_mem(root) ==
  LET bad == SelectInSeq(map, Misaligned)
      seen == IF bad = 0 THEN map ELSE SubSeq(map, 1, bad - 1)
      pages == FlattenSeq([k \in DOMAIN seen |->
                 IF seen[k].type = "FREE" THEN MemPages(seen[k]) ELSE << >>])
  IN FlattenSeq([k \in DOMAIN pages |->
       <<KernelRequest(root, IdentityPage(pages[k]), pages[k], FALSE),
         KernelRequest(root, KernelPage(pages[k]), pages[k], FALSE)>>])

\* A user mapping of consecutive frames.
mmu_map_range(root, pfn, vpage, n) ==
  [k \in 1..n |-> [root |-> root, v |-> Indices(vpage + k - 1), to |-> pfn + k - 1,
                   us |-> TRUE, dev |-> FALSE]]

----------------------------------------------------------------------------
(* The page allocator, as boot uses it: aligned blocks of frames of the    *)
(* NORMAL zone, or a PANIC.  A machine fixes which of the free blocks is   *)
(* taken: the lowest or the highest.                                       *)

Blocks(order) ==
  {b \in {f..(f + 2^order - 1) : f \in {f \in free : f % 2^order = 0}} : b \subseteq free}

Preferred(blocks) ==
  IF m.order = "low" THEN CHOOSE b \in blocks : \A c \in blocks : Min(b) <= Min(c)
  ELSE CHOOSE b \in blocks : \A c \in blocks : Min(c) <= Min(b)

\* The page tables take single frames in the same order.
InOrder == free' # free => {f \in free : f \notin free'} = Preferred({{f} : f \in free})

Panic ==
  /\ panic' = TRUE
  /\ UNCHANGED <<mem, free, kernelpagetable, users, walkvars, level, usertables,
                 m, pc, todo, boot, hwvars, allocvars, touched>>

At(p) == pc = p /\ todo = << >> /\ lvl = 0 /\ ~panic

Goto(p) == pc' = p /\ UNCHANGED m

----------------------------------------------------------------------------
(* hal_start: boot information, page frames, kernel page table, devices.   *)

\* The information is taken over from the boot loader (the code knows only
\* multiboot2): the boot allocator, the modules and the memory map.
hal_init_bootinfo ==
  /\ At("bootinfo")
  /\ LET r == multiboot2_set_bootmem(m)
     IN \/ r.panic /\ Panic
        \/ /\ ~r.panic
           /\ boot' = [bootmem |-> multiboot2_set_bootmem_map(m, r.bootmem),
                       mapaddr |-> r.bootmem.heaptop, pageframemap |-> 0,
                       ram |-> r.ram, mods |-> r.mods]
           /\ Goto("phys")
           /\ UNCHANGED <<ptvars, todo, hwvars, allocvars, touched>>

BootmemFrames_last(b) == PHYS2PFN(b.addr)..(PHYS2PFN(b.heaptop) - 1)

\* pfn_bootmem_min to pfn_bootmem_max: one more byte is allocated to find
\* where the heap ends.
BootmemFrames(b) == PHYS2PFN(b.addr)..PHYS2PFN(b.heaptop)

KernelFrames == PHYS2PFN(KERNEL_PHYS_BASE)..PHYS2PFN(m.imgend)

\* The page frame map begins on the next page boundary.  The end marker of
\* the memory map was written behind the memory that was allocated for it:
\* where the first page_t overlaps it, its list pointers (words 0 and 1)
\* overwrite the marker at once, and its order (word 2) once the block of
\* frame 0 is released with an order above 0.
MarkerLost(b, uc) ==
  LET word == EndMarker(m, boot.mapaddr) - PAGEALIGN_UP(b.heaptop)
  IN word \in {0, 1} \/ (word = 2 /\ uc[0] = 0 /\ uc[1] = 0)

phys_init ==
  /\ At("phys")
  /\ LET b == bootmem_alloc_virt(boot.bootmem, PAGE_T * (PFN_MAX(map) + 1))
         uc == UseCount(map, KernelFrames, BootmemFrames(b))
     IN /\ boot' = [boot EXCEPT !.bootmem = bootmem_alloc(b, 1),
                                !.pageframemap = PAGEALIGN_UP(boot.bootmem.heaptop)]
        /\ free' = {f \in DOMAIN uc : uc[f] = 0 /\ phys_zone_for_pfn(map, f) = "NORMAL"}
        /\ Goto(IF MarkerLost(boot.bootmem, uc) THEN "runaway" ELSE "mmu")
  /\ UNCHANGED <<mem, kernelpagetable, users, walkvars, panic, level, usertables,
                 todo, hwvars, allocvars, touched>>

mmu_init_kernel_pagetable ==
  /\ At("mmu")
  /\ pagetable_init /\ InOrder
  /\ todo' = IF panic' THEN << >> ELSE mmu_init_kernel_pagetable_mem(kernelpagetable')
  /\ Goto(IF \E k \in DOMAIN map : Misaligned(map[k]) THEN "misaligned" ELSE "devices")
  /\ UNCHANGED <<boot, hwvars, allocvars, touched>>

MemPanic == At("misaligned") /\ Panic

\* The rest of hal_init_mem: three regions of device memory.
hal_init_mem ==
  /\ At("devices")
  /\ todo' = mmu_map_device_region(PageSeq(BIOS_FIRST, BIOS_LAST)
                                   \o PageSeq(SHADOW_FIRST, SHADOW_LAST)
                                   \o PageSeq(APIC_FIRST, APIC_LAST))
  /\ Goto("vfb")
  /\ UNCHANGED <<ptvars, boot, hwvars, allocvars, touched>>

VfbFrames == IF m.vfb.size = 0 THEN << >>
             ELSE PageSeq(PHYS2PFN(m.vfb.addr), PHYS2PFN(m.vfb.addr + m.vfb.size))

VfbUsed == IF m.vfb.size = 0 THEN {}
           ELSE PHYS2PFN(m.vfb.addr)..PHYS2PFN(m.vfb.addr + m.vfb.size - 1)

hal_init_bootvfb_high ==
  /\ At("vfb")
  /\ todo' = mmu_map_device_region(VfbFrames)
  /\ Goto("restack")
  /\ UNCHANGED <<ptvars, boot, hwvars, allocvars, touched>>

\* A block for the kernel itself (a stack, the GDTs), or a PANIC.  On some
\* machines the kmalloc calls of the same part need a frame for a slab too.
KernelAllocates(order) ==
  LET block == IF Blocks(order) = {} THEN {} ELSE Preferred(Blocks(order))
      slab == IF m.slab /\ free # block THEN Preferred({{f} : f \in free \ block}) ELSE {}
  IN \/ (block = {} \/ (m.slab /\ slab = {})) /\ Panic
     \/ /\ block # {} /\ (m.slab => slab # {})
        /\ free' = free \ (block \cup slab)
        /\ kernelmem' = kernelmem \cup block \cup slab
        /\ UNCHANGED <<mem, kernelpagetable, users, walkvars, panic, level, usertables,
                       todo, boot, hwvars, usermem>>

\* The console is drawn, and the first process gets its stack.
hal_bp_restack ==
  /\ At("restack")
  /\ KernelAllocates(STACKORDER)
  /\ panic' \/ (Goto("acpi") /\ touched' = VfbUsed)

----------------------------------------------------------------------------
(* hal_bp_init: the ACPI tables.                                           *)

RsdpFrames ==
  IF Version(m.acpi) = 0 THEN RSDP_FIRST..BIOS_LAST
  ELSE PHYS2PFN(boot.bootmem.addr)..PHYS2PFN(boot.bootmem.addr + m.mbisize - 1)

acpi_tables_init ==
  /\ At("acpi")
  /\ LET root == SdtRoot(m.acpi)
     IN \/ root = << >> /\ Panic
        \/ /\ root # << >>
           /\ todo' = mmu_map_device_region(acpi_map_acpi_mem(map, Head(root).addr))
           /\ touched' = RsdpFrames
           /\ Goto("entries")
           /\ UNCHANGED <<ptvars, boot, hwvars, allocvars>>

\* The root table lists the others: the area around each is mapped before
\* the table itself is looked at.
acpi_memmap_acpi_entries ==
  /\ At("entries")
  /\ touched' = TableFrames(Head(SdtRoot(m.acpi)))
                \cup UNION {TableFrames(m.acpi.sdts[i]) : i \in 1..(tableidx - 1)}
  /\ LET more == tableidx <= Len(m.acpi.sdts)
     IN /\ todo' = IF more
                   THEN mmu_map_device_region(acpi_map_acpi_mem(map, m.acpi.sdts[tableidx].addr))
                   ELSE << >>
        /\ tableidx' = IF more THEN tableidx + 1 ELSE tableidx
        /\ Goto(IF more THEN "entries" ELSE "hpet")
  /\ UNCHANGED <<ptvars, boot, devs, regs, bars, allocvars>>

\* A table that is not there is not noticed: NULL is used as its address.
UseTable(sig, used, next) ==
  LET t == acpi_find(m.acpi, sig)
  IN /\ touched' = IF t = << >> THEN {} ELSE TableFrames(Head(t)) \cup used
     /\ Goto(IF t = << >> THEN "wild" ELSE next)

hal_init_hpet ==
  /\ At("hpet")
  /\ UseTable("HPET", {m.hpet}, "madt")
  /\ UNCHANGED <<ptvars, todo, boot, hwvars, allocvars>>

\* hal_parse_APIC_from_madt, and the per-processor GDTs after it.
hal_bp_init ==
  /\ At("madt")
  /\ KernelAllocates(0)
  /\ panic' \/ UseTable("APIC", m.apics, "pci")

----------------------------------------------------------------------------
(* kmain_bp_enter: PCI.                                                    *)

\* A region is mapped for all buses, whatever its range of buses.
pci_config_add_region(r) ==
  mmu_map_device_region(PageSeq(r.base, r.base + BUSES * SLOTS * FUNCS - 1))

hal_pci_init ==
  /\ At("pci")
  /\ UseTable("MCFG", {}, "enumerate")
  /\ todo' = IF pc' = "wild" THEN << >>
             ELSE FlattenSeq([k \in DOMAIN m.regions |-> pci_config_add_region(m.regions[k])])
  /\ UNCHANGED <<ptvars, boot, hwvars, allocvars>>

\* All regions are read, and every device found is allocated.
Enumerate ==
  /\ At("enumerate")
  /\ LET found == FlattenSeq([k \in DOMAIN m.regions |->
                     pci_config_enumerate_regions(m.functions, m.regions[k])])
         slab == IF m.slab /\ free # {} THEN Preferred(Blocks(0)) ELSE {}
     IN \/ /\ \/ \E k \in DOMAIN found : UnexpectedHeader(found[k])
              \/ m.slab /\ slab = {}
           /\ Panic
        \/ /\ \A k \in DOMAIN found : ~UnexpectedHeader(found[k])
           /\ m.slab => slab # {}
           /\ devs' = SelectSeq(found, pci_config_enumerate_function)
           /\ touched' = UNION {ConfigReads(m.functions, m.regions[k]) : k \in DOMAIN m.regions}
           /\ free' = free \ slab
           /\ kernelmem' = kernelmem \cup slab
           /\ Goto("drivers")
           /\ UNCHANGED <<mem, kernelpagetable, users, walkvars, panic, level, usertables,
                          todo, boot, tableidx, regs, bars, usermem>>

\* The frames of a BAR that pci_iomap maps.
BarFrames(bar) == PageSeq(PHYS2PFN(bar.addr), PHYS2PFN(bar.addr + bar.size - 1))

pci_iomap(parsed, iomap) ==
  FlattenSeq([k \in DOMAIN iomap |-> mmu_map_device_region(BarFrames(parsed[iomap[k]]))])

\* The next device: no driver knows it, or its driver's probe reads the
\* BARs and maps them, or PANICs.
pci_config_driver_init ==
  /\ At("drivers") /\ devs # << >>
  /\ LET f == Head(devs)
         s == pci_config_parse_bars(f, regs[f])
         probe == Probe(f, s.bars)
     IN \/ /\ f.ident \notin Drivers
           /\ devs' = Tail(devs)
           /\ UNCHANGED <<ptvars, m, pc, todo, boot, tableidx, regs, bars, allocvars, touched>>
        \/ f.ident \in Drivers /\ probe.panic /\ Panic
        \/ /\ f.ident \in Drivers /\ ~probe.panic
           /\ regs' = [regs EXCEPT ![f] = s.regs]
           /\ bars' = [g \in DOMAIN bars \cup {f} |-> IF g = f THEN s.bars ELSE bars[g]]
           /\ todo' = pci_iomap(s.bars, probe.iomap)
           /\ Goto("attach")
           /\ UNCHANGED <<ptvars, boot, tableidx, devs, allocvars, touched>>

\* The rest of the probe, which uses the registers, and the attach.
ProbeAndAttach ==
  /\ At("attach")
  /\ LET f == Head(devs)
         iomap == Probe(f, bars[f]).iomap
     IN touched' = UNION {Range(BarFrames(bars[f][iomap[k]])) : k \in DOMAIN iomap}
  /\ devs' = Tail(devs)
  /\ Goto("drivers")
  /\ UNCHANGED <<ptvars, todo, boot, tableidx, regs, bars, allocvars>>

----------------------------------------------------------------------------
(* kmain_bp_enter: the first processes.                                    *)

hal_start_scheduling ==
  /\ At("drivers") /\ devs = << >>
  /\ KernelAllocates(STACKORDER)
  /\ panic' \/ (Goto("userproc") /\ touched' = {})

\* proc_create_userproc: a kernel stack, the page directory, the user stack.
proc_create_userproc ==
  /\ At("userproc")
  /\ KernelAllocates(STACKORDER)
  /\ panic' \/ (Goto("upgdir") /\ UNCHANGED touched)

UserPageDirectory ==
  /\ At("upgdir")
  /\ mmu_init_user_pagetable /\ InOrder
  /\ Goto("ustack")
  /\ UNCHANGED <<todo, boot, hwvars, allocvars, touched>>

size_to_pageorder_floor(size) ==
  CHOOSE k \in 0..size : 2^k <= 1 + (size - 1) \div PAGESIZE
                         /\ 1 + (size - 1) \div PAGESIZE < 2^(k + 1)

size_to_pageorder(size) ==
  CHOOSE k \in 0..size : 2^k > (size - 1) \div PAGESIZE
                         /\ \A j \in 0..(k - 1) : 2^j <= (size - 1) \div PAGESIZE

\* A block for pages of the user process, mapped from vpage on.
UserAllocates(order, vpage, pages) ==
  \/ Blocks(order) = {} /\ Panic
  \/ /\ Blocks(order) # {}
     /\ free' = free \ Preferred(Blocks(order))
     /\ usermem' = usermem \cup Preferred(Blocks(order))
     /\ \E u \in users : todo' = mmu_map_range(u, Min(Preferred(Blocks(order))), vpage, pages)
     /\ UNCHANGED <<mem, kernelpagetable, users, walkvars, panic, level, usertables,
                    boot, hwvars, kernelmem, touched>>

\* The user stack ends at PAGESIZE << 27, the first page beyond lvl4 entry 0.
UserStack ==
  /\ At("ustack")
  /\ UserAllocates(STACKORDER, FAN^3 - 2^STACKORDER, 2^STACKORDER)
  /\ panic' \/ Goto("rsp0")

USERBASE == 2 * FAN           \* 0x400000, as a page

archproc_prepare_startinit ==
  \/ /\ At("rsp0")
     /\ KernelAllocates(STACKORDER)
     /\ panic' \/ (Goto("ubin") /\ UNCHANGED touched)
  \/ /\ At("ubin")
     /\ UserAllocates(size_to_pageorder(m.initlen), USERBASE,
                      PAGEALIGN_UP(m.initlen) \div PAGESIZE)
     /\ panic' \/ Goto("walk")

\* mmu_debug_walkadr PANICs unless the tables of the binary are there.
mmu_debug_walkadr ==
  /\ At("walk")
  /\ LET u == CHOOSE u \in users : TRUE
         v == Indices(USERBASE)
     IN panic' = ~(E4(u, v).p /\ E3(u, v).p /\ E2(u, v).p)
  /\ Goto("done")
  /\ UNCHANGED <<mem, free, kernelpagetable, users, walkvars, level, usertables,
                 todo, boot, hwvars, allocvars, touched>>

----------------------------------------------------------------------------

\* A request of the current part, a page at a time.
MapNext ==
  /\ todo # << >>
  /\ mmu_map_page(Head(todo))
  /\ todo' = Tail(todo)
  /\ UNCHANGED <<m, pc, boot, hwvars, allocvars, touched>>

Walk ==
  /\ pagetable_walk_getsubtable \/ mmu_set_pte
  /\ InOrder
  /\ UNCHANGED <<m, pc, todo, boot, hwvars, allocvars, touched>>

\* The end of the model: a PANIC, the scheduler, a loop that runs over the
\* end of the memory map or a NULL pointer used as a table.
Halted == (panic \/ pc \in {"done", "runaway", "wild"}) /\ UNCHANGED vars

BootInit ==
  /\ m \in Machines
  /\ mem = [f \in Frames |-> [i \in Idx |-> [p |-> TRUE, to |-> 0, us |-> TRUE, dev |-> FALSE]]]
  /\ free = {} /\ kernelpagetable = null /\ users = {}
  /\ req = KernelRequest(0, IdentityPage(0), 0, FALSE) /\ lvl = 0 /\ tbl = 0
  /\ panic = FALSE /\ level = [f \in Frames |-> 0] /\ usertables = {}
  /\ pc = "bootinfo" /\ todo = << >>
  /\ boot = << >>
  /\ tableidx = 1 /\ devs = << >>
  /\ regs = [f \in m.functions |-> [i \in BarIdx |-> Programmed(f, i)]]
  /\ bars = << >>
  /\ kernelmem = {} /\ usermem = {} /\ touched = {}

BootNext ==
  \/ hal_init_bootinfo \/ phys_init \/ mmu_init_kernel_pagetable \/ MemPanic
  \/ hal_init_mem \/ hal_init_bootvfb_high \/ hal_bp_restack
  \/ acpi_tables_init \/ acpi_memmap_acpi_entries \/ hal_init_hpet \/ hal_bp_init
  \/ hal_pci_init \/ Enumerate \/ pci_config_driver_init \/ ProbeAndAttach
  \/ hal_start_scheduling \/ proc_create_userproc \/ UserPageDirectory \/ UserStack
  \/ archproc_prepare_startinit \/ mmu_debug_walkadr
  \/ MapNext \/ Walk \/ Halted

BootSpec == BootInit /\ [][BootNext]_vars

----------------------------------------------------------------------------

\* The new kernel page table is in use: hal_init_mem has set CR3.
Switched == At("devices") \/ pc \notin {"bootinfo", "phys", "mmu", "misaligned", "devices", "runaway"}

Tables == {f \in Frames : level[f] # 0}

Image == PHYS2PFN(KERNEL_PHYS_BASE)..PHYS2PFN(m.imgend - 1)

\* The boot heap: the boot loader's information, modules, memory map and page
\* frame map.
Heap == IF boot = << >> THEN {} ELSE PHYS2PFN(boot.bootmem.addr)..PHYS2PFN(boot.bootmem.heaptop - 1)

\* The boot allocator stayed inside the memory map's entry (it never checks).
HeapFits == boot # << >> => boot.bootmem.heaptop <= boot.bootmem.addr + boot.bootmem.maxsize

Reserved == UNION {PHYS2PFN(map[k].addr)..PHYS2PFN(LastByte(map[k])) :
                     k \in {k \in DOMAIN map : map[k].type = "RESERVED"}}

\* What phys.c, mmu.c, the stacks and the user process hold of the memory is
\* never free and has one owner: image, boot heap, reserved memory, page
\* tables, kernel blocks and user blocks.
InUseNeverFree ==
  HeapFits /\ pc \notin {"bootinfo", "phys", "runaway"} =>
    LET owners == <<free, Image, Heap, Reserved, Tables, kernelmem, usermem>>
    IN \A i, j \in DOMAIN owners : i # j => owners[i] \cap owners[j] = {}

\* multiboot2_relocate_modules: after the moves the boot information and
\* every module hold the words the boot loader put there.
ModulesIntact ==
  boot # << >> =>
    /\ \A j \in 0..(m.mbisize - 1) : boot.ram[boot.bootmem.addr + j] = <<0, j>>
    /\ Len(boot.mods) = Len(m.mods)
    /\ \A k \in DOMAIN m.mods :
         /\ boot.mods[k].end - boot.mods[k].start = m.mods[k].end - m.mods[k].start
         /\ \A j \in 0..(m.mods[k].end - m.mods[k].start - 1) :
              boot.ram[boot.mods[k].start + j] = <<k, j>>

\* From the moment CR3 is set, PAGE2VIRT and P2V work for every frame of
\* memory the kernel holds or may be given: the page is there in the kernel
\* half, and it is that frame.
KernelSeesMemory ==
  HeapFits /\ Switched =>
    \A f \in free \cup Image \cup Heap \cup Tables \cup kernelmem \cup usermem :
      /\ Translate(kernelpagetable, KernelPage(f)).p
      /\ Translate(kernelpagetable, KernelPage(f)).to = f
      /\ ~Translate(kernelpagetable, KernelPage(f)).us

\* No table lies at the very start of its area (acpi_map_acpi_mem leaves it out).
TablesInside ==
  \A t \in {m.acpi.xsdt, m.acpi.rsdt} \cup Range(m.acpi.sdts) :
    \E k \in DOMAIN map : map[k].addr < t.addr /\ t.addr + t.size - 1 <= LastByte(map[k])

\* What hal_bp_init, pci_config_enumerate_regions and the probes read and
\* write (frame buffer, ACPI tables, timers, interrupt controllers, PCI
\* registers, BARs) was mapped before, in the kernel half, at its own frame;
\* registers are not cached.
TouchedIsMapped ==
  TablesInside =>
    \A f \in touched :
      LET t == Translate(kernelpagetable, KernelPage(f))
      IN t.p /\ t.to = f /\ (f \notin Heap => t.dev)

\* Whatever page a user process may use leads to a frame that was allocated
\* for the process; at the end its stack and its binary are there.
UserIsolation ==
  \A u \in users :
    /\ \A v \in VPages : Translate(u, v).us => Translate(u, v).to \in usermem
    /\ At("done") =>
         \A n \in FAN^3 - 2^STACKORDER..FAN^3 - 1
                  \cup USERBASE..(USERBASE + (m.initlen - 1) \div PAGESIZE) :
           Translate(u, Indices(n)).us

\* pci_config_parse_bars: sizing leaves every register as the firmware set
\* it, and what the driver learns of a BAR is its base and, for memory, its
\* size (a size of 4 GB or more does not fit the 32 bits it is computed in).
BarsRight ==
  \A f \in DOMAIN bars : \A i \in BarIdx :
    /\ regs[f][i] = Programmed(f, i)
    /\ f.bars[i].kind \in {"io", "mem32", "mem64"} => bars[f][i].addr = f.bars[i].base
    /\ f.bars[i].kind \in {"mem32", "mem64"} /\ f.bars[i].size < WORD =>
         bars[f][i].size = f.bars[i].size
=============================================================================
