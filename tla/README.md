# A TLA+ model of the borgos kernel

borgos is a 64-bit x86 kernel for QEMU's q35 machine. This directory models the
parts of it in which several actors meet (processes, interrupt handlers,
processors, devices), in which a long history of calls must keep a data
structure intact, or in which one step of the boot relies on what earlier steps
left behind. TLC checks the models on small instances. TLAPS proves every safety
property and every refinement that the runs check, for instances of any size,
except those of `Boot` and `Uhci`. Paths below are relative to `src/kernel/src`.
`PROJECT.json` gives the source lines of every definition.

## 1. Inventory

| Part | State | Operations | What is hard |
|---|---|---|---|
| Scheduler (`kcore/scheduler.c`, `kcore/irq.c`, `cpu_spinlock.h`, `isr.c`, `cpu_context_inc.S`) | process states and lists, `ncli`, `intenable`, interrupt flag, `schedulerspin` | `irq_save`/`irq_restore`, spinlocks, timer tick, `scheduler_schedule`, context switch | the lock and the `irq_save` depth are taken by one process and given back by another |
| Boot (`boot/kmain.c`, `halinit.c`) | how far `hal_start` and `kmain` have come | one step per initialisation | each step uses memory and mappings of the steps before |
| Boot allocator, multiboot2 (`boot/`) | heap top, moved modules, copied memory map | allocate, relocate, copy | overlapping moves, sizes and end markers |
| Memory map (`mem/phys.c`) | zones, use counts | `phys_init`, `phys_pagemap_init` | entries that share a page |
| Page tables (`mmu.c`, `pagetable.c`) | four table levels, user processes | map, walk, create | missing levels, the shared kernel half |
| ACPI (`driver/acpi.c`) | root pointer, tables | find, validate, map | tables are used through mappings made from their addresses |
| PCI (`driver/pci/pci_config.cpp`) | regions, functions, BARs | enumerate, size, probe | 64-bit BARs, live registers |
| Page allocator (`mem/page.c`) | free lists per zone and order | allocate, free, split, merge | long mixes of orders; page frame 0 |
| kmalloc (`mem/kmalloc.c`) | pages and blocks per size class | `kmalloc`, `kfree`, aligned forms | flag set outside the lock; sizes at class limits |
| Interrupt routing (`driver/apic.c`, `kcore/irq.c`) | I/O APICs, overrides, chains | MADT parse, registration, dispatch | lines, vectors and chains are numbered differently |
| RTL8139 (`driver/net/rtl8139.c`) | descriptors, ISR, IMR | setup, send, handler | chip, handler and sender run at once; timeouts |
| xHCI (`driver/usb/xhci_hcd.c`) | TRB rings, pending command and transfers, event ring | reset, start, command, transfer, events | half-written TRBs, late completions, lost interrupts |
| UHCI (`driver/usb/uhci_hcd.c`) | queue heads and descriptors | insert, remove, poll, submit | the controller walks the queues while they change; callbacks relink them |
| USB core, keyboard (`driver/usb/usb_core.c`, `hid/usb_kbd.c`) | devices, requests | enumeration, descriptor parsing, resubmission | counts that do not match; callbacks that submit again |
| Timers, video, console, cpio, libc, C++ vector | registers, buffers | register programming, output | sequential |

The parts interact in a few places. The boot heap, the page frame map, the page
tables, the stacks and the user process divide one memory between them. `kmain`
creates processes while the timer already interrupts it. The handlers of the
drivers run from the chains of `irq.c`. kmalloc takes its pages from the page
allocator, and the page allocator gets its frames from the memory map. The xHCI
driver waits for its own handler, on one processor.

Build facts that the models rely on:

- `SMP` is not defined (`mconfig.h`), so a spinlock is `irq_save` alone.
- The calls of `usb_init`, `usb_poll`, `net_init` and `hal_start_smp` are inside
  comments in `boot/kmain.c`. The driver models describe what that code does
  when it is called. The two-processor run describes a build with `SMP`.
- All gates are interrupt gates: a handler runs with interrupts off.
- `PANIC` loops for ever and leaves the interrupt flag as it is.

## 2. Modules

| Module | Models | Abstract specification |
|---|---|---|
| `Scheduler` | scheduler, interrupt nesting, spinlocks, process start, the end of `kmain` | `RoundRobin` |
| `PhysMap` | what `phys.c` computes from the memory map (operators) | |
| `Multiboot2` | boot allocator, relocation, copied memory map (operators) | |
| `Acpi` | root pointer, areas of tables, search for a table (operators) | |
| `PciConfig` | enumeration, BAR sizing, what each probe does with its BARs (operators) | |
| `PageTable` | `mmu.c`, `pagetable.c` | `AddressSpaces` |
| `Boot` | `hal_start` and `kmain_bp_enter` up to the first user process; composes the five modules above | `AddressSpaces`, through `PageTable` |
| `Buddy` | `page.c` and `phys_freepages_low` | `PageAllocator` |
| `Kmalloc` | `kmalloc.c` | |
| `IrqRouting` | MADT, MSI vectors, chains, dispatch | |
| `Rtl8139` | driver, interface start-up and chip | |
| `XhciRing` | `xhcihcd_ring_init`, `xhcihcd_ring_enqueue` and the reading controller | `Fifo` |
| `Xhci` | driver, its callers and the controller | |
| `UsbCore` | requests of `usb_attach_device`, parsing of configurations, the keyboard's choice (operators) | |
| `Uhci` | driver, USB core and keyboard above it, and the controller | |

`MC...` modules give the constants their values. `XhciRing`, `Xhci` and
`Rtl8139` are checked directly. `M_proofs` holds the proofs about `M`, for `M`
one of `Scheduler`, `PageTable`, `Buddy`, `Kmalloc`, `IrqRouting`, `Rtl8139`,
`XhciRing` and `Xhci`. An operator named for another with a suffix
(`Levels_short`, before `Levels`) is a wrong variant of it, kept to show that a
property notices.

**Scheduler.** `pc[p]` is the point that process `p` has reached in the kernel,
and it stays there while `p` is switched out. `KernelStep` is one step of the
interrupt path or the scheduler. `LockSomething` and `UnlockSomething` stand for
every critical section of the rest of the kernel. Every handler on the timer's
chain runs once per tick, so that on two processors, each of which has
registered the callback, one tick enters the scheduler twice.

**PageTable.** A table is a page frame read as entries, a virtual page its four
indices. `mmu_map_page` begins a walk, `pagetable_walk_getsubtable` is one level
of it and allocates the table if it is missing, and `mmu_set_pte` ends it. A
frame that becomes a table holds arbitrary words until `pagetable_alloc` clears
it. `Translate` is the processor's walk; the refinement maps every root to the
function it computes. `Called` lists which calls the kernel makes: its own pages
without `MMU_USER`, and pages of a process in its user half with it.

**Boot** is sequential. An initial state is a machine: memory map, boot image,
boot information and modules, ACPI tables, PCI regions and functions, and the
order in which the page allocator hands out blocks. `pc` names the next part of
the boot, and `todo` holds the pages that the current part still has to map, one
walk at a time. `touched` holds the frames of tables and registers that the last
part used. The boot ends at the scheduler, in a PANIC, at a NULL pointer used as
an ACPI table (`wild`) or in a loop past a memory map whose end marker was
overwritten (`runaway`).

**Buddy** takes one step per recursive call of `_addToBuddyFreeList` and
`_findFreePageInBuddy`, and so the invariants also hold in mid-operation. It has
one caller, because the allocator has no lock; as configured only `kmain`
allocates. `MCBuddy` composes it with `PhysMap`.

**Kmalloc** has several callers. The start of `kfree` is a step outside
`slablock`. Sizes, header sizes and offsets are the real ones, in bytes.

**IrqRouting** gives each device its vector at probe time. A device that asserts
is dispatched through the chain of the vector on which it arrives, the highest
vector first, as the local APIC does. A device on a line stays asserted until
its handler has run, which never happens: the chain of its vector is empty.

**Rtl8139** has three actors: the sending thread, the handler in its three steps
(read, acknowledge, drain), and the chip. A frame is the number of its call.
`rtl8139_send` begins the copy into the buffer of the next slot, `CopyDone` ends
it and `WriteTsd` starts a transmit. The chip works on the transmits in order.
It reads the buffer (`ChipDma`, OWN) and sends what it has read (`ChipTransmit`,
TOK) or aborts; OWN and TOK are separate bits. A call that times out leaves its
transmit behind, and the next call fills the same buffer while the chip may still
be at it.

**XhciRing** separates the write of a TRB's contents, of its control word and of
the Link TRB. The controller may read in between. `xhcihcd_ring_enqueue` has no
check for a full ring; the guard of `Fill` (fewer than `USABLE - 1` TRBs
outstanding) is an assumption on the callers. They justify it: each caller waits
for its TRBs, and a transfer or an enumeration command that fails ends in a
PANIC.

**Xhci** uses queues for the rings. The process waits by polling, may give up
before the controller answers, and does not run while the handler does. The
controller may answer late, with an error, or not at all. The handler looks at
the ring (`irq` is `first`, then `drain`) and writes ERDP, with EHB, only when it
consumed something (`ack`); the controller may post between any two steps.

**Uhci** has two actors, the thread and the controller. A queue head and its
descriptors are one block; a freed block is the next to be handed out. The
controller fetches a descriptor of a queue head that is linked, and writes its
status back later, with data, fewer bytes, NAK or an error. `UsbCore` computes
from the device which requests enumeration makes; those behind the read of the
configuration depend on the bytes that arrived (`Received`), so that a long read
cut to 64 bytes meets zeros in the walk. The code skips its call of
`usb_enumerate_hcd_roothub` (`usb_core.c:679`); the model makes it.

## 3. Runs

| Run | Instance | Distinct states | Shows |
|---|---|---|---|
| `scheduler` | 1 processor, 2 tasks, nesting 2 | 2 233 | lock hand-over, interrupt discipline, refinement of `RoundRobin`; runnable processes run |
| `scheduler_smp` | 2 processors, 3 tasks, nesting 2 | 331 445 | the inductive invariant with `SMP` |
| `boot` | 64 machines, 96 frames, tables of 16 entries | 37 916 | memory in use is never free and has one owner, modules survive their move, what the kernel touches is mapped, a user process reaches only its own frames, BARs are read right and left as they were, refinement of `AddressSpaces` |
| `buddy` | 18 frames, orders 0 to 2 | 84 947 | no overlap, no loss, full merging, real out-of-memory, refinement of `PageAllocator` |
| `kmalloc` | 2 callers, 3 frames, 2 zones | 54 703 | disjoint objects, each block in one place, giving up only without memory, a new page only when every block of the class is in use |
| `irq_routing` | 3 MSI devices for 2 vectors, 2 lines, 7 MADTs | 32 064 | own vectors, an interrupt is handled unless higher vectors keep the processor busy |
| `rtl8139` | 2 descriptors, 3 sends, 1 frame | 1 271 833 | OK means sent, each call its own frame on the wire, no silent loss, sends return |
| `xhci_ring` | 4 slots, 3 TRBs | 6 562 | FIFO across wraps, no half-built TRB, no stall |
| `xhci` | 2 devices, ring of 3, 2 controls, 2 reports | 208 073 | own results, one callback per request, no event forgotten, enumeration ends |
| `uhci` | 2 ports, 3 blocks, 2 reports, configurations of up to 3 descriptors | 399 793 | sound schedule, each request completed once, complete control reads up to 64 bytes, configurations cut as announced, reports delivered |

`BlocksPartitionMemory`, `SlabIsConsistent` and the two `IInv` are conjunctions of
named parts, the module's type invariant among them, that only mean something
together; each part has its own comment.

Two runs check one statement of a comment in the code that the code does not
keep. TLC finds the counterexample in each.

| Run | Statement | What the code does |
|---|---|---|
| `phys_normal` | "largest memsize below 4gb" (`mem/phys.c:386`) | picks the smaller entry, possibly above 4 GB |
| `uhci_length` | "Force error if actual size was not the same as requested size" (`usb_core.c:183`, done by lines 166-172) | a read of 136 bytes transfers 64, and the sum over descriptors that were never built comes out as 136 |

More differences between the code and what it says are reproduced by the models
and have no run:

- "Should never get here????" (`mem/page.c:146`): `> 0` at line 123 takes page
  frame 0 for a failed search, and an allocation that needs its block ends
  there, even when other blocks are free. `OutOfMemoryIsReal` names this as the
  one allocation that fails with memory left.
- "rtl8139_send() blocks on TSD itself" (`rtl8139.c:637`): the status is read
  once, at line 271, before the wait.
- "index in isr-vectors" (`kcore/irq.c:17`): the RTL8139 registers its handler
  under its line number (`rtl8139.c:710`), 32 below the vector.
- "last entry" (`include/bootmem.h:27`): the end marker of the memory map is
  written behind the memory allocated for the map (`multiboot2.c:430-462`). The
  page frame map may overwrite it.
- "This I/O APIC is already registered skip!" (`driver/apic.c:121`): it is
  registered again.
- "Both must be waited on" (`xhci_hcd.c:1212`): the loop tests the HCRST bit of
  USBCMD in USBSTS and joins the tests with `&&`, so it waits for neither.
- The port speed is valid only after a reset (`xhci_hcd.c:818`): the reset bit is
  masked out of the write.
- A port status change is "logged and dropped rather than fatal"
  (`xhci_hcd.c:1776`): the next statement is PANIC. A port reset also causes such
  an event. `Xhci` stops there (`HandleFatal`), and none of its properties calls
  that an end it should not have.

`CHECK_DEADLOCK FALSE` is set where the system may stop: after a PANIC, or when
a bound on calls is used up. The scheduler, ring and boot runs check for
deadlock; `Boot` names the states in which it may stop (`Halted`).

### Bounds

- `MaxNest`: two nested critical sections cover the outermost and an inner one,
  which is all that `irq_restore` tells apart. The proofs need no value for it.
- `SLICE` is 2, as in the code. `Forever` stands for a number of ticks that no
  run uses up, and is never counted down.
- Boot: tables of 16 entries and pages of 32 words keep all four levels and the
  two halves in use. The machines vary one thing at a time around a usual PC:
  entries that share a page, in the NORMAL zone too, or begin inside one, an
  entry of free or reserved memory that the loops read behind the end of the
  map's tag (its address is the header of the next tag, at least 32 GB), modules
  and boot information that overlap the place they are moved to, too little
  memory, a heap that does not fit, each source of the ACPI root pointer, missing
  tables, a table at the start of its area, a PCI region for fewer buses, the
  kinds of BARs, and probes that end in a PANIC.
- `MAXORDER` 2 and 18 frames: splits and merges over two levels, a reserved
  frame, the kernel image and the boot heap inside a zone, and a low zone with
  frame 0 and a second block of the largest order. The units of a page are scaled to 4.
- Kmalloc: requests at the edge between the two largest classes and one that no
  class holds; three pages, so memory runs out in both zones.
- Rtl8139: two descriptors are reused within three sends. The lengths are below
  the minimum, the largest legal one and one more.
- XhciRing: four slots wrap with a full ring. Xhci: command positions repeat
  after three, so a late completion could be mistaken for another's.
- Uhci: two keyboards and a third block, so that a callback frees and links
  while the poll is at the other's queue head. Three descriptors reach every
  branch of the walk; interface and endpoint limits are scaled to 2.

### Fairness

- Scheduler: strong fairness of the timer interrupt, because the local APIC keeps
  it pending while it is masked; of kernel steps and of `kmain`, because nothing
  but an interrupt stops them; and of leaving a critical section, at each depth,
  because those sections are finite. The spinlock is an unfair exchange loop, so
  liveness is not claimed for two processors.
- IrqRouting: the handlers run to their end, and when some vector is pending one
  is taken, the highest. Nothing says that a given vector is ever the highest:
  a line whose handler is never called comes back for ever and outranks the
  timer, so `HandledUnlessOutranked` has `<>[]~Outranked(d)` as its premise.
- Rtl8139: the thread resumes after handlers, and a handler ends. Nothing is
  assumed of the chip.
- XhciRing: the driver finishes an enqueue it has begun; the controller fetches
  what it is given.
- Xhci: the process resumes after handlers, an MSI is taken and its handler ends.
  The controller need not answer.
- Uhci: the thread keeps running (`ThreadRuns`), because every wait has a timeout
  and `usb_poll` is called over and over. Nothing is assumed of the controller
  or the devices.

## 4. Proofs

**Scheduler**, for any number of processors and processes, with and without
`SMP`. It assumes only that start-up processes and tasks are distinct and that
there is one processor without `SMP`. The properties are not inductive alone.
A process that resumes in `irq_restore` needs to know its `ncli` and
`intenable`, and those were fixed by whatever it was doing when it was switched
out. `IInv` therefore adds to the checked invariants:

- `PointOK`: the interrupt flag, `ncli` and `intenable` at every point of the
  kernel;
- `ServiceOK`: when an interrupt may be in service;
- `StartOK`: how far start-up has come.

There is one lemma per action. Most actions touch one process and leave the
lists alone (`LocalStep`); the switch has lemmas of its own, for what moving a
process between the head and the tail of `runnablelist` does. From
`Spec => []IInv` follow `TypeCorrect`, `NeverPanics`, `Masked`, `ComeBack`,
`EoiSent`, `HandOver` and `Lists` (the process lists, `currentproc` and the
states agree); `Fifo` is an action property (only a process whose slice is used
up is preempted, by the one that waited longest), and `Refinement` shows that
the scheduler implements `RoundRobin`.

**XhciRing**, for rings of any size of at least two and any set of TRBs. `IInv`
says that the cycle bits turn exactly at the producer (`CycleBits`), that the
controller is less than a lap behind (`Laps`) and that what is handed over has
been written (`Written`). `NoHalfBuilt` (the controller never takes a slot whose
contents are not written) and `Refinement` (the ring implements `Fifo`) follow.
The assumption on the callers named above is part of the specification, and so
of these theorems.

**PageTable**, for tables of any size, any set of frames that contains frame 0,
any number of processes, and an allocator whose other users take and return
frames between any two steps. The specification restricts the calls to `Called`,
and creates processes only when the kernel half is in use, as the boot does.
`PtInv` has, beside the types:

- `Trees`: a present entry above lvl1 points to a table one level down, no table
  is free, and no two entries point to the same table, except the kernel-half
  entries of the lvl4 tables. Without it a write to one entry could show in
  another walk.
- `LegalRoots`: only the first entry of each half is used, and the kernel's is the
  same in all lvl4 tables. This is why a later kernel mapping reaches every
  process.
- `UserTables`: exactly the tables below the user half of a process let users
  through. Without it a mapping could become usable, or stay unusable, because
  of a directory entry made for another request.
- `Walks`: the walk in progress stands on the path of its page, so that its last
  write is the entry that the processor will find.

There is one lemma per action that it keeps `PtInv`, and one that it maps to a
step of `AddressSpaces`. Only `mmu_set_pte` maps to `Map`. A level added by a
walk must be invisible (`HiddenStep`): a new table is cleared before an entry
shows it, so no translation changes. `PteOwner` and `SameTables` say which
translations a last-level entry takes part in: those of its own page, in its own
root or, in the kernel half, in every root.

The theorem about the page tables is about `PageTable`'s own specification; the
run `boot` checks the same refinement for the calls that the boot makes.

**Buddy**, for any memory map, any number of frames and any `MAXORDER`. It
assumes what `phys_pagemap_init` leaves behind: a zone and a segment for each
frame, and a use count that is 0 or above 1 (a frame with use count 1 is one that
was handed out). `BuddyInv` says that the blocks on the lists, in hand and
handed out are aligned, disjoint, inside one zone and cover the released frames
(`BlocksOK`), that a list holds the pages of its zone and order once
(`ListsOK`), how far the operation in progress has come (`OpOK`), and that two
free buddies lie side by side only as halves of the block being split
(`Merged`). The checked invariants do not say the last two, and without them
neither a merge in mid-operation nor a failed search could be followed. The
lemmas `PartitionMerged`, `PartitionSplit` and `PartitionReleased` say what
merging, splitting and releasing does to any set of blocks that shares out
memory; `Halves` and `BuddyFacts` are the arithmetic of buddies; `UnlinkFacts`,
`list_del_Facts` and `list_add_Facts` are about the lists. There is one lemma
per action, which also says what the action does to `FreeFrames` and
`HeldBlocks`, and from these follows `ImplementsPageAllocator`. Where an argument
would need induction on numbers, the proof takes the least counterexample
instead (`Least`, from the well-ordering of the natural numbers).

**Kmalloc**, for any number of callers, frames, requests and tries, a page size
of at least 512 bytes, and size classes between 32 bytes and a page
(`KmallocAssumption`, `SizesAssumption`). `SlabInv` follows a block through its
life. It is on the list of its page with `MEMBLOCK_FREE` set, or in one object
with the flag clear (`HeldOK`), or in the hands of one `kfree` that has set the
flag and not yet linked the block (`FreeOK`). The last is what the flag set
outside `slablock` makes necessary: a block may be marked free and be on no
list. `PagesOK` ties the page lists to the pages with free blocks, `DmaOK` lets
`kfree` find the zone again from the block's flag, `ObjectsOK` keeps each object
inside its block, and `CallOK` keeps the class that a waiting `kmalloc` asked
for. `CountersOK` (the counters of a class are the cardinality of its free
blocks) is proved after `SlabInv`, with the library's theorems about finite
sets. `ObjectsAreAlwaysDisjoint`, `SlabIsAlwaysConsistent`,
`TriesAreAlwaysEnough` and `AlwaysGrowsOnlyWhenFull` follow. The last answers
the comment "page is lost? Where to keep full pages?" (`kmalloc.c:239`): a full
page is on no list, but the first `kfree` puts it back (`PagesOK`), so when the
list of a class is empty every block of it is in use.

**Rtl8139**, for any number of descriptors above one, sends, received frames and
frame lengths, and any timeout (`Rtl8139Assumption`). The chip is assumed to work
on transmits in order. The argument: a call that sees its own transmit sent or
aborted knows that none older is underway, because the chip works in order. So
when it moves to the next slot, at most its own aborted transmit is underway,
which lies in another slot since there are at least two. A buffer that is filled
can therefore belong only to transmits of calls that timed out. `Inv` says this
step by step: `InOrder` (transmits are sent in the order of the calls), `SlotKept`
(a transmit underway whose call did not time out is not in the slot that is
filled next), `FrameOK` (what the chip read, or will read, for such a call is its
frame) and `SendOK` (the status bits the call in progress has read are those of
its own transmit).

**IrqRouting**, for any MADT, any devices and any division of the vectors in
which lines and MSI vectors do not overlap (`IrqAssumption`). `IrqInv` says that
an MSI vector in use has exactly the handler of its device on its chain, and that
the timer's handler stays on its chain. From it follow `MsiVectorsAreAlwaysOwn`
and `ArrivesAtItsHandler`, the safety half of `HandledUnlessOutranked`.

**Xhci**, for any number of devices, any command ring of at least two TRBs and
any number of transfers. The commands that may be in flight at once are fewer
than the ring has positions, as in `XhciRing`. `NoEventForgotten` follows from an
invariant of its own (`IntrInv`): EHB is set only with an interrupt raised or the
handler at work. The three other checked invariants each need a history of what
is in flight, because the driver gives up on commands and transfers that the
controller may still answer:

- `CommandsInOrder`: the commands on the ring and in the event ring are in the
  order in which they were issued, and among the last `CommandsInFlight`. Two of
  them are less than a lap apart, so their TRB addresses differ, and a late
  completion is not taken for the pending command (`CommandIsLast`).
- `ControlsAreWaitedFor`: a control transfer in flight is the one the process
  waits for, unless it has stopped in a PANIC. This is why events of endpoint 0,
  which the driver does not match, complete the right transfer
  (`ControlIsLast`).
- `RequestsOnce` and `TransfersAreRequests`: a request is outstanding on one
  endpoint or was called back once, and a transfer in flight there is its own.
- `HaltsAreTold` and `OneAfterTheOther`: a halted endpoint is known to the driver
  or the error event is coming; an endpoint is configured once, after its device
  has an address, so that a halt is not forgotten by a second configuration.

The proof has one lemma per conjunct and kind of step (`...Step`). Queueing a
TRB, posting an event and taking one are the three ways the queues change, and
the lemmas about them (`Appended`, `Removed` and what each conjunct makes of
them) are shared by all actions.

TLC has checked each of these invariants on a small instance, those of the
runs or, for `PtInv`, one with eight frames and tables of two entries.

### Only model-checked

- Liveness (`RunnableRuns`, `HandledUnlessOutranked`, `SendReturns`,
  `Drains`, `EnumerationEnds`, `ReportsDelivered`): fairness and `ENABLED`
  are outside what the proof system handles.
- `Uhci`: the controller's walk of the queues and `UsbCore`'s parsing of
  descriptors are recursive operators, and what a recursion computes for every
  input needs induction over data, which the installed provers cannot do.
- `Boot`: its properties rest on what `PhysMap`, `Multiboot2`, `Acpi` and
  `PciConfig` compute from a machine by folds over tables, for the same reason.
  The machines of the run are a finite list. Only its page tables are proved,
  through `PageTable`.

## 5. Not modelled, and limits

- Register programming without concurrency (video, timers, GDT, IDT, the probe
  of the xHCI capabilities), text output, libc and assembly start-up, the C++
  vector, the cpio reader, which only prints, and the pid table. The start-up
  IPIs to application processors.
- The TLB: a page that is mapped again is not invalidated by the code, and the
  model's processor always sees the tables.
- Concurrent calls of the page allocator: it has no lock, and with a second
  caller its lists would not survive. This is recorded as a hazard.
- Out-of-bounds writes (`memoryzone` in `phys.c:343`, `ioapics`): the models have
  no layout for those arrays. The end marker of the memory map is the exception.
- `InUseNeverFree` and `KernelSeesMemory` hold while the boot heap fits its
  memory area (`HeapFits`), which `bootmem_alloc` never checks;
  `TouchedIsMapped` holds unless an ACPI table lies at the first byte of its
  area (`TablesInside`). Machines outside both conditions are in the run.
- `Boot` stops where the code uses a NULL pointer as a table (`acpi_find`), and
  where a loop runs past the memory map.
- `Uhci` advances a queue head together with the write-back of its descriptor,
  and ends with a PANIC, so it does not show what the controller writes into
  memory that was freed after a timeout. Data toggles are left out. A transfer
  that ends in an error is reported as `USB_OK` by the code, and counts as a
  completed request.
- An xHCI interrupt that arrives between the enabling of interrupts and
  `STARTED` leaves EHB set, and no other interrupt follows. `Xhci` reaches this
  (`missed`), and `NoEventForgotten` excludes it.
- In `Rtl8139`, frames received between the enabling of the receiver and the
  clearing of ISR are counted apart (`early`), an interrupt before `STARTED`
  (`rtl8139.c:576`) is left out. The chip reads a transmit buffer in one step; a
  buffer that is being filled then is a torn frame. Rewriting the descriptor of a
  transmit that the chip has not read may replace it or not. What goes out for a
  call that timed out is the exception of `WireIsClean`.
- `BarsRight` speaks of BARs below 4 GB: `pci_config_parse_bars` computes sizes in
  32 bits (`pci_config.cpp:234`).
- A memory map entry read behind the tag that would become the boot allocator's
  own memory is not among the machines.

Next would come the xHCI event ring at the level of cycle bits, and the page
allocator with several callers once it has a lock.
