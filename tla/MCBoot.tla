------------------------------- MODULE MCBoot -------------------------------
(***************************************************************************)
(* Boot on small machines: pages of 32 words, tables of 16 entries and 128 *)
(* frames below "4 GB".  Frames 0-4 are low memory, the main memory begins *)
(* at frame 5 with the boot image; above it are the ACPI tables, the PCI   *)
(* registers, BARs, the frame buffer and the interrupt controllers.        *)
(***************************************************************************)
EXTENDS Boot

\* "32 GB": the address of an entry read from the header of an 8-byte tag.
PHANTOM == 8 * NORMALTOP
PhantomFrames == PHYS2PFN(PHANTOM)..(PHYS2PFN(PHANTOM) + 4)

MCFrames == 0..87 \cup {128, 129, 4096} \cup PhantomFrames

At_(f, w) == f * PAGESIZE + w

Area(first, last, type) == [addr |-> At_(first, 0), size |-> (last - first + 1) * PAGESIZE, type |-> type]

LowMemory == << [addr |-> 0, size |-> 88, type |-> "FREE"],
                [addr |-> 88, size |-> 8, type |-> "RESERVED"],
                Area(4, 4, "RESERVED") >>

Map(last, acpi) == LowMemory \o <<Area(5, last, "FREE"), Area(64, 65, acpi)>>

Table(sig, f, w) == [sig |-> sig, addr |-> At_(f, w), size |-> 6]

AllTables == <<Table("APIC", 64, 12), Table("HPET", 65, 0), Table("MCFG", 65, 10)>>

Acpi == [xsdp |-> "valid", rsdp |-> "none", bios |-> "none",
         xsdt |-> Table("XSDT", 64, 4), rsdt |-> Table("RSDT", 65, 20), sdts |-> AllTables]

\* The usual machine, and what the others change of it.
PC == [mmap |-> Map(62, "ACPI_RECLAIMABLE"),
       beyond |-> [addr |-> 0, size |-> 8, type |-> "UNKNOWN"],
       imgend |-> At_(8, 9), mbi |-> At_(10, 0), mbisize |-> 11,
       mods |-> << >>, vfb |-> [addr |-> At_(80, 0), size |-> 40],
       acpi |-> Acpi, hpet |-> 84, apics |-> {85, 86},
       regions |-> <<[base |-> 66, start |-> 0, end |-> 1]>>,
       functions |-> {}, initlen |-> 2 * PAGESIZE + 5, order |-> "low", slab |-> FALSE]

With(fs) == [PC EXCEPT !.functions = fs]
WithAcpi(a) == [PC EXCEPT !.acpi = a]

----------------------------------------------------------------------------
(* What the boot loader left, and memory.                                  *)

Mod(first, w, size) == [start |-> At_(first, w), end |-> At_(first, w) + size]

BootLoader == {
  [PC EXCEPT !.order = "high", !.slab = TRUE],
  [PC EXCEPT !.slab = TRUE, !.initlen = 1],
  [PC EXCEPT !.initlen = PAGESIZE],
  [PC EXCEPT !.imgend = At_(9, 0)],
  [PC EXCEPT !.imgend = BOOTMEM_START, !.mbi = 8],
  \* less than BOOTMEM_ROOM above BOOTMEM_START: the heap follows the image
  [PC EXCEPT !.mmap = Map(30, "NVS"), !.imgend = At_(9, 0), !.order = "high"],
  \* the information overlaps the place it is moved to, or is above it
  [PC EXCEPT !.mbi = BOOTMEM_START - 5],
  [PC EXCEPT !.mbi = BOOTMEM_START + 5],
  [PC EXCEPT !.mbi = BOOTMEM_START + 40, !.mods = <<Mod(12, 3, 20)>>],
  [PC EXCEPT !.mods = <<Mod(12, 0, 20), Mod(15, 7, 41)>>],
  [PC EXCEPT !.mods = <<Mod(15, 0, 20), Mod(12, 0, 32)>>, !.mbi = BOOTMEM_START + 60],
  [PC EXCEPT !.mods = <<[start |-> BOOTMEM_START - 20, end |-> BOOTMEM_START]>>],
  [PC EXCEPT !.mods = <<[start |-> BOOTMEM_START - 20, end |-> BOOTMEM_START + 4]>>],
  [PC EXCEPT !.mods = <<[start |-> BOOTMEM_START + 30, end |-> BOOTMEM_START + 40]>>],
  \* the heap grows beyond its entry
  [PC EXCEPT !.mmap = Map(30, "NVS"), !.imgend = At_(28, 5), !.mbi = 8],
  \* no memory for the boot allocator; an entry that begins inside a page
  [PC EXCEPT !.mmap = LowMemory],
  [PC EXCEPT !.mmap = LowMemory \o <<Area(5, 40, "FREE"), [addr |-> At_(42, 7), size |-> 100, type |-> "FREE"]>>]}

\* The entry behind the map's tag, whose address is the header of the next tag:
\* of the end tag (type 0), or of another.
Phantom(size, tagtype, type) ==
  [PC EXCEPT !.beyond = [addr |-> PHANTOM + tagtype, size |-> size, type |-> type]]

Phantoms == {Phantom(64, 0, "FREE"), Phantom(64, 8, "FREE"), Phantom(64, 8, "RESERVED"),
             Phantom(MB + 32, 0, "FREE")}

\* Free and reserved memory share the last page of the main memory.
SharedPage == {
  [PC EXCEPT !.mmap = LowMemory \o <<[addr |-> At_(5, 0), size |-> 57 * PAGESIZE + 12, type |-> "FREE"],
                                      [addr |-> At_(62, 12), size |-> 40, type |-> "RESERVED"],
                                      Area(64, 65, "NVS")>>,
              !.mbisize = 15]}

\* The heap ends just before, at or behind a page boundary.
Markers == {[PC EXCEPT !.mbisize = n] : n \in {43, 44, 46, 47}}

\* Memory runs out at one point or another.
Memories == {[PC EXCEPT !.mmap = Map(n, "NVS")] :
               n \in {20, 22, 26, 27, 28, 29, 33, 35, 37, 40, 42, 45, 48}}

----------------------------------------------------------------------------
(* Frame buffer and ACPI.                                                  *)

Firmware == {
  [PC EXCEPT !.vfb = [addr |-> 0, size |-> 0]],
  [PC EXCEPT !.vfb = [addr |-> At_(80, 0), size |-> PAGESIZE]],
  [PC EXCEPT !.mmap = Map(62, "RESERVED")],
  WithAcpi([Acpi EXCEPT !.xsdp = "invalid", !.rsdp = "valid"]),
  WithAcpi([Acpi EXCEPT !.xsdp = "invalid", !.rsdp = "invalid"]),
  WithAcpi([Acpi EXCEPT !.xsdp = "invalid"]),
  WithAcpi([Acpi EXCEPT !.xsdp = "none", !.rsdp = "valid"]),
  WithAcpi([Acpi EXCEPT !.xsdp = "none", !.rsdp = "invalid"]),
  WithAcpi([Acpi EXCEPT !.xsdp = "none", !.bios = "valid"]),
  WithAcpi([Acpi EXCEPT !.xsdp = "none", !.bios = "invalid"]),
  WithAcpi([Acpi EXCEPT !.xsdp = "none"]),
  WithAcpi([Acpi EXCEPT !.xsdt.addr = At_(64, 0)]),
  WithAcpi([Acpi EXCEPT !.sdts = Tail(AllTables)]),
  WithAcpi([Acpi EXCEPT !.sdts = <<AllTables[1], AllTables[3]>>]),
  WithAcpi([Acpi EXCEPT !.sdts = <<AllTables[1], AllTables[2]>>])}

----------------------------------------------------------------------------
(* PCI functions.                                                          *)

None == [kind |-> "none", base |-> 0, size |-> 0]
Bar(kind, f, size) == [kind |-> kind, base |-> At_(f, 0), size |-> size]
Hi == [kind |-> "hi", base |-> 0, size |-> 0]
Bars(f) == [i \in BarIdx |-> IF i \in DOMAIN f THEN f[i] ELSE None]

Fn(bus, slot, func, ident, bs) ==
  [base |-> 66, bus |-> bus, slot |-> slot, func |-> func, ident |-> ident, header |-> 0,
   multi |-> FALSE, caps |-> <<"PM", "MSIX">>, accepted |-> TRUE, bars |-> Bars(bs)]

Bar0(b) == [i \in {0} |-> b]
Bar64(b) == [i \in {0, 1} |-> IF i = 0 THEN b ELSE Hi]

Xhci(b) == Fn(0, 1, 0, "xhci", Bar64(b))
Rtl == Fn(1, 0, 0, "rtl8139", [i \in {0, 1} |-> IF i = 0 THEN [kind |-> "io", base |-> 512, size |-> 64]
                                                        ELSE Bar("mem32", 75, 32)])
Vga(ident) == Fn(0, 0, 0, ident, [i \in {0, 1, 2} |-> CASE i = 0 -> Bar("mem32", 76, 64)
                                                         [] i = 1 -> Bar("mem32", 79, 32)
                                                         [] i = 2 -> Bar("mem32", 78, 32)])
Uhci == Fn(1, 1, 1, "uhci", [i \in {4} |-> [kind |-> "io", base |-> 768, size |-> 32]])
Edu == Fn(1, 1, 0, "edu", Bar0(Bar("mem32", 74, 32)))

Pci == {
  With({Xhci(Bar("mem64", 78, 64)), Rtl, [Edu EXCEPT !.multi = TRUE], Uhci}),
  [With({Xhci(Bar("mem64", 128, 64)), Vga("stdvga"), Edu, Uhci}) EXCEPT !.order = "high", !.slab = TRUE],
  [With({Xhci(Bar("mem64", 128, 32)), Rtl}) EXCEPT !.regions = <<[base |-> 66, start |-> 0, end |-> 0]>>],
  With({Xhci(Bar("mem64", 4096, 32))}),
  With({[Xhci(Bar("mem64", 78, 32)) EXCEPT !.caps = <<"PM">>]}),
  With({[Rtl EXCEPT !.bars[1] = None]}),
  With({Vga("gd5446"), [Rtl EXCEPT !.ident = "other"]}),
  With({[Vga("gd5446") EXCEPT !.accepted = FALSE]}),
  With({[Rtl EXCEPT !.header = 1], Edu}),
  With({[Rtl EXCEPT !.header = 5]})}

MCMachines == BootLoader \cup Phantoms \cup SharedPage \cup Memories \cup Markers \cup Firmware \cup Pci

MCVPages ==
  {IdentityPage(f) : f \in 0..2 \cup 5..62 \cup PhantomFrames}
  \cup {KernelPage(f) : f \in MCFrames \ {4096}}
  \cup {Indices(n) : n \in (FAN^3 - 2^STACKORDER)..(FAN^3 - 1) \cup USERBASE..(USERBASE + 2)}
=============================================================================
