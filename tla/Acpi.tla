------------------------------- MODULE Acpi -------------------------------
(***************************************************************************)
(* How driver/acpi.c finds the ACPI tables and maps them.  What a machine  *)
(* offers is a record a: the state of the three places an RSDP may come    *)
(* from ("none", "valid" or "invalid" for xsdp and rsdp, which the boot    *)
(* loader copied, and for bios, the scan of the BIOS area), the two root   *)
(* tables xsdt and rsdt, and the tables sdts that both of them list.       *)
(* A table is [sig, addr, size].                                           *)
(***************************************************************************)
EXTENDS Multiboot2

\* acpi_info.version as acpi_find_rsdp sets it; -1: there is no RSDP.
acpi_find_rsdp(a) ==
  IF a.xsdp # "none" THEN 2
  ELSE IF a.rsdp # "none" THEN 1
  ELSE IF a.bios # "none" THEN 0
  ELSE -1

rsdp_valid(state) == state = "valid"

\* acpi_tables_init: an invalid XSDP is given up for the RSDP, if there is one.
Version(a) ==
  IF acpi_find_rsdp(a) = 2 /\ ~rsdp_valid(a.xsdp) /\ a.rsdp # "none" THEN 1
  ELSE acpi_find_rsdp(a)

\* The root table, or << >> for a PANIC: at once, or in
\* acpi_memmap_acpi_entries, which finds that sdtadr was never set.
SdtRoot(a) ==
  IF Version(a) = 2 /\ rsdp_valid(a.xsdp) THEN <<a.xsdt>>
  ELSE IF Version(a) = 1 /\ rsdp_valid(a.rsdp) THEN <<a.rsdt>>
  ELSE IF Version(a) = 0 /\ rsdp_valid(a.bios) THEN <<a.rsdt>>
  ELSE << >>

PageSeq(first, last) == [k \in 1..(last - first + 1) |-> first + k - 1]

AcpiArea_reserved(adr, e) ==
  e.addr < adr /\ adr < LastByte(e) /\ e.type \in {"RESERVED", "NVS"}

AcpiArea(adr, e) ==
  e.addr < adr /\ adr < LastByte(e) /\ e.type \in {"RESERVED", "ACPI_RECLAIMABLE", "NVS"}

\* The frames that are mapped around an address: those of the first memory
\* area of a suitable type that has the address strictly inside.
acpi_map_acpi_mem(map, adr) ==
  LET areas == SelectSeq(map, LAMBDA e : AcpiArea(adr, e))
  IN IF areas = << >> THEN << >>
     ELSE PageSeq(PHYS2PFN(PAGEALIGN_DOWN(Head(areas).addr)), PHYS2PFN(LastByte(Head(areas))))

\* The first table with the signature; << >> when there is none.
acpi_find(a, sig) ==
  LET found == SelectSeq(a.sdts, LAMBDA t : t.sig = sig)
  IN IF found = << >> THEN << >> ELSE <<Head(found)>>

\* The frames a table lies in.
TableFrames(t) == PHYS2PFN(t.addr)..PHYS2PFN(t.addr + t.size - 1)
=============================================================================
