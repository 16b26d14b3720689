----------------------------- MODULE PciConfig -----------------------------
(***************************************************************************)
(* driver/pci/pci_config.cpp: the functions found behind the ECAM regions, *)
(* the base address registers (BARs) and the probes of the PCI drivers.    *)
(*                                                                         *)
(* A function f of the machine is [base, bus, slot, func, ident, header,   *)
(* multi, caps, accepted, bars]: base is the ECAM region it answers in,    *)
(* accepted says that the driver's own tests of the chip (USB version,     *)
(* chip id, addressing modes) succeed and bars[i] is [kind, base, size],   *)
(* where kind "hi" is the upper half of the 64-bit BAR before it.          *)
(***************************************************************************)
EXTENDS Integers, Sequences, SequencesExt

CONSTANTS
  BUSES, SLOTS, FUNCS,    \* 256, 32 and 8
  WORD                    \* what a register holds: 2^32 values

MAX_BARS == 6
BarIdx == 0..(MAX_BARS - 1)

----------------------------------------------------------------------------
(* Enumeration.  Each function has one page of registers.                  *)

_pci_location_to_ecam_offset(bus, slot, func) == (bus * SLOTS + slot) * FUNCS + func

ConfigFrame(f) == f.base + _pci_location_to_ecam_offset(f.bus, f.slot, f.func)

\* Function 0 says whether the slot has others.
Answers(fs, f) ==
  \E z \in fs : /\ <<z.base, z.bus, z.slot, z.func>> = <<f.base, f.bus, f.slot, 0>>
                /\ f.func = 0 \/ z.multi

\* The functions pci_config_enumerate_function sees in a region [base, start,
\* end], in the order of bus, slot and function.
pci_config_enumerate_regions(fs, region) ==
  SetToSortSeq({f \in fs : /\ f.base = region.base
                           /\ f.bus \in region.start..region.end
                           /\ Answers(fs, f)},
               LAMBDA f, g : ConfigFrame(f) < ConfigFrame(g))

\* The pages of registers it reads: function 0 of every slot, and the other
\* functions of a slot that says it has them.
ConfigReads(fs, region) ==
  {region.base + _pci_location_to_ecam_offset(b, s, n) :
     <<b, s, n>> \in {<<b, s, n>> \in (region.start..region.end) \X (0..(SLOTS - 1)) \X (0..(FUNCS - 1)) :
       n = 0 \/ \E z \in fs : /\ <<z.base, z.bus, z.slot, z.func>> = <<region.base, b, s, 0>>
                             /\ z.multi}}

\* Header type 0 becomes a device, a bridge (1, 2) is skipped, any other
\* type is a PANIC.
pci_config_enumerate_function(f) == f.header = 0
UnexpectedHeader(f) == f.header \notin {0, 1, 2}

----------------------------------------------------------------------------
(* Base address registers.                                                 *)

Flags(b) == IF b.kind = "mem64" THEN 4 ELSE 0

\* What the firmware left in register i.
Programmed(f, i) ==
  LET b == f.bars[i]
  IN CASE b.kind = "none" -> 0
       [] b.kind = "io" -> b.base + 1
       [] b.kind = "hi" -> f.bars[i - 1].base \div WORD
       [] OTHER -> (b.base % WORD) + Flags(b)

\* The hardware keeps the address bits above the size; the others read as
\* zero, or as the flags.
Written(f, i, v) ==
  LET b == f.bars[i]
      low == IF b.size >= WORD THEN 0 ELSE v - (v % b.size)
      half == f.bars[i - 1].size \div WORD
  IN CASE b.kind = "none" -> 0
       [] b.kind = "io" -> v - (v % b.size) + 1
       [] b.kind = "hi" -> IF half = 0 THEN v ELSE v - (v % half)
       [] OTHER -> low + Flags(b)

NoBar == [addr |-> 0, size |-> 0, bartype |-> "UNKNOWN"]

Restored64_low(f, regs, i) ==
  [regs EXCEPT ![i] = Written(f, i, regs[i]), ![i + 1] = Written(f, i + 1, WORD - 1)]

\* The registers of a 64-bit BAR after it was sized: both are put back.
Restored64(f, regs, i) ==
  [regs EXCEPT ![i] = Written(f, i, regs[i]), ![i + 1] = Written(f, i + 1, regs[i + 1])]

\* One register: s.regs are the registers and s.bars what is known so far.
\* A memory BAR is sized by writing ones, and its value is put back; the
\* size of a 64-bit BAR keeps its lower 32 bits.
ParseBar(f, s, i) ==
  LET v == s.regs[i]
      mtype == (v \div 2) % 4
      ones == Written(f, i, WORD - 1)
      size32 == (WORD - (ones - (ones % 16))) % WORD
      ones64 == Written(f, i, WORD - 16)
      high64 == Written(f, i + 1, WORD - 1)
      size64 == (WORD * WORD - (high64 * WORD + (ones64 - (ones64 % 16)))) % WORD
      base64 == s.regs[i + 1] * WORD + v
  IN IF v % 2 = 1 THEN
       [s EXCEPT !.bars[i] = [addr |-> v - (v % 4), size |-> 0, bartype |-> "IO"]]
     ELSE IF v = 0 THEN s
     ELSE IF mtype = 0 THEN
       [s EXCEPT !.bars[i] = [addr |-> v - (v % 16), size |-> size32, bartype |-> "MEM"],
                 !.regs[i] = Written(f, i, v)]
     ELSE IF mtype = 2 THEN
       [s EXCEPT !.bars[i] = [addr |-> base64 - (base64 % 16), size |-> size64,
                              bartype |-> "MEM"],
                 !.regs = Restored64(f, @, i)]
     ELSE [s EXCEPT !.bars[i] = [NoBar EXCEPT !.bartype = "MEM"]]

pci_config_parse_bars(f, regs) ==
  FoldLeft(LAMBDA s, i : ParseBar(f, s, i),
           [regs |-> regs, bars |-> [i \in BarIdx |-> NoBar]],
           [k \in 1..MAX_BARS |-> k - 1])

pci_config_get_capabillity_ptr(f, id) == SelectInSeq(f.caps, LAMBDA c : c = id)

----------------------------------------------------------------------------
(* The probes: whether the probe is a PANIC, and the BARs it maps with     *)
(* pci_iomap and then uses.                                                *)

xhcihcd_pci_probe(f, bars) ==
  [panic |-> \/ bars[0].bartype # "MEM"
             \/ ~f.accepted
             \/ /\ pci_config_get_capabillity_ptr(f, "MSI") = 0
                /\ pci_config_get_capabillity_ptr(f, "MSIX") = 0,
   iomap |-> <<0>>]

rtl8139_pci_probe(f, bars) == [panic |-> bars[1].bartype # "MEM", iomap |-> <<1>>]

qemuedu_pci_probe(f, bars) == [panic |-> FALSE, iomap |-> <<0>>]

qemustdvga_pci_probe(f, bars) == [panic |-> ~f.accepted, iomap |-> <<2, 0>>]

gd5446_pci_probe(f, bars) == [panic |-> ~f.accepted, iomap |-> <<1>>]

uhcihcd_pci_probe(f, bars) ==
  [panic |-> bars[4].bartype # "IO" \/ ~f.accepted, iomap |-> << >>]

\* The driver whose list of identities has the function's.
Drivers == {"xhci", "rtl8139", "edu", "stdvga", "gd5446", "uhci"}

Probe(f, bars) ==
  CASE f.ident = "xhci" -> xhcihcd_pci_probe(f, bars)
    [] f.ident = "rtl8139" -> rtl8139_pci_probe(f, bars)
    [] f.ident = "edu" -> qemuedu_pci_probe(f, bars)
    [] f.ident = "stdvga" -> qemustdvga_pci_probe(f, bars)
    [] f.ident = "gd5446" -> gd5446_pci_probe(f, bars)
    [] f.ident = "uhci" -> uhcihcd_pci_probe(f, bars)
=============================================================================
