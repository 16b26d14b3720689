--------------------------- MODULE MCIrqRouting ----------------------------
(* MADTs as QEMU's q35 machine writes them, and the ones the parser turns    *)
(* away; three MSI devices for two vectors; two devices on interrupt lines,  *)
(* of which one has a source override.                                       *)
EXTENDS IrqRouting, TLC

CONSTANTS x1, x2, x3, nic1, nic2

Lapic(id) == [type |-> "CPULAPIC", apicid |-> id]
IoApic(id, base) == [type |-> "IOAPIC", ioapic |-> [id |-> id, base |-> base, pins |-> 24]]
Override(irq, flags) == [type |-> "IOAPICINTOVERRIDE", irq |-> irq, flags |-> flags]
Nmi == [type |-> "LAPICNMI"]

Q35 == <<Lapic(0), Lapic(1), IoApic(0, 0), Override(11, 13), Nmi>>

MCMadts ==
  {Q35,
   <<Lapic(0), Lapic(1), Lapic(2)>>,                  \* one core too many
   <<IoApic(0, 0), IoApic(0, 0), Override(11, 13)>>,  \* one I/O APIC twice
   <<Lapic(255)>>,                                    \* no I/O APIC
   <<IoApic(0, 0), Override(11, 13), Override(11, 13)>>,
   <<IoApic(0, 0), Override(11, 12)>>,                \* polarity of the bus
   <<IoApic(0, 0), Override(11, 1)>>}                 \* edge triggered

MCIrqLine == (nic1 :> 11) @@ (nic2 :> 10)
=============================================================================
