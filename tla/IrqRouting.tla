---------------------------- MODULE IrqRouting -----------------------------
(***************************************************************************)
(* From the wire to the handler: the I/O APICs and source overrides that   *)
(* hal_parse_APIC_from_madt registers (driver/apic.c), the vectors devices *)
(* are given at probe time (an MSI vector, or their IRQ line), the handler *)
(* chains of kcore/irq.c, and the dispatch of isr_generic.                 *)
(*                                                                         *)
(* kmain parses the MADT and then probes the devices one after the other;  *)
(* interrupts come in between, one at a time (all gates are interrupt      *)
(* gates), on the boot processor, where every interrupt is routed.         *)
(***************************************************************************)
EXTENDS Integers, Sequences, FiniteSets

CONSTANTS
  Madts,                \* the MADTs considered, as sequences of entries
  MsiDevs, IntxDevs,    \* PCI devices with and without MSI
  IrqLine,              \* the PCI interrupt line of each device in IntxDevs
  Timer,                \* the local timer, a device of its own
  BpId, MAXCPU,
  IRQ_STARTVECTOR, MSIIRQ_STARTVECTOR, MSIIRQ_COUNT,
  MAX_INT_VECTORS

Devs == MsiDevs \cup IntxDevs \cup {Timer}
Irqs == 0..15
Vectors == 0..(MAX_INT_VECTORS - 1)
None == -1

ASSUME IrqAssumption ==
  /\ MsiDevs \cap IntxDevs = {} /\ Timer \notin MsiDevs \cup IntxDevs
  /\ IrqLine \in [IntxDevs -> Irqs \ {0}]
  /\ IRQ_STARTVECTOR \in Nat \ {0} /\ MSIIRQ_STARTVECTOR \in Nat /\ MSIIRQ_COUNT \in Nat
  /\ MAX_INT_VECTORS \in Nat
  /\ IRQ_STARTVECTOR + 16 <= MSIIRQ_STARTVECTOR
  /\ MSIIRQ_STARTVECTOR + MSIIRQ_COUNT <= MAX_INT_VECTORS

VARIABLES
  madt,       \* entries still to parse
  numcores,
  ioapics,    \* the registered I/O APICs, records [id, base, pins]
  override,   \* override[irq]: the flags of its source override, or None
  redir,      \* redir[irq]: the vector of its unmasked redirection entry, or None
  msivector,  \* the vector in a device's MSI capability, or None
  chain,      \* isr_chain
  probed,
  asserting,  \* devices with an interrupt nobody has handled
  dispatch,   \* the interrupt being served: vector, handlers still to call
  panic

bootVars == <<madt, numcores, ioapics, override>>
routeVars == <<redir, msivector, chain, probed>>
vars == <<bootVars, routeVars, asserting, dispatch, panic>>

NoIrq == [vector |-> None, rest |-> <<>>]
Kmain == panic = "" /\ dispatch = NoIrq

----------------------------------------------------------------------------
(* hal_parse_APIC_from_madt *)

\* apic_ioapic_add: the search for a registered I/O APIC of that id only logs.
apic_ioapic_add(e) ==
  /\ ioapics' = Append(ioapics, e.ioapic)
  /\ UNCHANGED <<numcores, override, panic>>

apic_ioapic_irqoverride_add(e) ==
  /\ IF override[e.irq] # None
     THEN panic' = "DUAL OVERRIDE ENTRIES FOR IRQ" /\ UNCHANGED override
     ELSE override' = [override EXCEPT ![e.irq] = e.flags] /\ UNCHANGED panic
  /\ UNCHANGED <<numcores, ioapics>>

\* The boot processor is known already; x2APIC ids from 255 on are skipped.
AddCore(e) ==
  /\ IF e.apicid = BpId \/ e.apicid >= 255
     THEN UNCHANGED <<numcores, panic>>
     ELSE IF numcores >= MAXCPU
     THEN panic' = "THIS computer has more cores than MAXCPU!" /\ UNCHANGED numcores
     ELSE numcores' = numcores + 1 /\ UNCHANGED panic
  /\ UNCHANGED <<ioapics, override>>

ParseMadtEntry ==
  /\ Kmain /\ madt # <<>>
  /\ LET e == Head(madt)
     IN \/ e.type = "CPULAPIC" /\ AddCore(e)
        \/ e.type = "IOAPIC" /\ apic_ioapic_add(e)
        \/ e.type = "IOAPICINTOVERRIDE" /\ apic_ioapic_irqoverride_add(e)
        \/ e.type = "LAPICNMI" /\ UNCHANGED <<numcores, ioapics, override, panic>>
  /\ madt' = Tail(madt)
  /\ UNCHANGED <<routeVars, asserting, dispatch>>

----------------------------------------------------------------------------
(* Probing *)

\* irq_get_free_msi: the first vector without a handler, 0 if there is none.
irq_get_free_msi ==
  LET unused == {v \in MSIIRQ_STARTVECTOR..(MSIIRQ_STARTVECTOR + MSIIRQ_COUNT - 1) : chain[v] = <<>>}
  IN IF unused = {} THEN 0 ELSE CHOOSE v \in unused : \A w \in unused : v <= w

irq_add_irq_handler(c, isrno, h) == [c EXCEPT ![isrno] = <<h>> \o @]

\* An MSI device (xhcihcd_pci_probe): take a vector, add the handler, program
\* the capability and mask INTx.
ProbeMsi_unregistered(d) ==
  /\ Kmain /\ madt = <<>> /\ d \notin probed
  /\ msivector' = [msivector EXCEPT ![d] = irq_get_free_msi]
  /\ probed' = probed \cup {d}
  /\ UNCHANGED <<bootVars, redir, chain, asserting, dispatch, panic>>

ProbeMsi(d) ==
  /\ Kmain /\ madt = <<>> /\ d \notin probed
  /\ LET v == irq_get_free_msi
     IN /\ chain' = irq_add_irq_handler(chain, v, d)
        /\ msivector' = [msivector EXCEPT ![d] = v]
  /\ probed' = probed \cup {d}
  /\ UNCHANGED <<bootVars, redir, asserting, dispatch, panic>>

apic_ioapic_get(irq) ==
  {i \in 1..Len(ioapics) : ioapics[i].base <= irq /\ irq < ioapics[i].base + ioapics[i].pins}

\* apic_ioapic_route_irq, called with vector irqno + IRQ_STARTVECTOR.  Without
\* an override it writes nothing; with one, only some flags are understood.
RouteIrq(irq) ==
  IF apic_ioapic_get(irq) = {}
  THEN panic' = "NO I/O APIC found for IRQ" /\ UNCHANGED redir
  ELSE IF override[irq] = None
  THEN UNCHANGED <<redir, panic>>
  ELSE IF override[irq] % 4 \notin {1, 3}
  THEN panic' = "Unsupported polarity override" /\ UNCHANGED redir
  ELSE IF (override[irq] \div 4) % 4 # 3
  THEN panic' = "Unsupported trigger mode override" /\ UNCHANGED redir
  ELSE redir' = [redir EXCEPT ![irq] = irq + IRQ_STARTVECTOR] /\ UNCHANGED panic

\* A device with an interrupt line (rtl8139_pci_probe).
ProbeIntx(d) ==
  /\ Kmain /\ madt = <<>> /\ d \notin probed
  /\ chain' = irq_add_irq_handler(chain, IrqLine[d], d)
  /\ RouteIrq(IrqLine[d])
  /\ probed' = probed \cup {d}
  /\ UNCHANGED <<bootVars, msivector, asserting, dispatch>>

\* hal_start_cpuinterrupts: the local timer raises the first IRQ vector.
StartTimer ==
  /\ Kmain /\ madt = <<>> /\ Timer \notin probed
  /\ chain' = irq_add_irq_handler(chain, IRQ_STARTVECTOR, Timer)
  /\ probed' = probed \cup {Timer}
  /\ UNCHANGED <<bootVars, redir, msivector, asserting, dispatch, panic>>

----------------------------------------------------------------------------
(* Interrupts *)

\* The vector a device's interrupt arrives on, None while it cannot arrive.
\* Vectors below 16 are not deliverable as messages.
VectorOf(d) ==
  IF d \notin probed THEN None
  ELSE IF d = Timer THEN IRQ_STARTVECTOR
  ELSE IF d \in IntxDevs THEN redir[IrqLine[d]]
  ELSE IF msivector[d] < 16 THEN None ELSE msivector[d]

Interrupt(d) ==
  /\ panic = "" /\ d \in probed \ asserting
  /\ asserting' = asserting \cup {d}
  /\ UNCHANGED <<bootVars, routeVars, dispatch, panic>>

\* The local APIC delivers the highest vector that waits; isr_generic gives
\* vectors 32 to 95 to irq_process_irq.
Enter(v) ==
  /\ panic = "" /\ dispatch = NoIrq /\ v # None
  /\ \E d \in asserting : VectorOf(d) = v
  /\ \A d \in asserting : VectorOf(d) <= v
  /\ dispatch' = [vector |-> v, rest |-> chain[v]]
  /\ UNCHANGED <<bootVars, routeVars, asserting, panic>>

\* irq_process_irq calls every handler of the chain, whatever they return.
CallHandler ==
  /\ panic = "" /\ dispatch.rest # <<>>
  /\ LET h == Head(dispatch.rest)
     IN /\ asserting' = asserting \ {h}
        /\ dispatch' = [dispatch EXCEPT !.rest = Tail(@)]
  /\ UNCHANGED <<bootVars, routeVars, panic>>

Leave_noeoi ==
  panic = "" /\ dispatch # NoIrq /\ dispatch.rest = <<>> /\ UNCHANGED vars

\* apic_lapic_eoi and the return from the interrupt.
Leave ==
  /\ panic = "" /\ dispatch # NoIrq /\ dispatch.rest = <<>>
  /\ dispatch' = NoIrq
  /\ UNCHANGED <<bootVars, routeVars, asserting, panic>>

----------------------------------------------------------------------------
Init ==
  /\ madt \in Madts
  /\ numcores = 1 /\ ioapics = <<>> /\ override = [i \in Irqs |-> None]
  /\ redir = [i \in Irqs |-> None]
  /\ msivector = [d \in MsiDevs |-> None]
  /\ chain = [v \in Vectors |-> <<>>]
  /\ probed = {} /\ asserting = {} /\ dispatch = NoIrq /\ panic = ""

Next ==
  \/ ParseMadtEntry
  \/ \E d \in MsiDevs : ProbeMsi(d)
  \/ \E d \in IntxDevs : ProbeIntx(d)
  \/ StartTimer
  \/ \E d \in Devs : Interrupt(d)
  \/ \E v \in Vectors : Enter(v)
  \/ CallHandler
  \/ Leave

Spec == Init /\ [][Next]_vars

\* Handlers run to their end with interrupts off, and the local APIC keeps the
\* highest pending vector until it is taken.  Nothing more is assumed: a device
\* may interrupt again as soon as it has been served, and keep lower vectors
\* waiting for ever.
FairSpec ==
  /\ Spec /\ WF_vars(CallHandler) /\ WF_vars(Leave) /\ WF_vars(\E v \in Vectors : Enter(v))

----------------------------------------------------------------------------
(* Properties *)

Handlers(v) == {chain[v][i] : i \in 1..Len(chain[v])}
HasMsi(d) == d \in probed /\ msivector[d] \notin {None, 0}

\* While vectors last, every MSI device has a vector of its own, and its handler
\* is on the chain of exactly that vector: irq_get_free_msi never hands out a
\* vector twice, because irq_add_irq_handler uses it up before the next probe.
MsiVectorsAreOwn ==
  \A d \in MsiDevs : HasMsi(d) =>
    /\ Handlers(msivector[d]) = {d}
    /\ \A e \in MsiDevs : HasMsi(e) /\ msivector[e] = msivector[d] => e = d

Outranked(d) == \E e \in asserting : VectorOf(e) > VectorOf(d)

\* The interrupt of the timer or of a device with an MSI vector is handled, by a
\* chain that has its handler and ends with the end of interrupt, unless higher
\* vectors keep coming.  The exception is real: an interrupt line arrives on its
\* line + IRQ_STARTVECTOR, its handler is on the chain of the bare line number
\* (rtl8139.c:710), so nobody makes the device withdraw it, it is delivered again
\* after every end of interrupt and the timer, on a lower vector, never is.
HandledUnlessOutranked ==
  \A d \in MsiDevs \cup {Timer} :
    <>[]~Outranked(d) =>
      ((d \in asserting /\ VectorOf(d) # None) ~> (d \notin asserting \/ panic # ""))
=============================================================================
