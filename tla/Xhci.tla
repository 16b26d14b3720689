-------------------------------- MODULE Xhci --------------------------------
(***************************************************************************)
(* The xHCI driver (driver/usb/xhci_hcd.c) with its callers in usb_core.c  *)
(* and hid/usb_kbd.c: usb_init resets, sets up and starts the controller   *)
(* and enumerates its ports, one device after the other.  A device is      *)
(* given a slot and an address by commands, is asked over endpoint 0 by    *)
(* control transfers, and gets a request on its interrupt endpoint, which  *)
(* the completion callback submits again.  The caller waits by polling a   *)
(* flag that the interrupt handler clears, and gives up after a timeout.   *)
(*                                                                         *)
(* The controller works on its rings, posts events and raises its MSI at   *)
(* any speed; the wait may end before it answers.  The TRB rings are       *)
(* queues here (XhciRing shows that they are); a TRB's address is its      *)
(* position modulo the ring.  One processor: while the handler runs the    *)
(* process does not.  PANIC is an endless loop with interrupts as they     *)
(* are: in the process it leaves the handler running, in the handler it    *)
(* stops both.  usb_init is not called by the boot code as it stands       *)
(* (boot/kmain.c:160 is commented out).                                    *)
(***************************************************************************)
EXTENDS Integers, Sequences, FiniteSets

CONSTANTS
  NDevs,        \* devices connected to root hub ports
  Ring,         \* positions of the command ring
  MaxControls,  \* control transfers of one device's enumeration
  MaxReports    \* interrupt transfers that the devices complete

ASSUME XhciAssumption ==
  /\ NDevs \in Nat \ {0} /\ Ring \in Nat \ {0, 1}
  /\ MaxControls \in Nat \ {0} /\ MaxReports \in Nat

Devs == 1..NDevs
None == 0

VARIABLES
  pc, wait, dev,            \* the process in usb_init, and the device it is at
  hcdstate, panic,
  hcrst, cnr, halted, hce,  \* USBCMD.HCRST; USBSTS.CNR, HCH and HCE or HSE
  wasreset,                 \* devices whose port the controller has reset
  slot,                     \* per device: xhcidev->devices[] and in_use
  cmd, ncmd,                \* cmd_pending, cmd_trb_phys, cmd_code; commands issued
  xfer, nctl,               \* per device: xfer_pending, xfer_code; transfers issued
  ep, nreq, called,         \* per device: its endpoint; requests accepted, callbacks
  cmdring, ep0ring, epring, \* TRBs the controller has not worked on
  stalled, active,          \* endpoints halted, and configured, in the controller
  events,                   \* the event ring
  ipe, ehb, msi,            \* interrupter: pending enable, handler busy; the message
  irq, missed               \* the interrupt handler; an MSI before STARTED

procvars == <<pc, wait, dev, hcdstate, wasreset, slot>>
regvars == <<hcrst, cnr, halted, hce>>
drivervars == <<cmd, ncmd, xfer, nctl, ep, nreq, called>>
ringvars == <<cmdring, ep0ring, epring>>
hcvars == <<stalled, active>>
intrvars == <<ipe, ehb, msi, irq, missed>>
vars == <<procvars, panic, regvars, drivervars, ringvars, hcvars, events, intrvars>>

Init ==
  /\ pc = "reset" /\ wait = "no" /\ dev = 1 /\ hcdstate = "INIT" /\ panic = "no"
  /\ hcrst = FALSE /\ cnr = FALSE /\ halted \in BOOLEAN /\ hce = FALSE
  /\ wasreset = {} /\ slot = [d \in Devs |-> "none"]
  /\ cmd = [pending |-> FALSE, trb |-> 0, code |-> "invalid", by |-> None] /\ ncmd = 0
  /\ xfer = [d \in Devs |-> [pending |-> FALSE, code |-> "invalid", by |-> None]]
  /\ nctl = [d \in Devs |-> 0]
  /\ ep = [d \in Devs |-> [configured |-> FALSE, halted |-> FALSE, req |-> None]]
  /\ nreq = 0 /\ called = <<>>
  /\ cmdring = <<>> /\ ep0ring = <<>> /\ epring = <<>>
  /\ stalled = {} /\ active = {}
  /\ events = <<>> /\ ipe = FALSE /\ ehb = FALSE /\ msi = FALSE
  /\ irq = "out" /\ missed = FALSE

----------------------------------------------------------------------------
(* The process.  It runs while the handler does not.                       *)

Runs(p) == pc = p /\ irq = "out" /\ panic = "no"

\* xhcihcd_halt waits for HCH and gives up, which is a PANIC in xhcihcd_setup;
\* then HCRST is written.
xhcihcd_reset ==
  /\ Runs("reset")
  /\ IF halted
     THEN pc' = "resetwait" /\ hcrst' = TRUE /\ cnr' = TRUE /\ UNCHANGED panic
     ELSE panic' = "process" /\ UNCHANGED <<pc, hcrst, cnr>>
  /\ UNCHANGED <<wait, dev, hcdstate, wasreset, slot, halted, hce, drivervars,
                 ringvars, hcvars, events, intrvars>>

\* The loop goes on while bit 1 of USBSTS, which is reserved and reads 0, and
\* CNR are set.
ReservedStatusBit == FALSE
StillResetting == ReservedStatusBit /\ cnr

\* After it USBCMD must read 0.  The rest of xhcihcd_setup follows.
ResetDone ==
  /\ Runs("resetwait") /\ ~StillResetting
  /\ IF hcrst
     THEN panic' = "process" /\ UNCHANGED <<pc, hcdstate>>
     ELSE pc' = "start" /\ hcdstate' = "SETUP" /\ UNCHANGED panic
  /\ UNCHANGED <<wait, dev, wasreset, slot, regvars, drivervars, ringvars, hcvars,
                 events, intrvars>>

\* RS is written; hcdstate follows when HCH clears, or not at all.
xhcihcd_start ==
  /\ Runs("start")
  /\ pc' = "starting"
  /\ UNCHANGED <<wait, dev, hcdstate, wasreset, slot, panic, regvars, drivervars,
                 ringvars, hcvars, events, intrvars>>

Started ==
  /\ Runs("starting")
  /\ IF halted
     THEN pc' = "stopped" /\ UNCHANGED hcdstate
     ELSE pc' = "port" /\ hcdstate' = "STARTED"
  /\ UNCHANGED <<wait, dev, wasreset, slot, panic, regvars, drivervars, ringvars,
                 hcvars, events, intrvars>>

\* xhcihcd_port_write_status: the action bits come from rw1_bits only.
ActionBits == {"PED", "PR", "WPR", "CHANGE"}
PortWritten(set_bits, rw1_bits) == (set_bits \ ActionBits) \cup (rw1_bits \cap ActionBits)

\* xhcihcd_port_reset, which tests PR against 1 and so never waits, and the
\* speed that xhcihcd_hub_enumerate reads after it.
PortReset ==
  /\ Runs("port")
  /\ IF "PR" \in PortWritten({"PR"}, {})
     THEN wasreset' = wasreset \cup {dev}
     ELSE UNCHANGED wasreset
  /\ pc' = "enable"
  /\ UNCHANGED <<wait, dev, hcdstate, slot, panic, regvars, drivervars, ringvars,
                 hcvars, events, intrvars>>

\* Commands of the ring that the driver has not seen completed.
CommandsInFlight == Len(cmdring) + Cardinality({i \in DOMAIN events : events[i].type = "command"})

TrbAddress(n) == n % Ring

\* xhcihcd_command_execute up to its wait: Enable Slot, Address Device and
\* Configure Endpoint.  The ring is never full (see XhciRing).
xhcihcd_command_execute ==
  /\ pc \in {"enable", "address", "configure"} /\ Runs(pc)
  /\ wait = "no" /\ CommandsInFlight < Ring - 1
  /\ cmd' = [pending |-> TRUE, trb |-> TrbAddress(ncmd), code |-> "invalid", by |-> None]
  /\ ncmd' = ncmd + 1
  /\ cmdring' = Append(cmdring, [n |-> ncmd, op |-> pc, dev |-> dev])
  /\ wait' = "wait"
  /\ UNCHANGED <<pc, dev, hcdstate, wasreset, slot, panic, regvars, xfer, nctl, ep,
                 nreq, called, ep0ring, epring, hcvars, events, intrvars>>

\* A mutant: the wait never gives up.
GiveUp_never == FALSE /\ UNCHANGED vars

\* The loop has run out and the flag is read once more: from here the answer
\* comes too late.
GiveUp ==
  /\ wait = "wait" /\ Runs(pc)
  /\ IF pc = "control" THEN xfer[dev].pending ELSE cmd.pending
  /\ wait' = "giveup"
  /\ UNCHANGED <<pc, dev, hcdstate, wasreset, slot, panic, regvars, drivervars,
                 ringvars, hcvars, events, intrvars>>

NextDevice == IF dev < NDevs THEN pc' = "port" /\ dev' = dev + 1 ELSE pc' = "done" /\ UNCHANGED dev

\* What the caller of a command does with its result: a device that cannot be
\* attached is a PANIC, an endpoint that cannot be configured is given up.
CommandResult(ok) ==
  \/ /\ pc = "enable" /\ ok
     /\ slot' = [slot EXCEPT ![dev] = "slot"] /\ pc' = "address"
     /\ UNCHANGED <<dev, ep, panic>>
  \/ /\ pc = "address" /\ ok
     /\ slot' = [slot EXCEPT ![dev] = "in_use"] /\ pc' = "control"
     /\ UNCHANGED <<dev, ep, panic>>
  \/ /\ pc = "configure" /\ ok
     /\ ep' = [ep EXCEPT ![dev].configured = TRUE] /\ pc' = "submit"
     /\ UNCHANGED <<dev, slot, panic>>
  \/ /\ pc = "configure" /\ ~ok
     /\ NextDevice /\ UNCHANGED <<slot, ep, panic>>
  \/ /\ pc \in {"enable", "address"} /\ ~ok
     /\ panic' = "process" /\ UNCHANGED <<pc, dev, slot, ep>>

CommandReturns ==
  /\ pc \in {"enable", "address", "configure"} /\ Runs(pc)
  /\ \/ wait = "wait" /\ ~cmd.pending /\ CommandResult(cmd.code = "success") /\ UNCHANGED cmd
     \/ wait = "giveup" /\ CommandResult(FALSE) /\ cmd' = [cmd EXCEPT !.pending = FALSE]
  /\ wait' = "no"
  /\ UNCHANGED <<hcdstate, wasreset, regvars, ncmd, xfer, nctl, nreq, called, ringvars,
                 hcvars, events, intrvars>>

\* usb_control_msg: setup, data and status TRBs, of which the last interrupts.
xhcihcd_control_transfer_hw ==
  /\ Runs("control") /\ wait = "no" /\ nctl[dev] < MaxControls
  /\ xfer' = [xfer EXCEPT ![dev] = [pending |-> TRUE, code |-> "invalid", by |-> None]]
  /\ nctl' = [nctl EXCEPT ![dev] = @ + 1]
  /\ ep0ring' = Append(ep0ring, [dev |-> dev, n |-> nctl[dev] + 1])
  /\ wait' = "wait"
  /\ UNCHANGED <<pc, dev, hcdstate, wasreset, slot, panic, regvars, cmd, ncmd, ep, nreq,
                 called, cmdring, epring, hcvars, events, intrvars>>

\* usb_control_msg, through which every control transfer goes, panics.
ControlFailed == panic' = "process" /\ UNCHANGED pc

ControlReturns ==
  /\ Runs("control")
  /\ \/ /\ wait = "wait" /\ ~xfer[dev].pending /\ UNCHANGED xfer
        /\ IF xfer[dev].code = "success" THEN UNCHANGED <<pc, panic>> ELSE ControlFailed
     \/ /\ wait = "giveup" /\ xfer' = [xfer EXCEPT ![dev].pending = FALSE]
        /\ ControlFailed
  /\ wait' = "no"
  /\ UNCHANGED <<dev, hcdstate, wasreset, slot, regvars, cmd, ncmd, nctl, ep, nreq,
                 called, ringvars, hcvars, events, intrvars>>

\* usb_try_to_bind_device_driver: a keyboard asks for data, or no driver fits.
Bind ==
  /\ Runs("control") /\ wait = "no" /\ nctl[dev] = MaxControls
  /\ \/ pc' = "submit" /\ UNCHANGED dev
     \/ NextDevice
  /\ UNCHANGED <<wait, hcdstate, wasreset, slot, panic, regvars, drivervars, ringvars,
                 hcvars, events, intrvars>>

Accepts(e) == ~e.halted /\ e.req = None

\* xhcihcd_submit_endp_xfer_request from the process: the first submit resets
\* and configures the endpoint, then the request is queued.
xhcihcd_submit_endp_xfer_request ==
  /\ Runs("submit")
  /\ \/ /\ ~ep[dev].configured
        /\ ep' = [ep EXCEPT ![dev] = [@ EXCEPT !.req = None, !.halted = FALSE]]
        /\ pc' = "configure"
        /\ UNCHANGED <<dev, nreq, epring>>
     \/ /\ ep[dev].configured
        /\ IF Accepts(ep[dev])
           THEN /\ ep' = [ep EXCEPT ![dev].req = nreq + 1]
                /\ nreq' = nreq + 1
                /\ epring' = Append(epring, [dev |-> dev, n |-> nreq + 1])
           ELSE UNCHANGED <<ep, nreq, epring>>
        /\ NextDevice
  /\ UNCHANGED <<wait, hcdstate, wasreset, slot, panic, regvars, cmd, ncmd, xfer, nctl,
                 called, cmdring, ep0ring, hcvars, events, intrvars>>

----------------------------------------------------------------------------
(* The interrupt handler.                                                  *)

\* xhcihcd_irqhandler: before STARTED it returns and leaves everything as it
\* is; a controller in error is dead.
xhcihcd_irqhandler ==
  /\ msi /\ irq = "out" /\ panic # "handler"
  /\ msi' = FALSE
  /\ \/ /\ hcdstate # "STARTED"
        /\ missed' = TRUE /\ UNCHANGED <<irq, hcdstate, panic>>
     \/ /\ hcdstate = "STARTED" /\ hce
        /\ hcdstate' = "DEAD" /\ panic' = "handler" /\ UNCHANGED <<irq, missed>>
     \/ /\ hcdstate = "STARTED" /\ ~hce
        /\ irq' = "first" /\ UNCHANGED <<missed, hcdstate, panic>>
  /\ UNCHANGED <<pc, wait, dev, wasreset, slot, regvars, drivervars, ringvars, hcvars,
                 events, ipe, ehb>>

\* A mutant: any completion is taken for the command's.
IsMyCommand_any(e) == cmd.pending

\* xhcihcd_handle_command_completion: pending, and the address of its TRB.
IsMyCommand(e) == cmd.pending /\ TrbAddress(e.n) = cmd.trb

HandleCommand(e) ==
  /\ e.type = "command"
  /\ cmd' = IF IsMyCommand(e)
            THEN [cmd EXCEPT !.code = e.code, !.by = e.n, !.pending = FALSE]
            ELSE cmd
  /\ UNCHANGED <<xfer, ep, nreq, called, epring, panic, hcdstate>>

\* xhcihcd_handle_transfer_event, endpoint 0: whatever transfer is pending.
HandleControl(e) ==
  /\ e.type = "control"
  /\ xfer' = IF slot[e.dev] = "in_use" /\ xfer[e.dev].pending
             THEN [xfer EXCEPT ![e.dev] = [pending |-> FALSE, code |-> e.code, by |-> e.n]]
             ELSE xfer
  /\ UNCHANGED <<cmd, ep, nreq, called, epring, panic, hcdstate>>

\* Mutants: the endpoint is not released, or not marked as halted.
Released_keep(x, code) == [x EXCEPT !.halted = @ \/ code = "error"]
Released_running(x, code) == [x EXCEPT !.req = None]

\* The endpoint is released before the callback, and halted by an error.
Released(x, code) == [x EXCEPT !.req = None, !.halted = @ \/ code = "error"]

\* The rest of it: the request's callback, usb_kbd_xfercbfunc, submits again.
HandleEndpoint(e) ==
  /\ e.type = "endpoint"
  /\ IF slot[e.dev] # "in_use" \/ ep[e.dev].req = None
     THEN UNCHANGED <<ep, nreq, called, epring>>
     ELSE LET x == Released(ep[e.dev], e.code)
              again == Accepts(x) IN
          /\ called' = Append(called, [req |-> ep[e.dev].req, trb |-> e.n])
          /\ ep' = [ep EXCEPT ![e.dev] = IF again THEN [x EXCEPT !.req = nreq + 1] ELSE x]
          /\ nreq' = IF again THEN nreq + 1 ELSE nreq
          /\ epring' = IF again THEN Append(epring, [dev |-> e.dev, n |-> nreq + 1]) ELSE epring
  /\ UNCHANGED <<cmd, xfer, panic, hcdstate>>

\* Port changes and host controller errors end in PANIC.
HandleFatal(e) ==
  /\ e.type \in {"port", "host"}
  /\ panic' = "handler"
  /\ hcdstate' = IF e.type = "host" THEN "DEAD" ELSE hcdstate
  /\ UNCHANGED <<cmd, xfer, ep, nreq, called, epring>>

\* One round of xhcihcd_process_events, the first or a later one.
ProcessEvent ==
  /\ irq \in {"first", "drain"} /\ events # <<>> /\ panic # "handler"
  /\ LET e == Head(events) IN
     HandleCommand(e) \/ HandleControl(e) \/ HandleEndpoint(e) \/ HandleFatal(e)
  /\ events' = Tail(events)
  /\ irq' = "drain"
  /\ UNCHANGED <<pc, wait, dev, wasreset, slot, regvars, ncmd, nctl, cmdring, ep0ring,
                 hcvars, ipe, ehb, msi, missed>>

\* The ring looked empty.  The ERDP write with EHB is still to come, or left out
\* when nothing was consumed.
RingEmpty ==
  /\ irq \in {"first", "drain"} /\ events = <<>> /\ panic # "handler"
  /\ irq' = IF irq = "first" THEN "out" ELSE "ack"
  /\ UNCHANGED <<procvars, panic, regvars, drivervars, ringvars, hcvars, events, ipe, ehb,
                 msi, missed>>

\* A mutant: EHB is left set.
HandlerBusyAfter_set == TRUE

\* ERDP is written with EHB, which clears it.
HandlerBusyAfter == FALSE

WriteErdp ==
  /\ irq = "ack" /\ panic # "handler"
  /\ irq' = "out"
  /\ ehb' = HandlerBusyAfter
  /\ ipe' = (ipe /\ events # <<>>)
  /\ UNCHANGED <<procvars, panic, regvars, drivervars, ringvars, hcvars, events, msi, missed>>

----------------------------------------------------------------------------
(* The controller.                                                         *)

HcIdle == UNCHANGED <<procvars, panic, drivervars>>

HcResets ==
  /\ HcIdle
  /\ \/ hcrst /\ hcrst' = FALSE /\ UNCHANGED cnr
     \/ ~hcrst /\ cnr /\ cnr' = FALSE /\ UNCHANGED hcrst
  /\ UNCHANGED <<halted, hce, ringvars, hcvars, events, intrvars>>

HcRuns ==
  /\ HcIdle /\ pc = "starting" /\ halted
  /\ halted' = FALSE
  /\ UNCHANGED <<hcrst, cnr, hce, ringvars, hcvars, events, intrvars>>

Running == ~halted /\ pc \notin {"reset", "stopped"} /\ panic # "handler"

Post(e) ==
  /\ HcIdle
  /\ events' = Append(events, e)
  /\ ipe' = TRUE
  /\ UNCHANGED <<regvars, ehb, msi, irq, missed>>

HcCommand(code) ==
  /\ Running /\ cmdring # <<>>
  /\ LET c == Head(cmdring) IN
     /\ Post([type |-> "command", n |-> c.n, code |-> code])
     /\ active' = IF c.op = "configure" /\ code = "success" THEN active \cup {c.dev} ELSE active
  /\ cmdring' = Tail(cmdring)
  /\ UNCHANGED <<ep0ring, epring, stalled>>

\* An error halts endpoint 0, and what is on its ring stays there.
HcControl(code) ==
  /\ Running /\ ep0ring # <<>> /\ <<Head(ep0ring).dev, 0>> \notin stalled
  /\ LET t == Head(ep0ring) IN
     /\ Post([type |-> "control", dev |-> t.dev, n |-> t.n, code |-> code])
     /\ stalled' = IF code = "error" THEN stalled \cup {<<t.dev, 0>>} ELSE stalled
  /\ ep0ring' = Tail(ep0ring)
  /\ UNCHANGED <<cmdring, epring, active>>

\* Interrupt endpoints are served in any order of devices.
HcEndpoint(i, code) ==
  /\ Running /\ Len(called) < MaxReports
  /\ epring[i].dev \in active /\ <<epring[i].dev, 1>> \notin stalled
  /\ Post([type |-> "endpoint", dev |-> epring[i].dev, n |-> epring[i].n, code |-> code])
  /\ stalled' = IF code = "error" THEN stalled \cup {<<epring[i].dev, 1>>} ELSE stalled
  /\ epring' = [j \in 1..(Len(epring) - 1) |-> epring[IF j < i THEN j ELSE j + 1]]
  /\ UNCHANGED <<cmdring, ep0ring, active>>

HcPortOrHostEvent ==
  /\ Running
  /\ \A i \in DOMAIN events : events[i].type \notin {"port", "host"}
  /\ \E t \in {"port", "host"} : Post([type |-> t])
  /\ UNCHANGED <<ringvars, hcvars>>

\* HCE or HSE, which interrupts without an event.
HcFails ==
  /\ Running /\ ~hce /\ HcIdle
  /\ hce' = TRUE /\ msi' = TRUE
  /\ UNCHANGED <<hcrst, cnr, halted, ringvars, hcvars, events, ipe, ehb, irq, missed>>

RaiseInterrupt ==
  /\ Running /\ ipe /\ ~ehb /\ HcIdle
  /\ ipe' = FALSE /\ ehb' = TRUE /\ msi' = TRUE
  /\ UNCHANGED <<regvars, ringvars, hcvars, events, irq, missed>>

----------------------------------------------------------------------------

Process ==
  \/ xhcihcd_reset \/ ResetDone \/ xhcihcd_start \/ Started \/ PortReset
  \/ xhcihcd_command_execute \/ CommandReturns
  \/ xhcihcd_control_transfer_hw \/ ControlReturns
  \/ GiveUp \/ Bind \/ xhcihcd_submit_endp_xfer_request

Handler == xhcihcd_irqhandler \/ ProcessEvent \/ RingEmpty \/ WriteErdp

Controller ==
  \/ HcResets \/ HcRuns \/ HcPortOrHostEvent \/ HcFails \/ RaiseInterrupt
  \/ \E code \in {"success", "error"} :
       HcCommand(code) \/ HcControl(code) \/ \E i \in DOMAIN epring : HcEndpoint(i, code)

Next == Process \/ Handler \/ Controller

\* The process is resumed after every interrupt, an interrupt is taken when it
\* is raised and its handler runs to its end.  Nothing is assumed of the
\* controller: it may leave every request unanswered.
Spec == Init /\ [][Next]_vars /\ SF_vars(Process) /\ WF_vars(Handler)

----------------------------------------------------------------------------
(* Properties *)

\* A caller gets the result of its own command or transfer.  The late completion
\* of a command that timed out is told apart by the TRB's address; events of
\* endpoint 0 are not matched with their transfer, but after a control transfer
\* that timed out usb_control_msg stops, so there is no next one.
ResultIsOwn ==
  wait = "wait" =>
    /\ pc # "control" /\ ~cmd.pending => cmd.by = ncmd - 1
    /\ pc = "control" /\ ~xfer[dev].pending => xfer[dev].by = nctl[dev]

\* Every request that was accepted is outstanding on its endpoint or has had its
\* callback, once, for the TRB it was queued with ("the event cannot belong to
\* anything else", xhci_hcd.c:1677).
CallbackPerRequest ==
  /\ nreq = Len(called) + Cardinality({d \in Devs : ep[d].req # None})
  /\ \A i \in DOMAIN called : called[i].req = called[i].trb
  /\ \A i, j \in DOMAIN called : called[i].req = called[j].req => i = j

\* A request is not left on an endpoint that the controller has halted, unless
\* the event that says so is still to be handled ("refuse further submits
\* instead of hanging silently", xhci_hcd.c:1700).
NeverHangsSilently ==
  \A d \in Devs :
    (ep[d].req # None /\ <<d, 1>> \in stalled) =>
      \E i \in DOMAIN events : events[i].type = "endpoint" /\ events[i].dev = d

\* No event is forgotten in the ring: whenever there is one, the controller owes
\* an interrupt that nothing holds back, or has raised it, or the handler has not
\* returned.  An event that is posted after the handler's last look at the ring
\* and before its ERDP write ("or the controller will not raise the next
\* interrupt", xhci_hcd.c:1806) is the hard case, and the handler must never be
\* called for nothing, for then it would leave EHB set.  The exception is an
\* interrupt taken before hcdstate was STARTED, which leaves EHB set for good.
NoEventForgotten ==
  events # <<>> /\ hcdstate # "DEAD" /\ ~missed =>
    (ipe /\ ~ehb) \/ msi \/ irq # "out"

\* usb_init comes to an end, in a PANIC if it must, even if the controller
\* answers nothing.
EnumerationEnds == <>(pc \in {"done", "stopped"} \/ panic # "no")
=============================================================================
