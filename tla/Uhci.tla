-------------------------------- MODULE Uhci --------------------------------
(***************************************************************************)
(* The UHCI driver (driver/usb/uhci_hcd.c) under the USB core and the      *)
(* keyboard driver: probe, setup and start of the controller, enumeration  *)
(* of the root hub ports (usb_enumerate_hcd_roothub), control transfers    *)
(* that wait with a timeout, and the interrupt requests that usb_poll      *)
(* finds completed, whose callback submits them again.                     *)
(*                                                                         *)
(* The driver links queue heads (QH) into a schedule in memory; the        *)
(* controller walks it at its own speed, executes transfer descriptors     *)
(* (TD) and writes their status back.  One thread calls the driver, so     *)
(* thread and controller are the two actors; a wait may end before the     *)
(* controller answers.  A QH and its TDs are one block, freed together and *)
(* reused at once.  Controller and devices are external: an executed TD    *)
(* may be answered with NAK, with data, with fewer bytes than asked for,   *)
(* or with an error.  The controller advances the QH with the write-back   *)
(* of its TD.  A PANIC ends the run: nothing is asked of the driver then.  *)
(*                                                                         *)
(* The boot code as it stands does not reach usb_init, and                 *)
(* usb_enumerate_roothubs skips its call of usb_enumerate_hcd_roothub      *)
(* (usb_core.c:679): the model calls it where that line stands.            *)
(***************************************************************************)
EXTENDS UsbCore

CONSTANTS
  Ports,      \* number of root hub ports with the "always one" bit
  Plugged,    \* the ways devices may be plugged in: functions on the ports
  NoDevice,   \* nothing plugged in
  QH,         \* blocks of QH and TDs that kmalloc_aligned hands out
  T,          \* a link's terminate bit
  ROUNDS,     \* polls of uhcihcd_roothub_port_reset, 10 in the code
  MaxReports  \* reports of a keyboard, to bound the run

ASSUME UhciAssumption ==
  /\ Ports \in 0..3 /\ ROUNDS \in Nat \ {0} /\ MaxReports \in Nat
  /\ T \notin QH /\ IsFiniteSet(QH)

QSLOTS == 11
Q128 == 0
QCTRL == 9
PACKET == 8         \* packet_size of a control transfer
NoReq == -1         \* qh->xferReq = 0
Port == 0..(Ports - 1)

VARIABLES
  hcdstate,     \* UNDEFINED, INIT, SETUP, STARTED
  cpu,          \* the thread: pc, port, rounds, requests left, poll cursor
  plugged,      \* the device at each port
  port,         \* PORTSC of each port: csc, pec, pe
  elem,         \* element_link of the top queue heads
  head,         \* head_link of the transfer queue heads
  parent,       \* parent_qh
  el,           \* element_link of the transfer queue heads: a TD or T
  td,           \* the TDs of a transfer queue head
  xferReq,      \* the port whose keyboard asked, or NoReq
  free,         \* free blocks: kmalloc hands out the one freed last
  usbint,       \* USBSTS bit 0
  hc,           \* the TD the controller executes: <<QH, index>>, or <<>>
  moved, avail, \* control transfer: bytes the device sent, and has to send
  called, sent  \* per port: callbacks run, and requests submitted

links == <<elem, head, parent>>
xfers == <<el, td, xferReq, free>>
used == QH \ ToSet(free)
ctl == <<moved, avail>>
counts == <<called, sent>>
vars == <<hcdstate, cpu, plugged, port, links, xfers, usbint, hc, ctl, counts>>

Min2(a, b) == IF a < b THEN a ELSE b

Cpu(pc) == [pc |-> pc, port |-> 0, round |-> 0, todo |-> <<>>, qh |-> T, queue |-> 0]

Init ==
  /\ hcdstate = "UNDEFINED" /\ cpu = Cpu("probe")
  /\ plugged \in Plugged
  /\ port = [p \in Port |-> [csc |-> TRUE, pec |-> FALSE, pe |-> FALSE]]
  /\ elem = [i \in 0..(QSLOTS - 1) |-> T]
  /\ head = [q \in QH |-> T] /\ parent = [q \in QH |-> Q128]
  /\ el = [q \in QH |-> 0] /\ td = [q \in QH |-> <<>>]
  /\ xferReq = [q \in QH |-> NoReq] /\ free = SetToSeq(QH)
  /\ usbint = FALSE /\ hc = <<>> /\ moved = 0 /\ avail = 0
  /\ called = [p \in Port |-> 0] /\ sent = [p \in Port |-> 0]

-----------------------------------------------------------------------------
(* The schedule.                                                           *)

\* The transfer queue heads linked from q on, at most n of them.
RECURSIVE ChainFrom(_, _, _)
ChainFrom(h, q, n) ==
  IF q = T \/ n = 0 THEN <<>> ELSE <<q>> \o ChainFrom(h, h[q], n - 1)

\* The links as a record of both kinds, and the transfers of top queue i.
Links == [elem |-> elem, head |-> head]
SetLinks(l) == elem' = l.elem /\ head' = l.head
Chain(l, i) == ChainFrom(l.head, l.elem[i], Cardinality(QH) + 1)

\* Mutant: always link as the first of the queue, forgetting the others.
Insert_overfirst(l, q, i) == [l EXCEPT !.elem[i] = q, !.head[q] = T]

\* uhcihcd_insertTransferQH: behind the last queue head of the top queue.  The
\* search gives up after ten; with one request per port it never gets there.
uhcihcd_insertTransferQH(l, q, i) ==
  IF l.elem[i] = T THEN [l EXCEPT !.elem[i] = q, !.head[q] = T]
  ELSE [l EXCEPT !.head[q] = T, !.head[Last(Chain(l, i))] = q]

\* Mutant: removing the first entry leaves the queue empty.
Remove_dropsrest(l, q) ==
  LET c == Chain(l, parent[q]) IN
  IF l.elem[parent[q]] = q THEN [l EXCEPT !.elem[parent[q]] = T]
  ELSE [l EXCEPT !.head[c[CHOOSE k \in 1..(Len(c) - 1) : c[k + 1] = q]] = l.head[q]]

\* uhcihcd_removeTransferQH: the top queue or the predecessor skips q.
uhcihcd_removeTransferQH(l, q) ==
  LET i == parent[q]
      c == Chain(l, i)
      before == c[CHOOSE k \in 1..(Len(c) - 1) : c[k + 1] = q]
  IN IF l.elem[i] = q THEN [l EXCEPT !.elem[i] = l.head[q]]
     ELSE [l EXCEPT !.head[before] = l.head[q]]

\* What a freed block holds is of no meaning.
Cleared(l, q) == [l EXCEPT !.head[q] = T]

\* uhcihcd_setup_schedule: the queue head (Q128 is 0, Q1 is 7) that frame i of the frame list points to;
\* a later assignment of the loop body overwrites an earlier one.
FrameEntry(i) ==
  LET divides == {k \in 0..7 : i % (2^k) = 0}
  IN 7 - (CHOOSE k \in divides : \A j \in divides : j <= k)

\* Queues that frame i passes: head_link chains queue k to queue k + 1.
FrameQueues(i) == FrameEntry(i)..(QSLOTS - 1)

\* Queues that the frame list serves at all.
Served == UNION {FrameQueues(i) : i \in 0..1023}

-----------------------------------------------------------------------------
(* Controller start-up: uhcihcd_pci_probe and attach, usb_init.            *)

Running == cpu.pc # "panic"
Panic == cpu' = [cpu EXCEPT !.pc = "panic"]

\* uhcihcd_pci_probe and uhcihcd_pci_attach: BAR 4 must be I/O, the version 1.0.
uhcihcd_pci_probe ==
  /\ cpu.pc = "probe"
  /\ \/ Panic /\ UNCHANGED hcdstate
     \/ cpu' = Cpu("setup") /\ hcdstate' = "INIT"
  /\ UNCHANGED <<plugged, port, links, xfers, usbint, hc, ctl, counts>>

\* uhcihcd_setup: global reset, PANIC when the registers are not at their defaults.
uhcihcd_setup ==
  /\ cpu.pc = "setup" /\ hcdstate = "INIT"
  /\ \/ Panic /\ UNCHANGED <<hcdstate, elem, usbint>>
     \/ /\ cpu' = Cpu("start") /\ hcdstate' = "SETUP"
        /\ elem' = [i \in 0..(QSLOTS - 1) |-> T] /\ usbint' = FALSE
  /\ UNCHANGED <<plugged, port, head, parent, xfers, hc, ctl, counts>>

\* uhcihcd_start: the controller runs from here on.
uhcihcd_start ==
  /\ cpu.pc = "start" /\ hcdstate = "SETUP"
  /\ cpu' = Cpu("port") /\ hcdstate' = "STARTED"
  /\ UNCHANGED <<plugged, port, links, xfers, usbint, hc, ctl, counts>>

-----------------------------------------------------------------------------
(* usb_enumerate_hcd_roothub and the root hub.                             *)

\* uhcihcd_roothub_is_port_present: probing clears the change bits.  A port that
\* is there is reset: the pulse drops its enable bit.
uhcihcd_roothub_is_port_present ==
  /\ cpu.pc = "port"
  /\ IF cpu.port \in Port
     THEN /\ port' = [port EXCEPT ![cpu.port] = [csc |-> FALSE, pec |-> FALSE, pe |-> FALSE]]
          /\ cpu' = [cpu EXCEPT !.pc = "reset", !.round = 0]
     ELSE UNCHANGED port /\ cpu' = Cpu("idle")
  /\ UNCHANGED <<hcdstate, plugged, links, xfers, usbint, hc, ctl, counts>>

\* One round of uhcihcd_roothub_port_reset's loop.  A device may report a change
\* after the pulse; enabling may take a while.
uhcihcd_roothub_port_reset ==
  LET p == cpu.port
      r == port[p]
      next == [cpu EXCEPT !.port = p + 1, !.pc = "port", !.round = 0]
      again == [cpu EXCEPT !.round = @ + 1]
  IN /\ cpu.pc = "reset"
     /\ IF cpu.round = ROUNDS THEN cpu' = next /\ UNCHANGED port
        ELSE IF plugged[p] = NoDevice THEN cpu' = next /\ UNCHANGED port
        ELSE IF r.csc \/ r.pec
             THEN cpu' = again /\ port' = [port EXCEPT ![p].csc = FALSE, ![p].pec = FALSE]
        ELSE IF r.pe
             THEN /\ cpu' = [cpu EXCEPT !.pc = "attach", !.round = 0,
                                       !.todo = usb_attach_device(plugged[p])]
                  /\ UNCHANGED port
        ELSE /\ cpu' = again
             /\ \E pe, c \in BOOLEAN :
                  port' = [port EXCEPT ![p].pe = pe, ![p].pec = pe, ![p].csc = c]
  /\ UNCHANGED <<hcdstate, plugged, links, xfers, usbint, hc, ctl, counts>>

\* usb_attach_device has nothing more to ask: the next port.
AttachDone ==
  /\ cpu.pc = "attach" /\ cpu.todo = <<>>
  /\ cpu' = [cpu EXCEPT !.port = @ + 1, !.pc = "port"]
  /\ UNCHANGED <<hcdstate, plugged, port, links, xfers, usbint, hc, ctl, counts>>

\* A caller of usb_control_msg gives up.
AttachPanics ==
  /\ cpu.pc = "attach" /\ cpu.todo # <<>> /\ Head(cpu.todo).op = "panic"
  /\ Panic
  /\ UNCHANGED <<hcdstate, plugged, port, links, xfers, usbint, hc, ctl, counts>>

-----------------------------------------------------------------------------
(* Control transfers: usb_control_msg, uhcihcd_submit_ctrl_xfer_request.   *)

TD(max, ioc, active) ==
  [active |-> active, err |-> FALSE, act |-> 0, max |-> max, ioc |-> ioc]

\* Data TDs are built while bytes are left and the index is below 9.
DataTDs(len) == Min2((len + PACKET - 1) \div PACKET, 8)

\* td[0] is the setup packet; the data TDs and the status TD with its interrupt
\* follow; what uhci_allocTDs made beyond those stays zero.
CtrlTDs(len) ==
  LET n == DataTDs(len)
      tdcount == (len + PACKET - 1) \div PACKET + 2
  IN [k \in 1..tdcount |->
        IF k = 1 THEN TD(PACKET, FALSE, TRUE)
        ELSE IF k <= n + 1 THEN TD(Min2(PACKET, len - PACKET * (k - 2)), FALSE, TRUE)
        ELSE IF k = n + 2 THEN TD(0, TRUE, TRUE)
        ELSE TD(0, FALSE, FALSE)]

\* What a device may send when it is asked for len bytes.
Answers(len) == {len} \cup (IF len > 0 THEN {0, len - 1} ELSE {})

\* Build the transfer, clear USBSTS and link it in; then wait.
uhcihcd_submit_ctrl_xfer_request ==
  /\ cpu.pc = "attach" /\ cpu.todo # <<>> /\ Head(cpu.todo).op \in {"ctrl", "config"}
  /\ LET len == Head(cpu.todo).len
         q == Head(free)
     IN
       /\ free' = Tail(free)
       /\ td' = [td EXCEPT ![q] = CtrlTDs(len)]
       /\ el' = [el EXCEPT ![q] = 1]
       /\ xferReq' = [xferReq EXCEPT ![q] = NoReq]
       /\ usbint' = FALSE
       /\ SetLinks(uhcihcd_insertTransferQH(Links, q, QCTRL))
       /\ parent' = [parent EXCEPT ![q] = QCTRL]
       /\ cpu' = [cpu EXCEPT !.pc = "wait", !.qh = q]
       /\ moved' = 0 /\ avail' \in Answers(len)
  /\ UNCHANGED <<hcdstate, plugged, port, hc, counts>>

\* Bytes that the length field of a TD stands for: 1 + (ctrl & 0x3F).
Count(t) == 1 + (t.act % 64)

\* actlen: the sum over t = 1 .. tdcount - 2, 16 bits wide.
ActLen(tds) ==
  FoldLeft(LAMBDA n, t : (n + Count(t)) % 65536, 0, SubSeq(tds, 2, Len(tds) - 1))

\* No status bit, ACTIVE included, is left in td[0 .. i - 1].
AllDone(tds, len) ==
  \A k \in 1..(DataTDs(len) + 2) : ~tds[k].active /\ ~tds[k].err

\* Mutant: the length that arrived is not compared with the length asked for.
CtrlOk_anylength(tds, len) == AllDone(tds, len)

\* The transfer succeeded, and usb_control_msg finds the length it asked for.
CtrlOk(tds, len) == AllDone(tds, len) /\ ActLen(tds) = len

\* usb_alloc_device leaves dev->driver as kmalloc returned it.
LooksBound == BOOLEAN

\* The requests that may be left once the first one succeeded.
TodoAfter ==
  IF Head(cpu.todo).op = "config"
  THEN {AttachConfigured(plugged[cpu.port], moved, b) : b \in LooksBound}
  ELSE {Tail(cpu.todo)}

\* The wait ends: unlink and free on every path.  A timeout, an error and a
\* length that differs all end in a PANIC of usb_control_msg.
CtrlReturns(ok) ==
  /\ SetLinks(Cleared(uhcihcd_removeTransferQH(Links, cpu.qh), cpu.qh))
  /\ free' = <<cpu.qh>> \o free
  /\ td' = [td EXCEPT ![cpu.qh] = <<>>] /\ el' = [el EXCEPT ![cpu.qh] = 0]
  /\ moved' = 0 /\ avail' = 0
  /\ IF ok THEN \E t \in TodoAfter : cpu' = [cpu EXCEPT !.pc = "attach", !.qh = T, !.todo = t]
     ELSE Panic
  /\ UNCHANGED <<hcdstate, plugged, port, parent, xferReq, hc, counts>>

CtrlCompletes ==
  /\ cpu.pc = "wait" /\ usbint
  /\ usbint' = FALSE
  /\ CtrlReturns(CtrlOk(td[cpu.qh], Head(cpu.todo).len))

\* The last of timeout polls is a timeout even if USBINT is set by then.
CtrlTimesOut ==
  /\ cpu.pc = "wait"
  /\ UNCHANGED usbint
  /\ CtrlReturns(FALSE)

-----------------------------------------------------------------------------
(* Interrupt requests: uhcihcd_submit_endp_xfer_request and usb_poll.      *)

\* The keyboard asks for its first report; the request must fit one packet.
uhcihcd_submit_endp_xfer_request ==
  LET mps == Head(cpu.todo).len
      q == Head(free)
  IN
  /\ cpu.pc = "attach" /\ cpu.todo # <<>> /\ Head(cpu.todo).op = "submit"
  /\ free' = Tail(free)
  /\ IF (8 + mps - 1) \div mps # 1
     THEN Panic /\ UNCHANGED <<links, td, el, xferReq, sent>>
     ELSE /\ td' = [td EXCEPT ![q] = <<TD(8, FALSE, TRUE)>>]
          /\ el' = [el EXCEPT ![q] = 1]
          /\ xferReq' = [xferReq EXCEPT ![q] = cpu.port]
          /\ SetLinks(uhcihcd_insertTransferQH(Links, q, Q128))
          /\ parent' = [parent EXCEPT ![q] = Q128]
          /\ sent' = [sent EXCEPT ![cpu.port] = @ + 1]
          /\ cpu' = [cpu EXCEPT !.todo = Tail(@)]
  /\ UNCHANGED <<hcdstate, plugged, port, usbint, hc, ctl, called>>

\* Mutant: the loop over the queues starts behind Q128.
Queues_fromone(from) == {i \in (from + 1)..(QSLOTS - 1) : elem[i] # T}

\* usb_poll calls uhcihcd_poll: the first queue that holds a transfer.
Queues(from) == {i \in from..(QSLOTS - 1) : elem[i] # T}
NextQueue(from) ==
  LET i == CHOOSE i \in Queues(from) : \A j \in Queues(from) : i <= j
  IN IF Queues(from) = {} THEN Cpu("idle")
     ELSE [Cpu("poll") EXCEPT !.queue = i, !.qh = elem[i]]

usb_poll ==
  /\ cpu.pc = "idle" /\ Queues(0) # {}
  /\ cpu' = NextQueue(0)
  /\ UNCHANGED <<hcdstate, plugged, port, links, xfers, usbint, hc, ctl, counts>>

\* After a queue head: the successor read before it was looked at, or a next queue.
PollNext(qhnext) ==
  IF qhnext # T THEN [cpu EXCEPT !.qh = qhnext]
  ELSE [cpu EXCEPT !.qh = T, !.queue = @ + 1]

PollQueue ==
  /\ cpu.pc = "poll" /\ cpu.qh = T
  /\ cpu' = NextQueue(cpu.queue)
  /\ UNCHANGED <<hcdstate, plugged, port, links, xfers, usbint, hc, ctl, counts>>

\* uhcihcd_poll_qh_xfer on a transfer whose last TD is still active.
PollPending ==
  /\ cpu.pc = "poll" /\ cpu.qh # T
  /\ Last(td[cpu.qh]).active
  /\ cpu' = PollNext(head[cpu.qh])
  /\ UNCHANGED <<hcdstate, plugged, port, links, xfers, usbint, hc, ctl, counts>>

\* ... and on a finished one, whatever its error bits say: unlink, free, call
\* usb_kbd_xfercbfunc, which submits the request again: on the block freed last.
PollFinished ==
  LET q == cpu.qh
      r == xferReq[q]
      l == Cleared(uhcihcd_removeTransferQH(Links, q), q)
  IN /\ cpu.pc = "poll" /\ q # T
     /\ ~Last(td[q]).active
     /\ cpu' = PollNext(head[q])
     /\ called' = [called EXCEPT ![r] = @ + 1]
     /\ sent' = [sent EXCEPT ![r] = @ + 1]
     /\ td' = [td EXCEPT ![q] = <<TD(8, FALSE, TRUE)>>]
     /\ el' = [el EXCEPT ![q] = 1]
     /\ SetLinks(uhcihcd_insertTransferQH(l, q, Q128))
     /\ UNCHANGED <<hcdstate, parent, xferReq, free, plugged, port, usbint, hc, ctl>>

-----------------------------------------------------------------------------
(* The controller and the devices (external).                              *)

\* Take the next TD of a queue head that is linked now.
HcFetch ==
  /\ hcdstate = "STARTED" /\ hc = <<>> /\ Running
  /\ \E i \in Served : \E q \in ToSet(Chain(Links, i)) :
       /\ el[q] # 0 /\ td[q][el[q]].active
       /\ hc' = <<q, el[q]>>
  /\ UNCHANGED <<hcdstate, cpu, plugged, port, links, xfers, usbint, ctl, counts>>

\* The device is not ready: the TD stays active.
HcNak ==
  /\ hc # <<>> /\ hc' = <<>> /\ Running
  /\ UNCHANGED <<hcdstate, cpu, plugged, port, links, xfers, usbint, ctl, counts>>

\* Write back TD i of q with its status and length field.
WriteBack(q, i, failed, n) ==
  td' = [td EXCEPT ![q][i].active = FALSE, ![q][i].err = failed,
                   ![q][i].act = IF failed THEN @ ELSE (n - 1) % 2048]

\* A TD of a control transfer.  A device that sent less than a packet is at the
\* status stage and stalls when it is asked for more data.
HcControl ==
  LET q == hc[1]
      i == hc[2]
      t == td[q][i]
      data == i > 1 /\ ~t.ioc
      n == IF i = 1 THEN PACKET ELSE IF t.ioc THEN 0 ELSE Min2(t.max, avail - moved)
      stalls == data /\ moved # PACKET * (i - 2)
  IN /\ hc # <<>> /\ xferReq[q] = NoReq /\ Running
     /\ \E failed \in BOOLEAN :
          /\ stalls => failed
          /\ WriteBack(q, i, failed, n)
          /\ el' = [el EXCEPT ![q] = IF failed THEN i ELSE IF t.ioc THEN 0 ELSE i + 1]
          /\ moved' = IF data /\ ~failed THEN moved + n ELSE moved
          /\ usbint' = (usbint \/ (t.ioc /\ ~failed))
     /\ hc' = <<>>
     /\ UNCHANGED <<hcdstate, cpu, plugged, port, links, xferReq, free, avail, counts>>

\* The TD of an interrupt request: a report, or an error.
HcReport ==
  LET q == hc[1] IN
  /\ hc # <<>> /\ xferReq[q] # NoReq /\ Running
  /\ sent[xferReq[q]] <= MaxReports
  /\ \E failed \in BOOLEAN :
       /\ WriteBack(q, hc[2], failed, 8)
       /\ el' = [el EXCEPT ![q] = IF failed THEN @ ELSE 0]
  /\ hc' = <<>>
  /\ UNCHANGED <<hcdstate, cpu, plugged, port, links, xferReq, free, usbint, ctl, counts>>

Start == uhcihcd_pci_probe \/ uhcihcd_setup \/ uhcihcd_start
Enumerate ==
  \/ uhcihcd_roothub_is_port_present \/ uhcihcd_roothub_port_reset
  \/ AttachDone \/ AttachPanics
  \/ uhcihcd_submit_ctrl_xfer_request \/ CtrlCompletes \/ CtrlTimesOut
  \/ uhcihcd_submit_endp_xfer_request
Poll == usb_poll \/ PollQueue \/ PollPending \/ PollFinished
Controller == HcFetch \/ HcNak \/ HcControl \/ HcReport

Next == Start \/ Enumerate \/ Poll \/ Controller

\* The thread keeps running: every wait of the driver is bounded by a timeout, and
\* usb_poll is called over and over.  Nothing is assumed of controller and devices.
\* The formula is weak fairness of the thread's actions with its ENABLED written
\* out: they are the actions that change cpu, and only a PANIC or an empty
\* schedule leaves none to take.
Blocked == ~Running \/ (cpu.pc = "idle" /\ Queues(0) = {})
ThreadRuns == []<>Blocked \/ []<><<cpu' # cpu>>_vars

Spec == Init /\ [][Next]_vars /\ ThreadRuns

-----------------------------------------------------------------------------
(* Properties.                                                             *)

Linked == UNION {ToSet(Chain(Links, i)) : i \in 0..(QSLOTS - 1)}

\* The schedule that the controller walks holds exactly the transfers in use, each
\* once and in the queue its parent_qh names, and every chain ends; the poll's
\* cursor, saved before a callback ran, and the TD that the controller executes
\* belong to blocks that have not been freed (uhci_hcd.c:402-453, 553, 707-716).
ScheduleSound ==
  Running =>
    /\ used = Linked
    /\ \A i \in 0..(QSLOTS - 1) :
         /\ IsInjective(Chain(Links, i))
         /\ \A q \in ToSet(Chain(Links, i)) : parent[q] = i
    /\ cpu.qh \in Linked \cup {T}
    /\ cpu.pc = "poll" /\ cpu.qh # T => parent[cpu.qh] = cpu.queue
    /\ hc # <<>> => hc[1] \in Linked /\ el[hc[1]] = hc[2] /\ td[hc[1]][hc[2]].active

\* Every interrupt request that was submitted is in the schedule once, or its
\* callback has run once: none is lost and none is completed twice, however
\* completions, polls and resubmissions interleave (uhci_hcd.c:490-533).
RequestsAccounted ==
  \A p \in Port :
    sent[p] = called[p] + Cardinality({q \in Linked : xferReq[q] = p})

\* usb_control_msg returns, for a request of up to 64 bytes, only with all the bytes
\* that were asked for: the comparison with actual_xferlen stops every shorter
\* answer, a packet of no bytes, counted as 64, included (usb_core.c:166-172).
OkMeansComplete ==
  [][cpu.pc = "wait" /\ cpu'.pc = "attach" /\ Head(cpu.todo).len <= 8 * PACKET
       => moved = Head(cpu.todo).len]_vars

\* "Force error if actual size was not the same as requested size"
\* (usb_core.c:183, which the PANIC of lines 166-172 does) for requests of any length.  Only eight data TDs are built;
\* of a longer request the status TD and the zero TDs are counted instead, and
\* for 136 bytes the sum comes out right (uhci_hcd.c:639, 695).
ShortIsError ==
  [][cpu.pc = "wait" /\ cpu'.pc = "attach" => moved = Head(cpu.todo).len]_vars

\* A configuration that usb_read_configuration_descriptor accepts was cut as the
\* descriptors say: per default setting its own endpoints, as many as announced
\* for all but the last; the keyboard driver looks at no endpoint slot that was
\* left unset unless that last interface announced too many (usb_core.c:298-363).
ConfigurationRead ==
  \A p \in Port : plugged[p] # NoDevice =>
    LET cfg == plugged[p].cfg
        s == usb_read_configuration_descriptor(cfg)
        ps == SetToSortSeq(Defaults(cfg), <)
        n == Len(s.interfaces)
    IN cpu.pc = "attach" /\ cpu.port = p /\ s.res = "OK" =>
         /\ n = Len(ps)
         /\ \A k \in 1..n :
              /\ s.interfaces[k] = cfg[ps[k]]
              /\ s.endpoints[k] = EndpointsAfter(cfg, ps[k])
              /\ k < n => Len(s.endpoints[k]) = cfg[ps[k]].n
              /\ \A j \in Examined(s, k) :
                   Endpoint(s, k, j) = Unset => k = n /\ Len(s.endpoints[n]) < cfg[ps[n]].n

\* A report that arrived reaches the keyboard's callback: the poll finds every
\* finished transfer, also when a callback before it relinked the queue
\* (uhci_hcd.c:546-564); and enumeration ends, every wait having its timeout.
ReportsDelivered ==
  /\ <>(cpu.pc \in {"idle", "poll", "panic"})
  /\ \A p \in Port : \A n \in 0..MaxReports :
       (/\ called[p] = n /\ sent[p] = n + 1
        /\ \E q \in Linked : xferReq[q] = p /\ ~Last(td[q]).active)
         ~> (called[p] = n + 1 \/ ~Running)
=============================================================================
