----------------------------- MODULE Xhci_proofs ----------------------------
(***************************************************************************)
(* Proofs about Xhci, for any number of devices, any command ring and any  *)
(* number of transfers: a caller gets the result of its own command or     *)
(* control transfer, however late the controller answers an earlier one,   *)
(* every accepted request has one callback, for its own TRB, no request is *)
(* left behind on a halted endpoint, and no event is forgotten in the ring *)
(* between the interrupts.                                                 *)
(***************************************************************************)
EXTENDS Xhci, TLAPS

Codes == {"success", "error"}
CommandSteps == {"enable", "address", "configure"}
Steps == {"reset", "stopped", "resetwait", "start", "starting", "port", "enable", "address",
          "control", "configure", "submit", "done"}

Commands == [n : Nat, op : CommandSteps, dev : Devs]
Transfers == [dev : Devs, n : Nat]
Events ==
  [type : {"command"}, n : Nat, code : Codes]
    \cup [type : {"control", "endpoint"}, dev : Devs, n : Nat, code : Codes]
    \cup [type : {"port", "host"}]

ProcessType ==
  pc \in Steps /\ wait \in {"no", "wait", "giveup"} /\ dev \in Devs
    /\ slot \in [Devs -> {"none", "slot", "in_use"}]

DriverType ==
  /\ cmd \in [pending : BOOLEAN, trb : Nat, code : Codes \cup {"invalid"}, by : Nat]
  /\ ncmd \in Nat
  /\ xfer \in [Devs -> [pending : BOOLEAN, code : Codes \cup {"invalid"}, by : Nat]]
  /\ nctl \in [Devs -> Nat]

EndpointType ==
  /\ ep \in [Devs -> [configured : BOOLEAN, halted : BOOLEAN, req : Nat]]
  /\ nreq \in Nat /\ called \in Seq([req : Nat, trb : Nat])

RingType ==
  /\ cmdring \in Seq(Commands) /\ ep0ring \in Seq(Transfers) /\ epring \in Seq(Transfers)
  /\ events \in Seq(Events)

TypeOK == ProcessType /\ DriverType /\ EndpointType /\ RingType

----------------------------------------------------------------------------
(* The invariant.                                                          *)

\* The command completions among the events of s, by their places.
CommandsOf(s) == {i \in DOMAIN s : s[i].type = "command"}

\* The commands that completed with the events es and those of the ring cs are
\* numbered upwards, from lo on and below hi.
InOrder(es, cs, lo, hi) ==
  /\ \A i \in CommandsOf(es) :
       /\ lo <= es[i].n /\ es[i].n < hi
       /\ \A j \in CommandsOf(es) : i < j => es[i].n < es[j].n
       /\ \A j \in DOMAIN cs : es[i].n < cs[j].n
  /\ \A i \in DOMAIN cs :
       /\ lo <= cs[i].n /\ cs[i].n < hi
       /\ \A j \in DOMAIN cs : i < j => cs[i].n < cs[j].n

\* The commands in flight are in the order in which they were issued, and none
\* is older than the last CommandsInFlight.
CommandsInOrder ==
  /\ CommandsInFlight \in Nat /\ CommandsInFlight < Ring
  /\ InOrder(events, cmdring, ncmd - CommandsInFlight, ncmd)

\* A pending command is the last one issued; so is one whose result is waited for.
CommandIsLast ==
  /\ cmd.pending => ncmd > 0 /\ cmd.trb = TrbAddress(ncmd - 1)
  /\ wait = "wait" /\ pc # "control" /\ ~cmd.pending => cmd.by = ncmd - 1

\* The control transfer t is the one the process waits for.
Awaited(t, w, p, d, n, x) ==
  w # "no" /\ p = "control" /\ t.dev = d /\ t.n = n[d] /\ x[d].pending
WaitedFor(t) == Awaited(t, wait, pc, dev, nctl, xfer)

\* Unless the process has stopped, the only control transfer in flight is the one
\* it waits for.
ControlsAreWaitedFor ==
  \/ panic # "no" /\ wait = "no"
  \/ /\ \A i \in DOMAIN events : events[i].type = "control" =>
          /\ WaitedFor(events[i]) /\ ep0ring = <<>>
          /\ \A j \in DOMAIN events : events[j].type = "control" => j = i
     /\ \A i \in DOMAIN ep0ring :
          WaitedFor(ep0ring[i]) /\ \A j \in DOMAIN ep0ring : j = i

ControlIsLast ==
  /\ wait # "no" => pc \in CommandSteps \cup {"control"}
  /\ wait = "wait" /\ pc = "control" /\ ~xfer[dev].pending => xfer[dev].by = nctl[dev]

Outstanding == {d \in Devs : ep[d].req # None}

\* A request is outstanding on one endpoint or was called back once, for its TRB.
RequestsOnce ==
  /\ nreq = Len(called) + Cardinality(Outstanding)
  /\ \A i \in DOMAIN called :
       /\ called[i].req = called[i].trb /\ called[i].req <= nreq
       /\ \A j \in DOMAIN called : called[i].req = called[j].req => i = j
       /\ \A d \in Outstanding : ep[d].req # called[i].req
  /\ \A d \in Outstanding :
       ep[d].req <= nreq /\ \A e \in Outstanding : ep[d].req = ep[e].req => d = e

\* A transfer in flight on an interrupt endpoint, in the events es or on the rings
\* rs, is that of the request outstanding there, and the only one.
Matched(es, rs, out, x) ==
  /\ \A i \in DOMAIN es : es[i].type = "endpoint" =>
       /\ es[i].dev \in out /\ x[es[i].dev].req = es[i].n
       /\ \A j \in DOMAIN es : es[j].type = "endpoint" /\ es[i].dev = es[j].dev => i = j
       /\ \A j \in DOMAIN rs : rs[j].dev # es[i].dev
  /\ \A i \in DOMAIN rs :
       /\ rs[i].dev \in out /\ x[rs[i].dev].req = rs[i].n
       /\ \A j \in DOMAIN rs : rs[i].dev = rs[j].dev => i = j
TransfersAreRequests == Matched(events, epring, Outstanding, ep)

IsEndpoint(i) == events[i].type = "endpoint"

\* The driver knows of a halted endpoint, or the event that says so is coming.
HaltsAreTold ==
  \A d \in Devs : <<d, 1>> \in stalled =>
    /\ ep[d].configured
    /\ \A i \in DOMAIN events : IsEndpoint(i) /\ events[i].dev = d => events[i].code = "error"
    /\ \/ d \notin Outstanding /\ ep[d].halted
       \/ \E i \in DOMAIN events : IsEndpoint(i) /\ events[i].dev = d

\* The process configures the endpoint of the device it is at, once, after the
\* device has an address.
OneAfterTheOther ==
  /\ \A d \in Outstanding : ep[d].configured /\ slot[d] = "in_use"
  /\ \A d \in Devs : d > dev => ~ep[d].configured
  /\ pc \notin {"submit", "done", "stopped"} => ~ep[dev].configured
  /\ pc \in {"control", "configure", "submit"} => slot[dev] = "in_use"

XhciInv ==
  /\ TypeOK
  /\ CommandsInOrder /\ CommandIsLast
  /\ ControlsAreWaitedFor /\ ControlIsLast
  /\ RequestsOnce /\ TransfersAreRequests /\ HaltsAreTold
  /\ OneAfterTheOther

----------------------------------------------------------------------------
(* Queues.                                                                 *)

\* t is s with e behind it.
Appended(s, e, t) ==
  /\ DOMAIN s = 1..Len(s) /\ DOMAIN t = 1..(Len(s) + 1) /\ Len(s) \in Nat
  /\ Len(t) = Len(s) + 1
  /\ \A i \in DOMAIN s : i \in DOMAIN t /\ i # Len(s) + 1 /\ i < Len(s) + 1 /\ t[i] = s[i]
  /\ Len(s) + 1 \in DOMAIN t /\ t[Len(s) + 1] = e
  /\ \A i \in DOMAIN t : i \in DOMAIN s \/ i = Len(s) + 1
  /\ \A i \in DOMAIN t : i \in Nat

\* t is s without its first element e.
Removed(s, e, t) ==
  /\ DOMAIN s = 1..Len(s) /\ DOMAIN t = 1..(Len(s) - 1) /\ Len(s) \in Nat
  /\ Len(t) = Len(s) - 1
  /\ 1 \in DOMAIN s /\ s[1] = e
  /\ \A i \in DOMAIN t : i + 1 \in DOMAIN s /\ i \in Nat /\ i + 1 # 1 /\ 1 < i + 1 /\ t[i] = s[i + 1]
  /\ \A i \in DOMAIN s : i \in Nat /\ (i # 1 => i - 1 \in DOMAIN t /\ i = (i - 1) + 1 /\ t[i - 1] = s[i])

\* The members of a queue.
LEMMA MemberFacts ==
  ASSUME NEW S, NEW s \in Seq(S)
  PROVE  \A i \in DOMAIN s : s[i] \in S
OBVIOUS

\* Appending to a queue.
LEMMA AppendFacts ==
  ASSUME NEW S, NEW s \in Seq(S), NEW e \in S
  PROVE  Append(s, e) \in Seq(S) /\ Appended(s, e, Append(s, e))
BY DEF Appended

\* Taking the first of a queue.
LEMMA TailFacts ==
  ASSUME NEW S, NEW s \in Seq(S), s # <<>>
  PROVE  Head(s) \in S /\ Tail(s) \in Seq(S) /\ Removed(s, Head(s), Tail(s))
<1>1. Head(s) \in S /\ Tail(s) \in Seq(S)
  OBVIOUS
<1>2. Len(s) \in Nat /\ DOMAIN s = 1..Len(s) /\ Len(s) >= 1 /\ Len(Tail(s)) = Len(s) - 1
  OBVIOUS
<1>3. DOMAIN Tail(s) = 1..(Len(s) - 1) /\ \A i \in 1..(Len(s) - 1) : Tail(s)[i] = s[i + 1]
  OBVIOUS
<1>4. Head(s) = s[1]
  OBVIOUS
<1> QED BY <1>1, <1>2, <1>3, <1>4 DEF Removed

----------------------------------------------------------------------------
(* Types.                                                                  *)

\* What the fields of an event are.
LEMMA EventFields ==
  ASSUME NEW e \in Events
  PROVE  /\ e.type \in {"command", "control", "endpoint", "port", "host"}
         /\ e.type = "command" => e.n \in Nat /\ e.code \in Codes
         /\ e.type \in {"control", "endpoint"} => e.dev \in Devs /\ e.n \in Nat /\ e.code \in Codes
BY Zenon DEF Events

\* The process, wherever it is.
LEMMA ProcessTypeStep ==
  ASSUME ProcessType, [Next]_vars
  PROVE  ProcessType'
<1>1. ASSUME UNCHANGED <<pc, wait, dev, slot>> PROVE ProcessType'
  BY Zenon, <1>1 DEF ProcessType
<1>2. CASE xhcihcd_reset
  BY Zenon, <1>2, XhciAssumption DEF xhcihcd_reset, Runs, ProcessType, Steps, Devs
<1>3. CASE ResetDone
  BY Zenon, <1>3, XhciAssumption DEF ResetDone, Runs, ProcessType, Steps, Devs
<1>4. CASE xhcihcd_start
  BY Zenon, <1>4, XhciAssumption DEF xhcihcd_start, Runs, ProcessType, Steps, Devs
<1>5. CASE Started
  BY Zenon, <1>5, XhciAssumption DEF Started, Runs, ProcessType, Steps, Devs
<1>6. CASE PortReset
  BY Zenon, <1>6, XhciAssumption DEF PortReset, Runs, ProcessType, Steps, Devs
<1>7. CASE xhcihcd_command_execute
  BY Zenon, <1>7, XhciAssumption DEF xhcihcd_command_execute, Runs, ProcessType, Steps, Devs
<1>8. CASE CommandReturns
  BY SMTT(20), <1>8, XhciAssumption
  DEF CommandReturns, Runs, ProcessType, Steps, Devs, CommandResult, NextDevice, CommandSteps
<1>9. CASE xhcihcd_control_transfer_hw
  BY Zenon, <1>9, XhciAssumption DEF xhcihcd_control_transfer_hw, Runs, ProcessType, Steps, Devs
<1>10. CASE ControlReturns
  BY Zenon, <1>10, XhciAssumption DEF ControlReturns, Runs, ProcessType, Steps, Devs, ControlFailed
<1>11. CASE GiveUp
  BY Zenon, <1>11, XhciAssumption DEF GiveUp, Runs, ProcessType, Steps, Devs
<1>12. CASE Bind
  BY <1>12, XhciAssumption DEF Bind, Runs, ProcessType, Steps, Devs, NextDevice
<1>13. CASE xhcihcd_submit_endp_xfer_request
  BY <1>13, XhciAssumption
  DEF xhcihcd_submit_endp_xfer_request, Runs, ProcessType, Steps, Devs, NextDevice
<1>14. CASE Handler
  BY Zenon, <1>1, <1>14
  DEF Handler, xhcihcd_irqhandler, ProcessEvent, RingEmpty, WriteErdp, procvars
<1>15. CASE Controller
  BY Zenon, <1>1, <1>15
  DEF Controller, HcResets, HcRuns, HcPortOrHostEvent, HcFails, RaiseInterrupt,
                    HcCommand, HcControl, HcEndpoint, Post, HcIdle, procvars
<1>16. CASE UNCHANGED vars
  BY Zenon, <1>1, <1>16 DEF vars, procvars
<1> QED BY Zenon, <1>2, <1>3, <1>4, <1>5, <1>6, <1>7, <1>8, <1>9, <1>10, <1>11, <1>12, <1>13, <1>14, <1>15, <1>16
  DEF Next, Process

\* What the handler and the controller leave alone.
LEMMA HandlerFrame ==
  ASSUME Handler
  PROVE  UNCHANGED <<pc, wait, dev, slot, ncmd, nctl, cmdring, ep0ring, stalled>>
BY Zenon DEF Handler, xhcihcd_irqhandler, ProcessEvent, RingEmpty, WriteErdp, procvars, drivervars,
       ringvars, hcvars

\* The controller changes nothing that belongs to the driver.
LEMMA ControllerFrame ==
  ASSUME Controller
  PROVE  UNCHANGED <<pc, wait, dev, slot, panic, cmd, ncmd, xfer, nctl, ep, nreq, called>>
BY Zenon DEF Controller, HcResets, HcRuns, HcPortOrHostEvent, HcFails, RaiseInterrupt,
       HcCommand, HcControl, HcEndpoint, Post, HcIdle, procvars, drivervars

\* A stopped process stays stopped.
LEMMA PanicStays ==
  ASSUME Handler \/ Controller, panic # "no"
  PROVE  panic' # "no"
<1>1. CASE Handler
  BY Zenon, <1>1 DEF Handler, xhcihcd_irqhandler, ProcessEvent, RingEmpty, WriteErdp, HandleCommand,
              HandleControl, HandleEndpoint, HandleFatal
<1>2. CASE Controller
  BY Zenon, <1>2, ControllerFrame
<1> QED BY Zenon, <1>1, <1>2

\* The handler works on the event at the head, or on no event.
LEMMA HandlerCases ==
  ASSUME Handler
  PROVE  \/ UNCHANGED <<cmd, xfer, ep, nreq, called, epring, events>>
         \/ /\ events # <<>> /\ events' = Tail(events)
            /\ \/ HandleCommand(Head(events)) \/ HandleControl(Head(events))
               \/ HandleEndpoint(Head(events)) \/ HandleFatal(Head(events))
BY Zenon DEF Handler, xhcihcd_irqhandler, ProcessEvent, RingEmpty, WriteErdp, drivervars, ringvars

\* The controller takes a command or a transfer and posts its event, posts
\* another event, or none.
LEMMA ControllerCases ==
  ASSUME Controller
  PROVE  \/ UNCHANGED <<ringvars, stalled, events>>
         \/ /\ UNCHANGED <<ringvars, stalled>>
            /\ \E t \in {"port", "host"} : events' = Append(events, [type |-> t])
         \/ \E code \in Codes : HcCommand(code)
         \/ \E code \in Codes : HcControl(code)
         \/ \E code \in Codes, i \in DOMAIN epring : HcEndpoint(i, code)
BY Zenon
DEF Controller, HcResets, HcRuns, HcPortOrHostEvent, HcFails, RaiseInterrupt, Post, hcvars, Codes

\* The rings and the requests belong to the process, the handler and the
\* controller in turn.  What the process leaves alone, and the steps that concern
\* them.
Queueing ==
  \/ xhcihcd_command_execute \/ CommandReturns \/ xhcihcd_control_transfer_hw
  \/ ControlReturns \/ GiveUp \/ xhcihcd_submit_endp_xfer_request

\* The process queues, waits and returns; only the handler takes events.
LEMMA ProcessCases ==
  ASSUME Process
  PROVE  /\ UNCHANGED <<events, stalled, called>>
         /\ Queueing \/ UNCHANGED <<wait, drivervars, ringvars>>
BY Zenon DEF Process, Queueing, xhcihcd_reset, ResetDone, xhcihcd_start, Started, PortReset,
       xhcihcd_command_execute, CommandReturns, xhcihcd_control_transfer_hw, ControlReturns,
       GiveUp, Bind, xhcihcd_submit_endp_xfer_request, drivervars, ringvars, hcvars

\* Commands and control transfers.
LEMMA DriverTypeStep ==
  ASSUME TypeOK, [Next]_vars
  PROVE  DriverType'
<1>0. DriverType /\ dev \in Devs /\ events \in Seq(Events)
  BY Zenon DEF TypeOK, ProcessType, RingType
<1>1. ASSUME UNCHANGED <<cmd, ncmd, xfer, nctl>> PROVE DriverType'
  BY Zenon, <1>0, <1>1 DEF DriverType
<1>2. CASE Process
  <2>1. CASE xhcihcd_command_execute
    <3>1. TrbAddress(ncmd) \in Nat
      BY <1>0, XhciAssumption DEF DriverType, TrbAddress
    <3> QED BY <1>0, <2>1, <3>1 DEF xhcihcd_command_execute, DriverType, None
  <2>2. CASE CommandReturns
    BY Zenon, <1>0, <2>2 DEF CommandReturns, DriverType
  <2>3. CASE xhcihcd_control_transfer_hw
    BY <1>0, <2>3 DEF xhcihcd_control_transfer_hw, DriverType, None
  <2>4. CASE ControlReturns
    <3>1. xfer' = xfer \/ xfer' = [xfer EXCEPT ![dev].pending = FALSE]
      BY Zenon, <2>4 DEF ControlReturns
    <3>2. xfer[dev] \in [pending : BOOLEAN, code : Codes \cup {"invalid"}, by : Nat]
      BY Zenon, <1>0 DEF DriverType
    <3>3. [xfer[dev] EXCEPT !.pending = FALSE] \in [pending : BOOLEAN, code : Codes \cup {"invalid"}, by : Nat]
      BY Zenon, <3>2
    <3>4. xfer' \in [Devs -> [pending : BOOLEAN, code : Codes \cup {"invalid"}, by : Nat]]
      BY Zenon, <1>0, <3>1, <3>3 DEF DriverType
    <3> QED BY Zenon, <1>0, <2>4, <3>4 DEF ControlReturns, DriverType
  <2>5. CASE GiveUp \/ xhcihcd_submit_endp_xfer_request
    BY Zenon, <1>1, <2>5 DEF GiveUp, xhcihcd_submit_endp_xfer_request, drivervars
  <2> QED BY Zenon, <1>1, <1>2, <2>1, <2>2, <2>3, <2>4, <2>5, ProcessCases DEF Queueing, drivervars
<1>3. CASE Handler
  <2>0. ncmd' = ncmd /\ nctl' = nctl
    BY Zenon, <1>3, HandlerFrame
  <2>1. CASE UNCHANGED <<cmd, xfer, ep, nreq, called, epring, events>>
    BY Zenon, <1>1, <2>0, <2>1
  <2>2. ASSUME NEW e, e = Head(events), events # <<>> PROVE e \in Events
    BY Zenon, <1>0, <2>2, TailFacts
  <2>3. CASE events # <<>> /\ HandleCommand(Head(events))
    <3>1. PICK e : e = Head(events)
      OBVIOUS
    <3>2. e \in Events /\ HandleCommand(e) /\ e.type = "command"
      BY Zenon, <2>2, <2>3, <3>1 DEF HandleCommand
    <3>3. e.n \in Nat /\ e.code \in Codes
      BY Zenon, <3>2, EventFields
    <3> QED BY Zenon, <1>0, <2>0, <3>2, <3>3 DEF HandleCommand, DriverType
  <2>4. CASE events # <<>> /\ HandleControl(Head(events))
    <3>1. PICK e : e = Head(events)
      OBVIOUS
    <3>2. e \in Events /\ HandleControl(e) /\ e.type = "control"
      BY Zenon, <2>2, <2>4, <3>1 DEF HandleControl
    <3>3. e.dev \in Devs /\ e.n \in Nat /\ e.code \in Codes
      BY Zenon, <3>2, EventFields
    <3> QED BY Zenon, <1>0, <2>0, <3>2, <3>3 DEF HandleControl, DriverType
  <2>5. CASE HandleEndpoint(Head(events)) \/ HandleFatal(Head(events))
    BY Zenon, <1>1, <2>0, <2>5 DEF HandleEndpoint, HandleFatal
  <2> QED BY Zenon, <1>3, <2>1, <2>3, <2>4, <2>5, HandlerCases
<1>4. CASE Controller
  BY Zenon, <1>1, <1>4, ControllerFrame
<1>5. CASE UNCHANGED vars
  BY Zenon, <1>1, <1>5 DEF vars, drivervars
<1> QED BY Zenon, <1>2, <1>3, <1>4, <1>5 DEF Next

----------------------------------------------------------------------------
(* Requests.                                                               *)

EpRecord == [configured : BOOLEAN, halted : BOOLEAN, req : Nat]

\* Request nreq + 1 is queued on the endpoint of d, which had none.
Queued(d) ==
  /\ ep' \in [Devs -> EpRecord]
  /\ \A x \in Devs \ {d} : ep'[x] = ep[x]
  /\ ep'[d].configured = ep[d].configured
  /\ ~ep[d].halted /\ ~ep'[d].halted
  /\ ep'[d].req = nreq + 1 /\ nreq' = nreq + 1
  /\ epring' = Append(epring, [dev |-> d, n |-> nreq + 1])

\* The endpoint of d is left without a request, halted.
Left(d) ==
  /\ ep' \in [Devs -> EpRecord]
  /\ \A x \in Devs \ {d} : ep'[x] = ep[x]
  /\ ep'[d].configured = ep[d].configured
  /\ ep'[d].halted /\ ep'[d].req = None
  /\ nreq' = nreq /\ epring' = epring

\* The callback of the request that is outstanding on the endpoint of e's device.
CalledBack(e) ==
  /\ e.dev \in Devs /\ e.n \in Nat /\ e.type = "endpoint"
  /\ slot[e.dev] = "in_use" /\ ep[e.dev].req # None
  /\ called' = Append(called, [req |-> ep[e.dev].req, trb |-> e.n])
  /\ Left(e.dev) \/ (e.code # "error" /\ Queued(e.dev))

\* An event of an interrupt endpoint is dropped, or its request called back and
\* the next one queued unless the endpoint is halted.
LEMMA EndpointHandled ==
  ASSUME TypeOK, NEW e \in Events, HandleEndpoint(e)
  PROVE  \/ CalledBack(e)
         \/ /\ slot[e.dev] # "in_use" \/ ep[e.dev].req = None
            /\ UNCHANGED <<ep, nreq, called, epring>>
<1>1. e.type = "endpoint" /\ e.dev \in Devs /\ e.n \in Nat
  BY Zenon, EventFields DEF HandleEndpoint
<1>2. ep \in [Devs -> EpRecord] /\ nreq \in Nat
  BY Zenon DEF TypeOK, EndpointType, EpRecord
<1> SUFFICES ASSUME slot[e.dev] = "in_use", ep[e.dev].req # None
             PROVE  CalledBack(e)
  BY Zenon DEF HandleEndpoint
<1>3. PICK x : x = Released(ep[e.dev], e.code)
  OBVIOUS
<1>4. /\ called' = Append(called, [req |-> ep[e.dev].req, trb |-> e.n])
      /\ ep' = [ep EXCEPT ![e.dev] = IF Accepts(x) THEN [x EXCEPT !.req = nreq + 1] ELSE x]
      /\ nreq' = IF Accepts(x) THEN nreq + 1 ELSE nreq
      /\ epring' = IF Accepts(x) THEN Append(epring, [dev |-> e.dev, n |-> nreq + 1]) ELSE epring
  BY Zenon, <1>3 DEF HandleEndpoint
<1>5. /\ x \in EpRecord /\ x.configured = ep[e.dev].configured /\ x.req = None
      /\ x.halted <=> (ep[e.dev].halted \/ e.code = "error")
  <2>1. ep[e.dev] \in EpRecord
    BY Zenon, <1>1, <1>2
  <2> QED BY Zenon, <1>3, <2>1 DEF Released, EpRecord, None
<1>6. Accepts(x) <=> ~x.halted
  BY Zenon, <1>5 DEF Accepts
<1>7. CASE x.halted
  <2>1. ep' = [ep EXCEPT ![e.dev] = x] /\ nreq' = nreq /\ epring' = epring
    BY Zenon, <1>4, <1>6, <1>7
  <2>2. Left(e.dev)
    BY Zenon, <1>1, <1>2, <1>5, <1>7, <2>1 DEF Left
  <2> QED BY Zenon, <1>1, <1>4, <2>2 DEF CalledBack
<1>8. CASE ~x.halted
  <2>1. /\ ep' = [ep EXCEPT ![e.dev] = [x EXCEPT !.req = nreq + 1]] /\ nreq' = nreq + 1
        /\ epring' = Append(epring, [dev |-> e.dev, n |-> nreq + 1])
    BY Zenon, <1>4, <1>6, <1>8
  <2>2. PICK y : y = [x EXCEPT !.req = nreq + 1]
    BY Zenon
  <2>3. y \in EpRecord /\ y.configured = x.configured /\ ~y.halted /\ y.req = nreq + 1
    BY <1>2, <1>5, <1>8, <2>2 DEF EpRecord
  <2>4. Queued(e.dev)
    BY Zenon, <1>1, <1>2, <1>5, <1>8, <2>1, <2>2, <2>3 DEF Queued
  <2> QED BY Zenon, <1>1, <1>4, <1>5, <1>8, <2>4 DEF CalledBack
<1> QED BY Zenon, <1>7, <1>8

\* A submit of the process configures the endpoint first, then queues a request
\* on it, or is refused.
LEMMA Submits ==
  ASSUME TypeOK, xhcihcd_submit_endp_xfer_request
  PROVE  /\ pc = "submit" /\ UNCHANGED <<slot, called>>
         /\ \/ /\ ~ep[dev].configured /\ ep' \in [Devs -> EpRecord]
               /\ \A x \in Devs \ {dev} : ep'[x] = ep[x]
               /\ ~ep'[dev].configured /\ ep'[dev].req = None
               /\ pc' = "configure" /\ dev' = dev /\ UNCHANGED <<nreq, epring>>
            \/ ep[dev].configured /\ ep[dev].req = None /\ Queued(dev) /\ NextDevice
            \/ ep[dev].configured /\ UNCHANGED <<ep, nreq, epring>> /\ NextDevice
<1>1. ep \in [Devs -> EpRecord] /\ nreq \in Nat /\ dev \in Devs
  BY Zenon DEF TypeOK, EndpointType, ProcessType, EpRecord
<1>2. ep[dev] \in EpRecord
  BY Zenon, <1>1
<1>3. pc = "submit" /\ UNCHANGED <<slot, called>>
  BY Zenon DEF xhcihcd_submit_endp_xfer_request, Runs
<1>4. CASE ~ep[dev].configured
  <2>1. PICK y : y = [ep[dev] EXCEPT !.req = None, !.halted = FALSE]
    OBVIOUS
  <2>2. y \in EpRecord /\ ~y.configured /\ y.req = None
    BY Zenon, <1>2, <1>4, <2>1 DEF EpRecord, None
  <2>3. ep' = [ep EXCEPT ![dev] = y] /\ pc' = "configure" /\ UNCHANGED <<dev, nreq, epring>>
    BY Zenon, <1>4, <2>1 DEF xhcihcd_submit_endp_xfer_request
  <2> QED BY Zenon, <1>1, <1>3, <1>4, <2>2, <2>3
<1>5. CASE ep[dev].configured /\ Accepts(ep[dev])
  <2>1. PICK y : y = [ep[dev] EXCEPT !.req = nreq + 1]
    BY Zenon
  <2>2. /\ y \in EpRecord /\ y.configured = ep[dev].configured /\ y.req = nreq + 1
        /\ ~y.halted /\ ~ep[dev].halted /\ ep[dev].req = None
    <3>1. ~ep[dev].halted /\ ep[dev].req = None
      BY Zenon, <1>5 DEF Accepts
    <3>2. y \in EpRecord /\ y.configured = ep[dev].configured /\ y.req = nreq + 1 /\ y.halted = ep[dev].halted
      BY <1>1, <1>2, <2>1 DEF EpRecord
    <3> QED BY Zenon, <3>1, <3>2
  <2>3. /\ ep' = [ep EXCEPT ![dev] = y] /\ nreq' = nreq + 1 /\ NextDevice
        /\ epring' = Append(epring, [dev |-> dev, n |-> nreq + 1])
    BY Zenon, <1>5, <2>1 DEF xhcihcd_submit_endp_xfer_request
  <2>4. Queued(dev)
    BY Zenon, <1>1, <2>2, <2>3 DEF Queued
  <2> QED BY Zenon, <1>3, <1>5, <2>2, <2>3, <2>4
<1>6. CASE ep[dev].configured /\ ~Accepts(ep[dev])
  BY Zenon, <1>3, <1>6 DEF xhcihcd_submit_endp_xfer_request
<1> QED BY Zenon, <1>4, <1>5, <1>6

\* Requests do not change but by a submit, a callback and the configuration of
\* an endpoint.
LEMMA RequestCases ==
  ASSUME TypeOK, [Next]_vars
  PROVE  \/ UNCHANGED <<ep, nreq, called>>
         \/ Process /\ xhcihcd_submit_endp_xfer_request
         \/ /\ Process /\ pc = "configure" /\ pc' = "submit"
            /\ ep' = [ep EXCEPT ![dev].configured = TRUE]
            /\ UNCHANGED <<nreq, called, epring, slot, dev>>
         \/ /\ Handler /\ events # <<>> /\ events' = Tail(events) /\ CalledBack(Head(events))
<1>1. CASE Process
  <2>1. CASE xhcihcd_submit_endp_xfer_request
    BY Zenon, <1>1, <2>1
  <2>2. CASE CommandReturns
    BY Zenon, <1>1, <2>2 DEF CommandReturns, CommandResult, ringvars
  <2>3. CASE xhcihcd_command_execute \/ xhcihcd_control_transfer_hw \/ ControlReturns \/ GiveUp
    BY Zenon, <2>3
    DEF xhcihcd_command_execute, xhcihcd_control_transfer_hw, ControlReturns, GiveUp, drivervars
  <2> QED BY Zenon, <1>1, <2>1, <2>2, <2>3, ProcessCases DEF Queueing, drivervars
<1>2. CASE Handler
  <2>1. CASE events # <<>> /\ events' = Tail(events) /\ HandleEndpoint(Head(events))
    <3>1. Head(events) \in Events
      BY Zenon, <2>1, TailFacts DEF TypeOK, RingType
    <3> QED BY Zenon, <1>2, <2>1, <3>1, EndpointHandled
  <2>2. CASE \/ HandleCommand(Head(events)) \/ HandleControl(Head(events)) \/ HandleFatal(Head(events))
    BY Zenon, <2>2 DEF HandleCommand, HandleControl, HandleFatal
  <2> QED BY Zenon, <1>2, <2>1, <2>2, HandlerCases
<1>3. CASE Controller
  BY Zenon, <1>3, ControllerFrame
<1>4. CASE UNCHANGED vars
  BY Zenon, <1>4 DEF vars, drivervars
<1> QED BY Zenon, <1>1, <1>2, <1>3, <1>4 DEF Next

\* The endpoints and their requests.
LEMMA EndpointTypeStep ==
  ASSUME TypeOK, [Next]_vars
  PROVE  EndpointType'
<1>1. ep \in [Devs -> EpRecord] /\ nreq \in Nat /\ called \in Seq([req : Nat, trb : Nat]) /\ dev \in Devs
  BY Zenon DEF TypeOK, EndpointType, ProcessType, EpRecord
<1>2. ASSUME ep' \in [Devs -> EpRecord], nreq' \in Nat, called' \in Seq([req : Nat, trb : Nat])
      PROVE  EndpointType'
  BY Zenon, <1>2 DEF EndpointType, EpRecord
<1>3. CASE UNCHANGED <<ep, nreq, called>>
  BY Zenon, <1>1, <1>2, <1>3
<1>4. CASE xhcihcd_submit_endp_xfer_request
  <2>1. ep' \in [Devs -> EpRecord] /\ nreq' \in Nat /\ called' = called
    BY <1>1, <1>4, Submits DEF Queued
  <2> QED BY Zenon, <1>1, <1>2, <2>1
<1>5. CASE ep' = [ep EXCEPT ![dev].configured = TRUE] /\ UNCHANGED <<nreq, called>>
  <2>1. ep' \in [Devs -> EpRecord]
    BY Zenon, <1>1, <1>5 DEF EpRecord
  <2> QED BY Zenon, <1>1, <1>2, <1>5, <2>1
<1>6. CASE CalledBack(Head(events))
  <2>1. ep' \in [Devs -> EpRecord] /\ nreq' \in Nat
    BY <1>1, <1>6 DEF CalledBack, Left, Queued
  <2>2. PICK c : c = [req |-> ep[Head(events).dev].req, trb |-> Head(events).n]
    BY Zenon
  <2>3. ep[Head(events).dev].req \in Nat /\ Head(events).n \in Nat
    BY Zenon, <1>1, <1>6 DEF CalledBack, EpRecord
  <2>4. c \in [req : Nat, trb : Nat] /\ called' = Append(called, c)
    BY Zenon, <1>6, <2>2, <2>3 DEF CalledBack
  <2>5. called' \in Seq([req : Nat, trb : Nat])
    BY Zenon, <1>1, <2>4, AppendFacts
  <2> QED BY Zenon, <1>2, <2>1, <2>5
<1> QED BY Zenon, <1>3, <1>4, <1>5, <1>6, RequestCases

----------------------------------------------------------------------------
(* The rings.                                                              *)

\* The handler has taken event e from the head of the event ring.
Taken(e) ==
  /\ Handler /\ events # <<>> /\ e = Head(events) /\ e \in Events
  /\ events' \in Seq(Events) /\ Removed(events, e, events')
  /\ HandleCommand(e) \/ HandleControl(e) \/ HandleEndpoint(e) \/ HandleFatal(e)

\* The controller has posted event e.
Posted(e) ==
  Controller /\ e \in Events /\ events' \in Seq(Events) /\ Appended(events, e, events')

OtherPosted(e) ==
  Posted(e) /\ e.type \in {"port", "host"} /\ UNCHANGED <<ringvars, stalled>>

CommandPosted(e) ==
  /\ Posted(e) /\ cmdring # <<>> /\ cmdring' = Tail(cmdring)
  /\ UNCHANGED <<ep0ring, epring, stalled>>
  /\ e.type = "command" /\ e.n = Head(cmdring).n

ControlPosted(e) ==
  /\ Posted(e) /\ ep0ring # <<>> /\ ep0ring' = Tail(ep0ring) /\ UNCHANGED <<cmdring, epring>>
  /\ \A d \in Devs : <<d, 1>> \in stalled' => <<d, 1>> \in stalled
  /\ e.type = "control" /\ e.n = Head(ep0ring).n /\ e.dev = Head(ep0ring).dev

EndpointPosted(i, e) ==
  /\ Posted(e) /\ i \in DOMAIN epring /\ UNCHANGED <<cmdring, ep0ring>>
  /\ <<e.dev, 1>> \notin stalled
  /\ stalled' = IF e.code = "error" THEN stalled \cup {<<e.dev, 1>>} ELSE stalled
  /\ epring' = [j \in 1..(Len(epring) - 1) |-> epring[IF j < i THEN j ELSE j + 1]]
  /\ e.type = "endpoint" /\ e.n = epring[i].n /\ e.dev = epring[i].dev

\* Nothing that the invariant speaks of changes, except that the handler may stop.
Quiet ==
  /\ UNCHANGED <<pc, wait, dev, slot, cmd, ncmd, xfer, nctl, ep, nreq, called,
                 cmdring, ep0ring, epring, stalled, events>>
  /\ panic # "no" => panic' # "no"

\* The steps of the system: the process makes one, the event ring grows at its
\* end or shrinks at its head, or nothing happens here.
LEMMA StepCases ==
  ASSUME TypeOK, [Next]_vars
  PROVE  \/ Process
         \/ Quiet
         \/ \E e : Taken(e)
         \/ \E e : OtherPosted(e) \/ CommandPosted(e) \/ ControlPosted(e)
         \/ \E i, e : EndpointPosted(i, e)
<1>0. /\ events \in Seq(Events) /\ cmdring \in Seq(Commands)
      /\ ep0ring \in Seq(Transfers) /\ epring \in Seq(Transfers)
  BY Zenon DEF TypeOK, RingType
<1>1. ASSUME NEW e \in Events, events' = Append(events, e)
      PROVE  Controller => Posted(e)
  BY Zenon, <1>0, <1>1, AppendFacts DEF Posted
<1>2. CASE Process \/ UNCHANGED vars
  BY Zenon, <1>2 DEF vars, Quiet, procvars, drivervars, ringvars, hcvars
<1>3. CASE Handler
  <2>1. CASE UNCHANGED <<cmd, xfer, ep, nreq, called, epring, events>>
    BY Zenon, <1>3, <2>1, HandlerFrame, PanicStays DEF Quiet
  <2> QED BY Zenon, <1>0, <1>3, <2>1, HandlerCases, TailFacts DEF Taken
<1>4. CASE Controller
  <2>1. CASE UNCHANGED <<ringvars, stalled, events>>
    BY Zenon, <1>4, <2>1, ControllerFrame DEF Quiet, ringvars
  <2>2. ASSUME UNCHANGED <<ringvars, stalled>>, NEW t \in {"port", "host"},
               events' = Append(events, [type |-> t])
        PROVE  \E e : OtherPosted(e)
    <3>1. PICK e : e = [type |-> t]
      BY Zenon
    <3>2. e \in Events /\ e.type \in {"port", "host"}
      BY Zenon, <3>1 DEF Events
    <3> QED BY Zenon, <1>1, <1>4, <2>2, <3>1, <3>2 DEF OtherPosted
  <2>3. ASSUME NEW code \in Codes, HcCommand(code)
        PROVE  \E e : CommandPosted(e)
    <3>0. cmdring # <<>> /\ Head(cmdring) \in Commands
      BY Zenon, <1>0, <2>3, TailFacts DEF HcCommand
    <3>1. PICK e : e = [type |-> "command", n |-> Head(cmdring).n, code |-> code]
      BY Zenon
    <3>2. e \in Events /\ e.type = "command" /\ e.n = Head(cmdring).n
      BY Zenon, <3>0, <3>1 DEF Events, Commands
    <3>3. events' = Append(events, e)
      BY Zenon, <2>3, <3>1 DEF HcCommand, Post
    <3>4. cmdring' = Tail(cmdring) /\ UNCHANGED <<ep0ring, epring, stalled>>
      BY Zenon, <2>3 DEF HcCommand
    <3> QED BY Zenon, <1>1, <1>4, <3>0, <3>2, <3>3, <3>4 DEF CommandPosted
  <2>4. ASSUME NEW code \in Codes, HcControl(code)
        PROVE  \E e : ControlPosted(e)
    <3>0. ep0ring # <<>> /\ Head(ep0ring) \in Transfers
      BY Zenon, <1>0, <2>4, TailFacts DEF HcControl
    <3>1. PICK e : e = [type |-> "control", dev |-> Head(ep0ring).dev, n |-> Head(ep0ring).n, code |-> code]
      BY Zenon
    <3>2. e \in Events /\ e.type = "control" /\ e.n = Head(ep0ring).n /\ e.dev = Head(ep0ring).dev
      BY Zenon, <3>0, <3>1 DEF Events, Transfers
    <3>3. events' = Append(events, e)
      BY Zenon, <2>4, <3>1 DEF HcControl, Post
    <3>4. ep0ring' = Tail(ep0ring) /\ UNCHANGED <<cmdring, epring>>
      BY Zenon, <2>4 DEF HcControl
    <3>5. \A d \in Devs : <<d, 1>> \in stalled' => <<d, 1>> \in stalled
      BY <2>4 DEF HcControl
    <3> QED BY Zenon, <1>1, <1>4, <3>0, <3>2, <3>3, <3>4, <3>5 DEF ControlPosted
  <2>5. ASSUME NEW code \in Codes, NEW i \in DOMAIN epring, HcEndpoint(i, code)
        PROVE  \E e : EndpointPosted(i, e)
    <3>0. epring[i] \in Transfers
      BY <1>0
    <3>1. PICK e : e = [type |-> "endpoint", dev |-> epring[i].dev, n |-> epring[i].n, code |-> code]
      BY Zenon
    <3>2. e \in Events /\ e.type = "endpoint" /\ e.n = epring[i].n /\ e.dev = epring[i].dev /\ e.code = code
      BY Zenon, <3>0, <3>1 DEF Events, Transfers
    <3>3. events' = Append(events, e) /\ UNCHANGED <<cmdring, ep0ring>>
      BY Zenon, <2>5, <3>1 DEF HcEndpoint, Post
    <3>4. /\ <<e.dev, 1>> \notin stalled
          /\ stalled' = IF e.code = "error" THEN stalled \cup {<<e.dev, 1>>} ELSE stalled
          /\ epring' = [j \in 1..(Len(epring) - 1) |-> epring[IF j < i THEN j ELSE j + 1]]
      BY Zenon, <2>5, <3>2 DEF HcEndpoint
    <3> QED BY Zenon, <1>1, <1>4, <3>2, <3>3, <3>4 DEF EndpointPosted
  <2> QED BY Zenon, <1>4, <2>1, <2>2, <2>3, <2>4, <2>5, ControllerCases
<1> QED BY Zenon, <1>2, <1>3, <1>4 DEF Next

\* The rings hold commands, transfers and events.
LEMMA RingTypeStep ==
  ASSUME TypeOK, [Next]_vars
  PROVE  RingType'
<1>0. /\ RingType /\ dev \in Devs /\ pc \in Steps /\ nctl \in [Devs -> Nat] /\ ncmd \in Nat /\ nreq \in Nat
  BY Zenon DEF TypeOK, ProcessType, DriverType, EndpointType
<1>1. ASSUME UNCHANGED <<cmdring, ep0ring, epring, events>> PROVE RingType'
  BY Zenon, <1>0, <1>1 DEF RingType
<1>2. CASE Process
  <2>0. events' = events
    BY Zenon, <1>2, ProcessCases
  <2>1. CASE xhcihcd_command_execute
    <3>1. PICK c : c = [n |-> ncmd, op |-> pc, dev |-> dev]
      BY Zenon
    <3>2. c \in Commands
      BY Zenon, <1>0, <2>1, <3>1 DEF Commands, CommandSteps, xhcihcd_command_execute
    <3>3. cmdring' = Append(cmdring, c) /\ UNCHANGED <<ep0ring, epring>>
      BY Zenon, <2>1, <3>1 DEF xhcihcd_command_execute
    <3> QED BY Zenon, <1>0, <2>0, <3>2, <3>3, AppendFacts DEF RingType
  <2>2. CASE xhcihcd_control_transfer_hw
    <3>1. PICK t : t = [dev |-> dev, n |-> nctl[dev] + 1]
      BY Zenon
    <3>2. t \in Transfers
      BY <1>0, <3>1 DEF Transfers
    <3>3. ep0ring' = Append(ep0ring, t) /\ UNCHANGED <<cmdring, epring>>
      BY Zenon, <2>2, <3>1 DEF xhcihcd_control_transfer_hw
    <3> QED BY Zenon, <1>0, <2>0, <3>2, <3>3, AppendFacts DEF RingType
  <2>3. CASE xhcihcd_submit_endp_xfer_request
    <3>1. PICK t : t = [dev |-> dev, n |-> nreq + 1]
      BY Zenon
    <3>2. t \in Transfers
      BY <1>0, <3>1 DEF Transfers
    <3>3. (epring' = epring \/ epring' = Append(epring, t)) /\ UNCHANGED <<cmdring, ep0ring>>
      BY Zenon, <2>3, <3>1 DEF xhcihcd_submit_endp_xfer_request
    <3> QED BY Zenon, <1>0, <2>0, <3>2, <3>3, AppendFacts DEF RingType
  <2>4. CASE CommandReturns \/ ControlReturns \/ GiveUp
    BY Zenon, <1>1, <2>0, <2>4 DEF CommandReturns, ControlReturns, GiveUp, ringvars
  <2> QED BY Zenon, <1>1, <1>2, <2>0, <2>1, <2>2, <2>3, <2>4, ProcessCases DEF Queueing, ringvars
<1>3. CASE Quiet
  BY Zenon, <1>1, <1>3 DEF Quiet
<1>4. ASSUME NEW e, Taken(e) PROVE RingType'
  <2>1. events' \in Seq(Events) /\ UNCHANGED <<cmdring, ep0ring>> /\ e \in Events
    BY Zenon, <1>4, HandlerFrame DEF Taken
  <2>2. CASE HandleEndpoint(e)
    <3>1. CASE epring' = epring
      BY Zenon, <1>0, <2>1, <3>1 DEF RingType
    <3>2. CASE CalledBack(e) /\ epring' # epring
      <4>1. PICK t : t = [dev |-> e.dev, n |-> nreq + 1]
        BY Zenon
      <4>2. t \in Transfers /\ epring' = Append(epring, t)
        BY <1>0, <3>2, <4>1 DEF CalledBack, Left, Queued, Transfers
      <4> QED BY Zenon, <1>0, <2>1, <4>2, AppendFacts DEF RingType
    <3> QED BY Zenon, <2>1, <2>2, <3>1, <3>2, EndpointHandled
  <2>3. CASE HandleCommand(e) \/ HandleControl(e) \/ HandleFatal(e)
    BY Zenon, <1>0, <2>1, <2>3 DEF HandleCommand, HandleControl, HandleFatal, RingType
  <2> QED BY Zenon, <1>4, <2>2, <2>3 DEF Taken
<1>5. ASSUME NEW e, OtherPosted(e) \/ CommandPosted(e) \/ ControlPosted(e) PROVE RingType'
  BY Zenon, <1>0, <1>5, TailFacts
  DEF RingType, OtherPosted, CommandPosted, ControlPosted, Posted, ringvars
<1>6. ASSUME NEW i, NEW e, EndpointPosted(i, e) PROVE RingType'
  <2>1. i \in DOMAIN epring /\ epring \in Seq(Transfers)
    BY Zenon, <1>0, <1>6 DEF EndpointPosted, RingType
  <2>2. [j \in 1..(Len(epring) - 1) |-> epring[IF j < i THEN j ELSE j + 1]] \in Seq(Transfers)
    <3>1. Len(epring) - 1 \in Nat
      BY <2>1
    <3>2. \A j \in 1..(Len(epring) - 1) : epring[IF j < i THEN j ELSE j + 1] \in Transfers
      BY <2>1
    <3> QED BY <3>1, <3>2
  <2> QED BY Zenon, <1>0, <1>6, <2>2 DEF EndpointPosted, Posted, RingType
<1> QED BY Zenon, <1>2, <1>3, <1>4, <1>5, <1>6, StepCases

\* Every variable keeps its type.
LEMMA TypeStep ==
  ASSUME TypeOK, [Next]_vars
  PROVE  TypeOK'
BY Zenon, ProcessTypeStep, DriverTypeStep, EndpointTypeStep, RingTypeStep DEF TypeOK

----------------------------------------------------------------------------
(* Commands.                                                               *)

\* What the lemmas need to know of the numbers of commands.
Numbered(es, cs, lo, hi) ==
  /\ \A i \in CommandsOf(es) : i \in Nat /\ es[i].n \in Nat
  /\ \A i \in DOMAIN cs : i \in Nat /\ cs[i].n \in Nat
  /\ lo \in Int /\ hi \in Int /\ lo <= hi

\* The commands in flight are numbered below ncmd.
LEMMA CommandNumbers ==
  ASSUME RingType, CommandsInFlight \in Nat, ncmd \in Nat
  PROVE  Numbered(events, cmdring, ncmd - CommandsInFlight, ncmd)
<1>1. \A i \in DOMAIN events : i \in Nat /\ events[i] \in Events
  BY DEF RingType
<1>2. \A i \in CommandsOf(events) : i \in Nat /\ events[i].n \in Nat
  BY Zenon, <1>1, EventFields DEF CommandsOf
<1>3. \A i \in DOMAIN cmdring : i \in Nat /\ cmdring[i] \in Commands
  BY DEF RingType
<1>4. \A i \in DOMAIN cmdring : i \in Nat /\ cmdring[i].n \in Nat
  BY Zenon, <1>3 DEF Commands
<1> QED BY <1>2, <1>4 DEF Numbered

\* A command is issued.
LEMMA Issued ==
  ASSUME NEW es, NEW cs, NEW lo, NEW hi, NEW c, NEW t, Numbered(es, cs, lo, hi),
         InOrder(es, cs, lo, hi), Appended(cs, c, t), c.n = hi
  PROVE  InOrder(es, t, lo, hi + 1)
<1>1. ASSUME NEW i \in CommandsOf(es)
      PROVE  /\ lo <= es[i].n /\ es[i].n < hi + 1
             /\ \A j \in CommandsOf(es) : i < j => es[i].n < es[j].n
             /\ \A j \in DOMAIN t : es[i].n < t[j].n
  BY DEF Numbered, InOrder, Appended
<1>2. ASSUME NEW i \in DOMAIN t
      PROVE  /\ lo <= t[i].n /\ t[i].n < hi + 1
             /\ \A j \in DOMAIN t : i < j => t[i].n < t[j].n
  <2>1. CASE i \in DOMAIN cs
    BY <2>1 DEF Numbered, InOrder, Appended
  <2>2. CASE i = Len(cs) + 1
    BY <2>2 DEF Numbered, Appended
  <2> QED BY Zenon, <2>1, <2>2 DEF Appended
<1> QED BY Zenon, <1>1, <1>2 DEF InOrder

\* The first event is taken: if it is a command's, none that is left is as old.
LEMMA FirstTaken ==
  ASSUME NEW es, NEW cs, NEW lo, NEW hi, NEW e, NEW t, Numbered(es, cs, lo, hi),
         InOrder(es, cs, lo, hi), Removed(es, e, t)
  PROVE  /\ InOrder(t, cs, lo, hi)
         /\ e.type = "command" => InOrder(t, cs, lo + 1, hi)
<1>1. \A i \in CommandsOf(t) : i + 1 \in CommandsOf(es) /\ t[i] = es[i + 1] /\ i \in Nat /\ 1 < i + 1
  BY Zenon DEF Removed, CommandsOf
<1>2. ASSUME NEW i \in CommandsOf(t)
      PROVE  /\ lo <= t[i].n /\ t[i].n < hi
             /\ \A j \in CommandsOf(t) : i < j => t[i].n < t[j].n
             /\ \A j \in DOMAIN cs : t[i].n < cs[j].n
  <2>1. ASSUME NEW j \in CommandsOf(t), i < j PROVE t[i].n < t[j].n
    <3>1. i + 1 < j + 1
      BY <1>1, <2>1
    <3> QED BY Zenon, <1>1, <2>1, <3>1 DEF InOrder
  <2> QED BY Zenon, <1>1, <2>1 DEF InOrder
<1>3. InOrder(t, cs, lo, hi)
  BY Zenon, <1>2 DEF InOrder
<1>4. ASSUME e.type = "command" PROVE InOrder(t, cs, lo + 1, hi)
  <2>1. 1 \in CommandsOf(es)
    BY Zenon, <1>4 DEF Removed, CommandsOf
  <2>2. \A i \in CommandsOf(t) : lo + 1 <= t[i].n
    BY <1>1, <2>1 DEF InOrder, Numbered
  <2>3. \A i \in DOMAIN cs : lo + 1 <= cs[i].n
    BY <2>1 DEF InOrder, Numbered
  <2> QED BY Zenon, <1>2, <1>3, <2>2, <2>3 DEF InOrder
<1> QED BY Zenon, <1>3, <1>4

\* An event that is not a command's is posted.
LEMMA OtherAppended ==
  ASSUME NEW es, NEW cs, NEW lo, NEW hi, NEW e, NEW t,
         InOrder(es, cs, lo, hi), Appended(es, e, t), e.type # "command"
  PROVE  InOrder(t, cs, lo, hi)
<1>1. \A i \in CommandsOf(t) : i \in CommandsOf(es) /\ t[i] = es[i]
  BY Zenon DEF Appended, CommandsOf
<1> QED BY Zenon, <1>1 DEF InOrder

\* The first command of the ring completes.
LEMMA FirstCompleted ==
  ASSUME NEW es, NEW cs, NEW lo, NEW hi, NEW c, NEW cs2, NEW e, NEW t, Numbered(es, cs, lo, hi),
         InOrder(es, cs, lo, hi), Removed(cs, c, cs2), Appended(es, e, t),
         e.n = c.n
  PROVE  InOrder(t, cs2, lo, hi)
<1>1. \A i \in CommandsOf(t) : \/ i \in CommandsOf(es) /\ t[i] = es[i] /\ i < Len(es) + 1
                               \/ i = Len(es) + 1 /\ t[i] = e
  BY Zenon DEF Appended, CommandsOf
<1>2. \A j \in DOMAIN cs2 : j + 1 \in DOMAIN cs /\ cs2[j] = cs[j + 1] /\ 1 < j + 1 /\ j \in Nat
  BY Zenon DEF Removed
<1>3. 1 \in DOMAIN cs /\ e.n = cs[1].n
  BY Zenon DEF Removed
<1>4. ASSUME NEW i \in CommandsOf(t)
      PROVE  /\ lo <= t[i].n /\ t[i].n < hi
             /\ \A j \in CommandsOf(t) : i < j => t[i].n < t[j].n
             /\ \A j \in DOMAIN cs2 : t[i].n < cs2[j].n
  <2>1. CASE i \in CommandsOf(es) /\ t[i] = es[i]
    BY Zenon, <1>1, <1>2, <1>3, <2>1 DEF InOrder
  <2>2. CASE i = Len(es) + 1 /\ t[i] = e
    <3>1. \A j \in CommandsOf(t) : ~(i < j)
      BY <1>1, <2>2 DEF Numbered, Appended
    <3> QED BY Zenon, <1>2, <1>3, <2>2, <3>1 DEF InOrder
  <2> QED BY Zenon, <1>1, <2>1, <2>2
<1>5. ASSUME NEW i \in DOMAIN cs2
      PROVE  /\ lo <= cs2[i].n /\ cs2[i].n < hi
             /\ \A j \in DOMAIN cs2 : i < j => cs2[i].n < cs2[j].n
  <2>1. ASSUME NEW j \in DOMAIN cs2, i < j PROVE cs2[i].n < cs2[j].n
    <3>1. i + 1 < j + 1
      BY <1>2, <2>1
    <3> QED BY Zenon, <1>2, <2>1, <3>1 DEF InOrder
  <2> QED BY Zenon, <1>2, <2>1 DEF InOrder
<1> QED BY Zenon, <1>4, <1>5 DEF InOrder

\* How many commands are among the events.
Counting ==
  /\ \A s \in Seq(Events) : Cardinality(CommandsOf(s)) \in Nat
  /\ \A s \in Seq(Events) : \A e, t : Appended(s, e, t) =>
       Cardinality(CommandsOf(t)) = Cardinality(CommandsOf(s)) + IF e.type = "command" THEN 1 ELSE 0
  /\ \A s \in Seq(Events) : \A e, t : Removed(s, e, t) =>
       Cardinality(CommandsOf(t)) = Cardinality(CommandsOf(s)) - IF e.type = "command" THEN 1 ELSE 0

\* Commands stay in order, and no more than the ring has place for.
LEMMA CommandsInOrderStep ==
  ASSUME Counting, TypeOK, CommandsInOrder, [Next]_vars
  PROVE  CommandsInOrder'
<1> DEFINE k == Cardinality(CommandsOf(events))
           N == CommandsInFlight
<1>0. /\ events \in Seq(Events) /\ cmdring \in Seq(Commands) /\ ncmd \in Nat /\ k \in Nat
      /\ Ring \in Nat /\ N \in Nat /\ N < Ring /\ N = Len(cmdring) + k /\ Len(cmdring) \in Nat
      /\ InOrder(events, cmdring, ncmd - N, ncmd)
  BY XhciAssumption
  DEF TypeOK, RingType, DriverType, Counting, CommandsInOrder, CommandsInFlight, CommandsOf
<1>1. N' = Len(cmdring') + Cardinality(CommandsOf(events'))
  BY Zenon DEF CommandsInFlight, CommandsOf
<1>2. Numbered(events, cmdring, ncmd - N, ncmd)
  BY Zenon, <1>0, CommandNumbers DEF TypeOK
<1> HIDE DEF N, k
<1>3. ASSUME N' \in Nat, N' < Ring, InOrder(events', cmdring', ncmd' - N', ncmd')
      PROVE  CommandsInOrder'
  BY Zenon, <1>3 DEF CommandsInOrder, N
<1>4. ASSUME UNCHANGED <<ncmd, cmdring, events>> PROVE CommandsInOrder'
  <2>1. N' = N
    BY Zenon, <1>0, <1>1, <1>4 DEF k
  <2> QED BY Zenon, <1>0, <1>3, <1>4, <2>1
<1>5. CASE Process
  <2>0. events' = events
    BY Zenon, <1>5, ProcessCases
  <2>1. CASE xhcihcd_command_execute
    <3>1. PICK c : c = [n |-> ncmd, op |-> pc, dev |-> dev]
      BY Zenon
    <3>2. c \in Commands /\ c.n = ncmd
      BY Zenon, <1>0, <2>1, <3>1
      DEF Commands, CommandSteps, xhcihcd_command_execute, TypeOK, ProcessType
    <3>3. cmdring' = Append(cmdring, c) /\ ncmd' = ncmd + 1 /\ N < Ring - 1
      BY Zenon, <2>1, <3>1 DEF xhcihcd_command_execute, N
    <3>4. Appended(cmdring, c, cmdring')
      BY Zenon, <1>0, <3>2, <3>3, AppendFacts
    <3>5. InOrder(events, cmdring', ncmd - N, ncmd + 1)
      BY Zenon, <1>0, <1>2, <3>2, <3>4, Issued
    <3>6. N' = N + 1
      BY <1>0, <1>1, <2>0, <3>4 DEF Appended, k
    <3>7. ncmd' - N' = ncmd - N
      BY <1>0, <3>3, <3>6
    <3> QED BY <1>0, <1>3, <2>0, <3>3, <3>5, <3>6, <3>7
  <2>2. CASE CommandReturns \/ xhcihcd_control_transfer_hw \/ ControlReturns \/ GiveUp
               \/ xhcihcd_submit_endp_xfer_request
    BY Zenon, <1>4, <2>0, <2>2
    DEF CommandReturns, xhcihcd_control_transfer_hw, ControlReturns, GiveUp,
         xhcihcd_submit_endp_xfer_request, drivervars, ringvars
  <2> QED BY Zenon, <1>4, <1>5, <2>0, <2>1, <2>2, ProcessCases DEF Queueing, drivervars, ringvars
<1>6. CASE Quiet
  BY Zenon, <1>4, <1>6 DEF Quiet
<1>7. ASSUME NEW e, Taken(e) PROVE CommandsInOrder'
  <2>1. Removed(events, e, events') /\ ncmd' = ncmd /\ cmdring' = cmdring
    BY Zenon, <1>7, HandlerFrame DEF Taken
  <2>2. /\ InOrder(events', cmdring, ncmd - N, ncmd)
        /\ e.type = "command" => InOrder(events', cmdring, (ncmd - N) + 1, ncmd)
    BY Zenon, <1>0, <1>2, <2>1, FirstTaken
  <2>3. N' \in Nat
    <3>1. events' \in Seq(Events)
      BY Zenon, <1>7 DEF Taken
    <3>2. Cardinality(CommandsOf(events')) \in Nat
      BY Zenon, <3>1 DEF Counting
    <3> QED BY <1>0, <1>1, <2>1, <3>2
  <2>4. N' = N - IF e.type = "command" THEN 1 ELSE 0
    <3>1. Cardinality(CommandsOf(events')) = k - IF e.type = "command" THEN 1 ELSE 0
      BY Zenon, <1>0, <2>1 DEF Counting, k
    <3> QED BY <1>0, <1>1, <2>1, <3>1
  <2>5. CASE e.type = "command"
    <3>1. ncmd - N' = (ncmd - N) + 1
      BY <1>0, <2>3, <2>4, <2>5
    <3> QED BY <1>0, <1>3, <2>1, <2>2, <2>3, <2>4, <2>5, <3>1
  <2>6. CASE e.type # "command"
    BY <1>0, <1>3, <2>1, <2>2, <2>3, <2>4, <2>6
  <2> QED BY Zenon, <2>5, <2>6
<1>8. ASSUME NEW e, Appended(events, e, events'), e.type # "command", UNCHANGED <<ncmd, cmdring>>
      PROVE  CommandsInOrder'
  <2>1. InOrder(events', cmdring, ncmd - N, ncmd)
    BY Zenon, <1>0, <1>8, OtherAppended
  <2>2. Cardinality(CommandsOf(events')) = k
    BY <1>0, <1>8 DEF Counting, k
  <2>3. N' = N
    BY Zenon, <1>0, <1>1, <1>8, <2>2
  <2> QED BY Zenon, <1>0, <1>3, <1>8, <2>1, <2>3
<1>9. ASSUME NEW e, CommandPosted(e) PROVE CommandsInOrder'
  <2>1. /\ Appended(events, e, events') /\ cmdring' = Tail(cmdring) /\ cmdring # <<>>
        /\ e.n = Head(cmdring).n /\ e.type = "command" /\ ncmd' = ncmd
    BY Zenon, <1>9, ControllerFrame DEF CommandPosted, Posted
  <2>2. Removed(cmdring, Head(cmdring), cmdring')
    BY Zenon, <1>0, <2>1, TailFacts
  <2>3. InOrder(events', cmdring', ncmd - N, ncmd)
    BY Zenon, <1>0, <1>2, <2>1, <2>2, FirstCompleted
  <2>4. Cardinality(CommandsOf(events')) = k + 1
    BY Zenon, <1>0, <2>1 DEF Counting, k
  <2>5. N' = N
    BY <1>0, <1>1, <2>2, <2>4 DEF Removed
  <2> QED BY Zenon, <1>0, <1>3, <2>1, <2>3, <2>5
<1>10. ASSUME NEW e, OtherPosted(e) \/ ControlPosted(e) PROVE CommandsInOrder'
  BY Zenon, <1>8, <1>10, ControllerFrame DEF OtherPosted, ControlPosted, Posted, ringvars
<1>11. ASSUME NEW i, NEW e, EndpointPosted(i, e) PROVE CommandsInOrder'
  BY Zenon, <1>8, <1>11, ControllerFrame DEF EndpointPosted, Posted
<1> QED BY Zenon, <1>5, <1>6, <1>7, <1>9, <1>10, <1>11, StepCases

\* Two numbers that are less than the ring apart have two addresses.
LEMMA SameAddress ==
  ASSUME NEW a \in Nat, NEW b \in Nat, a <= b, b - a < Ring, TrbAddress(a) = TrbAddress(b)
  PROVE  a = b
<1>1. Ring \in Nat \ {0}
  BY Zenon, XhciAssumption
<1>2. /\ a \div Ring \in Nat /\ a = Ring * (a \div Ring) + (a % Ring)
      /\ b \div Ring \in Nat /\ b = Ring * (b \div Ring) + (b % Ring)
  BY <1>1
<1>3. PICK q \in Nat, r \in Nat, m \in Int : a = Ring * q + m /\ b = Ring * r + m
  <2>1. a % Ring = b % Ring /\ a % Ring \in Int
    BY <1>1 DEF TrbAddress
  <2> QED BY Zenon, <1>2, <2>1
<1>4. r - q \in Int /\ b - a = Ring * (r - q)
  BY <1>1, <1>3
<1>5. CASE r - q >= 1
  <2>1. Ring * (r - q) >= Ring
    BY <1>1, <1>4, <1>5
  <2> QED BY <1>1, <1>4, <2>1
<1>6. CASE r - q <= -1
  <2>1. Ring * (r - q) <= 0 - Ring
    BY <1>1, <1>4, <1>6
  <2> QED BY <1>1, <1>4, <2>1
<1>7. CASE r - q = 0
  BY <1>1, <1>4, <1>7
<1> QED BY <1>4, <1>5, <1>6, <1>7

\* The process while it waits: it issues a command or a control transfer, gets
\* the result or gives up; at every other step it does not wait.
LEMMA WaitCases ==
  ASSUME ControlIsLast, Process
  PROVE  \/ xhcihcd_command_execute \/ CommandReturns \/ xhcihcd_control_transfer_hw
         \/ ControlReturns \/ GiveUp
         \/ /\ panic = "no" /\ wait = "no" /\ wait' = "no"
            /\ UNCHANGED <<cmd, ncmd, xfer, nctl, cmdring, ep0ring>>
BY Zenon
DEF Process, ControlIsLast, CommandSteps, Runs, xhcihcd_reset, ResetDone, xhcihcd_start, Started,
       PortReset, Bind, xhcihcd_submit_endp_xfer_request, drivervars, ringvars

\* The completion that is taken for the pending command's is its own.
LEMMA MyCommandIsLast ==
  ASSUME TypeOK, CommandsInOrder, CommandIsLast, NEW e, Taken(e), e.type = "command", IsMyCommand(e)
  PROVE  e.n = ncmd - 1
<1>1. 1 \in CommandsOf(events) /\ events[1] = e /\ e.n \in Nat
  BY Zenon, EventFields DEF Taken, Removed, CommandsOf
<1>2. /\ ncmd - CommandsInFlight <= e.n /\ e.n < ncmd /\ CommandsInFlight < Ring
      /\ CommandsInFlight \in Nat /\ ncmd \in Nat /\ Ring \in Nat
  BY Zenon, <1>1, XhciAssumption DEF CommandsInOrder, InOrder, TypeOK, DriverType
<1>3. TrbAddress(e.n) = TrbAddress(ncmd - 1)
  BY Zenon DEF IsMyCommand, CommandIsLast
<1>4. ncmd - 1 \in Nat /\ e.n <= ncmd - 1 /\ (ncmd - 1) - e.n < Ring
  BY <1>1, <1>2
<1> QED BY Zenon, <1>1, <1>3, <1>4, SameAddress

\* A pending command stays the last one, and so does one with a result.
LEMMA CommandIsLastStep ==
  ASSUME TypeOK, CommandsInOrder, CommandIsLast, ControlIsLast, [Next]_vars
  PROVE  CommandIsLast'
<1>0. ncmd \in Nat /\ cmd \in [pending : BOOLEAN, trb : Nat, code : Codes \cup {"invalid"}, by : Nat]
  BY Zenon DEF TypeOK, DriverType
<1>1. ASSUME UNCHANGED <<cmd, ncmd, wait, pc>> PROVE CommandIsLast'
  BY Zenon, <1>1 DEF CommandIsLast, TrbAddress
<1>2. CASE Process
  <2>1. CASE xhcihcd_command_execute
    BY <1>0, <2>1 DEF xhcihcd_command_execute, CommandIsLast
  <2>2. CASE CommandReturns
    <3>1. wait' = "no" /\ ncmd' = ncmd /\ (cmd' = cmd \/ cmd' = [cmd EXCEPT !.pending = FALSE])
      BY Zenon, <2>2 DEF CommandReturns
    <3>2. cmd' = cmd \/ ~cmd'.pending
      BY Zenon, <1>0, <3>1
    <3> QED BY Zenon, <3>1, <3>2 DEF CommandIsLast, TrbAddress
  <2>3. CASE xhcihcd_control_transfer_hw
    BY Zenon, <2>3 DEF xhcihcd_control_transfer_hw, Runs, CommandIsLast, TrbAddress
  <2>4. CASE ControlReturns \/ GiveUp
    BY Zenon, <2>4 DEF ControlReturns, GiveUp, CommandIsLast, TrbAddress, drivervars
  <2>5. CASE wait' = "no" /\ UNCHANGED <<cmd, ncmd>>
    BY Zenon, <2>5 DEF CommandIsLast, TrbAddress
  <2> QED BY Zenon, <1>2, <2>1, <2>2, <2>3, <2>4, <2>5, WaitCases
<1>3. CASE Quiet
  BY Zenon, <1>1, <1>3 DEF Quiet
<1>4. ASSUME NEW e, Taken(e) PROVE CommandIsLast'
  <2>0. UNCHANGED <<pc, wait, ncmd>>
    BY Zenon, <1>4, HandlerFrame DEF Taken
  <2>1. CASE HandleCommand(e) /\ IsMyCommand(e)
    <3>1. e.n = ncmd - 1
      BY Zenon, <1>4, <2>1, MyCommandIsLast DEF HandleCommand
    <3>2. cmd' = [cmd EXCEPT !.code = e.code, !.by = e.n, !.pending = FALSE]
      BY Zenon, <2>1 DEF HandleCommand
    <3>3. ~cmd'.pending /\ cmd'.by = e.n
      BY Zenon, <1>0, <3>2
    <3> QED BY Zenon, <2>0, <3>1, <3>3 DEF CommandIsLast
  <2>2. CASE HandleCommand(e) /\ ~IsMyCommand(e)
    BY Zenon, <1>1, <2>0, <2>2 DEF HandleCommand
  <2>3. CASE HandleControl(e) \/ HandleEndpoint(e) \/ HandleFatal(e)
    BY Zenon, <1>1, <2>0, <2>3 DEF HandleControl, HandleEndpoint, HandleFatal
  <2> QED BY Zenon, <1>4, <2>1, <2>2, <2>3 DEF Taken
<1>5. CASE Controller
  BY Zenon, <1>1, <1>5, ControllerFrame
<1> QED BY Zenon, <1>2, <1>3, <1>4, <1>5, StepCases
             DEF OtherPosted, CommandPosted, ControlPosted, EndpointPosted, Posted

----------------------------------------------------------------------------
(* Control transfers.                                                      *)

\* No control transfer is in flight.
NoControl == ep0ring = <<>> /\ \A i \in DOMAIN events : events[i].type # "control"

\* With no control transfer in flight there is none to wait for.
LEMMA NoControlWaited == ASSUME NoControl PROVE ControlsAreWaitedFor
BY DEF NoControl, ControlsAreWaitedFor

\* If the process runs and does not wait for one, none is in flight.
LEMMA NoneInFlight ==
  ASSUME ControlsAreWaitedFor, panic = "no", ep0ring \in Seq(Transfers),
         wait = "no" \/ pc # "control" \/ ~xfer[dev].pending
  PROVE  NoControl
<1>1. \A i \in DOMAIN events : events[i].type # "control"
  BY Zenon DEF ControlsAreWaitedFor, WaitedFor, Awaited
<1>2. ASSUME ep0ring # <<>> PROVE FALSE
  <2>1. 1 \in DOMAIN ep0ring
    BY <1>2
  <2> QED BY Zenon, <2>1 DEF ControlsAreWaitedFor, WaitedFor, Awaited
<1> QED BY Zenon, <1>1, <1>2 DEF NoControl

\* The control transfer in flight is the one the process waits for.
LEMMA ControlsAreWaitedForStep ==
  ASSUME TypeOK, ControlsAreWaitedFor, ControlIsLast, [Next]_vars
  PROVE  ControlsAreWaitedFor'
<1>0. /\ events \in Seq(Events) /\ ep0ring \in Seq(Transfers) /\ dev \in Devs
      /\ nctl \in [Devs -> Nat]
      /\ xfer \in [Devs -> [pending : BOOLEAN, code : Codes \cup {"invalid"}, by : Nat]]
  BY Zenon DEF TypeOK, RingType, ProcessType, DriverType
<1>1. ASSUME NoControl, UNCHANGED <<ep0ring, events>> PROVE ControlsAreWaitedFor'
  BY <1>1 DEF NoControl, ControlsAreWaitedFor
<1>2. ASSUME UNCHANGED <<pc, wait, dev, nctl, xfer, ep0ring, events>>, panic # "no" => panic' # "no"
      PROVE  ControlsAreWaitedFor'
  BY Zenon, <1>2 DEF ControlsAreWaitedFor, WaitedFor, Awaited
<1>3. CASE Process
  <2>0. events' = events
    BY Zenon, <1>3, ProcessCases
  <2>1. CASE xhcihcd_control_transfer_hw
    <3>1. PICK t : t = [dev |-> dev, n |-> nctl[dev] + 1]
      BY Zenon
    <3>2. /\ ep0ring' = Append(ep0ring, t) /\ nctl' = [nctl EXCEPT ![dev] = @ + 1]
          /\ xfer' = [xfer EXCEPT ![dev] = [pending |-> TRUE, code |-> "invalid", by |-> None]]
          /\ wait = "no" /\ wait' = "wait" /\ pc = "control" /\ UNCHANGED <<pc, dev>> /\ panic = "no"
      BY Zenon, <2>1, <3>1 DEF xhcihcd_control_transfer_hw, Runs
    <3>3. NoControl
      BY Zenon, <1>0, <3>2, NoneInFlight
    <3>4. ep0ring' = <<t>>
      BY <3>2, <3>3 DEF NoControl
    <3>5. t.dev = dev /\ t.n = nctl'[dev] /\ xfer'[dev].pending
      BY Zenon, <1>0, <3>1, <3>2
    <3>6. \A i \in DOMAIN events : events[i].type # "control"
      BY Zenon, <3>3 DEF NoControl
    <3>7. \A i \in DOMAIN ep0ring' : i = 1 /\ ep0ring'[i] = t
      BY <3>4
    <3> QED BY Zenon, <2>0, <3>2, <3>5, <3>6, <3>7 DEF ControlsAreWaitedFor, WaitedFor, Awaited
  <2>2. CASE xhcihcd_command_execute
    BY Zenon, <1>0, <1>1, <2>0, <2>2, NoneInFlight DEF xhcihcd_command_execute, Runs
  <2>3. CASE CommandReturns
    <3>1. pc # "control" /\ panic = "no" /\ ep0ring' = ep0ring
      BY Zenon, <2>3 DEF CommandReturns, Runs, ringvars
    <3> QED BY Zenon, <1>0, <1>1, <2>0, <3>1, NoneInFlight
  <2>4. CASE ControlReturns
    <3>1. panic = "no" /\ ep0ring' = ep0ring /\ wait' = "no" /\ (~xfer[dev].pending \/ panic' = "process")
      BY Zenon, <2>4 DEF ControlReturns, ControlFailed, Runs, ringvars
    <3>2. CASE ~xfer[dev].pending
      BY Zenon, <1>0, <1>1, <2>0, <3>1, <3>2, NoneInFlight
    <3>3. CASE panic' = "process"
      BY Zenon, <3>1, <3>3 DEF ControlsAreWaitedFor
    <3> QED BY Zenon, <3>1, <3>2, <3>3
  <2>5. CASE GiveUp
    <3>1. panic = "no" /\ wait # "no" /\ wait' # "no" /\ UNCHANGED <<pc, dev, nctl, xfer, ep0ring>>
      BY Zenon, <2>5 DEF GiveUp, Runs, drivervars, ringvars
    <3> QED BY Zenon, <2>0, <3>1 DEF ControlsAreWaitedFor, WaitedFor, Awaited
  <2>6. CASE panic = "no" /\ wait = "no" /\ ep0ring' = ep0ring
    BY Zenon, <1>0, <1>1, <2>0, <2>6, NoneInFlight
  <2> QED BY Zenon, <1>3, <2>1, <2>2, <2>3, <2>4, <2>5, <2>6, WaitCases
<1>4. CASE Quiet
  BY Zenon, <1>2, <1>4 DEF Quiet
<1>5. ASSUME panic # "no", wait = "no", Handler \/ Controller PROVE ControlsAreWaitedFor'
  BY Zenon, <1>5, PanicStays, HandlerFrame, ControllerFrame DEF ControlsAreWaitedFor
<1>6. SUFFICES ASSUME ~(panic # "no" /\ wait = "no"), ~Process, ~Quiet
               PROVE  ControlsAreWaitedFor'
  BY Zenon, <1>3, <1>4, <1>5, StepCases
       DEF Taken, OtherPosted, CommandPosted, ControlPosted, EndpointPosted, Posted
<1>7. /\ \A i \in DOMAIN events : events[i].type = "control" =>
           /\ WaitedFor(events[i]) /\ ep0ring = <<>>
           /\ \A j \in DOMAIN events : events[j].type = "control" => j = i
      /\ \A i \in DOMAIN ep0ring :
           WaitedFor(ep0ring[i]) /\ \A j \in DOMAIN ep0ring : j = i
  BY Zenon, <1>6 DEF ControlsAreWaitedFor
<1>8. ASSUME UNCHANGED <<pc, wait, dev, nctl, xfer>>
      PROVE  \A t : Awaited(t, wait', pc', dev', nctl', xfer') <=> WaitedFor(t)
  BY Zenon, <1>8 DEF WaitedFor, Awaited
<1>9. ASSUME NEW e, Taken(e) PROVE ControlsAreWaitedFor'
  <2>0. Removed(events, e, events') /\ UNCHANGED <<pc, wait, dev, nctl, ep0ring>>
    BY Zenon, <1>9, HandlerFrame DEF Taken
  <2>1. CASE e.type = "control"
    <3>1. \A j \in DOMAIN events : events[j].type = "control" => j = 1
      BY Zenon, <1>7, <2>0, <2>1 DEF Removed
    <3>2. \A i \in DOMAIN events' : events'[i].type # "control"
      BY <2>0, <3>1 DEF Removed
    <3>3. ep0ring' = <<>>
      BY Zenon, <1>7, <2>0, <2>1 DEF Removed
    <3> QED BY <3>2, <3>3 DEF ControlsAreWaitedFor
  <2>2. CASE e.type # "control"
    <3>1. xfer' = xfer
      BY Zenon, <1>9, <2>2 DEF Taken, HandleCommand, HandleControl, HandleEndpoint, HandleFatal
    <3>2. \A t : Awaited(t, wait', pc', dev', nctl', xfer') <=> WaitedFor(t)
      BY Zenon, <1>8, <2>0, <3>1
    <3>3. ASSUME NEW i \in DOMAIN events', events'[i].type = "control"
          PROVE  /\ Awaited(events'[i], wait', pc', dev', nctl', xfer') /\ ep0ring' = <<>>
                 /\ \A j \in DOMAIN events' : events'[j].type = "control" => j = i
      <4>1. i + 1 \in DOMAIN events /\ events'[i] = events[i + 1] /\ i \in Nat
        BY Zenon, <2>0, <3>3 DEF Removed
      <4>2. ASSUME NEW j \in DOMAIN events', events'[j].type = "control" PROVE j = i
        <5>1. j + 1 \in DOMAIN events /\ events'[j] = events[j + 1] /\ j \in Nat
          BY Zenon, <2>0, <4>2 DEF Removed
        <5>2. j + 1 = i + 1
          BY Zenon, <1>7, <3>3, <4>1, <4>2, <5>1
        <5> QED BY <4>1, <5>1, <5>2
      <4>3. WaitedFor(events'[i]) /\ ep0ring = <<>>
        BY Zenon, <1>7, <3>3, <4>1
      <4> QED BY Zenon, <2>0, <3>2, <4>2, <4>3
    <3>4. ASSUME NEW i \in DOMAIN ep0ring'
          PROVE  Awaited(ep0ring'[i], wait', pc', dev', nctl', xfer') /\ \A j \in DOMAIN ep0ring' : j = i
      BY Zenon, <1>7, <2>0, <3>2
    <3> QED BY Zenon, <3>3, <3>4 DEF ControlsAreWaitedFor, WaitedFor
  <2> QED BY Zenon, <2>1, <2>2
<1>10. ASSUME NEW e, Appended(events, e, events'), e.type # "control",
              UNCHANGED <<pc, wait, dev, nctl, xfer, ep0ring>>
       PROVE  ControlsAreWaitedFor'
  <2>1. \A t : Awaited(t, wait', pc', dev', nctl', xfer') <=> WaitedFor(t)
    BY Zenon, <1>8, <1>10
  <2>2. \A i \in DOMAIN events' : events'[i].type = "control" => i \in DOMAIN events /\ events'[i] = events[i]
    BY Zenon, <1>10 DEF Appended
  <2>3. ASSUME NEW i \in DOMAIN events', events'[i].type = "control"
        PROVE  /\ Awaited(events'[i], wait', pc', dev', nctl', xfer') /\ ep0ring' = <<>>
               /\ \A j \in DOMAIN events' : events'[j].type = "control" => j = i
    BY Zenon, <1>7, <1>10, <2>1, <2>2, <2>3
  <2>4. ASSUME NEW i \in DOMAIN ep0ring'
        PROVE  Awaited(ep0ring'[i], wait', pc', dev', nctl', xfer') /\ \A j \in DOMAIN ep0ring' : j = i
    BY Zenon, <1>7, <1>10, <2>1
  <2> QED BY Zenon, <2>3, <2>4 DEF ControlsAreWaitedFor, WaitedFor
<1>11. ASSUME NEW e, ControlPosted(e) PROVE ControlsAreWaitedFor'
  <2>0. /\ Appended(events, e, events') /\ UNCHANGED <<pc, wait, dev, nctl, xfer>>
        /\ ep0ring # <<>> /\ ep0ring' = Tail(ep0ring)
        /\ e.type = "control" /\ e.n = Head(ep0ring).n /\ e.dev = Head(ep0ring).dev
    BY Zenon, <1>11, ControllerFrame DEF ControlPosted, Posted
  <2>1. Removed(ep0ring, Head(ep0ring), ep0ring') /\ ep0ring' \in Seq(Transfers)
    BY Zenon, <1>0, <2>0, TailFacts
  <2>2. 1 \in DOMAIN ep0ring /\ ep0ring[1] = Head(ep0ring)
    BY Zenon, <2>1 DEF Removed
  <2>3. ep0ring' = <<>>
    <3>1. ASSUME ep0ring' # <<>> PROVE FALSE
      <4>1. 1 \in DOMAIN ep0ring'
        BY <2>1, <3>1
      <4>2. 1 + 1 \in DOMAIN ep0ring /\ 1 + 1 # 1
        BY Zenon, <2>1, <4>1 DEF Removed
      <4> QED BY Zenon, <1>7, <2>2, <4>2
    <3> QED BY Zenon, <3>1
  <2>4. Awaited(e, wait', pc', dev', nctl', xfer')
    BY Zenon, <1>7, <1>8, <2>0, <2>2 DEF WaitedFor, Awaited
  <2>5. \A i \in DOMAIN events : events[i].type # "control"
    BY Zenon, <1>7, <2>0
  <2>6. \A i \in DOMAIN events' : events'[i].type = "control" => i = Len(events) + 1 /\ events'[i] = e
    BY Zenon, <2>0, <2>5 DEF Appended
  <2>7. ASSUME NEW i \in DOMAIN events', events'[i].type = "control"
        PROVE  /\ Awaited(events'[i], wait', pc', dev', nctl', xfer') /\ ep0ring' = <<>>
               /\ \A j \in DOMAIN events' : events'[j].type = "control" => j = i
    BY Zenon, <2>3, <2>4, <2>6, <2>7
  <2> QED BY <2>3, <2>7 DEF ControlsAreWaitedFor, WaitedFor
<1>12. ASSUME NEW e, OtherPosted(e) \/ CommandPosted(e) PROVE ControlsAreWaitedFor'
  BY Zenon, <1>10, <1>12, ControllerFrame DEF OtherPosted, CommandPosted, Posted, ringvars
<1>13. ASSUME NEW i, NEW e, EndpointPosted(i, e) PROVE ControlsAreWaitedFor'
  BY Zenon, <1>10, <1>13, ControllerFrame DEF EndpointPosted, Posted
<1> QED BY Zenon, <1>6, <1>9, <1>11, <1>12, <1>13, StepCases

\* A control transfer's result is its own.
LEMMA ControlIsLastStep ==
  ASSUME TypeOK, ControlsAreWaitedFor, ControlIsLast, [Next]_vars
  PROVE  ControlIsLast'
<1>0. /\ dev \in Devs /\ nctl \in [Devs -> Nat]
      /\ xfer \in [Devs -> [pending : BOOLEAN, code : Codes \cup {"invalid"}, by : Nat]]
  BY Zenon DEF TypeOK, ProcessType, DriverType
<1>1. ASSUME UNCHANGED <<xfer, nctl, dev, wait, pc>> PROVE ControlIsLast'
  BY Zenon, <1>1 DEF ControlIsLast
<1>2. CASE Process
  <2>1. CASE xhcihcd_command_execute
    BY Zenon, <2>1 DEF xhcihcd_command_execute, ControlIsLast, CommandSteps
  <2>2. CASE CommandReturns \/ ControlReturns
    BY Zenon, <2>2 DEF CommandReturns, ControlReturns, ControlIsLast
  <2>3. CASE xhcihcd_control_transfer_hw
    <3>1. /\ xfer' = [xfer EXCEPT ![dev] = [pending |-> TRUE, code |-> "invalid", by |-> None]]
          /\ pc' = "control" /\ dev' = dev
      BY Zenon, <2>3 DEF xhcihcd_control_transfer_hw, Runs
    <3>2. xfer'[dev'].pending
      BY Zenon, <1>0, <3>1
    <3> QED BY Zenon, <3>1, <3>2 DEF ControlIsLast
  <2>4. CASE GiveUp
    BY Zenon, <2>4 DEF GiveUp, ControlIsLast
  <2>5. CASE wait' = "no"
    BY Zenon, <2>5 DEF ControlIsLast
  <2> QED BY Zenon, <1>2, <2>1, <2>2, <2>3, <2>4, <2>5, WaitCases
<1>3. CASE Quiet
  BY Zenon, <1>1, <1>3 DEF Quiet
<1>4. ASSUME NEW e, Taken(e) PROVE ControlIsLast'
  <2>0. UNCHANGED <<pc, wait, dev, nctl>> /\ 1 \in DOMAIN events /\ events[1] = e /\ e \in Events
    BY Zenon, <1>4, HandlerFrame DEF Taken, Removed
  <2>1. CASE HandleControl(e) /\ wait = "wait" /\ xfer' # xfer
    <3>1. WaitedFor(e)
      BY Zenon, <2>0, <2>1 DEF ControlsAreWaitedFor, HandleControl
    <3>2. xfer' = [xfer EXCEPT ![e.dev] = [pending |-> FALSE, code |-> e.code, by |-> e.n]]
      BY Zenon, <2>1 DEF HandleControl
    <3>3. xfer'[dev].by = nctl[dev]
      BY Zenon, <1>0, <3>1, <3>2 DEF WaitedFor, Awaited
    <3> QED BY Zenon, <2>0, <3>3 DEF ControlIsLast
  <2>2. CASE wait # "wait"
    BY Zenon, <2>0, <2>2 DEF ControlIsLast
  <2>3. CASE HandleCommand(e) \/ HandleEndpoint(e) \/ HandleFatal(e) \/ xfer' = xfer
    BY Zenon, <1>1, <2>0, <2>3 DEF HandleCommand, HandleEndpoint, HandleFatal
  <2> QED BY Zenon, <1>4, <2>1, <2>2, <2>3 DEF Taken
<1>5. CASE Controller
  BY Zenon, <1>1, <1>5, ControllerFrame
<1> QED BY Zenon, <1>2, <1>3, <1>4, <1>5, StepCases
             DEF OtherPosted, CommandPosted, ControlPosted, EndpointPosted, Posted

----------------------------------------------------------------------------
(* Interrupt transfers.                                                    *)

\* How many requests are outstanding.
DevicesCounted ==
  \A S \in SUBSET Devs :
    /\ Cardinality(S) \in Nat
    /\ \A d \in Devs \ S : Cardinality(S \cup {d}) = Cardinality(S) + 1
    /\ \A d \in S : Cardinality(S \ {d}) = Cardinality(S) - 1

\* The steps on requests, as the invariant sees them.
Enqueues(d) ==
  d \in Devs /\ d \notin Outstanding /\ Queued(d) /\ called' = called
Renews(e) ==
  CalledBack(e) /\ e.dev \in Outstanding /\ e.n = ep[e.dev].req /\ e.code # "error" /\ Queued(e.dev)
Drops(e) ==
  CalledBack(e) /\ e.dev \in Outstanding /\ e.n = ep[e.dev].req /\ Left(e.dev)
SameRequests ==
  /\ \A d \in Devs : ep'[d].req = ep[d].req
  /\ UNCHANGED <<nreq, called, epring>>

\* A step leaves the requests alone, queues one, or calls one back.
LEMMA RequestSteps ==
  ASSUME TypeOK, TransfersAreRequests, OneAfterTheOther, [Next]_vars
  PROVE  \/ SameRequests \/ UNCHANGED <<ep, nreq, called>>
         \/ Process /\ Enqueues(dev)
         \/ \E e : Taken(e) /\ (Renews(e) \/ Drops(e))
<1>0. ep \in [Devs -> EpRecord] /\ dev \in Devs /\ events \in Seq(Events)
  BY Zenon DEF TypeOK, EndpointType, ProcessType, RingType, EpRecord
<1>1. CASE Process /\ xhcihcd_submit_endp_xfer_request
  <2>1. CASE /\ ~ep[dev].configured /\ ep' \in [Devs -> EpRecord]
             /\ \A x \in Devs \ {dev} : ep'[x] = ep[x]
             /\ ~ep'[dev].configured /\ ep'[dev].req = None
             /\ UNCHANGED <<nreq, epring, called>>
    <3>1. ep[dev].req = None
      BY Zenon, <1>0, <2>1 DEF OneAfterTheOther, Outstanding
    <3> QED BY Zenon, <1>0, <2>1, <3>1 DEF SameRequests
  <2>2. CASE ep[dev].req = None /\ Queued(dev) /\ called' = called
    BY Zenon, <1>0, <1>1, <2>2 DEF Enqueues, Outstanding
  <2> QED BY Zenon, <1>1, <2>1, <2>2, Submits
<1>2. CASE ep' = [ep EXCEPT ![dev].configured = TRUE] /\ UNCHANGED <<nreq, called, epring>>
  BY Zenon, <1>0, <1>2 DEF SameRequests, EpRecord
<1>3. CASE Handler /\ events # <<>> /\ events' = Tail(events) /\ CalledBack(Head(events))
  <2>1. PICK e : e = Head(events)
    OBVIOUS
  <2>2. e \in Events /\ Removed(events, e, events') /\ events' \in Seq(Events)
    BY Zenon, <1>0, <1>3, <2>1, TailFacts
  <2>3. e.type = "endpoint" /\ CalledBack(e)
    BY Zenon, <1>3, <2>1 DEF CalledBack
  <2>4. HandleEndpoint(e)
    <3>1. events' # events
      <4>1. Len(events') = Len(events) - 1 /\ Len(events) \in Nat
        BY Zenon, <2>2 DEF Removed
      <4> QED BY <4>1
    <3>2. HandleCommand(e) \/ HandleControl(e) \/ HandleEndpoint(e) \/ HandleFatal(e)
      BY Zenon, <1>3, <2>1, <3>1, HandlerCases
    <3> QED BY Zenon, <2>3, <3>2 DEF HandleCommand, HandleControl, HandleFatal
  <2>5. Taken(e)
    BY Zenon, <1>3, <2>1, <2>2, <2>4 DEF Taken
  <2>6. 1 \in DOMAIN events /\ events[1] = e /\ IsEndpoint(1)
    BY Zenon, <2>2, <2>3 DEF Removed, IsEndpoint
  <2>7. e.dev \in Outstanding /\ e.n = ep[e.dev].req
    BY Zenon, <2>6 DEF TransfersAreRequests, Matched, IsEndpoint
  <2> QED BY Zenon, <2>3, <2>5, <2>7 DEF CalledBack, Renews, Drops
<1> QED BY Zenon, <1>1, <1>2, <1>3, RequestCases

\* The set of outstanding requests after each kind of step.
LEMMA OutstandingAfter ==
  ASSUME TypeOK
  PROVE  /\ SameRequests => Outstanding' = Outstanding
         /\ \A d : Enqueues(d) => Outstanding' = Outstanding \cup {d}
         /\ \A e : Renews(e) => Outstanding' = Outstanding
         /\ \A e : Drops(e) => Outstanding' = Outstanding \ {e.dev}
<1>0. nreq \in Nat /\ nreq + 1 # None
  BY DEF TypeOK, EndpointType, None
<1>1. SameRequests => Outstanding' = Outstanding
  BY Zenon DEF SameRequests, Outstanding
<1>2. ASSUME NEW d, Enqueues(d) PROVE Outstanding' = Outstanding \cup {d}
  BY Zenon, <1>0, <1>2 DEF Enqueues, Queued, Outstanding
<1>3. ASSUME NEW e, Renews(e) PROVE Outstanding' = Outstanding
  BY Zenon, <1>0, <1>3 DEF Renews, Queued, Outstanding
<1>4. ASSUME NEW e, Drops(e) PROVE Outstanding' = Outstanding \ {e.dev}
  BY Zenon, <1>4 DEF Drops, Left, Outstanding
<1> QED BY Zenon, <1>1, <1>2, <1>3, <1>4

\* Every request is outstanding or has had its callback.
LEMMA RequestsOnceStep ==
  ASSUME DevicesCounted, TypeOK, RequestsOnce, TransfersAreRequests, OneAfterTheOther, [Next]_vars
  PROVE  RequestsOnce'
<1>0. /\ nreq \in Nat /\ called \in Seq([req : Nat, trb : Nat])
      /\ Outstanding \in SUBSET Devs /\ \A d \in Devs : ep[d].req \in Nat
  BY Zenon DEF TypeOK, EndpointType, Outstanding
<1>c. \A i \in DOMAIN called : called[i].req \in Nat /\ called[i].trb \in Nat
  <2>1. \A i \in DOMAIN called : called[i] \in [req : Nat, trb : Nat]
    BY Zenon, <1>0, MemberFacts
  <2> QED BY Zenon, <2>1
<1>1. CASE SameRequests
  <2>1. Outstanding' = Outstanding
    BY Zenon, <1>1, OutstandingAfter
  <2> QED BY <1>0, <1>1, <2>1 DEF RequestsOnce, SameRequests
<1>2. CASE UNCHANGED <<ep, nreq, called>>
  BY Zenon, <1>2 DEF RequestsOnce, Outstanding
<1>3. ASSUME NEW d, Enqueues(d) PROVE RequestsOnce'
  <2>1. /\ Outstanding' = Outstanding \cup {d} /\ nreq' = nreq + 1 /\ called' = called
        /\ ep'[d].req = nreq + 1 /\ d \notin Outstanding /\ d \in Devs
        /\ \A x \in Outstanding : x # d /\ ep'[x].req = ep[x].req
    BY Zenon, <1>0, <1>3, OutstandingAfter DEF Enqueues, Queued
  <2>2. nreq' = Len(called') + Cardinality(Outstanding')
    <3>1. Cardinality(Outstanding') = Cardinality(Outstanding) + 1 /\ Cardinality(Outstanding) \in Nat
      BY Zenon, <1>0, <2>1 DEF DevicesCounted
    <3>2. Len(called) \in Nat
      BY <1>0
    <3> QED BY <2>1, <3>1, <3>2 DEF RequestsOnce
  <2>3. ASSUME NEW i \in DOMAIN called'
        PROVE  /\ called'[i].req = called'[i].trb /\ called'[i].req <= nreq'
               /\ \A j \in DOMAIN called' : called'[i].req = called'[j].req => i = j
               /\ \A x \in Outstanding' : ep'[x].req # called'[i].req
    BY <1>0, <1>c, <2>1 DEF RequestsOnce
  <2>4. ASSUME NEW x \in Outstanding'
        PROVE  ep'[x].req <= nreq' /\ \A e \in Outstanding' : ep'[x].req = ep'[e].req => x = e
    BY <1>0, <2>1 DEF RequestsOnce
  <2> QED BY Zenon, <2>2, <2>3, <2>4 DEF RequestsOnce
<1>4. ASSUME NEW e, Renews(e) \/ Drops(e) PROVE RequestsOnce'
  <2> DEFINE d == e.dev
             c == [req |-> ep[d].req, trb |-> e.n]
  <2>1. d \in Outstanding /\ d \in Devs /\ e.n = ep[d].req /\ called' = Append(called, c)
    BY Zenon, <1>4 DEF Renews, Drops, CalledBack
  <2>2. c \in [req : Nat, trb : Nat] /\ c.req = ep[d].req /\ c.trb = ep[d].req
    BY Zenon, <1>0, <2>1
  <2> HIDE DEF c, d
  <2>3. Appended(called, c, called')
    BY Zenon, <1>0, <2>1, <2>2, AppendFacts
  <2>4. \A i \in DOMAIN called' : \/ i \in DOMAIN called /\ called'[i] = called[i]
                                  \/ i = Len(called) + 1 /\ called'[i] = c
    BY Zenon, <2>3 DEF Appended
  <2>5. \A x \in Outstanding \ {d} : ep'[x].req = ep[x].req /\ ep[x].req # ep[d].req
    <3>1. \A x \in Devs \ {d} : ep'[x] = ep[x]
      BY Zenon, <1>4 DEF Renews, Drops, Left, Queued, d
    <3> QED BY Zenon, <1>0, <2>1, <3>1 DEF RequestsOnce
  <2>6. ASSUME NEW i \in DOMAIN called', NEW j \in DOMAIN called', called'[i].req = called'[j].req
        PROVE  i = j
    BY <2>1, <2>2, <2>4, <2>6 DEF RequestsOnce
  <2>7. ASSUME NEW i \in DOMAIN called'
        PROVE  /\ called'[i].req = called'[i].trb /\ called'[i].req <= nreq /\ called'[i].req \in Nat
               /\ \A x \in Outstanding \ {d} : ep'[x].req # called'[i].req
    BY <1>0, <1>c, <2>1, <2>2, <2>4, <2>5 DEF RequestsOnce
  <2>8. Len(called') = Len(called) + 1 /\ Len(called) \in Nat /\ Cardinality(Outstanding) \in Nat
    BY Zenon, <1>0, <2>3 DEF Appended, DevicesCounted
  <2>9. CASE Drops(e)
    <3>1. Outstanding' = Outstanding \ {d} /\ nreq' = nreq
      BY Zenon, <2>9, OutstandingAfter DEF Drops, Left, d
    <3>2. Cardinality(Outstanding') = Cardinality(Outstanding) - 1
      BY Zenon, <1>0, <2>1, <3>1 DEF DevicesCounted
    <3>3. nreq' = Len(called') + Cardinality(Outstanding')
      BY <2>8, <3>1, <3>2 DEF RequestsOnce
    <3>4. ASSUME NEW x \in Outstanding'
          PROVE  ep'[x].req <= nreq' /\ \A y \in Outstanding' : ep'[x].req = ep'[y].req => x = y
      BY <2>5, <3>1 DEF RequestsOnce
    <3> QED BY Zenon, <2>6, <2>7, <3>1, <3>3, <3>4 DEF RequestsOnce
  <2>10. CASE Renews(e)
    <3>1. Outstanding' = Outstanding /\ nreq' = nreq + 1 /\ ep'[d].req = nreq + 1
      BY Zenon, <2>10, OutstandingAfter DEF Renews, Queued, d
    <3>3. nreq' = Len(called') + Cardinality(Outstanding')
      BY <2>8, <3>1 DEF RequestsOnce
    <3>4. ASSUME NEW x \in Outstanding'
          PROVE  ep'[x].req <= nreq' /\ \A y \in Outstanding' : ep'[x].req = ep'[y].req => x = y
      <4>1. \A y \in Outstanding \ {d} : ep'[y].req <= nreq /\ ep'[y].req \in Nat
        BY Zenon, <1>0, <2>5 DEF RequestsOnce
      <4>2. \A y, z \in Outstanding \ {d} : ep'[y].req = ep'[z].req => y = z
        BY <2>5 DEF RequestsOnce
      <4> QED BY <1>0, <3>1, <4>1, <4>2
    <3>5. ASSUME NEW i \in DOMAIN called'
          PROVE  called'[i].req <= nreq' /\ \A x \in Outstanding' : ep'[x].req # called'[i].req
      BY <1>0, <2>7, <3>1
    <3> QED BY Zenon, <2>6, <2>7, <3>3, <3>4, <3>5 DEF RequestsOnce
  <2> QED BY Zenon, <1>4, <2>9, <2>10
<1> QED BY Zenon, <1>1, <1>2, <1>3, <1>4, RequestSteps

\* Device d has no transfer in flight.
Free(es, rs, d) ==
  /\ \A i \in DOMAIN es : es[i].type = "endpoint" => es[i].dev # d
  /\ \A i \in DOMAIN rs : rs[i].dev # d

\* The request of a device without a transfer may change.
LEMMA MatchedOthers ==
  ASSUME NEW es, NEW rs, NEW O, NEW r, NEW O2, NEW r2, NEW d, Matched(es, rs, O, r),
         Free(es, rs, d), \A x \in O \ {d} : x \in O2 /\ r2[x].req = r[x].req
  PROVE  Matched(es, rs, O2, r2)
BY Zenon DEF Matched, Free

\* A request is queued for a device that has no transfer in flight.
LEMMA MatchedQueued ==
  ASSUME NEW es, NEW rs, NEW O, NEW r, NEW t, NEW rs2, Matched(es, rs, O, r),
         Free(es, rs, t.dev), Appended(rs, t, rs2), t.dev \in O, r[t.dev].req = t.n
  PROVE  Matched(es, rs2, O, r)
<1>1. \A i \in DOMAIN rs2 : \/ i \in DOMAIN rs /\ rs2[i] = rs[i] /\ rs[i].dev # t.dev
                            \/ i = Len(rs) + 1 /\ rs2[i] = t
  BY Zenon DEF Appended, Free
<1>2. \A i \in DOMAIN es : es[i].type = "endpoint" => es[i].dev # t.dev
  BY Zenon DEF Free
<1> QED BY <1>1, <1>2 DEF Matched

\* The first event is taken: its device has no transfer left.
LEMMA MatchedTaken ==
  ASSUME NEW es, NEW rs, NEW O, NEW r, NEW e, NEW t, Matched(es, rs, O, r), Removed(es, e, t)
  PROVE  /\ Matched(t, rs, O, r)
         /\ e.type = "endpoint" => Free(t, rs, e.dev)
<1>1. \A i \in DOMAIN t : i + 1 \in DOMAIN es /\ t[i] = es[i + 1] /\ i \in Nat /\ i + 1 # 1
  BY Zenon DEF Removed
<1>2. \A i, j \in DOMAIN t : i + 1 = j + 1 => i = j
  BY <1>1
<1>3. ASSUME NEW i \in DOMAIN t, t[i].type = "endpoint"
      PROVE  /\ t[i].dev \in O /\ r[t[i].dev].req = t[i].n
             /\ \A j \in DOMAIN t : t[j].type = "endpoint" /\ t[i].dev = t[j].dev => i = j
             /\ \A j \in DOMAIN rs : rs[j].dev # t[i].dev
  BY <1>1, <1>2, <1>3 DEF Matched
<1>4. Matched(t, rs, O, r)
  BY Zenon, <1>3 DEF Matched
<1>5. ASSUME e.type = "endpoint" PROVE Free(t, rs, e.dev)
  <2>1. 1 \in DOMAIN es /\ es[1] = e
    BY Zenon DEF Removed
  <2> QED BY <1>1, <1>5, <2>1 DEF Matched, Free
<1> QED BY Zenon, <1>4, <1>5

\* An event of another kind is posted.
LEMMA MatchedPosted ==
  ASSUME NEW es, NEW rs, NEW O, NEW r, NEW e, NEW t, Matched(es, rs, O, r),
         Appended(es, e, t), e.type # "endpoint"
  PROVE  Matched(t, rs, O, r)
<1>1. \A i \in DOMAIN t : t[i].type = "endpoint" => i \in DOMAIN es /\ t[i] = es[i]
  BY Zenon DEF Appended
<1> QED BY <1>1 DEF Matched

\* A transfer completes, of whichever endpoint.
LEMMA MatchedCompleted ==
  ASSUME NEW es, NEW rs \in Seq(Transfers), NEW O, NEW r, NEW e, NEW t, NEW k \in DOMAIN rs,
         Matched(es, rs, O, r), Appended(es, e, t), e.type = "endpoint",
         e.n = rs[k].n, e.dev = rs[k].dev
  PROVE  Matched(t, [j \in 1..(Len(rs) - 1) |-> rs[IF j < k THEN j ELSE j + 1]], O, r)
<1> DEFINE m == [j \in 1..(Len(rs) - 1) |-> IF j < k THEN j ELSE j + 1]
           rs2 == [j \in 1..(Len(rs) - 1) |-> rs[IF j < k THEN j ELSE j + 1]]
<1>1. \A j \in DOMAIN rs2 : m[j] \in DOMAIN rs /\ m[j] # k /\ rs2[j] = rs[m[j]]
  OBVIOUS
<1>2. \A i, j \in DOMAIN rs2 : m[i] = m[j] => i = j
  OBVIOUS
<1> HIDE DEF m, rs2
<1>3. \A i \in DOMAIN t : \/ i \in DOMAIN es /\ t[i] = es[i]
                          \/ i = Len(es) + 1 /\ t[i] = e
  BY Zenon DEF Appended
<1>4. ASSUME NEW i \in DOMAIN rs2
      PROVE  /\ rs2[i].dev \in O /\ r[rs2[i].dev].req = rs2[i].n
             /\ \A j \in DOMAIN rs2 : rs2[i].dev = rs2[j].dev => i = j
             /\ rs2[i].dev # e.dev
  BY <1>1, <1>2 DEF Matched
<1>5. ASSUME NEW i \in DOMAIN t, t[i].type = "endpoint"
      PROVE  /\ t[i].dev \in O /\ r[t[i].dev].req = t[i].n
             /\ \A j \in DOMAIN t : t[j].type = "endpoint" /\ t[i].dev = t[j].dev => i = j
             /\ \A j \in DOMAIN rs2 : rs2[j].dev # t[i].dev
  <2>1. CASE i \in DOMAIN es /\ t[i] = es[i]
    BY <1>1, <1>3, <1>5, <2>1 DEF Matched
  <2>2. CASE i = Len(es) + 1 /\ t[i] = e
    BY <1>3, <1>4, <1>5, <2>2 DEF Matched
  <2> QED BY Zenon, <1>3, <2>1, <2>2
<1>6. Matched(t, rs2, O, r)
  BY Zenon, <1>4, <1>5 DEF Matched
<1> QED BY Zenon, <1>6 DEF rs2

\* A device without a request has no transfer in flight.
LEMMA FreeOfTransfers ==
  ASSUME TransfersAreRequests, NEW d, d \notin Outstanding
  PROVE  Free(events, epring, d)
BY Zenon DEF TransfersAreRequests, Matched, Free

\* Transfers in flight stay those of the outstanding requests.
LEMMA TransfersAreRequestsStep ==
  ASSUME TypeOK, TransfersAreRequests, OneAfterTheOther, [Next]_vars
  PROVE  TransfersAreRequests'
<1>0. nreq \in Nat /\ epring \in Seq(Transfers)
  BY Zenon DEF TypeOK, EndpointType, RingType
<1>1. Matched(events, epring, Outstanding, ep)
  BY Zenon DEF TransfersAreRequests
<1>2. ASSUME Matched(events', epring', Outstanding', ep') PROVE TransfersAreRequests'
  BY Zenon, <1>2 DEF TransfersAreRequests
<1>3. ASSUME NEW d, NEW es, Queued(d), d \in Devs, Free(es, epring, d),
             Matched(es, epring, Outstanding, ep), Outstanding' = Outstanding \cup {d}
      PROVE  Matched(es, epring', Outstanding', ep')
  <2>1. PICK t : t = [dev |-> d, n |-> nreq + 1]
    BY Zenon
  <2>2. t \in Transfers /\ t.dev = d /\ t.n = nreq + 1 /\ epring' = Append(epring, t) /\ ep'[d].req = t.n
    BY <1>0, <1>3, <2>1 DEF Transfers, Queued
  <2>3. Appended(epring, t, epring')
    BY Zenon, <1>0, <2>2, AppendFacts
  <2>4. \A x \in Outstanding \ {d} : x \in Outstanding' /\ ep'[x].req = ep[x].req
    BY Zenon, <1>3 DEF Queued, Outstanding
  <2>5. Matched(es, epring, Outstanding', ep')
    BY Zenon, <1>3, <2>4, MatchedOthers
  <2> QED BY Zenon, <1>3, <2>2, <2>3, <2>5, MatchedQueued
<1>4. ASSUME \A d \in Devs : ep'[d].req = ep[d].req, NEW es, NEW rs, Matched(es, rs, Outstanding, ep)
      PROVE  Matched(es, rs, Outstanding', ep')
  <2>1. Outstanding' = Outstanding /\ \A x \in Outstanding : ep'[x].req = ep[x].req
    BY Zenon, <1>4 DEF Outstanding
  <2> QED BY Zenon, <1>4, <2>1 DEF Matched
<1>5. CASE Process
  <2>0. events' = events
    BY Zenon, <1>5, ProcessCases
  <2>1. CASE Enqueues(dev)
    <3>1. /\ dev \in Devs /\ Queued(dev) /\ Outstanding' = Outstanding \cup {dev}
          /\ Free(events, epring, dev)
      BY Zenon, <2>1, FreeOfTransfers, OutstandingAfter DEF Enqueues
    <3> QED BY Zenon, <1>1, <1>2, <1>3, <2>0, <3>1
  <2>2. CASE SameRequests
    BY Zenon, <1>1, <1>2, <1>4, <2>0, <2>2 DEF SameRequests
  <2>3. CASE UNCHANGED <<ep, nreq, called>>
    <3>1. epring' = epring
      <4>1. CASE xhcihcd_submit_endp_xfer_request
        BY <1>0, <2>3, <4>1, Submits DEF Queued
      <4>2. CASE xhcihcd_command_execute \/ CommandReturns \/ xhcihcd_control_transfer_hw
                   \/ ControlReturns \/ GiveUp
        BY Zenon, <4>2 DEF xhcihcd_command_execute, CommandReturns, xhcihcd_control_transfer_hw,
                    ControlReturns, GiveUp, ringvars
      <4> QED BY Zenon, <1>5, <4>1, <4>2, ProcessCases DEF Queueing, ringvars
    <3> QED BY Zenon, <1>1, <1>2, <1>4, <2>0, <2>3, <3>1
  <2>4. ASSUME NEW e, Taken(e), Renews(e) \/ Drops(e) PROVE FALSE
    <3>1. Len(events') = Len(events) - 1 /\ Len(events) \in Nat
      BY Zenon, <2>4 DEF Taken, Removed
    <3> QED BY <2>0, <3>1
  <2> QED BY Zenon, <2>1, <2>2, <2>3, <2>4, RequestSteps
<1>6. CASE Quiet
  BY Zenon, <1>1, <1>2, <1>4, <1>6 DEF Quiet
<1>7. ASSUME NEW e, Taken(e) PROVE TransfersAreRequests'
  <2>0. e \in Events /\ Removed(events, e, events')
    BY Zenon, <1>7 DEF Taken
  <2>1. Matched(events', epring, Outstanding, ep) /\ (e.type = "endpoint" => Free(events', epring, e.dev))
    BY Zenon, <1>1, <2>0, MatchedTaken
  <2>2. CASE UNCHANGED <<ep, epring>>
    BY Zenon, <1>2, <1>4, <2>1, <2>2
  <2>3. CASE CalledBack(e)
    <3>1. /\ e.type = "endpoint" /\ e.dev \in Devs /\ e.dev \in Outstanding
          /\ Left(e.dev) \/ Queued(e.dev)
      BY Zenon, <2>3 DEF CalledBack, Outstanding
    <3>2. CASE Left(e.dev)
      <4>1. \A x \in Outstanding \ {e.dev} : x \in Outstanding' /\ ep'[x].req = ep[x].req
        BY Zenon, <3>2 DEF Left, Outstanding
      <4>2. epring' = epring
        BY Zenon, <3>2 DEF Left
      <4> QED BY Zenon, <1>2, <2>1, <3>1, <4>1, <4>2, MatchedOthers
    <3>3. CASE Queued(e.dev)
      <4>1. nreq + 1 # None
        BY <1>0 DEF None
      <4>2. Outstanding' = Outstanding \cup {e.dev}
        BY Zenon, <3>1, <3>3, <4>1 DEF Queued, Outstanding
      <4> QED BY Zenon, <1>2, <1>3, <2>1, <3>1, <3>3, <4>2
    <3> QED BY Zenon, <3>1, <3>2, <3>3
  <2>4. CASE HandleEndpoint(e)
    BY Zenon, <2>0, <2>2, <2>3, <2>4, EndpointHandled
  <2> QED BY Zenon, <1>7, <2>2, <2>4 DEF Taken, HandleCommand, HandleControl, HandleFatal
<1>8. ASSUME NEW e, OtherPosted(e) \/ CommandPosted(e) \/ ControlPosted(e) PROVE TransfersAreRequests'
  <2>1. Appended(events, e, events') /\ e.type # "endpoint" /\ UNCHANGED <<ep, epring>>
    BY Zenon, <1>8, ControllerFrame DEF OtherPosted, CommandPosted, ControlPosted, Posted, ringvars
  <2>2. Matched(events', epring, Outstanding, ep)
    BY Zenon, <1>1, <2>1, MatchedPosted
  <2> QED BY Zenon, <1>2, <1>4, <2>1, <2>2
<1>9. ASSUME NEW i, NEW e, EndpointPosted(i, e) PROVE TransfersAreRequests'
  <2>1. Appended(events, e, events') /\ ep' = ep
    BY Zenon, <1>9, ControllerFrame DEF EndpointPosted, Posted
  <2>2. Matched(events', epring', Outstanding, ep)
    BY SMTT(20), <1>0, <1>1, <1>9, <2>1, MatchedCompleted DEF EndpointPosted
  <2> QED BY Zenon, <1>2, <1>4, <2>1, <2>2
<1> QED BY Zenon, <1>5, <1>6, <1>7, <1>8, <1>9, StepCases

\* The event of an interrupt endpoint always finds its request.
LEMMA EndpointEventIsCalledBack ==
  ASSUME TypeOK, TransfersAreRequests, OneAfterTheOther, NEW e, Taken(e), e.type = "endpoint"
  PROVE  CalledBack(e)
<1>1. 1 \in DOMAIN events /\ events[1] = e /\ e \in Events
  BY Zenon DEF Taken, Removed
<1>2. e.dev \in Outstanding
  BY Zenon, <1>1 DEF TransfersAreRequests, Matched
<1>3. slot[e.dev] = "in_use" /\ ep[e.dev].req # None
  BY Zenon, <1>2 DEF OneAfterTheOther, Outstanding
<1>4. HandleEndpoint(e)
  BY Zenon DEF Taken, HandleCommand, HandleControl, HandleFatal
<1> QED BY Zenon, <1>1, <1>3, <1>4, EndpointHandled

\* What HaltsAreTold says of device d.
Told(d) ==
  /\ ep[d].configured
  /\ \A i \in DOMAIN events : IsEndpoint(i) /\ events[i].dev = d => events[i].code = "error"
  /\ \/ d \notin Outstanding /\ ep[d].halted
     \/ \E i \in DOMAIN events : IsEndpoint(i) /\ events[i].dev = d

\* A halted endpoint has no request, or the event that says so is still to come.
LEMMA HaltsAreToldStep ==
  ASSUME TypeOK, TransfersAreRequests, HaltsAreTold, OneAfterTheOther, [Next]_vars
  PROVE  HaltsAreTold'
<1>0. /\ events \in Seq(Events) /\ ep \in [Devs -> EpRecord] /\ dev \in Devs
  BY Zenon DEF TypeOK, RingType, EndpointType, ProcessType, EpRecord
<1>1. SUFFICES ASSUME NEW d \in Devs, <<d, 1>> \in stalled' PROVE Told(d)'
  BY Zenon DEF HaltsAreTold, Told, IsEndpoint
<1>2. <<d, 1>> \in stalled => Told(d)
  BY Zenon DEF HaltsAreTold, Told
<1>3. ASSUME <<d, 1>> \in stalled, events' = events, ep'[d] = ep[d] PROVE Told(d)'
  BY Zenon, <1>1, <1>2, <1>3 DEF Told, Outstanding, IsEndpoint
<1>4. CASE Process
  <2>0. events' = events /\ <<d, 1>> \in stalled
    BY Zenon, <1>1, <1>4, ProcessCases
  <2>1. Told(d) /\ ep[d].configured
    BY Zenon, <1>2, <2>0 DEF Told
  <2>2. CASE xhcihcd_submit_endp_xfer_request
    <3>1. CASE ep' = ep
      BY Zenon, <1>3, <2>0, <3>1
    <3>2. CASE ~ep[dev].configured /\ \A x \in Devs \ {dev} : ep'[x] = ep[x]
      BY Zenon, <1>3, <2>0, <2>1, <3>2
    <3>3. CASE ep[dev].req = None /\ Queued(dev)
      <4>1. dev \notin Outstanding /\ ~ep[dev].halted
        BY Zenon, <3>3 DEF Outstanding, Queued
      <4>2. Free(events, epring, dev)
        BY Zenon, <4>1, FreeOfTransfers
      <4>3. d # dev
        BY Zenon, <2>1, <4>1, <4>2 DEF Told, Free, IsEndpoint
      <4> QED BY Zenon, <1>3, <2>0, <3>3, <4>3 DEF Queued
    <3> QED BY Zenon, <2>2, <3>1, <3>2, <3>3, Submits
  <2>3. CASE ep' = [ep EXCEPT ![dev].configured = TRUE]
    <3>1. ep'[d].configured /\ ep'[d].halted = ep[d].halted /\ ep'[d].req = ep[d].req
      BY Zenon, <1>0, <2>1, <2>3 DEF EpRecord
    <3> QED BY Zenon, <2>0, <2>1, <3>1 DEF Told, Outstanding, IsEndpoint
  <2>4. CASE ep' = ep
    BY Zenon, <1>3, <2>0, <2>4
  <2>5. ASSUME Handler, events # <<>>, events' = Tail(events) PROVE FALSE
    <3>1. Len(events') = Len(events) - 1 /\ Len(events) \in Nat
      BY Zenon, <1>0, <2>5, TailFacts DEF Removed
    <3> QED BY <2>0, <3>1
  <2> QED BY Zenon, <2>2, <2>3, <2>4, <2>5, RequestCases
<1>5. CASE Quiet
  BY Zenon, <1>1, <1>3, <1>5 DEF Quiet
<1>6. ASSUME NEW e, Taken(e) PROVE Told(d)'
  <2>0. Removed(events, e, events') /\ stalled' = stalled
    BY Zenon, <1>6, HandlerFrame DEF Taken
  <2>1. Told(d)
    BY Zenon, <1>1, <1>2, <2>0
  <2>2. \A i \in DOMAIN events' : i + 1 \in DOMAIN events /\ events'[i] = events[i + 1]
    BY Zenon, <2>0 DEF Removed
  <2>3. \A i \in DOMAIN events' : IsEndpoint(i)' /\ events'[i].dev = d => events'[i].code = "error"
    BY <2>1, <2>2 DEF Told, IsEndpoint
  <2>4. CASE e.type = "endpoint" /\ e.dev = d
    <3>1. CalledBack(e)
      BY Zenon, <1>6, <2>4, EndpointEventIsCalledBack
    <3>2. e.code = "error"
      BY Zenon, <2>0, <2>1, <2>4 DEF Told, Removed, IsEndpoint
    <3>3. Left(d)
      BY Zenon, <2>4, <3>1, <3>2 DEF CalledBack
    <3>4. ep'[d].configured /\ ep'[d].halted /\ d \notin Outstanding'
      BY Zenon, <2>1, <3>3 DEF Left, Told, Outstanding
    <3> QED BY Zenon, <2>3, <3>4 DEF Told
  <2>5. CASE ~(e.type = "endpoint" /\ e.dev = d)
    <3>1. ep'[d] = ep[d]
      <4>1. CASE e.type = "endpoint"
        BY Zenon, <1>6, <2>5, <4>1, EndpointEventIsCalledBack DEF CalledBack, Left, Queued
      <4>2. CASE e.type # "endpoint"
        BY Zenon, <1>6, <4>2 DEF Taken, HandleCommand, HandleControl, HandleEndpoint, HandleFatal
      <4> QED BY Zenon, <4>1, <4>2
    <3>2. ASSUME NEW i \in DOMAIN events, IsEndpoint(i), events[i].dev = d
          PROVE  \E j \in DOMAIN events' : IsEndpoint(j)' /\ events'[j].dev = d
      <4>1. i # 1
        BY Zenon, <2>0, <2>5, <3>2 DEF Removed, IsEndpoint
      <4>2. i - 1 \in DOMAIN events' /\ events'[i - 1] = events[i]
        BY Zenon, <2>0, <4>1 DEF Removed
      <4> QED BY Zenon, <3>2, <4>2 DEF IsEndpoint
    <3> QED BY Zenon, <2>1, <2>3, <3>1, <3>2 DEF Told, Outstanding
  <2> QED BY Zenon, <2>4, <2>5
<1>7. ASSUME NEW e, OtherPosted(e) \/ CommandPosted(e) \/ ControlPosted(e) PROVE Told(d)'
  <2>1. Appended(events, e, events') /\ e.type # "endpoint" /\ ep' = ep /\ <<d, 1>> \in stalled
    BY Zenon, <1>1, <1>7, ControllerFrame DEF OtherPosted, CommandPosted, ControlPosted, Posted
  <2>2. \A i \in DOMAIN events' : IsEndpoint(i)' => i \in DOMAIN events /\ events'[i] = events[i]
    BY Zenon, <2>1 DEF Appended, IsEndpoint
  <2>3. \A i \in DOMAIN events : i \in DOMAIN events' /\ events'[i] = events[i]
    BY Zenon, <2>1 DEF Appended
  <2> QED BY Zenon, <1>2, <2>1, <2>2, <2>3 DEF Told, Outstanding, IsEndpoint
<1>8. ASSUME NEW k, NEW e, EndpointPosted(k, e) PROVE Told(d)'
  <2>1. /\ Appended(events, e, events') /\ ep' = ep /\ e.type = "endpoint"
        /\ k \in DOMAIN epring /\ e.dev = epring[k].dev
        /\ <<e.dev, 1>> \notin stalled
        /\ stalled' = IF e.code = "error" THEN stalled \cup {<<e.dev, 1>>} ELSE stalled
    BY Zenon, <1>8, ControllerFrame DEF EndpointPosted, Posted
  <2>2. \A i \in DOMAIN events' : \/ i \in DOMAIN events /\ events'[i] = events[i]
                                  \/ i = Len(events) + 1 /\ events'[i] = e
    BY Zenon, <2>1 DEF Appended
  <2>3. \A i \in DOMAIN events : i \in DOMAIN events' /\ events'[i] = events[i]
    BY Zenon, <2>1 DEF Appended
  <2>4. CASE d = e.dev
    <3>1. e.code = "error"
      BY Zenon, <1>1, <2>1, <2>4
    <3>2. \A i \in DOMAIN events : ~(IsEndpoint(i) /\ events[i].dev = d)
      BY <2>1, <2>4 DEF TransfersAreRequests, Matched, IsEndpoint
    <3>3. e.dev \in Outstanding
      BY Zenon, <2>1 DEF TransfersAreRequests, Matched
    <3>4. ep'[d].configured
      BY Zenon, <2>1, <2>4, <3>3 DEF OneAfterTheOther
    <3>5. Len(events) + 1 \in DOMAIN events' /\ events'[Len(events) + 1] = e
      BY Zenon, <2>1 DEF Appended
    <3> QED BY Zenon, <2>1, <2>2, <2>4, <3>1, <3>2, <3>4, <3>5 DEF Told, IsEndpoint
  <2>5. CASE d # e.dev
    <3>1. <<d, 1>> \in stalled
      BY Zenon, <1>1, <2>1, <2>5
    <3> QED BY <1>2, <2>1, <2>2, <2>3, <2>5, <3>1 DEF Told, Outstanding, IsEndpoint
  <2> QED BY Zenon, <2>4, <2>5
<1> QED BY Zenon, <1>4, <1>5, <1>6, <1>7, <1>8, StepCases

\* Devices are enumerated one after the other.
LEMMA OneAfterTheOtherStep ==
  ASSUME TypeOK, TransfersAreRequests, OneAfterTheOther, [Next]_vars
  PROVE  OneAfterTheOther'
<1>0. /\ ep \in [Devs -> EpRecord] /\ dev \in Devs /\ NDevs \in Nat
      /\ slot \in [Devs -> {"none", "slot", "in_use"}]
  BY Zenon, XhciAssumption DEF TypeOK, EndpointType, ProcessType, EpRecord
<1>1. ASSUME UNCHANGED <<ep, slot, dev, pc>> PROVE OneAfterTheOther'
  BY Zenon, <1>1 DEF OneAfterTheOther, Outstanding
<1>2. ASSUME UNCHANGED <<ep, slot>>, NextDevice PROVE OneAfterTheOther'
  BY <1>0, <1>2 DEF NextDevice, OneAfterTheOther, Outstanding, Devs
<1>3. CASE Process
  <2>1. CASE xhcihcd_reset \/ ResetDone \/ xhcihcd_start \/ Started \/ PortReset
    BY Zenon, <2>1
    DEF xhcihcd_reset, ResetDone, xhcihcd_start, Started, PortReset, Runs, drivervars,
                OneAfterTheOther, Outstanding
  <2>2. CASE xhcihcd_command_execute \/ xhcihcd_control_transfer_hw \/ GiveUp
    BY Zenon, <1>1, <2>2
    DEF xhcihcd_command_execute, xhcihcd_control_transfer_hw, GiveUp, drivervars
  <2>3. CASE ControlReturns
    BY Zenon, <1>1, <2>3 DEF ControlReturns, ControlFailed
  <2>4. CASE Bind
    <3>1. pc = "control" /\ UNCHANGED <<ep, slot>> /\ (NextDevice \/ (pc' = "submit" /\ dev' = dev))
      BY Zenon, <2>4 DEF Bind, Runs, drivervars
    <3> QED BY Zenon, <1>2, <3>1 DEF OneAfterTheOther, Outstanding
  <2>5. CASE CommandReturns
    <3>0. pc \in {"enable", "address", "configure"} /\ ~ep[dev].configured /\ dev \notin Outstanding
      BY Zenon, <2>5 DEF CommandReturns, OneAfterTheOther
    <3>1. CASE /\ pc \in {"enable", "address"} /\ UNCHANGED <<dev, ep>>
               /\ \/ pc' = "address" /\ slot' = [slot EXCEPT ![dev] = "slot"]
                  \/ pc' = "control" /\ slot' = [slot EXCEPT ![dev] = "in_use"]
      BY Zenon, <1>0, <3>0, <3>1 DEF OneAfterTheOther, Outstanding
    <3>2. CASE /\ pc = "configure" /\ pc' = "submit" /\ UNCHANGED <<dev, slot>>
               /\ ep' = [ep EXCEPT ![dev].configured = TRUE]
      <4>1. /\ ep'[dev].configured /\ ep'[dev].req = ep[dev].req
            /\ \A x \in Devs \ {dev} : ep'[x] = ep[x]
        BY Zenon, <1>0, <3>2 DEF EpRecord
      <4>2. Outstanding' = Outstanding
        BY Zenon, <4>1 DEF Outstanding
      <4> QED BY <1>0, <3>2, <4>1, <4>2 DEF OneAfterTheOther, Devs
    <3>3. CASE NextDevice /\ UNCHANGED <<slot, ep>>
      BY Zenon, <1>2, <3>3
    <3>4. CASE UNCHANGED <<pc, dev, slot, ep>>
      BY Zenon, <1>1, <3>4
    <3> QED BY Zenon, <2>5, <3>1, <3>2, <3>3, <3>4 DEF CommandReturns, CommandResult
  <2>6. CASE xhcihcd_submit_endp_xfer_request
    <3>0. pc = "submit" /\ slot' = slot /\ slot[dev] = "in_use"
      BY Zenon, <2>6, Submits DEF OneAfterTheOther
    <3>1. CASE /\ ~ep[dev].configured /\ \A x \in Devs \ {dev} : ep'[x] = ep[x]
               /\ ~ep'[dev].configured /\ ep'[dev].req = None /\ pc' = "configure" /\ dev' = dev
      BY Zenon, <1>0, <3>0, <3>1 DEF OneAfterTheOther, Outstanding, Devs
    <3>2. CASE ep[dev].configured /\ Queued(dev) /\ NextDevice
      <4>1. \A x \in Devs : ep'[x].configured = ep[x].configured
        BY Zenon, <3>2 DEF Queued
      <4>2. \A x \in Outstanding' : x = dev \/ x \in Outstanding
        BY Zenon, <3>2 DEF Queued, Outstanding
      <4>3. \A x \in Outstanding' : ep'[x].configured /\ slot'[x] = "in_use" /\ x \in Devs
        BY Zenon, <3>0, <3>2, <4>1, <4>2 DEF OneAfterTheOther, Outstanding
      <4> QED BY <1>0, <3>2, <4>1, <4>3 DEF OneAfterTheOther, NextDevice, Devs
    <3>3. CASE ep' = ep /\ NextDevice
      BY Zenon, <1>2, <3>0, <3>3
    <3> QED BY Zenon, <2>6, <3>1, <3>2, <3>3, Submits
  <2> QED BY Zenon, <1>3, <2>1, <2>2, <2>3, <2>4, <2>5, <2>6 DEF Process
<1>4. CASE Quiet
  BY Zenon, <1>1, <1>4 DEF Quiet
<1>5. ASSUME NEW e, Taken(e) PROVE OneAfterTheOther'
  <2>0. UNCHANGED <<pc, dev, slot>>
    BY Zenon, <1>5, HandlerFrame DEF Taken
  <2>1. CASE e.type = "endpoint"
    <3>1. CalledBack(e)
      BY Zenon, <1>5, <2>1, EndpointEventIsCalledBack
    <3>2. \A x \in Devs : ep'[x].configured = ep[x].configured
      BY Zenon, <3>1 DEF CalledBack, Left, Queued
    <3>3. \A x \in Outstanding' : x \in Outstanding
      BY Zenon, <3>1 DEF CalledBack, Left, Queued, Outstanding
    <3> QED BY Zenon, <1>0, <2>0, <3>2, <3>3 DEF OneAfterTheOther, Outstanding
  <2>2. CASE e.type # "endpoint"
    BY Zenon, <1>1, <1>5, <2>0, <2>2
    DEF Taken, HandleCommand, HandleControl, HandleEndpoint, HandleFatal
  <2> QED BY Zenon, <2>1, <2>2
<1>6. CASE Controller
  BY Zenon, <1>1, <1>6, ControllerFrame
<1> QED BY Zenon, <1>3, <1>4, <1>5, <1>6, StepCases
             DEF OtherPosted, CommandPosted, ControlPosted, EndpointPosted, Posted

----------------------------------------------------------------------------
(* Counting.                                                               *)

FST == INSTANCE FiniteSetTheorems

\* The instance is about the same finite sets and cardinalities.
LEMMA SameSets ==
  /\ \A S : FST!IsFiniteSet(S) <=> IsFiniteSet(S)
  /\ \A S : FST!Cardinality(S) = Cardinality(S)
<1>1. ASSUME NEW S PROVE FST!IsFiniteSet(S) <=> IsFiniteSet(S)
  BY Zenon DEF FST!IsFiniteSet, IsFiniteSet
<1>2. ASSUME NEW S PROVE FST!Cardinality(S) = Cardinality(S)
  BY Zenon DEF FST!Cardinality, Cardinality
<1> QED BY <1>1, <1>2, Zenon

\* What is used of finite sets.
LEMMA Finite ==
  /\ \A n \in Nat : \A S \in SUBSET (1..n) : IsFiniteSet(S)
  /\ \A S : IsFiniteSet(S) => Cardinality(S) \in Nat
  /\ \A S, x : IsFiniteSet(S) /\ x \notin S => Cardinality(S \cup {x}) = Cardinality(S) + 1
  /\ \A S, x : IsFiniteSet(S) /\ x \in S => IsFiniteSet(S \ {x}) /\ Cardinality(S \ {x}) = Cardinality(S) - 1
<1>1. ASSUME NEW n \in Nat, NEW S \in SUBSET (1..n) PROVE IsFiniteSet(S)
  <2>1. 1 \in Int /\ n \in Int
    OBVIOUS
  <2>2. FST!IsFiniteSet(1..n)
    BY <2>1, FST!FS_Interval, Zenon
  <2> QED BY <2>2, SameSets, FST!FS_Subset, Zenon
<1>2. ASSUME NEW S, IsFiniteSet(S) PROVE Cardinality(S) \in Nat
  BY <1>2, SameSets, FST!FS_CardinalityType, Zenon
<1>3. ASSUME NEW S, NEW x, IsFiniteSet(S), x \notin S PROVE Cardinality(S \cup {x}) = Cardinality(S) + 1
  BY <1>3, SameSets, FST!FS_AddElement, Zenon
<1>4. ASSUME NEW S, NEW x, IsFiniteSet(S), x \in S
      PROVE  IsFiniteSet(S \ {x}) /\ Cardinality(S \ {x}) = Cardinality(S) - 1
  BY <1>4, SameSets, FST!FS_RemoveElement, Zenon
<1> QED BY <1>1, <1>2, <1>3, <1>4, Zenon

\* Sets of places that differ by a shift are equally large.
LEMMA Shifted ==
  ASSUME NEW S \in SUBSET Nat, NEW T, IsFiniteSet(S), T = {i + 1 : i \in S}
  PROVE  Cardinality(T) = Cardinality(S)
<1> DEFINE F == [i \in S |-> i + 1]
<1>1. F \in [S -> T] /\ \A i \in S : F[i] = i + 1
  OBVIOUS
<1>2. \A a, b \in S : F[a] = F[b] => a = b
  BY <1>1
<1>3. \A t \in T : \E s \in S : F[s] = t
  BY Zenon, <1>1
<1> HIDE DEF F
<1>4. F \in FST!Bijection(S, T)
  <2>1. F \in FST!Injection(S, T)
    BY Zenon, <1>1, <1>2 DEF FST!Injection, FST!IsInjective
  <2>2. F \in FST!Surjection(S, T)
    BY Zenon, <1>1, <1>3 DEF FST!Surjection
  <2> QED BY <2>1, <2>2, Zenon DEF FST!Bijection
<1>5. FST!ExistsBijection(S, T)
  BY <1>4, Zenon DEF FST!ExistsBijection
<1> QED BY <1>5, SameSets, FST!FS_Bijection, Zenon

\* The commands among the events, as the ring grows and shrinks.
LEMMA CountingHolds == Counting
<1>1. ASSUME NEW s \in Seq(Events)
      PROVE  IsFiniteSet(CommandsOf(s)) /\ Cardinality(CommandsOf(s)) \in Nat
  <2>1. Len(s) \in Nat /\ CommandsOf(s) \in SUBSET (1..Len(s))
    BY DEF CommandsOf
  <2> QED BY <2>1, Finite, Zenon
<1>2. ASSUME NEW s \in Seq(Events), NEW e, NEW t, Appended(s, e, t)
      PROVE  Cardinality(CommandsOf(t)) = Cardinality(CommandsOf(s)) + IF e.type = "command" THEN 1 ELSE 0
  <2>1. CASE e.type = "command"
    <3>1. CommandsOf(t) = CommandsOf(s) \cup {Len(s) + 1} /\ Len(s) + 1 \notin CommandsOf(s)
      BY Zenon, <1>2, <2>1 DEF Appended, CommandsOf
    <3>2. Cardinality(CommandsOf(t)) = Cardinality(CommandsOf(s)) + 1
      BY <1>1, <3>1, Finite, Zenon
    <3> QED BY Zenon, <2>1, <3>2
  <2>2. CASE e.type # "command"
    <3>1. CommandsOf(t) = CommandsOf(s)
      BY Zenon, <1>2, <2>2 DEF Appended, CommandsOf
    <3> QED BY <1>1, <2>2, <3>1
  <2> QED BY Zenon, <2>1, <2>2
<1>3. ASSUME NEW s \in Seq(Events), NEW e, NEW t, Removed(s, e, t)
      PROVE  Cardinality(CommandsOf(t)) = Cardinality(CommandsOf(s)) - IF e.type = "command" THEN 1 ELSE 0
  <2>1. CommandsOf(t) \in SUBSET (1..(Len(s) - 1)) /\ Len(s) - 1 \in Nat /\ CommandsOf(t) \in SUBSET Nat
    BY <1>3 DEF Removed, CommandsOf
  <2>2. IsFiniteSet(CommandsOf(t))
    BY <2>1, Finite, Zenon
  <2>3. CommandsOf(s) \ {1} = {i + 1 : i \in CommandsOf(t)}
    <3>1. ASSUME NEW i \in CommandsOf(s) \ {1} PROVE i - 1 \in CommandsOf(t) /\ i = (i - 1) + 1
      BY Zenon, <1>3 DEF Removed, CommandsOf
    <3>2. ASSUME NEW i \in CommandsOf(t) PROVE i + 1 \in CommandsOf(s) \ {1}
      BY Zenon, <1>3 DEF Removed, CommandsOf
    <3> QED BY <3>1, <3>2
  <2>4. Cardinality(CommandsOf(s) \ {1}) = Cardinality(CommandsOf(t))
    BY <2>1, <2>2, <2>3, Shifted, Zenon
  <2>5. CASE e.type = "command"
    <3>1. 1 \in CommandsOf(s)
      BY <1>3, <2>5 DEF Removed, CommandsOf
    <3>2. Cardinality(CommandsOf(s) \ {1}) = Cardinality(CommandsOf(s)) - 1
      BY <1>1, <3>1, Finite, Zenon
    <3> QED BY <2>4, <2>5, <3>2
  <2>6. CASE e.type # "command"
    <3>1. CommandsOf(s) \ {1} = CommandsOf(s)
      BY Zenon, <1>3, <2>6 DEF Removed, CommandsOf
    <3>2. Cardinality(CommandsOf(t)) = Cardinality(CommandsOf(s)) /\ Cardinality(CommandsOf(s)) \in Nat
      BY <1>1, <2>4, <3>1, Zenon
    <3> QED BY <2>6, <3>2
  <2> QED BY Zenon, <2>5, <2>6
<1> QED BY <1>1, <1>2, <1>3, Zenon DEF Counting

\* Sets of devices are finite.
LEMMA DevicesCountedHolds == DevicesCounted
<1>1. NDevs \in Nat /\ Devs = 1..NDevs
  BY Zenon, XhciAssumption DEF Devs
<1>2. ASSUME NEW S \in SUBSET Devs PROVE IsFiniteSet(S)
  BY <1>1, Finite, Zenon
<1> QED BY <1>2, Finite, Zenon DEF DevicesCounted

----------------------------------------------------------------------------
(* The theorems.                                                           *)

\* Nothing is in flight before usb_init.
LEMMA XhciInvInit == Init => XhciInv
<1> SUFFICES ASSUME Init PROVE XhciInv
  OBVIOUS
<1>0. 1 \in Devs /\ NDevs \in Nat /\ Ring \in Nat \ {0, 1}
  BY XhciAssumption DEF Devs
<1>1. events = <<>> /\ cmdring = <<>> /\ ep0ring = <<>> /\ epring = <<>> /\ called = <<>>
  BY Zenon DEF Init
<1>2. TypeOK
  <2>1. ProcessType
    BY Zenon, <1>0 DEF Init, ProcessType, Steps
  <2>2. DriverType
    BY Zenon, <1>0 DEF Init, DriverType, None
  <2>3. EndpointType
    BY <1>0 DEF Init, EndpointType, None
  <2>4. RingType
    BY <1>1 DEF RingType
  <2> QED BY Zenon, <2>1, <2>2, <2>3, <2>4 DEF TypeOK
<1>3. IsFiniteSet({}) /\ Cardinality({}) = 0
  BY SameSets, FST!FS_EmptySet, Zenon
<1>4. CommandsInOrder /\ CommandIsLast
  <2>1. CommandsOf(events) = {} /\ Len(cmdring) = 0
    BY <1>1 DEF CommandsOf
  <2>2. CommandsInFlight = 0
    <3>1. CommandsInFlight = Len(cmdring) + Cardinality(CommandsOf(events))
      BY Zenon DEF CommandsInFlight, CommandsOf
    <3>2. Cardinality(CommandsOf(events)) = 0
      BY <1>3, <2>1, Zenon
    <3> QED BY <2>1, <3>1, <3>2
  <2>3. \A lo, hi : InOrder(events, cmdring, lo, hi)
    BY <1>1, <2>1 DEF InOrder
  <2> QED BY <1>0, <2>2, <2>3 DEF Init, CommandsInOrder, CommandIsLast
<1>5. ControlsAreWaitedFor /\ ControlIsLast
  BY <1>1 DEF Init, ControlsAreWaitedFor, ControlIsLast
<1>6. Outstanding = {}
  BY Zenon DEF Init, Outstanding
<1>7. RequestsOnce
  BY SMTT(20), <1>1, <1>3, <1>6 DEF Init, RequestsOnce
<1>8. TransfersAreRequests /\ HaltsAreTold
  BY <1>1 DEF Init, TransfersAreRequests, Matched, HaltsAreTold
<1>9. OneAfterTheOther
  BY Zenon, <1>0, <1>6 DEF Init, OneAfterTheOther
<1> QED BY SMTT(20), <1>2, <1>4, <1>5, <1>7, <1>8, <1>9 DEF XhciInv

\* Every step of the process, the handler and the controller keeps the invariant.
LEMMA XhciInvStep ==
  ASSUME XhciInv, [Next]_vars
  PROVE  XhciInv'
BY CountingHolds, DevicesCountedHolds, TypeStep, CommandsInOrderStep, CommandIsLastStep,
   ControlsAreWaitedForStep, ControlIsLastStep, RequestsOnceStep, TransfersAreRequestsStep,
   HaltsAreToldStep, OneAfterTheOtherStep, Zenon
   DEF XhciInv

\* The invariant holds however the process, the interrupt handler and the
\* controller interleave.
THEOREM XhciInvariance == Spec => []XhciInv
<1> QED BY XhciInvInit, XhciInvStep, PTL DEF Spec

\* A caller of xhcihcd_command_execute or usb_control_msg gets the result of its
\* own command or transfer, for rings of any size and any number of late answers.
THEOREM ResultIsAlwaysOwn == Spec => []ResultIsOwn
<1>1. XhciInv => ResultIsOwn
  BY SMTT(20) DEF XhciInv, CommandIsLast, ControlIsLast, ResultIsOwn
<1> QED BY <1>1, XhciInvariance, PTL

\* Every request that xhcihcd_submit_endp_xfer_request accepted is outstanding or
\* has had its callback, once, for its own TRB.
THEOREM CallbackIsAlwaysPerRequest == Spec => []CallbackPerRequest
<1>1. XhciInv => CallbackPerRequest
  BY DEF XhciInv, RequestsOnce, Outstanding, CallbackPerRequest
<1> QED BY <1>1, XhciInvariance, PTL

\* No request is left on an endpoint that the controller has halted, unless the
\* event that says so is still to be handled.
THEOREM NeverAHangSilently == Spec => []NeverHangsSilently
<1>1. XhciInv => NeverHangsSilently
  BY Zenon DEF XhciInv, HaltsAreTold, Outstanding, IsEndpoint, NeverHangsSilently
<1> QED BY <1>1, XhciInvariance, PTL

----------------------------------------------------------------------------
(* The interrupter.                                                        *)

\* Who will look at the event ring next: the handler busy flag is set from the
\* moment the interrupt is raised until the ERDP write, an interrupt is raised
\* only for a ring with an event in it, and an event that comes while the handler
\* is on its way out leaves IPE set.
IntrInv ==
  /\ hcdstate = "DEAD" => panic = "handler"
  /\ irq # "out" => ehb
  /\ msi /\ ~hce => ehb /\ irq = "out" /\ events # <<>>
  /\ ehb /\ ~missed /\ hcdstate # "DEAD" => msi \/ irq # "out"
  /\ irq = "first" => events # <<>>
  /\ irq = "ack" /\ events # <<>> => ipe
  /\ ~ehb => (ipe <=> events # <<>>)

\* A ring with an event behind it is not empty.
LEMMA AppendIsNotEmpty ==
  ASSUME NEW S, NEW s \in Seq(S), NEW e
  PROVE  Append(s, e) # <<>>
<1>1. s \in Seq(S \cup {e}) /\ e \in S \cup {e}
  OBVIOUS
<1> QED BY <1>1

\* The process leaves the interrupter alone, and does not run once the controller
\* is dead.
LEMMA IntrProcessStep ==
  ASSUME IntrInv, Process
  PROVE  IntrInv'
<1>1. UNCHANGED <<events, ipe, ehb, msi, irq, missed, hce>>
  BY Zenon DEF Process, xhcihcd_reset, ResetDone, xhcihcd_start, Started, PortReset,
       xhcihcd_command_execute, CommandReturns, xhcihcd_control_transfer_hw, ControlReturns,
       GiveUp, Bind, xhcihcd_submit_endp_xfer_request, intrvars, regvars
<1>2. panic = "no"
  BY Zenon DEF Process, Runs, xhcihcd_reset, ResetDone, xhcihcd_start, Started, PortReset,
       xhcihcd_command_execute, CommandReturns, xhcihcd_control_transfer_hw, ControlReturns,
       GiveUp, Bind, xhcihcd_submit_endp_xfer_request
<1>3. hcdstate' = hcdstate \/ hcdstate' \in {"SETUP", "STARTED"}
  BY Zenon DEF Process, xhcihcd_reset, ResetDone, xhcihcd_start, Started, PortReset,
       xhcihcd_command_execute, CommandReturns, xhcihcd_control_transfer_hw, ControlReturns,
       GiveUp, Bind, xhcihcd_submit_endp_xfer_request
<1>4. hcdstate # "DEAD" /\ hcdstate' # "DEAD"
  <2>1. hcdstate # "DEAD"
    BY Zenon, <1>2 DEF IntrInv
  <2> QED BY Zenon, <1>3, <2>1
<1> QED BY Zenon, <1>1, <1>4 DEF IntrInv

\* The handler is entered for a ring with an event in it, so that it always
\* writes ERDP; what is posted after its last look has IPE set when it does.
LEMMA IntrHandlerStep ==
  ASSUME IntrInv, Handler
  PROVE  IntrInv'
<1>1. CASE xhcihcd_irqhandler
  <2>1. /\ msi /\ irq = "out" /\ ~msi' /\ UNCHANGED <<hce, events, ipe, ehb>>
    BY Zenon, <1>1 DEF xhcihcd_irqhandler, regvars
  <2>2. CASE missed' = TRUE /\ UNCHANGED <<irq, hcdstate, panic>>
    BY Zenon, <2>1, <2>2 DEF IntrInv
  <2>3. CASE hcdstate' = "DEAD" /\ panic' = "handler" /\ UNCHANGED <<irq, missed>>
    BY Zenon, <2>1, <2>3 DEF IntrInv
  <2>4. CASE ~hce /\ irq' = "first" /\ UNCHANGED <<missed, hcdstate, panic>>
    <3>1. ehb /\ events # <<>> /\ irq' # "out" /\ irq' # "ack"
      BY Zenon, <2>1, <2>4 DEF IntrInv
    <3> QED BY Zenon, <2>1, <2>4, <3>1 DEF IntrInv
  <2> QED BY Zenon, <1>1, <2>2, <2>3, <2>4 DEF xhcihcd_irqhandler
<1>2. CASE ProcessEvent
  <2>1. /\ irq # "out" /\ irq' = "drain" /\ UNCHANGED <<hce, ipe, ehb, msi, missed>>
    BY Zenon, <1>2 DEF ProcessEvent, regvars
  <2>2. hcdstate' # hcdstate => hcdstate' = "DEAD" /\ panic' = "handler"
    BY Zenon, <1>2 DEF ProcessEvent, HandleCommand, HandleControl, HandleEndpoint, HandleFatal
  <2>3. panic' # panic => panic' = "handler"
    BY Zenon, <1>2 DEF ProcessEvent, HandleCommand, HandleControl, HandleEndpoint, HandleFatal
  <2>4. ehb /\ ~(msi /\ ~hce) /\ irq' # "out" /\ irq' # "first" /\ irq' # "ack"
    BY Zenon, <2>1 DEF IntrInv
  <2> QED BY Zenon, <2>1, <2>2, <2>3, <2>4 DEF IntrInv
<1>3. CASE RingEmpty
  <2>1. /\ irq \in {"first", "drain"} /\ events = <<>> /\ irq' = IF irq = "first" THEN "out" ELSE "ack"
        /\ UNCHANGED <<hcdstate, panic, hce, events, ipe, ehb, msi, missed>>
    BY Zenon, <1>3 DEF RingEmpty, procvars, regvars
  <2>2. irq = "drain" /\ irq' = "ack" /\ irq # "out" /\ irq' # "out" /\ irq' # "first"
    BY Zenon, <2>1 DEF IntrInv
  <2> QED BY Zenon, <2>1, <2>2 DEF IntrInv
<1>4. CASE WriteErdp
  <2>1. /\ irq = "ack" /\ irq' = "out" /\ ~ehb' /\ ipe' = (ipe /\ events # <<>>)
        /\ UNCHANGED <<hcdstate, panic, hce, events, msi, missed>>
    BY Zenon, <1>4 DEF WriteErdp, HandlerBusyAfter, procvars, regvars
  <2>2. ~(msi /\ ~hce) /\ irq' # "first" /\ irq' # "ack" /\ (ipe' <=> events # <<>>)
    BY Zenon, <2>1 DEF IntrInv
  <2> QED BY Zenon, <2>1, <2>2 DEF IntrInv
<1> QED BY Zenon, <1>1, <1>2, <1>3, <1>4 DEF Handler

\* The controller sets IPE with every event, and raises the interrupt only when
\* the handler is not busy.
LEMMA IntrControllerStep ==
  ASSUME TypeOK, IntrInv, Controller
  PROVE  IntrInv'
<1>0. UNCHANGED <<hcdstate, panic>>
  BY Zenon DEF Controller, HcResets, HcRuns, HcPortOrHostEvent, HcFails, RaiseInterrupt,
       HcCommand, HcControl, HcEndpoint, Post, HcIdle, procvars
<1>1. CASE HcResets \/ HcRuns
  <2>1. UNCHANGED <<hce, events, ipe, ehb, msi, irq, missed>>
    BY Zenon, <1>1 DEF HcResets, HcRuns, intrvars
  <2> QED BY Zenon, <1>0, <2>1 DEF IntrInv
<1>2. ASSUME NEW e, Post(e)
      PROVE  IntrInv'
  <2>1. ipe' /\ UNCHANGED <<hce, ehb, msi, irq, missed>>
    BY Zenon, <1>2 DEF Post, regvars
  <2>2. events' # <<>>
    BY Zenon, <1>2, AppendIsNotEmpty DEF Post, TypeOK, RingType
  <2> QED BY Zenon, <1>0, <2>1, <2>2 DEF IntrInv
<1>3. CASE HcFails
  <2>1. hce' /\ msi' /\ UNCHANGED <<events, ipe, ehb, irq, missed>>
    BY Zenon, <1>3 DEF HcFails
  <2> QED BY Zenon, <1>0, <2>1 DEF IntrInv
<1>4. CASE RaiseInterrupt
  <2>1. ipe /\ ~ehb /\ ehb' /\ msi' /\ UNCHANGED <<hce, events, irq, missed>>
    BY Zenon, <1>4 DEF RaiseInterrupt, regvars
  <2>2. irq = "out" /\ events # <<>>
    BY Zenon, <2>1 DEF IntrInv
  <2> QED BY Zenon, <1>0, <2>1, <2>2 DEF IntrInv
<1> QED BY Zenon, <1>1, <1>2, <1>3, <1>4
        DEF Controller, HcPortOrHostEvent, HcCommand, HcControl, HcEndpoint

\* No event is forgotten: one that is in the ring has an interrupt due, raised or
\* being handled, unless an interrupt was taken before the driver was started.
THEOREM NoEventIsForgotten == Spec => []NoEventForgotten
<1>1. Init => IntrInv
  BY DEF Init, IntrInv
<1>2. TypeOK /\ IntrInv /\ [Next]_vars => IntrInv'
  <2> SUFFICES ASSUME TypeOK, IntrInv, [Next]_vars PROVE IntrInv'
    OBVIOUS
  <2>1. CASE UNCHANGED vars
    BY Zenon, <2>1 DEF vars, procvars, regvars, intrvars, IntrInv
  <2> QED BY Zenon, <2>1, IntrProcessStep, IntrHandlerStep, IntrControllerStep DEF Next
<1>3. XhciInv => TypeOK
  BY Zenon DEF XhciInv
<1>4. IntrInv => NoEventForgotten
  BY Zenon DEF IntrInv, NoEventForgotten
<1> QED BY <1>1, <1>2, <1>3, <1>4, XhciInvariance, PTL DEF Spec

=============================================================================
