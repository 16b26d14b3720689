------------------------------ MODULE Rtl8139 ------------------------------
(***************************************************************************)
(* The RTL8139 network driver, driver/net/rtl8139.c, with the interface    *)
(* table that drives it, net/if.c, and the chip as the driver sees it.     *)
(*                                                                         *)
(* The kernel thread sets the interface up, starts it and sends frames, one *)
(* at a time; the interrupt handler interrupts it anywhere, in the order    *)
(* read ISR, acknowledge, drain; the chip sends, receives and raises ISR    *)
(* bits at any time.  A frame to send is a number, the position of its      *)
(* rtl8139_send call; a received frame is the kind of header it gets.       *)
(*                                                                         *)
(* Each write of TSD starts a transmit, which the chip works on in order:   *)
(* it reads the slot's buffer when it comes to it, whatever is there then,  *)
(* and sends what it read.  A call that times out leaves its transmit       *)
(* behind, and the next call fills the same buffer.                         *)
(***************************************************************************)
EXTENDS Integers, Sequences, FiniteSets

CONSTANTS
  TX_SLOTS,     \* RTL8139_TX_SLOTS
  TxTimeout,    \* polls in rtl8139_send
  Lengths,      \* frame lengths callers pass
  MaxSends,     \* bounds of the model: calls of rtl8139_send,
  MaxFrames     \* frames that arrive, and the ring's capacity

ASSUME Rtl8139Assumption ==
  /\ TX_SLOTS \in Nat \ {0, 1} /\ TxTimeout \in Nat \ {0} /\ MaxSends \in Nat
  /\ Lengths \subseteq Nat

ETH_FRAME_MIN == 60
MaxTxLength == 1792
Slots == 0..(TX_SLOTS - 1)
Calls == 1..MaxSends
Headers == {"good", "bad"}

VARIABLES
  ifstate,   \* INIT, the steps of rtl8139_setup, SETUP, STARTED
  tx_next,
  send,      \* the call of rtl8139_send in progress, or NoSend
  sends,     \* calls of rtl8139_send so far
  result,    \* result[n]: what call n returned
  txbuf,     \* per slot: the call whose frame is in the buffer, or Torn
  \* the chip
  tsd,       \* per descriptor: the call that wrote TSD last, and the status bits
  tx,        \* tx[n]: the transmit that call n started
  rxon,      \* CR<RE>
  ring,      \* headers of the frames in the receive buffer
  isr, imr,
  \* the interrupt handler
  handler,   \* "idle", or the ISR value it works on and where it is
  early,     \* frames whose ROK rtl8139_setup cleared
  panic

txVars == <<tx_next, send, sends, result, txbuf, tsd, tx>>
rxVars == <<rxon, ring, early>>
vars == <<ifstate, txVars, rxVars, isr, imr, handler, panic>>

NoSend == [call |-> 0]
Torn == 0     \* no whole frame: never filled, or being copied
NoTransmit == [slot |-> 0, length |-> 0, bytes |-> Torn, stage |-> "none"]
Idle == [at |-> "idle", isrstatus |-> {}]
Running == panic = ""
Thread == Running /\ handler = Idle    \* the thread runs while no interrupt does

----------------------------------------------------------------------------
(* Setting up: net_if_attach_if has put the device in the table *)

Step(from, to) ==
  /\ Thread /\ ifstate = from /\ ifstate' = to
  /\ UNCHANGED <<txVars, handler, panic>>

\* The result of rtl8139_reset, which may time out, is not looked at.
rtl8139_reset ==
  /\ Step("INIT", "RESET")
  /\ UNCHANGED <<rxVars, isr, imr>>

EnableEngines ==
  /\ Step("RESET", "ENABLED") /\ rxon' = TRUE
  /\ UNCHANGED <<ring, early, isr, imr>>

ClearIsr ==
  /\ Step("ENABLED", "CLEARED") /\ isr' = {} /\ early' = Len(ring)
  /\ UNCHANGED <<rxon, ring, imr>>

UnmaskInterrupts ==
  /\ Step("CLEARED", "SETUP") /\ imr' = {"ROK", "RER", "TOK", "TER", "RBO", "FOVW"}
  /\ UNCHANGED <<rxVars, isr>>

rtl8139_start == Step("SETUP", "STARTED") /\ UNCHANGED <<rxVars, isr, imr>>

----------------------------------------------------------------------------
(* rtl8139_send *)

Padded_short(length) == length
Padded(length) == IF length < ETH_FRAME_MIN THEN ETH_FRAME_MIN ELSE length

\* From the checks to the beginning of the copy.
rtl8139_send(length) ==
  /\ Thread /\ send = NoSend /\ sends < MaxSends
  /\ sends' = sends + 1
  /\ IF ifstate # "STARTED"
     THEN result' = [result EXCEPT ![sends + 1] = "ERROR"] /\ UNCHANGED <<send, txbuf, panic>>
     ELSE IF length > MaxTxLength
     THEN panic' = "TODO ERROR HANDLING" /\ UNCHANGED <<send, txbuf, result>>
     ELSE /\ send' = [call |-> sends + 1, slot |-> tx_next, length |-> length,
                      at |-> "copy", timeout |-> TxTimeout, statusreg |-> {}]
          /\ txbuf' = [txbuf EXCEPT ![tx_next] = Torn]
          /\ result' = [result EXCEPT ![sends + 1] = "PENDING"]
          /\ UNCHANGED panic
  /\ UNCHANGED <<ifstate, tx_next, tsd, tx, rxVars, isr, imr, handler>>

At(point) == Thread /\ send # NoSend /\ send.at = point

CopyDone ==
  /\ At("copy")
  /\ txbuf' = [txbuf EXCEPT ![send.slot] = send.call]
  /\ send' = [send EXCEPT !.at = "trigger"]
  /\ UNCHANGED <<ifstate, tx_next, sends, result, tsd, tx, rxVars, isr, imr, handler, panic>>

StatusAfterWrite_kept(status) == status
StatusAfterWrite(status) == {}

\* The write of TSD clears every status bit and starts the DMA.  A transmit of
\* this descriptor that the chip has not read yet may be replaced by it, or not.
WriteTsd ==
  /\ At("trigger")
  /\ tsd' = [tsd EXCEPT ![send.slot] = [call |-> send.call, status |-> StatusAfterWrite(@.status)]]
  /\ \E replaced \in SUBSET {n \in Calls : tx[n].stage = "dma" /\ tx[n].slot = send.slot} :
       tx' = [n \in Calls |->
                IF n = send.call
                THEN [slot |-> send.slot, length |-> Padded(send.length), bytes |-> Torn, stage |-> "dma"]
                ELSE IF n \in replaced THEN NoTransmit ELSE tx[n]]
  /\ send' = [send EXCEPT !.at = "read"]
  /\ UNCHANGED <<ifstate, tx_next, sends, result, txbuf, rxVars, isr, imr, handler, panic>>

\* The status register is read here, before the loop, and never again.
ReadStatus ==
  /\ At("read")
  /\ send' = [send EXCEPT !.statusreg = tsd[send.slot].status, !.at = "poll"]
  /\ UNCHANGED <<ifstate, tx_next, sends, result, txbuf, tsd, tx, rxVars, isr, imr, handler, panic>>

Return(r) ==
  /\ result' = [result EXCEPT ![send.call] = r]
  /\ send' = NoSend
NextSlot(s) == (s + 1) % TX_SLOTS
Done(status) == {"OWN", "TOK"} \subseteq status

SendDone ==
  /\ At("poll") /\ Done(send.statusreg)
  /\ Return("OK")
  /\ tx_next' = NextSlot(send.slot)
  /\ UNCHANGED <<ifstate, sends, txbuf, tsd, tx, rxVars, isr, imr, handler, panic>>

\* CLRABT makes the chip send the aborted descriptor again, from the buffer.
ClearAbort ==
  tx' = [n \in Calls |-> IF tx[n].stage = "abort" THEN [tx[n] EXCEPT !.stage = "dma"] ELSE tx[n]]

SendAborted_stays ==
  /\ At("poll") /\ ~Done(send.statusreg) /\ "TABT" \in send.statusreg
  /\ Return("ERROR") /\ ClearAbort
  /\ UNCHANGED <<ifstate, tx_next, sends, txbuf, tsd, rxVars, isr, imr, handler, panic>>

SendAborted ==
  /\ At("poll") /\ ~Done(send.statusreg) /\ "TABT" \in send.statusreg
  /\ Return("ERROR") /\ ClearAbort
  /\ tx_next' = NextSlot(send.slot)
  /\ UNCHANGED <<ifstate, sends, txbuf, tsd, rxVars, isr, imr, handler, panic>>

Undecided == At("poll") /\ ~Done(send.statusreg) /\ "TABT" \notin send.statusreg

SendWait_forever ==
  Undecided /\ UNCHANGED vars

SendWait ==
  /\ Undecided /\ send.timeout > 1
  /\ send' = [send EXCEPT !.timeout = @ - 1]
  /\ UNCHANGED <<ifstate, tx_next, sends, result, txbuf, tsd, tx, rxVars, isr, imr, handler, panic>>

SendTimeout ==
  /\ Undecided /\ send.timeout = 1
  /\ Return("TIMEOUT")
  /\ UNCHANGED <<ifstate, tx_next, sends, txbuf, tsd, tx, rxVars, isr, imr, handler, panic>>

----------------------------------------------------------------------------
(* rtl8139_irqhandler, in its three steps *)

\* Read ISR.  An interrupt before rtl8139_start is turned away unacknowledged;
\* an overflow ends in the PANIC of rtl8139_rx_resync.
rtl8139_irqhandler ==
  /\ Thread /\ ifstate = "STARTED"
  /\ IF isr = {}
     THEN UNCHANGED <<handler, panic>>
     ELSE IF isr \cap {"RBO", "FOVW"} # {}
     THEN panic' = "TODO rtl8139_rx_resync()" /\ UNCHANGED handler
     ELSE handler' = [at |-> "ack", isrstatus |-> isr] /\ UNCHANGED panic
  /\ UNCHANGED <<ifstate, txVars, rxVars, isr, imr>>

Acknowledged_all(status) == {"ROK", "RER", "TOK", "TER", "RBO", "FOVW"}
Acknowledged(status) == status

AckIsr ==
  /\ Running /\ handler.at = "ack"
  /\ isr' = isr \ Acknowledged(handler.isrstatus)
  /\ handler' = IF "ROK" \in handler.isrstatus THEN [handler EXCEPT !.at = "drain"] ELSE Idle
  /\ UNCHANGED <<ifstate, txVars, rxVars, imr, panic>>

\* rtl8139_rx_drain: its loop ends at the first frame, in the PANIC of
\* rtl8139_rx_resync or in that of ethernet_input.
RxDrain ==
  /\ Running /\ handler.at = "drain"
  /\ IF ring = <<>>
     THEN handler' = Idle /\ UNCHANGED panic
     ELSE /\ panic' = IF Head(ring) = "bad" THEN "TODO rtl8139_rx_resync()" ELSE "TODO ethernet_input"
          /\ UNCHANGED handler
  /\ UNCHANGED <<ifstate, txVars, rxVars, isr, imr>>

----------------------------------------------------------------------------
(* The chip *)

\* The chip works on the oldest transmit that it has not sent; one that was
\* aborted stays so until CLRABT.
Underway(n) == tx[n].stage \in {"dma", "fifo", "abort"}
Turn(n) == Underway(n) /\ \A m \in Calls : Underway(m) => n <= m

\* Status bits show in a descriptor's TSD until TSD is written again.
Report(n, bit) ==
  tsd' = [s \in Slots |-> IF tsd[s].call = n
                         THEN [tsd[s] EXCEPT !.status = @ \cup {bit}] ELSE tsd[s]]

\* The frame is in the chip's FIFO: OWN.
ChipDma(n) ==
  /\ Turn(n) /\ tx[n].stage = "dma"
  /\ tx' = [tx EXCEPT ![n] = [@ EXCEPT !.stage = "fifo", !.bytes = txbuf[tx[n].slot]]]
  /\ Report(n, "OWN")
  /\ UNCHANGED <<ifstate, tx_next, send, sends, result, txbuf, rxVars, isr, imr, handler, panic>>

\* It is on the wire: TOK.
ChipTransmit(n) ==
  /\ Turn(n) /\ tx[n].stage = "fifo"
  /\ tx' = [tx EXCEPT ![n].stage = "sent"]
  /\ Report(n, "TOK")
  /\ isr' = isr \cup {"TOK"}
  /\ UNCHANGED <<ifstate, tx_next, send, sends, result, txbuf, rxVars, imr, handler, panic>>

ChipAbort(n) ==
  /\ Turn(n) /\ tx[n].stage = "fifo"
  /\ tx' = [tx EXCEPT ![n].stage = "abort"]
  /\ Report(n, "TABT")
  /\ isr' = isr \cup {"TER"}
  /\ UNCHANGED <<ifstate, tx_next, send, sends, result, txbuf, rxVars, imr, handler, panic>>

ChipReceive(h) ==
  /\ rxon
  /\ IF Len(ring) < MaxFrames
     THEN ring' = Append(ring, h) /\ isr' = isr \cup {"ROK"}
     ELSE isr' = isr \cup {"RBO"} /\ UNCHANGED ring
  /\ UNCHANGED <<ifstate, txVars, rxon, early, imr, handler, panic>>

----------------------------------------------------------------------------
Init ==
  /\ ifstate = "INIT"
  /\ tx_next = 0 /\ send = NoSend /\ sends = 0 /\ result = [n \in Calls |-> "NONE"]
  /\ txbuf = [s \in Slots |-> Torn]
  /\ tsd = [s \in Slots |-> [call |-> 0, status |-> {}]]
  /\ tx = [n \in Calls |-> NoTransmit]
  /\ rxon = FALSE /\ ring = <<>> /\ isr = {} /\ imr = {}
  /\ handler = Idle /\ early = 0 /\ panic = ""

Setup == rtl8139_reset \/ EnableEngines \/ ClearIsr \/ UnmaskInterrupts \/ rtl8139_start
Sending ==
  \/ CopyDone \/ WriteTsd \/ ReadStatus
  \/ SendDone \/ SendAborted \/ SendWait \/ SendTimeout
Handling == AckIsr \/ RxDrain

Next ==
  \/ Setup
  \/ \E length \in Lengths : rtl8139_send(length)
  \/ Sending
  \/ rtl8139_irqhandler
  \/ Handling
  \/ \E n \in Calls : ChipDma(n) \/ ChipTransmit(n) \/ ChipAbort(n)
  \/ \E h \in Headers : ChipReceive(h)

Spec == Init /\ [][Next]_vars

\* The thread runs again whenever the handler returns, and the handler, with
\* interrupts off, runs to its end.  Nothing is assumed of the chip.
FairSpec == Spec /\ SF_vars(Sending) /\ WF_vars(Handling)

----------------------------------------------------------------------------
(* Properties *)

Sent(n) == tx[n].stage = "sent"

\* rtl8139_send returns OK only for a frame that went out: the status it read
\* is of this transmit, whatever the descriptor was used for before ("so TOK
\* below always refers to this transmit", rtl8139.c:259).
OkMeansSent == \A n \in Calls : result[n] = "OK" => Sent(n) /\ tx[n].bytes = n

\* What goes out for a call is that call's frame, whole, and at least as long as
\* Ethernet's minimum, unless the call returned a timeout: then the next call
\* fills the buffer while the chip may still read it, and what goes out for the
\* first can be a mixture, or the second one's frame, which is sent twice.  A
\* frame the chip sends again after an abort is the aborted one, because its
\* slot is not used before it is out ("The caller should not resend, or the
\* frame goes out twice", rtl8139.c:284).
WireIsClean ==
  \A n \in Calls : Sent(n) =>
    /\ tx[n].length >= ETH_FRAME_MIN
    /\ tx[n].bytes # n => result[n] = "TIMEOUT"

\* "A frame that arrives mid-handler then raises a fresh interrupt instead of
\* being lost silently" (rtl8139.c:614): a frame that arrives after setup has
\* ROK raised for it until a handler that has seen ROK drains the ring.
NoFrameLostSilently ==
  Len(ring) > early /\ ifstate \in {"CLEARED", "SETUP", "STARTED"} =>
    \/ "ROK" \in isr
    \/ handler.at # "idle" /\ "ROK" \in handler.isrstatus
    \/ panic # ""

\* Every call of rtl8139_send returns, whatever the chip does, unless the kernel
\* stops.
SendReturns == (send # NoSend) ~> (send = NoSend \/ panic # "")
=============================================================================
