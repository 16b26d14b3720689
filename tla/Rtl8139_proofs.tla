--------------------------- MODULE Rtl8139_proofs ---------------------------
(***************************************************************************)
(* Proofs about the RTL8139 driver, for two or more transmit slots and any *)
(* number of polls, calls, frame lengths and received frames: what         *)
(* rtl8139_send reports OK went out whole, what goes out for a call that   *)
(* did not time out is its own frame, and no received frame is forgotten   *)
(* between the interrupts.                                                 *)
(*                                                                         *)
(* The argument for the transmitter: the chip works in order, so a call    *)
(* that sees its transmit sent or aborted knows that none before it is     *)
(* underway.  An aborted transmit, which the chip sends again, is then the *)
(* only one, and its slot is not the one the driver goes on to.  So the    *)
(* buffer the driver fills belongs to no transmit underway but that of a   *)
(* call that timed out.                                                    *)
(***************************************************************************)
EXTENDS Rtl8139, TLAPS

----------------------------------------------------------------------------
(* The inductive invariant *)

Bits == {"OWN", "TOK", "TABT"}
Results == {"NONE", "ERROR", "PENDING", "OK", "TIMEOUT"}
Descriptors == [call : Nat, status : SUBSET Bits]
Transmits == [slot : Slots, length : Nat, bytes : Nat, stage : {"none", "dma", "fifo", "abort", "sent"}]
SendCalls == [call : Calls, slot : Slots, length : Nat, at : {"copy", "trigger", "read", "poll"},
              timeout : Int, statusreg : SUBSET Bits]

TxTypeOK ==
  /\ tx_next \in Slots /\ sends \in Nat
  /\ result \in [Calls -> Results]
  /\ txbuf \in [Slots -> Nat]
  /\ tsd \in [Slots -> Descriptors]
  /\ tx \in [Calls -> Transmits]
  /\ send = NoSend \/ send \in SendCalls

\* What the result of a call says of its transmit.
CallsOK ==
  /\ \A n \in Calls : n > sends => result[n] = "NONE"
  /\ \A n \in Calls : result[n] = "NONE" => tx[n].stage = "none"
  /\ \A n \in Calls : result[n] = "OK" => tx[n].stage = "sent"
  /\ \A n \in Calls : result[n] = "PENDING" => send # NoSend /\ send.call = n

\* A status, read or still in the register, is that of the call's own transmit.
StatusOK(status, stage) ==
  /\ "TOK" \in status => stage = "sent"
  /\ "TABT" \in status => stage = "abort"

\* The call in progress is the last one, works on the next slot, and owns its
\* buffer and its descriptor once it has written them.
SendOK ==
  send # NoSend =>
    /\ send.call = sends /\ send.slot = tx_next /\ result[send.call] = "PENDING"
    /\ send.at # "copy" => txbuf[send.slot] = send.call
    /\ send.at # "poll" => send.statusreg = {}
    /\ send.at \in {"copy", "trigger"} => tx[send.call].stage = "none"
    /\ send.at \in {"read", "poll"} =>
         /\ tsd[send.slot].call = send.call
         /\ tx[send.call].slot = send.slot /\ tx[send.call].stage # "none"
         /\ StatusOK(tsd[send.slot].status, tx[send.call].stage)
         /\ StatusOK(send.statusreg, tx[send.call].stage)

\* The chip has sent all that came before a transmit it has read.
InOrder ==
  \A n, m \in Calls : tx[n].stage \in {"fifo", "abort", "sent"} /\ m < n => ~Underway(m)

\* The slot of a transmit that goes out again is not the next one.
SlotKept ==
  \A n \in Calls : Underway(n) /\ result[n] = "ERROR" => tx[n].slot # tx_next

\* What a transmit has in its buffer and in the FIFO.
FrameOK(n) ==
  /\ tx[n].stage # "none" => tx[n].length >= ETH_FRAME_MIN
  /\ result[n] # "TIMEOUT" =>
       /\ tx[n].stage = "dma" => txbuf[tx[n].slot] = n
       /\ tx[n].stage \in {"fifo", "abort", "sent"} => tx[n].bytes = n

TxInv ==
  /\ TxTypeOK /\ CallsOK /\ SendOK /\ InOrder /\ SlotKept
  /\ \A n \in Calls : FrameOK(n)

IsrBits == {"ROK", "RER", "TOK", "TER", "RBO", "FOVW"}

RxInv ==
  /\ early \in Nat /\ ring \in Seq(Headers) /\ isr \in SUBSET IsrBits
  /\ handler \in [at : {"idle", "ack", "drain"}, isrstatus : SUBSET IsrBits]
  /\ NoFrameLostSilently

Inv == TxInv /\ RxInv

----------------------------------------------------------------------------
(* Lemmas *)

\* The transmitter is as it was when its variables are.
LEMMA TxSame ==
  ASSUME TxInv, UNCHANGED txVars
  PROVE  TxInv'
<1>1. UNCHANGED <<tx_next, send, sends, result, txbuf, tsd, tx>>
  BY DEF txVars
<1>2. TxTypeOK' /\ CallsOK'
  BY <1>1 DEF TxInv, TxTypeOK, CallsOK
<1>3. SendOK' /\ InOrder' /\ SlotKept'
  BY <1>1 DEF TxInv, SendOK, StatusOK, InOrder, SlotKept, Underway
<1>4. \A n \in Calls : FrameOK(n)'
  BY <1>1 DEF TxInv, FrameOK
<1> QED BY <1>2, <1>3, <1>4 DEF TxInv

\* The receiver is as it was when its variables are, and more ISR bits do not
\* hurt it.
LEMMA RxSame ==
  ASSUME RxInv, UNCHANGED <<ifstate, rxVars, handler>>, isr \subseteq isr',
         isr' \subseteq isr \cup IsrBits, Running' => Running
  PROVE  RxInv'
<1>1. /\ Len(ring') > early' /\ ifstate' \in {"CLEARED", "SETUP", "STARTED"} =>
            Len(ring) > early /\ ifstate \in {"CLEARED", "SETUP", "STARTED"}
  BY Zenon DEF rxVars
<1>2. isr' \in SUBSET IsrBits
  BY DEF RxInv
<1> QED BY Zenon, <1>1, <1>2 DEF RxInv, rxVars, NoFrameLostSilently, Running

\* A call in progress, and the part of the transmitter it works on.
LEMMA SendIsRecord ==
  ASSUME TxInv, send # NoSend
  PROVE  /\ send \in SendCalls /\ send.call \in Calls /\ send.slot \in Slots
         /\ send.call = sends /\ send.slot = tx_next /\ result[send.call] = "PENDING"
         /\ \A n \in Calls : n > send.call => tx[n].stage = "none"
<1>1. send \in SendCalls /\ send.call = sends
  BY DEF TxInv, TxTypeOK, SendOK
<1> QED BY <1>1 DEF TxInv, SendOK, CallsOK, SendCalls

\* The buffer of the slot the driver goes on to belongs to no transmit underway
\* but that of a call that timed out, or of the call in progress.
LEMMA BufferIsFree ==
  ASSUME TxInv, NEW n \in Calls, Underway(n), tx[n].slot = tx_next
  PROVE  result[n] = "TIMEOUT" \/ (send # NoSend /\ send.call = n)
<1>1. result[n] \in Results /\ result[n] # "ERROR"
  BY DEF TxInv, TxTypeOK, SlotKept
<1>2. result[n] # "NONE" /\ result[n] # "OK"
  BY DEF TxInv, CallsOK, Underway
<1>3. result[n] = "PENDING" => send # NoSend /\ send.call = n
  BY DEF TxInv, CallsOK
<1> QED BY <1>1, <1>2, <1>3 DEF Results

----------------------------------------------------------------------------
(* The steps *)

\* The initial state satisfies the invariant.
LEMMA InitInv == Init => Inv
<1> SUFFICES ASSUME Init PROVE Inv
  OBVIOUS
<1>0. /\ ifstate = "INIT" /\ ring = <<>> /\ early = 0 /\ isr = {} /\ handler = Idle
      /\ tx_next = 0 /\ send = NoSend /\ sends = 0 /\ result = [n \in Calls |-> "NONE"]
      /\ txbuf = [s \in Slots |-> Torn] /\ tx = [n \in Calls |-> NoTransmit]
      /\ tsd = [s \in Slots |-> [call |-> 0, status |-> {}]]
  BY Zenon DEF Init
<1>1. \A n \in Calls : tx[n].stage = "none" /\ result[n] = "NONE"
  BY <1>0 DEF NoTransmit
<1>2. TxTypeOK
  <2>1. 0 \in Slots
    BY Rtl8139Assumption DEF Slots
  <2>2. NoTransmit \in Transmits /\ [call |-> 0, status |-> {}] \in Descriptors
    BY <2>1 DEF NoTransmit, Transmits, Torn, Descriptors
  <2> QED BY <1>0, <2>1, <2>2 DEF TxTypeOK, Results, Torn
<1>3. CallsOK /\ SendOK /\ InOrder /\ SlotKept /\ \A n \in Calls : FrameOK(n)
  BY <1>0, <1>1 DEF CallsOK, SendOK, InOrder, SlotKept, Underway, FrameOK
<1>5. RxInv
  BY <1>0 DEF RxInv, NoFrameLostSilently, Idle
<1> QED BY <1>2, <1>3, <1>5 DEF Inv, TxInv

\* The setup steps leave the transmitter alone; ClearIsr, which drops the ROK of
\* the frames that came before it, counts them in early.
LEMMA SetupStep ==
  ASSUME Inv, Setup
  PROVE  Inv'
<1>1. TxInv'
  <2>1. UNCHANGED txVars
    BY Zenon DEF Setup, Step, rtl8139_reset, EnableEngines, ClearIsr, UnmaskInterrupts, rtl8139_start
  <2> QED BY <2>1, TxSame DEF Inv
<1>2. RxInv'
  <2>1. CASE ClearIsr
    <3>1. ring' = ring /\ early' = Len(ring)
      BY <2>1 DEF ClearIsr
    <3>2. ring \in Seq(Headers) /\ Len(ring) \in Nat
      BY DEF Inv, RxInv
    <3>3. early' \in Nat /\ ring' \in Seq(Headers) /\ ~(Len(ring') > early')
      BY <3>1, <3>2
    <3>4. isr' \in SUBSET IsrBits /\ handler' = handler
      BY <2>1 DEF ClearIsr, Step
    <3> QED BY <3>3, <3>4 DEF Inv, RxInv, NoFrameLostSilently
  <2>2. CASE rtl8139_reset \/ EnableEngines
    <3>1. UNCHANGED <<ring, early, isr, handler>> /\ ifstate' \in {"RESET", "ENABLED"}
      BY Zenon, <2>2 DEF rtl8139_reset, EnableEngines, Step, rxVars
    <3> QED BY <3>1 DEF Inv, RxInv, NoFrameLostSilently
  <2>3. CASE UnmaskInterrupts \/ rtl8139_start
    <3>1. UNCHANGED <<ring, early, isr, handler, panic>> /\ ifstate \in {"CLEARED", "SETUP"}
      BY Zenon, <2>3 DEF UnmaskInterrupts, rtl8139_start, Step, rxVars
    <3> QED BY <3>1 DEF Inv, RxInv, NoFrameLostSilently
  <2> QED BY <2>1, <2>2, <2>3 DEF Setup
<1> QED BY <1>1, <1>2 DEF Inv

\* A call of rtl8139_send that gets past the checks begins to fill the buffer of
\* the next slot, which belongs to no transmit underway but a timed-out one.
LEMMA rtl8139_send_Step ==
  ASSUME Inv, NEW length \in Lengths, rtl8139_send(length)
  PROVE  Inv'
<1> DEFINE c == sends + 1
<1>1. TxInv /\ TxTypeOK /\ CallsOK /\ SendOK /\ InOrder /\ SlotKept
  BY DEF Inv, TxInv
<1>2. /\ send = NoSend /\ sends' = c /\ Running /\ UNCHANGED <<tx_next, tsd, tx>>
      /\ c \in Calls /\ sends \in Nat /\ result \in [Calls -> Results]
  <2>1. send = NoSend /\ sends < MaxSends /\ sends' = c /\ Running /\ UNCHANGED <<tx_next, tsd, tx>>
    BY DEF rtl8139_send, Thread
  <2> QED BY <1>1, <2>1, Rtl8139Assumption DEF TxTypeOK, Calls
<1>3. result[c] = "NONE" /\ tx[c].stage = "none"
  BY <1>1, <1>2 DEF CallsOK
<1>4. RxInv'
  <2>1. UNCHANGED <<ifstate, rxVars, handler, isr>>
    BY DEF rtl8139_send
  <2> QED BY <1>2, <2>1, RxSame DEF Inv
<1>5. InOrder'
  BY <1>1, <1>2 DEF InOrder, Underway
<1>6. CASE result' = [result EXCEPT ![c] = "ERROR"] /\ UNCHANGED <<send, txbuf>>
  <2>1. /\ result' \in [Calls -> Results] /\ result'[c] = "ERROR"
        /\ \A n \in Calls : n # c => result'[n] = result[n]
    BY <1>2, <1>6 DEF Results
  <2>2. TxTypeOK'
    BY <1>1, <1>2, <1>6, <2>1 DEF TxTypeOK
  <2>3. CallsOK'
    BY <1>1, <1>2, <1>3, <1>6, <2>1 DEF CallsOK, Calls
  <2>4. SendOK' /\ SlotKept'
    BY <1>1, <1>2, <1>3, <1>6, <2>1 DEF SendOK, SlotKept, Underway
  <2>5. \A n \in Calls : FrameOK(n)'
    BY <1>1, <1>2, <1>3, <1>6, <2>1 DEF TxInv, FrameOK
  <2> QED BY <1>4, <1>5, <2>2, <2>3, <2>4, <2>5 DEF Inv, TxInv
<1>7. CASE UNCHANGED <<send, txbuf, result>>
  <2>1. TxTypeOK'
    BY <1>1, <1>2, <1>7 DEF TxTypeOK
  <2>2. CallsOK'
    BY <1>1, <1>2, <1>7 DEF CallsOK, Calls
  <2>3. SendOK' /\ SlotKept'
    BY <1>1, <1>2, <1>7 DEF SendOK, SlotKept, Underway
  <2>4. \A n \in Calls : FrameOK(n)'
    BY <1>1, <1>2, <1>7 DEF TxInv, FrameOK
  <2> QED BY <1>4, <1>5, <2>1, <2>2, <2>3, <2>4 DEF Inv, TxInv
<1>8. CASE /\ send' = [call |-> c, slot |-> tx_next, length |-> length,
                       at |-> "copy", timeout |-> TxTimeout, statusreg |-> {}]
           /\ txbuf' = [txbuf EXCEPT ![tx_next] = Torn]
           /\ result' = [result EXCEPT ![c] = "PENDING"]
  <2>1. /\ result' \in [Calls -> Results] /\ result'[c] = "PENDING"
        /\ \A n \in Calls : n # c => result'[n] = result[n]
    BY <1>2, <1>8 DEF Results
  <2>2. /\ txbuf' \in [Slots -> Nat] /\ tx_next \in Slots
        /\ \A s \in Slots : s # tx_next => txbuf'[s] = txbuf[s]
    BY <1>1, <1>8 DEF TxTypeOK, Torn
  <2>3. /\ send' \in SendCalls /\ send' # NoSend /\ send'.call = c /\ send'.slot = tx_next
        /\ send'.at = "copy" /\ send'.statusreg = {}
    <3>1. length \in Nat /\ TxTimeout \in Int
      BY Rtl8139Assumption
    <3>2. /\ send' \in SendCalls /\ send'.call = c /\ send'.slot = tx_next
          /\ send'.at = "copy" /\ send'.statusreg = {}
      BY <1>2, <1>8, <2>2, <3>1 DEF SendCalls
    <3>3. c # NoSend.call
      BY <1>2 DEF NoSend
    <3> QED BY Zenon, <3>2, <3>3
  <2>4. TxTypeOK'
    <3>1. sends' \in Nat
      BY <1>2
    <3> QED BY Zenon, <1>1, <1>2, <2>1, <2>2, <2>3, <3>1 DEF TxTypeOK
  <2>5. CallsOK'
    <3>1. \A n \in Calls : n > c => n > sends /\ n # c
      BY <1>2 DEF Calls
    <3> QED BY <1>1, <1>2, <1>3, <2>1, <2>3, <3>1 DEF CallsOK
  <2>6. SendOK'
    BY <1>2, <1>3, <2>1, <2>3 DEF SendOK
  <2>7. SlotKept'
    BY <1>1, <1>2, <1>3, <2>1 DEF SlotKept, Underway
  <2>8. ASSUME NEW n \in Calls
        PROVE  FrameOK(n)'
    <3>1. CASE n = c
      BY <1>2, <1>3, <3>1 DEF FrameOK
    <3>2. CASE n # c
      <4>1. FrameOK(n) /\ tx[n].slot \in Slots
        BY <1>1 DEF TxInv, TxTypeOK, Transmits
      <4>2. tx[n].stage = "dma" /\ tx[n].slot = tx_next => result[n] = "TIMEOUT"
        BY <1>1, <1>2, BufferIsFree DEF Underway
      <4> QED BY <1>2, <2>1, <2>2, <3>2, <4>1, <4>2 DEF FrameOK
    <3> QED BY <3>1, <3>2
  <2> QED BY <1>4, <1>5, <2>4, <2>5, <2>6, <2>7, <2>8 DEF Inv, TxInv
<1> QED BY <1>6, <1>7, <1>8 DEF rtl8139_send

\* What a step of the call in progress leaves alone.
LEMMA InSend ==
  ASSUME Inv, Sending
  PROVE  /\ send # NoSend /\ RxInv' /\ sends' = sends
         /\ TxInv /\ TxTypeOK /\ CallsOK /\ SendOK /\ InOrder /\ SlotKept
<1>1. send # NoSend /\ UNCHANGED <<sends, ifstate, rxVars, handler, isr, panic>>
  BY Zenon DEF Sending, CopyDone, WriteTsd, ReadStatus, SendDone, SendAborted, SendWait, SendTimeout,
               Undecided, At
<1>2. RxInv'
  BY <1>1, RxSame DEF Inv, Running
<1> QED BY <1>1, <1>2 DEF Inv, TxInv

\* The copy fills the buffer of the next slot: still no transmit underway has it
\* but a timed-out one.
LEMMA CopyDoneStep ==
  ASSUME Inv, CopyDone
  PROVE  Inv'
<1>1. /\ send # NoSend /\ RxInv' /\ sends' = sends
      /\ TxInv /\ TxTypeOK /\ CallsOK /\ SendOK /\ InOrder /\ SlotKept
  BY Zenon, InSend DEF Sending
<1>2. /\ send.at = "copy" /\ UNCHANGED <<tx_next, sends, result, tsd, tx>>
      /\ txbuf' = [txbuf EXCEPT ![send.slot] = send.call] /\ send' = [send EXCEPT !.at = "trigger"]
  BY Zenon DEF CopyDone, At
<1>3. /\ send \in SendCalls /\ send.call \in Calls /\ send.slot = tx_next /\ tx_next \in Slots
      /\ send.call = sends /\ result[send.call] = "PENDING" /\ tx[send.call].stage = "none"
      /\ send.statusreg = {}
  BY <1>1, <1>2, SendIsRecord DEF SendOK
<1>4. /\ txbuf' \in [Slots -> Nat] /\ txbuf'[tx_next] = send.call
      /\ \A s \in Slots : s # tx_next => txbuf'[s] = txbuf[s]
  BY <1>1, <1>2, <1>3 DEF TxTypeOK, Calls
<1>5. /\ send' \in SendCalls /\ send' # NoSend /\ send'.call = send.call /\ send'.slot = send.slot
      /\ send'.at = "trigger" /\ send'.statusreg = send.statusreg
  <2>1. /\ send' \in SendCalls /\ send'.call = send.call /\ send'.slot = send.slot
        /\ send'.at = "trigger" /\ send'.statusreg = send.statusreg
    BY <1>2, <1>3 DEF SendCalls
  <2>2. send.call # NoSend.call
    BY <1>3 DEF NoSend, Calls
  <2> QED BY Zenon, <2>1, <2>2
<1>6. TxTypeOK'
  BY Zenon, <1>1, <1>2, <1>4, <1>5 DEF TxTypeOK
<1>7. CallsOK' /\ InOrder' /\ SlotKept'
  BY <1>1, <1>2, <1>5 DEF CallsOK, InOrder, SlotKept, Underway
<1>8. SendOK'
  BY <1>2, <1>3, <1>4, <1>5 DEF SendOK
<1>9. ASSUME NEW n \in Calls
      PROVE  FrameOK(n)'
  <2>1. FrameOK(n) /\ tx[n].slot \in Slots
    BY <1>1 DEF TxInv, TxTypeOK, Transmits
  <2>2. tx[n].stage = "dma" /\ tx[n].slot = tx_next => result[n] = "TIMEOUT"
    BY <1>1, <1>3, BufferIsFree DEF Underway
  <2> QED BY <1>2, <1>4, <2>1, <2>2 DEF FrameOK
<1> QED BY <1>1, <1>6, <1>7, <1>8, <1>9 DEF Inv, TxInv

\* The new transmit begins with the call's own frame in its buffer and a clean
\* status.
LEMMA WriteTsdStep ==
  ASSUME Inv, WriteTsd
  PROVE  Inv'
<1>1. /\ send # NoSend /\ RxInv' /\ sends' = sends
      /\ TxInv /\ TxTypeOK /\ CallsOK /\ SendOK /\ InOrder /\ SlotKept
  BY Zenon, InSend DEF Sending
<1>2. /\ send.at = "trigger" /\ UNCHANGED <<tx_next, sends, result, txbuf>>
      /\ send' = [send EXCEPT !.at = "read"]
  BY Zenon DEF WriteTsd, At
<1>3. /\ send \in SendCalls /\ send.call \in Calls /\ send.slot = tx_next /\ tx_next \in Slots
      /\ send.call = sends /\ result[send.call] = "PENDING" /\ txbuf[send.slot] = send.call
      /\ send.statusreg = {} /\ send.length \in Nat
  BY <1>1, <1>2, SendIsRecord DEF SendOK, SendCalls
<1>4. /\ tsd' \in [Slots -> Descriptors]
      /\ tsd'[send.slot].call = send.call /\ tsd'[send.slot].status = {}
  <2>1. tsd' = [tsd EXCEPT ![send.slot] = [call |-> send.call, status |-> {}]]
    BY DEF WriteTsd, StatusAfterWrite
  <2>2. [call |-> send.call, status |-> {}] \in Descriptors
    BY <1>3 DEF Descriptors, Calls
  <2> QED BY <1>1, <1>3, <2>1, <2>2 DEF TxTypeOK
<1>5. PICK replaced \in SUBSET {n \in Calls : tx[n].stage = "dma" /\ tx[n].slot = send.slot} :
       tx' = [n \in Calls |->
                IF n = send.call
                THEN [slot |-> send.slot, length |-> Padded(send.length), bytes |-> Torn, stage |-> "dma"]
                ELSE IF n \in replaced THEN NoTransmit ELSE tx[n]]
  BY Zenon DEF WriteTsd
<1> DEFINE new == [slot |-> send.slot, length |-> Padded(send.length), bytes |-> Torn, stage |-> "dma"]
<1>6. /\ new \in Transmits /\ new.slot = send.slot /\ new.length >= ETH_FRAME_MIN /\ new.stage = "dma"
      /\ NoTransmit \in Transmits /\ NoTransmit.stage = "none"
  <2>1. Padded(send.length) \in Nat /\ Padded(send.length) >= ETH_FRAME_MIN
    BY <1>3 DEF Padded, ETH_FRAME_MIN
  <2>2. 0 \in Slots
    BY Rtl8139Assumption DEF Slots
  <2> QED BY <1>3, <2>1, <2>2 DEF Transmits, NoTransmit, Torn
<1> HIDE DEF new
<1>7. /\ tx' \in [Calls -> Transmits]
      /\ tx'[send.call] = new
      /\ \A n \in Calls : n # send.call => tx'[n] = tx[n] \/ (tx'[n] = NoTransmit /\ tx[n].stage = "dma")
  <2>1. tx' = [n \in Calls |-> IF n = send.call THEN new ELSE IF n \in replaced THEN NoTransmit ELSE tx[n]]
    BY <1>5 DEF new
  <2>2. tx \in [Calls -> Transmits]
    BY <1>1 DEF TxTypeOK
  <2> QED BY <1>3, <1>6, <2>1, <2>2
<1>8. /\ send' \in SendCalls /\ send' # NoSend /\ send'.call = send.call /\ send'.slot = send.slot
      /\ send'.at = "read" /\ send'.statusreg = send.statusreg
  <2>1. /\ send' \in SendCalls /\ send'.call = send.call /\ send'.slot = send.slot
        /\ send'.at = "read" /\ send'.statusreg = send.statusreg
    BY <1>2, <1>3 DEF SendCalls
  <2>2. send.call # NoSend.call
    BY <1>3 DEF NoSend, Calls
  <2> QED BY Zenon, <2>1, <2>2
<1>9. TxTypeOK'
  BY Zenon, <1>1, <1>2, <1>4, <1>7, <1>8 DEF TxTypeOK
<1>10. \A n \in Calls : /\ tx'[n].stage \in {"fifo", "abort", "sent"} => tx'[n] = tx[n]
                        /\ n # send.call => tx'[n].stage \in {tx[n].stage, "none"}
                        /\ n # send.call /\ tx'[n].stage # "none" => tx'[n] = tx[n]
  BY <1>6, <1>7
<1>11. CallsOK'
  <2>1. result[send.call] \notin {"NONE", "OK"}
    BY <1>3
  <2>2. \A n \in Calls : tx[n].stage = "sent" => tx'[n].stage = "sent" \/ n = send.call
    BY <1>7, <1>6
  <2> QED BY <1>1, <1>2, <1>8, <1>10, <2>1, <2>2 DEF CallsOK
<1>12. SendOK'
  BY <1>2, <1>3, <1>4, <1>6, <1>7, <1>8 DEF SendOK, StatusOK
<1>13. InOrder'
  <2> SUFFICES ASSUME NEW n \in Calls, NEW m \in Calls,
                      tx'[n].stage \in {"fifo", "abort", "sent"}, m < n
               PROVE  tx'[m].stage \notin {"dma", "fifo", "abort"}
    BY DEF InOrder, Underway
  <2>1. tx[n].stage \in {"fifo", "abort", "sent"} /\ ~Underway(m)
    BY <1>1, <1>10 DEF InOrder
  <2>2. ~(n > send.call)
    BY <1>1, <1>3, <2>1, SendIsRecord
  <2>3. m # send.call
    BY <1>3, <2>2 DEF Calls
  <2> QED BY <1>10, <2>1, <2>3 DEF Underway
<1>14. SlotKept'
  BY <1>1, <1>2, <1>3, <1>10 DEF SlotKept, Underway
<1>15. ASSUME NEW n \in Calls
       PROVE  FrameOK(n)'
  <2>1. CASE n = send.call
    BY <1>2, <1>3, <1>6, <1>7, <2>1 DEF FrameOK
  <2>2. CASE n # send.call
    <3>1. FrameOK(n)
      BY <1>1 DEF TxInv
    <3> QED BY <1>2, <1>10, <2>2, <3>1 DEF FrameOK
  <2> QED BY <2>1, <2>2
<1> QED BY <1>1, <1>9, <1>11, <1>12, <1>13, <1>14, <1>15 DEF Inv, TxInv

\* Reading the status and waiting touch the call in progress only; the status is
\* that of its own transmit.
LEMMA WaitStep ==
  ASSUME Inv, ReadStatus \/ SendWait
  PROVE  Inv'
<1>1. /\ send # NoSend /\ RxInv' /\ sends' = sends
      /\ TxInv /\ TxTypeOK /\ CallsOK /\ SendOK /\ InOrder /\ SlotKept
  BY Zenon, InSend DEF Sending
<1>2. UNCHANGED <<tx_next, sends, result, txbuf, tsd, tx>> /\ send.at \in {"read", "poll"}
  BY DEF ReadStatus, SendWait, Undecided, At
<1>3. /\ send \in SendCalls /\ send.call \in Calls /\ send.slot \in Slots
  BY <1>1, SendIsRecord
<1>4. /\ send' \in SendCalls /\ send'.call = send.call /\ send'.slot = send.slot
      /\ send'.at = "poll" /\ send'.statusreg \in {send.statusreg, tsd[send.slot].status}
  <2>1. CASE ReadStatus
    <3>1. send' = [send EXCEPT !.statusreg = tsd[send.slot].status, !.at = "poll"]
      BY <2>1 DEF ReadStatus
    <3>2. tsd[send.slot].status \in SUBSET Bits
      BY <1>1, <1>3 DEF TxTypeOK, Descriptors
    <3> QED BY <1>3, <3>1, <3>2 DEF SendCalls
  <2>2. CASE SendWait
    <3>1. send' = [send EXCEPT !.timeout = @ - 1] /\ send.at = "poll"
      BY <2>2 DEF SendWait, Undecided, At
    <3> QED BY <1>3, <3>1 DEF SendCalls
  <2> QED BY <2>1, <2>2
<1>5. send' # NoSend
  <2>1. send.call # NoSend.call
    BY <1>3 DEF NoSend, Calls
  <2> QED BY Zenon, <1>4, <2>1
<1>6. TxTypeOK'
  BY Zenon, <1>1, <1>2, <1>4 DEF TxTypeOK
<1>7. CallsOK' /\ InOrder' /\ SlotKept'
  BY <1>1, <1>2, <1>4, <1>5 DEF CallsOK, InOrder, SlotKept, Underway
<1>8. SendOK'
  <2>1. /\ send.call = sends /\ send.slot = tx_next /\ result[send.call] = "PENDING"
        /\ txbuf[send.slot] = send.call /\ tsd[send.slot].call = send.call
        /\ tx[send.call].slot = send.slot /\ tx[send.call].stage # "none"
        /\ StatusOK(tsd[send.slot].status, tx[send.call].stage)
        /\ StatusOK(send.statusreg, tx[send.call].stage)
    BY <1>1, <1>2 DEF SendOK
  <2>2. StatusOK(send'.statusreg, tx[send.call].stage)
    BY <1>4, <2>1
  <2> QED BY <1>2, <1>4, <2>1, <2>2 DEF SendOK, StatusOK
<1>9. \A n \in Calls : FrameOK(n)'
  BY <1>1, <1>2 DEF TxInv, FrameOK
<1> QED BY <1>1, <1>6, <1>7, <1>8, <1>9 DEF Inv, TxInv

\* A call that times out leaves its transmit behind, and the slot it was in.
LEMMA SendTimeoutStep ==
  ASSUME Inv, SendTimeout
  PROVE  Inv'
<1>1. /\ send # NoSend /\ RxInv' /\ sends' = sends
      /\ TxInv /\ TxTypeOK /\ CallsOK /\ SendOK /\ InOrder /\ SlotKept
  BY Zenon, InSend DEF Sending
<1>2. /\ UNCHANGED <<tx_next, sends, txbuf, tsd, tx>> /\ send' = NoSend
      /\ result' = [result EXCEPT ![send.call] = "TIMEOUT"]
  BY DEF SendTimeout, Return
<1>3. send.call \in Calls /\ send.call = sends
  BY <1>1, SendIsRecord
<1>4. /\ result' \in [Calls -> Results] /\ result'[send.call] = "TIMEOUT"
      /\ \A n \in Calls : n # send.call => result'[n] = result[n]
  BY <1>1, <1>2, <1>3 DEF TxTypeOK, Results
<1>5. TxTypeOK'
  BY Zenon, <1>1, <1>2, <1>4 DEF TxTypeOK
<1>6. CallsOK'
  <2>1. \A n \in Calls : n > sends => n # send.call
    BY <1>3 DEF Calls
  <2> QED BY <1>1, <1>2, <1>4, <2>1 DEF CallsOK
<1>7. SendOK' /\ InOrder' /\ SlotKept'
  BY <1>1, <1>2, <1>4 DEF SendOK, InOrder, SlotKept, Underway
<1>8. \A n \in Calls : FrameOK(n)'
  BY <1>1, <1>2, <1>4 DEF TxInv, FrameOK
<1> QED BY <1>1, <1>5, <1>6, <1>7, <1>8 DEF Inv, TxInv

\* A call that has seen its transmit sent or aborted goes on to the next slot.
\* No transmit but an aborted one is underway then, and that one is not in the
\* slot the driver goes on to; sent again, it is still the call's own frame.
LEMMA ReturnStep ==
  ASSUME Inv, SendDone \/ SendAborted
  PROVE  Inv'
<1>1. /\ send # NoSend /\ RxInv' /\ sends' = sends
      /\ TxInv /\ TxTypeOK /\ CallsOK /\ SendOK /\ InOrder /\ SlotKept
  BY Zenon, InSend DEF Sending
<1>2. /\ send.at = "poll" /\ UNCHANGED <<sends, txbuf, tsd>> /\ send' = NoSend
      /\ tx_next' = NextSlot(send.slot)
  BY DEF SendDone, SendAborted, Return, At
<1>3. /\ send.call \in Calls /\ send.call = sends /\ send.slot \in Slots
      /\ result[send.call] = "PENDING" /\ tx[send.call].slot = send.slot
      /\ txbuf[send.slot] = send.call /\ StatusOK(send.statusreg, tx[send.call].stage)
      /\ \A n \in Calls : n > send.call => tx[n].stage = "none"
  BY <1>1, <1>2, SendIsRecord DEF SendOK
<1>4. tx_next' \in Slots /\ tx_next' # send.slot
  <2>1. \A s \in Slots : NextSlot(s) \in Slots /\ NextSlot(s) # s
    BY Rtl8139Assumption DEF NextSlot, Slots
  <2> QED BY <1>2, <1>3, <2>1
<1>5. PICK r \in {"OK", "ERROR"} :
         /\ result' = [result EXCEPT ![send.call] = r]
         /\ r = "OK" => "TOK" \in send.statusreg /\ tx' = tx
         /\ r = "ERROR" => "TABT" \in send.statusreg /\ ClearAbort
  <2>1. CASE SendDone
    BY <2>1 DEF SendDone, Return, Done
  <2>2. CASE SendAborted
    BY <2>2 DEF SendAborted, Return
  <2> QED BY <2>1, <2>2
<1>6. /\ r = "OK" => tx[send.call].stage = "sent"
      /\ r = "ERROR" => tx[send.call].stage = "abort"
  BY <1>3, <1>5 DEF StatusOK
<1>7. /\ result' \in [Calls -> Results] /\ result'[send.call] = r
      /\ \A n \in Calls : n # send.call => result'[n] = result[n]
  BY <1>1, <1>3, <1>5 DEF TxTypeOK, Results
<1>8. \A n \in Calls : n # send.call => ~Underway(n)
  <2>1. \A n \in Calls : n < send.call => ~Underway(n)
    BY <1>1, <1>3, <1>6 DEF InOrder
  <2>2. \A n \in Calls : n > send.call => ~Underway(n)
    BY <1>3 DEF Underway
  <2>3. \A n \in Calls : n # send.call => n < send.call \/ n > send.call
    BY <1>3 DEF Calls
  <2> QED BY <2>1, <2>2, <2>3
<1>9. /\ tx' \in [Calls -> Transmits]
      /\ \A n \in Calls : n # send.call => tx'[n] = tx[n]
      /\ tx'[send.call].slot = send.slot /\ tx'[send.call].length = tx[send.call].length
      /\ r = "OK" => tx'[send.call] = tx[send.call]
      /\ r = "ERROR" => tx'[send.call].stage = "dma"
  <2>1. tx \in [Calls -> Transmits]
    BY <1>1 DEF TxTypeOK
  <2>2. CASE r = "OK"
    BY <1>3, <1>5, <2>1, <2>2
  <2>3. CASE r = "ERROR"
    <3>1. tx' = [n \in Calls |-> IF tx[n].stage = "abort" THEN [tx[n] EXCEPT !.stage = "dma"] ELSE tx[n]]
      BY <1>5, <2>3 DEF ClearAbort
    <3>2. \A n \in Calls : n # send.call => tx[n].stage # "abort"
      BY <1>8 DEF Underway
    <3>3. \A t \in Transmits : /\ [t EXCEPT !.stage = "dma"] \in Transmits
                               /\ [t EXCEPT !.stage = "dma"].slot = t.slot
                               /\ [t EXCEPT !.stage = "dma"].length = t.length
                               /\ [t EXCEPT !.stage = "dma"].stage = "dma"
      BY DEF Transmits
    <3>4. /\ \A n \in Calls : n # send.call => tx'[n] = tx[n]
          /\ tx'[send.call] = [tx[send.call] EXCEPT !.stage = "dma"]
      BY <1>3, <1>6, <2>3, <3>1, <3>2
    <3>5. tx' \in [Calls -> Transmits]
      BY <2>1, <3>1, <3>3
    <3> QED BY <1>3, <2>1, <2>3, <3>3, <3>4, <3>5
  <2> QED BY <2>2, <2>3
<1>10. TxTypeOK'
  BY Zenon, <1>1, <1>2, <1>4, <1>7, <1>9 DEF TxTypeOK
<1>11. CallsOK'
  <2>1. \A n \in Calls : n > sends => n # send.call
    BY <1>3 DEF Calls
  <2>2. \A n \in Calls : result'[n] # "PENDING"
    BY <1>1, <1>7 DEF CallsOK
  <2> QED BY <1>1, <1>2, <1>6, <1>7, <1>9, <2>1, <2>2 DEF CallsOK
<1>12. SendOK'
  BY <1>2 DEF SendOK
<1>13. InOrder'
  <2> SUFFICES ASSUME NEW n \in Calls, NEW m \in Calls,
                      tx'[n].stage \in {"fifo", "abort", "sent"}, m < n
               PROVE  tx'[m].stage \notin {"dma", "fifo", "abort"}
    BY DEF InOrder, Underway
  <2>1. CASE m # send.call
    BY <1>8, <1>9, <2>1 DEF Underway
  <2>2. CASE m = send.call
    <3>1. n > send.call /\ n # send.call
      BY <2>2 DEF Calls
    <3> QED BY <1>3, <1>9, <3>1
  <2> QED BY <2>1, <2>2
<1>14. SlotKept'
  <2> SUFFICES ASSUME NEW n \in Calls, tx'[n].stage \in {"dma", "fifo", "abort"}
               PROVE  tx'[n].slot # tx_next'
    BY DEF SlotKept, Underway
  <2>1. n = send.call
    BY <1>8, <1>9 DEF Underway
  <2> QED BY <1>4, <1>9, <2>1
<1>15. ASSUME NEW n \in Calls
       PROVE  FrameOK(n)'
  <2>1. FrameOK(n)
    BY <1>1 DEF TxInv
  <2>2. CASE n # send.call
    BY <1>2, <1>7, <1>9, <2>1, <2>2 DEF FrameOK
  <2>3. CASE n = send.call /\ r = "OK"
    BY <1>2, <1>3, <1>6, <1>7, <1>9, <2>1, <2>3 DEF FrameOK
  <2>4. CASE n = send.call /\ r = "ERROR"
    BY <1>2, <1>3, <1>6, <1>7, <1>9, <2>1, <2>4 DEF FrameOK
  <2> QED BY <2>2, <2>3, <2>4
<1> QED BY <1>1, <1>10, <1>11, <1>12, <1>13, <1>14, <1>15 DEF Inv, TxInv

\* What the chip does to the transmit whose turn it is, and what its descriptor
\* shows.
ChipMoves(n, from, to, bit) ==
  /\ Turn(n) /\ tx[n].stage = from /\ Report(n, bit)
  /\ tx'[n].stage = to /\ tx'[n].slot = tx[n].slot /\ tx'[n].length = tx[n].length
  /\ tx'[n].bytes = IF from = "dma" THEN txbuf[tx[n].slot] ELSE tx[n].bytes
  /\ \A m \in Calls : m # n => tx'[m] = tx[m]
  /\ tx' \in [Calls -> Transmits]

\* The three steps of the chip on a transmit, in one form.
LEMMA ChipMovesOn ==
  ASSUME Inv, NEW n \in Calls, ChipDma(n) \/ ChipTransmit(n) \/ ChipAbort(n)
  PROVE  \/ ChipMoves(n, "dma", "fifo", "OWN")
         \/ ChipMoves(n, "fifo", "sent", "TOK")
         \/ ChipMoves(n, "fifo", "abort", "TABT")
<1>1. tx \in [Calls -> Transmits] /\ tx[n] \in Transmits /\ txbuf[tx[n].slot] \in Nat
  BY DEF Inv, TxInv, TxTypeOK, Transmits
<1>2. CASE ChipDma(n)
  <2> DEFINE t == [tx[n] EXCEPT !.stage = "fifo", !.bytes = txbuf[tx[n].slot]]
  <2>1. /\ t \in Transmits /\ t.stage = "fifo" /\ t.slot = tx[n].slot /\ t.length = tx[n].length
        /\ t.bytes = txbuf[tx[n].slot]
    BY <1>1 DEF Transmits
  <2>2. tx' = [tx EXCEPT ![n] = t]
    BY <1>2 DEF ChipDma
  <2> HIDE DEF t
  <2>3. tx'[n] = t /\ tx' \in [Calls -> Transmits] /\ \A m \in Calls : m # n => tx'[m] = tx[m]
    BY <1>1, <2>1, <2>2
  <2>4. Turn(n) /\ tx[n].stage = "dma" /\ Report(n, "OWN")
    BY <1>2 DEF ChipDma
  <2> QED BY <2>1, <2>3, <2>4 DEF ChipMoves
<1>3. ASSUME NEW to \in {"sent", "abort"}, tx' = [tx EXCEPT ![n].stage = to]
      PROVE  /\ tx'[n].stage = to /\ tx'[n].slot = tx[n].slot /\ tx'[n].length = tx[n].length
             /\ tx'[n].bytes = tx[n].bytes /\ tx' \in [Calls -> Transmits]
             /\ \A m \in Calls : m # n => tx'[m] = tx[m]
  <2> DEFINE t == [tx[n] EXCEPT !.stage = to]
  <2>1. /\ t \in Transmits /\ t.stage = to /\ t.slot = tx[n].slot /\ t.length = tx[n].length
        /\ t.bytes = tx[n].bytes
    BY <1>1 DEF Transmits
  <2>2. tx' = [tx EXCEPT ![n] = t]
    BY <1>3
  <2> HIDE DEF t
  <2>3. tx'[n] = t /\ tx' \in [Calls -> Transmits] /\ \A m \in Calls : m # n => tx'[m] = tx[m]
    BY <1>1, <2>1, <2>2
  <2> QED BY <2>1, <2>3
<1>4. CASE ChipTransmit(n)
  <2>1. tx' = [tx EXCEPT ![n].stage = "sent"] /\ Turn(n) /\ tx[n].stage = "fifo" /\ Report(n, "TOK")
    BY <1>4 DEF ChipTransmit
  <2> QED BY <1>3, <2>1 DEF ChipMoves
<1>5. CASE ChipAbort(n)
  <2>1. tx' = [tx EXCEPT ![n].stage = "abort"] /\ Turn(n) /\ tx[n].stage = "fifo" /\ Report(n, "TABT")
    BY <1>5 DEF ChipAbort
  <2> QED BY <1>3, <2>1 DEF ChipMoves
<1> QED BY <1>2, <1>4, <1>5

\* The chip moves a transmit on whose turn it is: nothing older is underway, a
\* call in progress learns of its own transmit only, and the bytes the chip
\* reads are the ones the buffer holds.
LEMMA ChipMovesStep ==
  ASSUME TxInv, NEW n \in Calls, NEW from, NEW to, NEW bit \in Bits, ChipMoves(n, from, to, bit),
         UNCHANGED <<tx_next, send, sends, result, txbuf>>,
         \/ from = "dma" /\ to = "fifo" /\ bit = "OWN"
         \/ from = "fifo" /\ to = "sent" /\ bit = "TOK"
         \/ from = "fifo" /\ to = "abort" /\ bit = "TABT"
  PROVE  TxInv'
<1>1. TxTypeOK /\ CallsOK /\ SendOK /\ InOrder /\ SlotKept /\ \A m \in Calls : FrameOK(m)
  BY DEF TxInv
<1>2. /\ Turn(n) /\ tx[n].stage = from /\ tx'[n].stage = to /\ tx'[n].slot = tx[n].slot
      /\ tx'[n].length = tx[n].length
      /\ tx'[n].bytes = IF from = "dma" THEN txbuf[tx[n].slot] ELSE tx[n].bytes
      /\ \A m \in Calls : m # n => tx'[m] = tx[m]
      /\ tx' \in [Calls -> Transmits]
  BY DEF ChipMoves
<1>3. /\ tsd' \in [Slots -> Descriptors]
      /\ \A s \in Slots : /\ tsd'[s].call = tsd[s].call
                          /\ tsd'[s].call # n => tsd'[s] = tsd[s]
                          /\ tsd'[s].call = n => tsd'[s].status = tsd[s].status \cup {bit}
  <2>1. tsd \in [Slots -> Descriptors]
    BY <1>1 DEF TxTypeOK
  <2>2. tsd' = [s \in Slots |-> IF tsd[s].call = n
                               THEN [tsd[s] EXCEPT !.status = tsd[s].status \cup {bit}] ELSE tsd[s]]
    BY DEF ChipMoves, Report
  <2>3. \A d \in Descriptors : LET e == [d EXCEPT !.status = d.status \cup {bit}]
                               IN  e \in Descriptors /\ e.call = d.call /\ e.status = d.status \cup {bit}
    BY DEF Descriptors
  <2> QED BY <2>1, <2>2, <2>3
<1>4. TxTypeOK'
  BY Zenon, <1>1, <1>2, <1>3 DEF TxTypeOK
<1>5. CallsOK'
  BY <1>1, <1>2 DEF CallsOK
<1>6. SendOK'
  <2> SUFFICES ASSUME send # NoSend PROVE SendOK'
    BY DEF SendOK
  <2>1. send.call \in Calls /\ send.slot \in Slots
    BY SendIsRecord
  <2>2. CASE send.call # n
    <3>1. tx'[send.call] = tx[send.call]
      BY <1>2, <2>1, <2>2
    <3>2. tsd[send.slot].call = send.call => tsd'[send.slot] = tsd[send.slot]
      BY <1>3, <2>1, <2>2
    <3> QED BY <1>1, <3>1, <3>2 DEF SendOK
  <2>3. CASE send.call = n
    <3>1. send.at \notin {"copy", "trigger"}
      BY <1>1, <1>2, <2>3 DEF SendOK
    <3>2. ~("TOK" \in tsd[send.slot].status \/ "TABT" \in tsd[send.slot].status) \/ send.at \notin {"read", "poll"}
      BY <1>1, <1>2, <2>3 DEF SendOK, StatusOK
    <3>3. ~("TOK" \in send.statusreg \/ "TABT" \in send.statusreg) \/ send.at \notin {"read", "poll"}
      BY <1>1, <1>2, <2>3 DEF SendOK, StatusOK
    <3>4. send.at \in {"read", "poll"} =>
            /\ tsd'[send.slot].call = send.call
            /\ StatusOK(tsd'[send.slot].status, to) /\ StatusOK(send.statusreg, to)
      BY <1>1, <1>3, <2>1, <2>3, <3>2, <3>3 DEF SendOK, StatusOK
    <3> QED BY <1>1, <1>2, <2>3, <3>1, <3>4 DEF SendOK
  <2> QED BY <2>2, <2>3
<1>7. \A m \in Calls : Underway(m)' => Underway(m)
  BY <1>2 DEF Underway, Turn
<1>8. InOrder'
  <2> SUFFICES ASSUME NEW k \in Calls, NEW m \in Calls,
                      tx'[k].stage \in {"fifo", "abort", "sent"}, m < k
               PROVE  ~Underway(m)'
    BY DEF InOrder
  <2>1. CASE k = n
    <3>1. ~(n <= m)
      BY <2>1 DEF Calls
    <3> QED BY <1>2, <1>7, <3>1 DEF Turn
  <2>2. CASE k # n
    BY <1>1, <1>2, <1>7, <2>2 DEF InOrder
  <2> QED BY <2>1, <2>2
<1>9. SlotKept'
  BY <1>1, <1>2, <1>7 DEF SlotKept
<1>10. \A m \in Calls : FrameOK(m)'
  BY <1>1, <1>2 DEF FrameOK
<1> QED BY <1>4, <1>5, <1>6, <1>8, <1>9, <1>10 DEF TxInv

\* The chip moves a transmit on.
LEMMA ChipStep ==
  ASSUME Inv, NEW n \in Calls, ChipDma(n) \/ ChipTransmit(n) \/ ChipAbort(n)
  PROVE  Inv'
<1>1. /\ UNCHANGED <<tx_next, send, sends, result, txbuf>>
      /\ UNCHANGED <<ifstate, rxVars, handler, Running>>
      /\ isr \subseteq isr' /\ isr' \subseteq isr \cup IsrBits
  BY DEF ChipDma, ChipTransmit, ChipAbort, Running, IsrBits
<1>2. RxInv'
  BY <1>1, RxSame DEF Inv
<1>3. TxInv'
  BY <1>1, ChipMovesOn, ChipMovesStep DEF Inv, Bits
<1> QED BY <1>2, <1>3 DEF Inv

\* A frame that arrives raises ROK, or RBO when there is no room for it.
LEMMA ChipReceiveStep ==
  ASSUME Inv, NEW h \in Headers, ChipReceive(h)
  PROVE  Inv'
<1>1. TxInv'
  <2>1. UNCHANGED txVars
    BY DEF ChipReceive
  <2> QED BY <2>1, TxSame DEF Inv
<1>2. UNCHANGED <<ifstate, handler, early>> /\ (Running' => Running)
  BY DEF ChipReceive, Running
<1>3. CASE ring' = Append(ring, h) /\ isr' = isr \cup {"ROK"}
  <2>1. /\ ring' \in Seq(Headers) /\ early' \in Nat /\ "ROK" \in isr'
        /\ isr' \in SUBSET IsrBits /\ handler' = handler
    BY <1>2, <1>3 DEF Inv, RxInv, IsrBits
  <2> QED BY Zenon, <1>1, <2>1 DEF Inv, RxInv, NoFrameLostSilently
<1>4. CASE isr' = isr \cup {"RBO"} /\ ring' = ring
  <2>1. UNCHANGED rxVars
    BY <1>2, <1>4 DEF ChipReceive, rxVars
  <2>2. isr \subseteq isr' /\ isr' \subseteq isr \cup IsrBits
    BY <1>4 DEF IsrBits
  <2> QED BY <1>1, <1>2, <2>1, <2>2, RxSame DEF Inv
<1> QED BY <1>3, <1>4 DEF ChipReceive

\* The handler acknowledges only what it has read, and what it has read with ROK
\* set it drains.
LEMMA HandlerStep ==
  ASSUME Inv, rtl8139_irqhandler \/ Handling
  PROVE  Inv'
<1> USE DEF Handling
<1>1. /\ UNCHANGED <<txVars, rxVars, ifstate>> /\ (Running' => Running)
  BY DEF rtl8139_irqhandler, AckIsr, RxDrain, Thread, Running
<1>2. TxInv'
  BY <1>1, TxSame DEF Inv
<1>3. RxInv'
  <2>1. CASE rtl8139_irqhandler
    <3>1. /\ UNCHANGED isr /\ handler = Idle
          /\ \/ UNCHANGED handler
             \/ handler' = [at |-> "ack", isrstatus |-> isr]
      BY <2>1 DEF rtl8139_irqhandler, Thread
    <3>2. CASE handler' = handler
      BY <1>1, <3>1, <3>2, RxSame DEF Inv
    <3>3. CASE handler' = [at |-> "ack", isrstatus |-> isr]
      <4>1. handler.at = "idle"
        BY <3>1 DEF Idle
      <4> QED BY <1>1, <3>1, <3>3, <4>1 DEF Inv, RxInv, NoFrameLostSilently, rxVars, Running
    <3> QED BY <3>1, <3>2, <3>3
  <2>2. CASE AckIsr
    <3>1. /\ handler \in [at : {"idle", "ack", "drain"}, isrstatus : SUBSET IsrBits]
          /\ isr \in SUBSET IsrBits /\ handler.at = "ack" /\ UNCHANGED <<ring, early, ifstate, panic>>
          /\ isr' = isr \ handler.isrstatus
          /\ handler' = IF "ROK" \in handler.isrstatus THEN [handler EXCEPT !.at = "drain"] ELSE Idle
      BY <2>2 DEF AckIsr, Acknowledged, Inv, RxInv, rxVars
    <3>2. CASE "ROK" \in handler.isrstatus
      <4>1. /\ handler' \in [at : {"idle", "ack", "drain"}, isrstatus : SUBSET IsrBits]
            /\ handler'.at = "drain" /\ handler'.isrstatus = handler.isrstatus
        BY <3>1, <3>2
      <4> QED BY <3>1, <3>2, <4>1 DEF Inv, RxInv, NoFrameLostSilently
    <3>3. CASE "ROK" \notin handler.isrstatus
      <4>1. handler' \in [at : {"idle", "ack", "drain"}, isrstatus : SUBSET IsrBits]
        BY <3>1, <3>3 DEF Idle
      <4> QED BY <3>1, <3>3, <4>1 DEF Inv, RxInv, NoFrameLostSilently
    <3> QED BY <3>2, <3>3
  <2>3. CASE RxDrain
    <3>1. UNCHANGED <<ring, early, isr>>
      BY <2>3 DEF RxDrain, rxVars
    <3>2. CASE ring = <<>>
      <4>1. handler' \in [at : {"idle", "ack", "drain"}, isrstatus : SUBSET IsrBits]
        BY <2>3, <3>2 DEF RxDrain, Idle
      <4>2. ~(Len(ring') > early')
        BY <3>1, <3>2 DEF Inv, RxInv
      <4> QED BY <3>1, <4>1, <4>2 DEF Inv, RxInv, NoFrameLostSilently
    <3>3. CASE ring # <<>>
      <4>1. handler' = handler /\ ~Running'
        BY Zenon, <2>3, <3>3 DEF RxDrain, Running
      <4> QED BY Zenon, <3>1, <4>1 DEF Inv, RxInv, NoFrameLostSilently, Running
    <3> QED BY <3>2, <3>3
  <2> QED BY <2>1, <2>2, <2>3
<1> QED BY <1>2, <1>3 DEF Inv

\* The invariant speaks of the variables only.
LEMMA StutterStep ==
  ASSUME Inv, UNCHANGED vars
  PROVE  Inv'
<1>1. UNCHANGED <<txVars, ifstate, rxVars, handler, isr>> /\ (Running' => Running)
  BY DEF vars, Running
<1> QED BY <1>1, TxSame, RxSame DEF Inv

\* The invariant holds in every state: calls, buffers, descriptors and transmits
\* agree, and a received frame is never forgotten.
THEOREM Invariance == Spec => []Inv
<1>1. Inv /\ [Next]_vars => Inv'
  <2> SUFFICES ASSUME Inv, [Next]_vars PROVE Inv'
    OBVIOUS
  <2> QED BY SetupStep, rtl8139_send_Step, CopyDoneStep, WriteTsdStep, WaitStep, ReturnStep,
             SendTimeoutStep, HandlerStep, ChipStep, ChipReceiveStep, StutterStep
          DEF Next, Sending
<1> QED BY <1>1, InitInv, PTL DEF Spec

\* rtl8139_send returns OK only for a frame that went out, whole.
THEOREM OkAlwaysMeansSent == Spec => []OkMeansSent
<1>1. Inv => OkMeansSent
  BY DEF Inv, TxInv, CallsOK, FrameOK, OkMeansSent, Sent
<1> QED BY <1>1, Invariance, PTL

\* What goes out for a call is its own frame, whole and not too short, also when
\* the chip sends it again after an abort; only a call that timed out can have
\* something else go out in its place.
THEOREM WireIsAlwaysClean == Spec => []WireIsClean
<1>1. Inv => WireIsClean
  BY DEF Inv, TxInv, FrameOK, WireIsClean, Sent
<1> QED BY <1>1, Invariance, PTL

\* A frame that arrives after setup has ROK raised for it until a handler that
\* has seen ROK drains the ring.
THEOREM NoFrameIsLostSilently == Spec => []NoFrameLostSilently
<1>1. Inv => NoFrameLostSilently
  BY DEF Inv, RxInv
<1> QED BY <1>1, Invariance, PTL
=============================================================================
