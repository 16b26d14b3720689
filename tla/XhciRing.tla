------------------------------ MODULE XhciRing ------------------------------
(***************************************************************************)
(* A transfer or command ring of the xHCI driver (driver/usb/xhci_hcd.c),  *)
(* between xhcihcd_ring_enqueue and the controller that reads it.          *)
(*                                                                         *)
(* The ring is an array of USABLE slots and a Link TRB behind them.  A TRB *)
(* belongs to the controller when its cycle bit equals the controller's    *)
(* cycle state.  The driver writes a slot's contents, then its control     *)
(* word with the cycle bit, and at the end of the array the Link TRB,      *)
(* whose Toggle Cycle bit makes both sides flip their cycle.  The          *)
(* controller may read between any two of those writes.                    *)
(*                                                                         *)
(* xhcihcd_ring_enqueue does not check for a full ring.  Its callers wait  *)
(* for one command, one control transfer (three TRBs) or one endpoint      *)
(* request at a time, and one that fails ends in a PANIC.                  *)
(* The guard of Fill is this assumption on the callers, not a test in the  *)
(* code: at most USABLE - 1 TRBs are outstanding.                          *)
(***************************************************************************)
EXTENDS Integers, Sequences

CONSTANTS
  Trbs,      \* what a TRB can hold
  NoTrb,     \* the zeroed slot
  USABLE     \* XHCI_RING_USABLE_TRBS

ASSUME RingAssumption == USABLE \in Nat \ {0, 1} /\ NoTrb \notin Trbs

Link == USABLE
Slots == 0..(USABLE - 1)

VARIABLES
  ring,       \* contents of the slots
  cyclebits,  \* the cycle bit of each slot and of the Link TRB
  enqueue,    \* the producer's slot; USABLE while the Link TRB is due
  cycle,      \* the producer's cycle state
  filled,     \* the slot at enqueue has its contents, not yet its cycle bit
  dequeue,    \* the controller's slot; USABLE when it is at the Link TRB
  hccycle,    \* the controller's cycle state
  taken       \* the TRB the controller took last

vars == <<ring, cyclebits, enqueue, cycle, filled, dequeue, hccycle, taken>>

Outstanding ==
  IF cycle = hccycle THEN enqueue - dequeue ELSE (USABLE - dequeue) + enqueue

\* xhcihcd_ring_init, and the ring pointer the controller is given with it.
Init ==
  /\ ring = [i \in Slots |-> NoTrb]
  /\ cyclebits = [i \in 0..USABLE |-> 0]
  /\ enqueue = 0 /\ cycle = 1 /\ filled = FALSE
  /\ dequeue = 0 /\ hccycle = 1 /\ taken = NoTrb

\* parameter and status
Fill(t) ==
  /\ ~filled /\ enqueue \in Slots
  /\ Outstanding < USABLE - 1
  /\ ring' = [ring EXCEPT ![enqueue] = t]
  /\ filled' = TRUE
  /\ UNCHANGED <<cyclebits, enqueue, cycle, dequeue, hccycle, taken>>

\* A mutant: the cycle bit is always 1.
HandOver_one ==
  /\ filled
  /\ cyclebits' = [cyclebits EXCEPT ![enqueue] = 1]
  /\ enqueue' = enqueue + 1
  /\ filled' = FALSE
  /\ UNCHANGED <<ring, cycle, dequeue, hccycle, taken>>

\* control, with the cycle bit, and ++enqueue
HandOver ==
  /\ filled
  /\ cyclebits' = [cyclebits EXCEPT ![enqueue] = cycle]
  /\ enqueue' = enqueue + 1
  /\ filled' = FALSE
  /\ UNCHANGED <<ring, cycle, dequeue, hccycle, taken>>

\* Mutant: the cycle is kept at the wrap.
Flipped_not(c) == c

Flipped(c) == 1 - c

\* A mutant: the Link TRB is not handed over.
LinkAndWrap_unhanded ==
  /\ ~filled /\ enqueue = Link
  /\ enqueue' = 0
  /\ cycle' = Flipped(cycle)
  /\ UNCHANGED <<ring, cyclebits, filled, dequeue, hccycle, taken>>

\* The Link TRB with the current cycle, then wrap and flip.

LinkAndWrap ==
  /\ ~filled /\ enqueue = Link
  /\ cyclebits' = [cyclebits EXCEPT ![Link] = cycle]
  /\ enqueue' = 0
  /\ cycle' = Flipped(cycle)
  /\ UNCHANGED <<ring, filled, dequeue, hccycle, taken>>

\* The controller takes the TRB at its dequeue pointer, or follows the link.
ControllerTakes ==
  /\ dequeue \in Slots /\ cyclebits[dequeue] = hccycle
  /\ taken' = ring[dequeue]
  /\ dequeue' = dequeue + 1
  /\ UNCHANGED <<ring, cyclebits, enqueue, cycle, filled, hccycle>>

ControllerFollowsLink ==
  /\ dequeue = Link /\ cyclebits[Link] = hccycle
  /\ dequeue' = 0 /\ hccycle' = 1 - hccycle
  /\ UNCHANGED <<ring, cyclebits, enqueue, cycle, filled, taken>>

Next ==
  \/ \E t \in Trbs : Fill(t)
  \/ HandOver
  \/ LinkAndWrap
  \/ ControllerTakes
  \/ ControllerFollowsLink

Spec == Init /\ [][Next]_vars

\* The driver finishes what it began and the controller keeps reading.
FairSpec ==
  Spec /\ WF_vars(HandOver) /\ WF_vars(LinkAndWrap)
       /\ WF_vars(ControllerTakes) /\ WF_vars(ControllerFollowsLink)

----------------------------------------------------------------------------
(* Properties *)

\* The types of both sides' state.
TypeOK ==
  /\ ring \in [Slots -> Trbs \cup {NoTrb}]
  /\ cyclebits \in [0..USABLE -> {0, 1}]
  /\ enqueue \in 0..USABLE /\ dequeue \in 0..USABLE
  /\ cycle \in {0, 1} /\ hccycle \in {0, 1}
  /\ filled \in BOOLEAN
  /\ taken \in Trbs \cup {NoTrb}

\* The cycle bits behind the producer carry its cycle, those from enqueue on
\* the other one, up to and including the Link TRB.
CycleBits ==
  \A i \in 0..USABLE : cyclebits[i] = IF i < enqueue THEN cycle ELSE 1 - cycle

\* The controller is behind the producer, by at most one lap.
Laps ==
  IF cycle = hccycle THEN dequeue <= enqueue /\ enqueue - dequeue < USABLE ELSE enqueue < dequeue

\* The slot of the i-th TRB that is handed over and not yet taken.
InFlight(i) == IF dequeue + i - 1 < USABLE THEN dequeue + i - 1 ELSE dequeue + i - 1 - USABLE

\* Every TRB handed over has its contents, and so has the half-built one, which
\* is not among them.
Written ==
  /\ \A i \in 1..Outstanding : ring[InFlight(i)] \in Trbs
  /\ filled => enqueue \in Slots /\ ring[enqueue] \in Trbs /\ Outstanding < USABLE - 1

\* The inductive invariant: where the cycle bits turn is where the producer is,
\* and the controller is less than a lap behind it.
IInv == TypeOK /\ CycleBits /\ Laps /\ Written

\* The controller never takes a slot whose contents are not written: the cycle
\* bit goes last ("so the controller never sees a half-built TRB",
\* xhci_hcd.c:1130).
NeverHalfBuilt == [][ControllerTakes => taken' \in Trbs]_vars

\* The ring is a queue: the controller sees the TRBs that were handed over, in
\* order, each once, across any number of wraps.
queue == [i \in 1..Outstanding |-> ring[InFlight(i)]]

Abstract == INSTANCE Fifo WITH Items <- Trbs, Capacity <- USABLE - 1

RingIsFifo == Abstract!Spec

\* The controller never stalls at a TRB or at the Link TRB while TRBs wait: it
\* empties the ring again and again, or takes TRBs for ever.
Drains == []<>(Outstanding = 0) \/ []<><<ControllerTakes>>_vars
=============================================================================
