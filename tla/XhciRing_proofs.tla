-------------------------- MODULE XhciRing_proofs --------------------------
(***************************************************************************)
(* Proofs for XhciRing: for rings of any size the inductive invariant IInv *)
(* holds, the controller never takes a half-built TRB, and the ring        *)
(* implements the queue of module Fifo.                                    *)
(***************************************************************************)
EXTENDS XhciRing, SequenceTheorems, TLAPS

\* The zeroed ring of xhcihcd_ring_init satisfies the invariant.
LEMMA InitInv == Init => IInv
<1> SUFFICES ASSUME Init PROVE IInv
  OBVIOUS
<1> USE RingAssumption
<1>1. TypeOK
  <2>1. /\ cyclebits \in [0..USABLE -> {0, 1}] /\ cycle \in {0, 1} /\ hccycle \in {0, 1}
        /\ enqueue \in 0..USABLE /\ dequeue \in 0..USABLE
    BY DEF Init
  <2>2. ring \in [Slots -> Trbs \cup {NoTrb}]
    BY DEF Init
  <2>3. filled \in BOOLEAN /\ taken \in Trbs \cup {NoTrb}
    BY Zenon DEF Init
  <2> QED BY <2>1, <2>2, <2>3, Zenon DEF TypeOK
<1>2. CycleBits /\ Laps
  BY DEF Init, CycleBits, Laps
<1>3. Outstanding = 0 /\ ~filled
  BY DEF Init, Outstanding
<1>4. Written
  BY <1>3 DEF Written
<1> QED BY <1>1, <1>2, <1>4 DEF IInv

\* Writing parameter and status of the producer's slot.
LEMMA FillInv == ASSUME IInv, NEW t \in Trbs, Fill(t) PROVE IInv'
<1> USE RingAssumption
<1>1. TypeOK'
  BY DEF IInv, TypeOK, Fill, Slots
<1>2. CycleBits'
  BY DEF IInv, CycleBits, Fill
<1>3. Laps'
  BY DEF IInv, Laps, Fill
<1>4. Outstanding' = Outstanding
  BY DEF Outstanding, Fill
<1>5. \A i \in 1..Outstanding : InFlight(i) \in Slots /\ InFlight(i) # enqueue
  BY DEF IInv, TypeOK, Laps, Outstanding, InFlight, Fill, Slots
<1>6. Written'
  BY <1>4, <1>5 DEF IInv, TypeOK, Written, InFlight, Fill, Slots
<1> QED BY <1>1, <1>2, <1>3, <1>6 DEF IInv

\* Writing the control word: the TRB becomes the controller's.
LEMMA HandOverInv == ASSUME IInv, HandOver PROVE IInv'
<1> USE RingAssumption
<1>0. enqueue \in Slots
  BY DEF IInv, Written, HandOver
<1>1. TypeOK'
  <2>1. cyclebits' \in [0..USABLE -> {0, 1}] /\ enqueue' \in 0..USABLE
    BY <1>0 DEF IInv, TypeOK, HandOver, Slots
  <2> QED BY <2>1, Zenon DEF IInv, TypeOK, HandOver
<1>2. CycleBits'
  BY DEF IInv, TypeOK, CycleBits, Written, HandOver, Slots
<1>3. Laps'
  BY DEF IInv, TypeOK, Laps, Written, HandOver, Outstanding, Slots
<1>4. Outstanding' = Outstanding + 1 /\ Outstanding \in Nat
  BY DEF IInv, TypeOK, Laps, Written, Outstanding, HandOver, Slots
<1>5. InFlight(Outstanding + 1) = enqueue
  BY DEF IInv, TypeOK, Laps, Written, Outstanding, InFlight, HandOver, Slots
<1>6. ASSUME NEW i \in 1..Outstanding' PROVE ring'[InFlight(i)'] \in Trbs
  <2>1. InFlight(i)' = InFlight(i) /\ ring' = ring
    BY DEF InFlight, HandOver
  <2>2. i \in 1..Outstanding \/ i = Outstanding + 1
    BY <1>4
  <2> QED BY <1>5, <2>1, <2>2 DEF IInv, Written, HandOver
<1>7. ~filled'
  BY DEF HandOver
<1>8. Written'
  BY <1>6, <1>7, Zenon DEF Written
<1> QED BY <1>1, <1>2, <1>3, <1>8 DEF IInv

\* Handing over the Link TRB, the wrap and the flip of the producer's cycle.
LEMMA LinkAndWrapInv ==
  ASSUME IInv, LinkAndWrap PROVE IInv' /\ Outstanding' = Outstanding
<1> USE RingAssumption
<1>1. cycle = hccycle
  BY DEF IInv, TypeOK, Laps, LinkAndWrap, Link
<1>2. TypeOK'
  BY DEF IInv, TypeOK, LinkAndWrap, Link, Flipped
<1>3. CycleBits'
  BY DEF IInv, TypeOK, CycleBits, LinkAndWrap, Link, Flipped
<1>4. Laps'
  BY <1>1 DEF IInv, TypeOK, Laps, LinkAndWrap, Link, Flipped
<1>5. Outstanding' = Outstanding
  BY <1>1 DEF IInv, TypeOK, Outstanding, LinkAndWrap, Link, Flipped
<1>6. Written'
  BY <1>5 DEF IInv, TypeOK, Written, InFlight, LinkAndWrap
<1> QED BY <1>2, <1>3, <1>4, <1>5, <1>6 DEF IInv

\* When the controller takes a TRB, one was handed over, and it is the oldest.
LEMMA TakesOldest ==
  ASSUME IInv, ControllerTakes
  PROVE  /\ Outstanding \in Nat \ {0} /\ Outstanding' = Outstanding - 1
         /\ InFlight(1) = dequeue
<1> USE RingAssumption
<1>1. cycle = hccycle => dequeue < enqueue
  BY DEF IInv, TypeOK, CycleBits, ControllerTakes, Slots
<1> QED
  BY <1>1 DEF IInv, TypeOK, Laps, Outstanding, InFlight, ControllerTakes, Slots

\* After that the second oldest TRB is the oldest.
LEMMA TakesShifts ==
  ASSUME IInv, ControllerTakes
  PROVE  \A i \in 1..(Outstanding - 1) : InFlight(i)' = InFlight(i + 1)
<1> USE RingAssumption
<1>1. Outstanding \in Nat \ {0}
  BY TakesOldest
<1>2. dequeue \in Slots /\ dequeue' = dequeue + 1
  BY DEF ControllerTakes
<1> QED BY <1>1, <1>2 DEF InFlight, Slots

\* A TRB taken by the controller keeps the invariant.
LEMMA ControllerTakesInv == ASSUME IInv, ControllerTakes PROVE IInv'
<1> USE RingAssumption
<1>0. cycle = hccycle => dequeue < enqueue
  BY DEF IInv, TypeOK, CycleBits, ControllerTakes, Slots
<1>1. TypeOK'
  BY DEF IInv, TypeOK, ControllerTakes, Slots
<1>2. CycleBits'
  BY DEF IInv, CycleBits, ControllerTakes
<1>3. Laps'
  BY <1>0 DEF IInv, TypeOK, Laps, ControllerTakes, Slots
<1>4. \A i \in 1..Outstanding' : ring'[InFlight(i)'] \in Trbs
  BY TakesOldest, TakesShifts DEF IInv, Written, ControllerTakes
<1>5. Written'
  BY <1>4, TakesOldest DEF IInv, Written, ControllerTakes
<1> QED BY <1>1, <1>2, <1>3, <1>5 DEF IInv

\* Following the Link TRB brings the controller into the producer's lap.
LEMMA FollowsLinkInv ==
  ASSUME IInv, ControllerFollowsLink
  PROVE  /\ IInv' /\ Outstanding' = Outstanding
         /\ \A i \in 1..Outstanding : InFlight(i)' = InFlight(i)
<1> USE RingAssumption
<1>1. cycle # hccycle
  BY DEF IInv, TypeOK, CycleBits, ControllerFollowsLink, Link
<1>2. TypeOK'
  BY DEF IInv, TypeOK, ControllerFollowsLink, Link
<1>3. CycleBits'
  BY DEF IInv, CycleBits, ControllerFollowsLink
<1>4. Laps'
  BY <1>1 DEF IInv, TypeOK, Laps, ControllerFollowsLink, Link
<1>5. Outstanding' = Outstanding /\ Outstanding < USABLE
  BY <1>1 DEF IInv, TypeOK, Laps, Outstanding, ControllerFollowsLink, Link
<1>6. \A i \in 1..Outstanding : InFlight(i)' = InFlight(i)
  BY <1>1, <1>5 DEF IInv, TypeOK, Laps, Outstanding, InFlight, ControllerFollowsLink, Link
<1>7. Written'
  BY <1>5, <1>6 DEF IInv, Written, ControllerFollowsLink
<1> QED BY <1>2, <1>3, <1>4, <1>5, <1>6, <1>7 DEF IInv

\* A step that changes nothing keeps the invariant.
LEMMA StutterInv == ASSUME IInv, UNCHANGED vars PROVE IInv'
  BY DEF IInv, TypeOK, CycleBits, Laps, Written, Outstanding, InFlight, vars

\* The cycle bits turn exactly at the producer, and the controller is less than
\* a lap behind it, whatever the size of the ring.
THEOREM Invariance == Spec => []IInv
<1>1. IInv /\ [Next]_vars => IInv'
  BY FillInv, HandOverInv, LinkAndWrapInv, ControllerTakesInv, FollowsLinkInv, StutterInv
  DEF Next
<1> QED BY InitInv, <1>1, PTL DEF Spec

\* The state of both sides of the ring is well typed.
THEOREM TypeCorrect == Spec => []TypeOK
<1>1. IInv => TypeOK
  BY DEF IInv
<1> QED BY Invariance, <1>1, PTL

\* The controller never takes a slot whose contents the driver has not written.
THEOREM NoHalfBuilt == Spec => NeverHalfBuilt
<1>1. IInv /\ [Next]_vars => [ControllerTakes => taken' \in Trbs]_vars
  <2> SUFFICES ASSUME IInv, ControllerTakes PROVE taken' \in Trbs
    OBVIOUS
  <2> QED BY TakesOldest DEF IInv, Written, ControllerTakes
<1> QED BY Invariance, <1>1, PTL DEF Spec, NeverHalfBuilt

\* What the three kinds of steps do to the queue of TRBs in flight.
LEMMA QueueIsSeq ==
  ASSUME IInv
  PROVE  /\ Outstanding \in Nat /\ Outstanding < USABLE + 1
         /\ queue \in Seq(Trbs) /\ Len(queue) = Outstanding
<1>1. Outstanding \in Nat /\ Outstanding < USABLE + 1
  BY RingAssumption DEF IInv, TypeOK, Laps, Outstanding
<1>2. \A i \in 1..Outstanding : ring[InFlight(i)] \in Trbs
  BY DEF IInv, Written
<1>3. queue \in [1..Outstanding -> Trbs]
  BY <1>2 DEF queue
<1> QED BY <1>1, <1>3 DEF queue

\* When no outstanding TRB changes, the queue is the same.
LEMMA SameQueue ==
  ASSUME IInv, Outstanding' = Outstanding,
         \A i \in 1..Outstanding : ring'[InFlight(i)'] = ring[InFlight(i)]
  PROVE  queue' = queue
  BY DEF queue

\* Handing over the cycle bit puts one TRB into the queue.
LEMMA HandOverPuts == ASSUME IInv, HandOver PROVE \E t \in Trbs : Abstract!Put(t)
<1> USE RingAssumption
<1> DEFINE t == ring[enqueue]
<1>1. t \in Trbs /\ Outstanding < USABLE - 1
  BY DEF IInv, Written, HandOver
<1>2. Outstanding' = Outstanding + 1 /\ Outstanding \in Nat
  BY DEF IInv, TypeOK, Laps, Written, Outstanding, HandOver, Slots
<1>3. InFlight(Outstanding + 1) = enqueue
  BY DEF IInv, TypeOK, Laps, Written, Outstanding, InFlight, HandOver, Slots
<1>4. \A i : InFlight(i)' = InFlight(i)
  BY DEF InFlight, HandOver
<1>5. ring' = ring
  BY DEF HandOver
<1>6. queue' = [i \in 1..(Outstanding + 1) |-> ring[InFlight(i)]]
  BY <1>2, <1>4, <1>5 DEF queue
<1>7. queue \in Seq(Trbs) /\ Len(queue) = Outstanding
  BY QueueIsSeq
<1>8. queue' = Append(queue, t)
  <2>1. Append(queue, t) = [i \in 1..(Outstanding + 1) |-> IF i = Outstanding + 1 THEN t ELSE queue[i]]
    BY <1>2, <1>7
  <2>2. \A i \in 1..(Outstanding + 1) :
          ring[InFlight(i)] = IF i = Outstanding + 1 THEN t ELSE queue[i]
    BY <1>2, <1>3 DEF queue
  <2> QED BY <1>6, <2>1, <2>2
<1> QED BY <1>1, <1>7, <1>8 DEF Abstract!Put

\* A sequence is the function of its elements.
LEMMA SeqIsFunction ==
  ASSUME NEW S, NEW s \in Seq(S) PROVE s = [i \in 1..Len(s) |-> s[i]]
  OBVIOUS

\* The controller's step takes the oldest TRB from the queue.
LEMMA ControllerGets == ASSUME IInv, ControllerTakes PROVE \E t \in Trbs : Abstract!Get(t)
<1>1. Outstanding \in Nat \ {0} /\ Outstanding' = Outstanding - 1 /\ ring' = ring
  BY TakesOldest DEF ControllerTakes
<1>2. queue \in Seq(Trbs) /\ Len(queue) = Outstanding
  BY QueueIsSeq
<1>3. queue' = [i \in 1..(Outstanding - 1) |-> queue[i + 1]]
  BY <1>1, TakesShifts DEF queue
<1>4. queue # <<>>
  BY <1>1, <1>2
<1>5. /\ Head(queue) \in Trbs /\ Tail(queue) \in Seq(Trbs)
      /\ Len(Tail(queue)) = Outstanding - 1
      /\ \A i \in 1..(Outstanding - 1) : Tail(queue)[i] = queue[i + 1]
  BY <1>2, <1>4, HeadTailProperties
<1>6. queue' = Tail(queue)
  <2>1. Tail(queue) = [i \in 1..(Outstanding - 1) |-> Tail(queue)[i]]
    <3>1. Tail(queue) = [i \in 1..Len(Tail(queue)) |-> Tail(queue)[i]]
      BY <1>5, SeqIsFunction, Zenon
    <3> QED BY <3>1, <1>5, Zenon
  <2>2. [i \in 1..(Outstanding - 1) |-> Tail(queue)[i]] = [i \in 1..(Outstanding - 1) |-> queue[i + 1]]
    BY <1>5, Zenon
  <2> QED BY <1>3, <2>1, <2>2, Zenon
<1> QED BY <1>4, <1>5, <1>6 DEF Abstract!Get

\* The driver and the controller implement a bounded FIFO queue: every TRB that
\* xhcihcd_ring_enqueue hands over is taken once, in order, across the wraps.
THEOREM Refinement == Spec => RingIsFifo
<1>1. Init => Abstract!Init
  <2> SUFFICES ASSUME Init PROVE queue = <<>>
    BY DEF Abstract!Init
  <2>1. Outstanding = 0
    BY DEF Init, Outstanding
  <2> QED BY <2>1 DEF queue
<1>2. IInv /\ [Next]_vars => [Abstract!Next]_queue
  <2> SUFFICES ASSUME IInv, [Next]_vars PROVE Abstract!Next \/ queue' = queue
    OBVIOUS
  <2>1. ASSUME NEW t \in Trbs, Fill(t) PROVE queue' = queue
    <3>1. Outstanding' = Outstanding /\ \A i : InFlight(i)' = InFlight(i)
      BY <2>1 DEF Outstanding, InFlight, Fill
    <3>2. \A i \in 1..Outstanding : InFlight(i) \in Slots /\ InFlight(i) # enqueue
      BY <2>1, RingAssumption DEF IInv, TypeOK, Laps, Outstanding, InFlight, Fill, Slots
    <3>3. \A i \in 1..Outstanding : ring'[InFlight(i)] = ring[InFlight(i)]
      BY <2>1, <3>2 DEF IInv, TypeOK, Fill
    <3> QED BY <3>1, <3>3, SameQueue
  <2>2. CASE HandOver
    BY <2>2, HandOverPuts DEF Abstract!Next
  <2>3. CASE LinkAndWrap
    <3>1. Outstanding' = Outstanding
      BY <2>3, LinkAndWrapInv
    <3>2. ring' = ring /\ \A i : InFlight(i)' = InFlight(i)
      BY <2>3 DEF InFlight, LinkAndWrap
    <3> QED BY <3>1, <3>2, SameQueue
  <2>4. CASE ControllerTakes
    BY <2>4, ControllerGets DEF Abstract!Next
  <2>5. CASE ControllerFollowsLink
    <3>1. ring' = ring
      BY <2>5 DEF ControllerFollowsLink
    <3> QED BY <2>5, <3>1, FollowsLinkInv, SameQueue
  <2>6. CASE UNCHANGED vars
    BY <2>6 DEF vars, queue, Outstanding, InFlight
  <2> QED BY <2>1, <2>2, <2>3, <2>4, <2>5, <2>6 DEF Next
<1> QED BY Invariance, <1>1, <1>2, PTL DEF Spec, RingIsFifo, Abstract!Spec
=============================================================================
