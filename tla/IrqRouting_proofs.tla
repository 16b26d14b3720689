------------------------- MODULE IrqRouting_proofs --------------------------
(***************************************************************************)
(* Proofs about IrqRouting, for any MADT, any devices and interrupt lines, *)
(* and any division of the vectors: an MSI device that has a vector has it *)
(* alone, and the handler of a device whose interrupt can arrive is on the *)
(* chain that isr_generic calls for it.                                    *)
(***************************************************************************)
EXTENDS IrqRouting, TLAPS

LOCAL INSTANCE WellFoundedInduction

\* The vectors irq_get_free_msi hands out.
MsiVectors == MSIIRQ_STARTVECTOR..(MSIIRQ_STARTVECTOR + MSIIRQ_COUNT - 1)

\* The members of a sequence.
On(s) == {s[i] : i \in 1..Len(s)}

TypeOK ==
  /\ chain \in [Vectors -> Seq(Devs)]
  /\ msivector \in [MsiDevs -> {None, 0} \cup MsiVectors]
  /\ probed \subseteq Devs

\* An MSI vector in use has the one handler of the device that was given it.
OneHandler ==
  \A d \in MsiDevs :
    /\ d \notin probed => msivector[d] = None
    /\ msivector[d] \in MsiVectors => chain[msivector[d]] = <<d>>

\* The timer's handler, which other handlers of its vector never push out.
TimerIsChained == Timer \in probed => Timer \in Handlers(IRQ_STARTVECTOR)

IrqInv == TypeOK /\ OneHandler /\ TimerIsChained

----------------------------------------------------------------------------
(* Vectors and chains.                                                     *)

\* Neither an interrupt line, nor the timer's vector, nor the 0 that stands for
\* no vector, is an MSI vector; all of them but the 0 have a chain.
LEMMA VectorFacts ==
  /\ MsiVectors \subseteq Vectors
  /\ IRQ_STARTVECTOR \in Vectors \ MsiVectors
  /\ 0 \in Vectors \ MsiVectors /\ IRQ_STARTVECTOR # 0
  /\ \A d \in IntxDevs : IrqLine[d] \in Vectors \ MsiVectors
  /\ \A v \in MsiVectors : v >= 16 /\ v # None
<1>1. \A d \in IntxDevs : IrqLine[d] \in 1..15
  BY IrqAssumption DEF Irqs
<1> QED BY IrqAssumption, <1>1 DEF MsiVectors, Vectors, None

\* A set of natural numbers has a least member.
LEMMA LeastVector ==
  ASSUME NEW T \in SUBSET Nat, T # {}
  PROVE  \E n \in T : \A m \in T : n <= m
<1> DEFINE R == {ss \in Nat \X Nat : ss[1] < ss[2]}
<1>1. IsWellFoundedOn(R, Nat)
  BY NatLessThanWellFounded DEF OpToRel
<1> HIDE DEF R
<1>2. PICK n \in T : \A m \in T : ~(<<m, n>> \in R)
  BY <1>1, WFMin
<1>3. \A m \in T : ~(m < n)
  BY <1>2 DEF R
<1> QED BY <1>2, <1>3

\* irq_get_free_msi finds a vector without a handler, or returns 0.
LEMMA FreeVector ==
  irq_get_free_msi = 0 \/ (irq_get_free_msi \in MsiVectors /\ chain[irq_get_free_msi] = <<>>)
<1> DEFINE unused == {v \in MsiVectors : chain[v] = <<>>}
           Lowest(v) == v \in unused /\ \A w \in unused : v <= w
<1>1. irq_get_free_msi = IF unused = {} THEN 0
                         ELSE CHOOSE v \in unused : \A w \in unused : v <= w
  BY DEF irq_get_free_msi, MsiVectors
<1>2. ASSUME unused # {} PROVE (CHOOSE v \in unused : \A w \in unused : v <= w) \in unused
  <2>1. unused \in SUBSET Nat
    BY IrqAssumption DEF MsiVectors
  <2>2. \E v \in unused : \A w \in unused : v <= w
    BY <1>2, <2>1, LeastVector
  <2> QED BY <2>2
<1> QED BY <1>1, <1>2

\* irq_add_irq_handler puts the handler before the ones of its vector.
LEMMA HandlerAdded ==
  ASSUME TypeOK, NEW v \in Vectors, NEW h \in Devs
  PROVE  LET c == irq_add_irq_handler(chain, v, h)
         IN /\ c \in [Vectors -> Seq(Devs)]
            /\ c[v] = <<h>> \o chain[v]
            /\ chain[v] = <<>> => c[v] = <<h>>
            /\ \A w \in Vectors \ {v} : c[w] = chain[w]
<1>1. chain[v] \in Seq(Devs) /\ <<h>> \in Seq(Devs)
  BY DEF TypeOK
<1>2. <<h>> \o chain[v] \in Seq(Devs)
  BY <1>1
<1>3. <<h>> \o <<>> = <<h>>
  OBVIOUS
<1> QED BY <1>2, <1>3 DEF TypeOK, irq_add_irq_handler

\* The handlers of a vector are the new one and those it had.
LEMMA HandlersAdded ==
  ASSUME NEW s \in Seq(Devs), NEW h \in Devs
  PROVE  On(<<h>> \o s) = {h} \cup On(s)
<1> DEFINE t == <<h>> \o s
<1>1. Len(t) = Len(s) + 1 /\ t[1] = h /\ \A i \in 1..Len(s) : t[i + 1] = s[i]
  OBVIOUS
<1>2. \A i \in 2..Len(t) : i - 1 \in 1..Len(s) /\ t[i] = s[i - 1]
  OBVIOUS
<1>3. Len(s) \in Nat
  OBVIOUS
<1> HIDE DEF t
<1>4. ASSUME NEW i \in 1..Len(t) PROVE t[i] \in {h} \cup On(s)
  BY <1>1, <1>2, <1>3 DEF On
<1>5. ASSUME NEW i \in 1..Len(s) PROVE i + 1 \in 1..Len(t) /\ t[i + 1] = s[i]
  BY <1>1, <1>3
<1>6. 1 \in 1..Len(t)
  BY <1>1, <1>3
<1>7. On(t) = {h} \cup On(s)
  BY <1>1, <1>4, <1>5, <1>6 DEF On
<1> QED BY <1>7 DEF t

----------------------------------------------------------------------------
(* The invariant.                                                          *)

\* Nothing is probed at first.
LEMMA IrqInvInit == Init => IrqInv
<1> SUFFICES ASSUME Init PROVE IrqInv
  OBVIOUS
<1>1. TypeOK
  <2>1. <<>> \in Seq(Devs)
    OBVIOUS
  <2> QED BY <2>1 DEF Init, TypeOK
<1>2. OneHandler
  BY VectorFacts DEF Init, OneHandler
<1> QED BY <1>1, <1>2 DEF Init, IrqInv, TimerIsChained

\* A device with MSI takes a vector that no other device has.
LEMMA ProbeMsiStep ==
  ASSUME IrqInv, NEW d \in MsiDevs, ProbeMsi(d)
  PROVE  IrqInv'
<1> DEFINE v == irq_get_free_msi
<1>1. TypeOK /\ OneHandler /\ TimerIsChained
  BY DEF IrqInv
<1>2. v = 0 \/ (v \in MsiVectors /\ chain[v] = <<>>)
  BY FreeVector
<1>3. /\ chain' = irq_add_irq_handler(chain, v, d)
      /\ msivector' = [msivector EXCEPT ![d] = v]
      /\ probed' = probed \cup {d}
  BY DEF ProbeMsi
<1> HIDE DEF v
<1>4. v \in Vectors /\ d \in Devs /\ v # IRQ_STARTVECTOR /\ v # None
  <2>1. 0 # None
    BY DEF None
  <2> QED BY <1>2, <2>1, VectorFacts DEF Devs
<1>5. /\ chain' \in [Vectors -> Seq(Devs)]
      /\ chain[v] = <<>> => chain'[v] = <<d>>
      /\ \A w \in Vectors \ {v} : chain'[w] = chain[w]
  BY <1>1, <1>3, <1>4, HandlerAdded
<1>6. TypeOK'
  BY <1>1, <1>2, <1>3, <1>4, <1>5 DEF TypeOK
<1>7. OneHandler'
  <2> SUFFICES ASSUME NEW e \in MsiDevs
               PROVE  /\ e \notin probed' => msivector'[e] = None
                      /\ msivector'[e] \in MsiVectors => chain'[msivector'[e]] = <<e>>
    BY DEF OneHandler
  <2>1. CASE e = d
    BY <1>1, <1>2, <1>3, <1>5, <2>1, VectorFacts DEF TypeOK
  <2>2. CASE e # d
    <3>1. msivector'[e] = msivector[e]
      BY <1>1, <1>3, <2>2 DEF TypeOK
    <3>2. ASSUME msivector[e] \in MsiVectors PROVE msivector[e] # v
      BY <1>1, <1>2, <3>2, VectorFacts DEF OneHandler
    <3> QED BY <1>1, <1>3, <1>5, <3>1, <3>2, VectorFacts DEF OneHandler
  <2> QED BY <2>1, <2>2
<1>8. TimerIsChained'
  <2>1. chain'[IRQ_STARTVECTOR] = chain[IRQ_STARTVECTOR]
    BY <1>4, <1>5, VectorFacts
  <2>2. Timer # d
    BY IrqAssumption
  <2> QED BY <1>1, <1>3, <2>1, <2>2 DEF TimerIsChained, Handlers
<1> QED BY <1>6, <1>7, <1>8 DEF IrqInv

\* A handler added to another vector than the MSI vectors changes none of them.
LEMMA OtherVectorStep ==
  ASSUME IrqInv, NEW v \in Vectors \ MsiVectors, NEW d \in Devs \ MsiDevs,
         chain' = irq_add_irq_handler(chain, v, d),
         msivector' = msivector, probed' = probed \cup {d},
         d = Timer => v = IRQ_STARTVECTOR
  PROVE  IrqInv'
<1>1. TypeOK /\ OneHandler /\ TimerIsChained
  BY DEF IrqInv
<1>2. /\ chain' \in [Vectors -> Seq(Devs)]
      /\ chain'[v] = <<d>> \o chain[v]
      /\ \A w \in Vectors \ {v} : chain'[w] = chain[w]
  BY <1>1, HandlerAdded
<1>3. TypeOK'
  BY <1>1, <1>2 DEF TypeOK
<1>4. OneHandler'
  BY <1>1, <1>2, VectorFacts DEF OneHandler
<1>5. Handlers(v)' = {d} \cup Handlers(v)
  <2>1. On(<<d>> \o chain[v]) = {d} \cup On(chain[v])
    BY <1>1, HandlersAdded DEF TypeOK
  <2> QED BY <1>2, <2>1 DEF Handlers, On
<1>6. \A w \in Vectors \ {v} : Handlers(w)' = Handlers(w)
  BY <1>2 DEF Handlers
<1>7. TimerIsChained'
  BY <1>1, <1>5, <1>6, VectorFacts DEF TimerIsChained
<1> QED BY <1>3, <1>4, <1>7 DEF IrqInv

\* Every step keeps the invariant.
LEMMA IrqInvStep == IrqInv /\ [Next]_vars => IrqInv'
<1> SUFFICES ASSUME IrqInv, [Next]_vars PROVE IrqInv'
  OBVIOUS
<1>1. ASSUME UNCHANGED routeVars PROVE IrqInv'
  BY <1>1 DEF routeVars, IrqInv, TypeOK, OneHandler, TimerIsChained, Handlers
<1>2. CASE ParseMadtEntry
  BY <1>1, <1>2 DEF ParseMadtEntry
<1>3. ASSUME NEW d \in MsiDevs, ProbeMsi(d) PROVE IrqInv'
  BY <1>3, ProbeMsiStep
<1>4. ASSUME NEW d \in IntxDevs, ProbeIntx(d) PROVE IrqInv'
  <2>1. IrqLine[d] \in Vectors \ MsiVectors /\ d \in Devs \ MsiDevs /\ d # Timer
    BY IrqAssumption, VectorFacts DEF Devs
  <2>2. /\ chain' = irq_add_irq_handler(chain, IrqLine[d], d)
        /\ msivector' = msivector /\ probed' = probed \cup {d}
    BY <1>4 DEF ProbeIntx
  <2> QED BY <2>1, <2>2, OtherVectorStep
<1>5. CASE StartTimer
  <2>1. Timer \in Devs \ MsiDevs
    BY IrqAssumption DEF Devs
  <2>2. /\ chain' = irq_add_irq_handler(chain, IRQ_STARTVECTOR, Timer)
        /\ msivector' = msivector /\ probed' = probed \cup {Timer}
    BY <1>5 DEF StartTimer
  <2> QED BY <2>1, <2>2, VectorFacts, OtherVectorStep
<1>6. ASSUME NEW d \in Devs, Interrupt(d) PROVE IrqInv'
  BY <1>1, <1>6 DEF Interrupt
<1>7. ASSUME NEW v \in Vectors, Enter(v) PROVE IrqInv'
  BY <1>1, <1>7 DEF Enter
<1>8. CASE CallHandler
  BY <1>1, <1>8 DEF CallHandler
<1>9. CASE Leave
  BY <1>1, <1>9 DEF Leave
<1>10. CASE UNCHANGED vars
  BY <1>1, <1>10 DEF vars
<1> QED BY <1>2, <1>3, <1>4, <1>5, <1>6, <1>7, <1>8, <1>9, <1>10 DEF Next

\* The invariant holds in every reachable state.
THEOREM IrqInvariance == Spec => []IrqInv
<1> QED BY IrqInvInit, IrqInvStep, PTL DEF Spec

\* While vectors last, every MSI device has a vector of its own, and its handler
\* is alone on the chain of that vector (irq_get_free_msi, irq_add_irq_handler).
THEOREM MsiVectorsAreAlwaysOwn == Spec => []MsiVectorsAreOwn
<1>1. IrqInv => MsiVectorsAreOwn
  <2> SUFFICES ASSUME IrqInv, NEW d \in MsiDevs, HasMsi(d)
               PROVE  /\ Handlers(msivector[d]) = {d}
                      /\ \A e \in MsiDevs : HasMsi(e) /\ msivector[e] = msivector[d] => e = d
    BY DEF MsiVectorsAreOwn
  <2>1. ASSUME NEW e \in MsiDevs, HasMsi(e) PROVE chain[msivector[e]] = <<e>>
    BY <2>1 DEF IrqInv, TypeOK, OneHandler, HasMsi
  <2>2. chain[msivector[d]] = <<d>>
    BY <2>1
  <2>3. Handlers(msivector[d]) = {d}
    BY <2>2 DEF Handlers
  <2>4. ASSUME NEW e \in MsiDevs, HasMsi(e), msivector[e] = msivector[d] PROVE e = d
    <3>1. <<e>> = <<d>>
      BY <2>1, <2>2, <2>4
    <3> QED BY <3>1
  <2> QED BY <2>3, <2>4
<1> QED BY <1>1, IrqInvariance, PTL

\* A timer or MSI interrupt arrives on a vector whose chain has its handler.
HandlerIsOnChain ==
  \A d \in MsiDevs \cup {Timer} : VectorOf(d) # None => d \in Handlers(VectorOf(d))

\* The interrupt of the timer, or of a device with an MSI vector, arrives on a
\* vector whose chain has the device's handler, so isr_generic calls it.
THEOREM ArrivesAtItsHandler == Spec => []HandlerIsOnChain
<1>1. IrqInv => HandlerIsOnChain
  <2> SUFFICES ASSUME IrqInv, NEW d \in MsiDevs \cup {Timer}, VectorOf(d) # None
               PROVE  d \in Handlers(VectorOf(d))
    BY DEF HandlerIsOnChain
  <2>1. CASE d = Timer
    BY <2>1 DEF VectorOf, IrqInv, TimerIsChained
  <2>2. CASE d \in MsiDevs
    <3>1. d # Timer /\ d \notin IntxDevs
      BY <2>2, IrqAssumption
    <3>2. VectorOf(d) = msivector[d] /\ msivector[d] >= 16
      BY <2>2, <3>1 DEF VectorOf, IrqInv, TypeOK, None, MsiVectors
    <3>3. chain[msivector[d]] = <<d>>
      BY <2>2, <3>2 DEF IrqInv, TypeOK, OneHandler, None
    <3> QED BY <3>2, <3>3 DEF Handlers
  <2> QED BY <2>1, <2>2
<1> QED BY <1>1, IrqInvariance, PTL

=============================================================================
