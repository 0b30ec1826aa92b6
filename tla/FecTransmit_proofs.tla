-------------------------- MODULE FecTransmit_proofs -------------------------
(***************************************************************************)
(* The transmit ring for every ring size, number of fragments and TSO      *)
(* limit: its cursors stay inside the ring and never meet, and a queue     *)
(* that is awake has room for any scatter-gather buffer.  The inductive    *)
(* invariant adds what start_xmit in progress may rely on.  The second     *)
(* part is about what lies in the ring: which descriptors the MAC owns,    *)
(* where it stands, which buffers are remembered where, and that each is   *)
(* given back once and in order.                                           *)
(***************************************************************************)
EXTENDS FecTransmit, TLAPS, WellFoundedInduction

\* A transmission in progress has at least one descriptor to write, never
\* wrote more than it needs, and its buffer is within the bound.
XmitSane ==
  /\ xmit.done <= xmit.descs
  /\ xmit # Idle => xmit.descs >= 1 /\ handed < MaxSkbs

\* It has room for all of its descriptors, which is what keeps cur from
\* running into dirty: with equal cursors a full ring would count as empty.
XmitHasRoom == xmit.descs <= Free(dirty, cur) /\ cur # dirty

\* The queue is awake only with room, also while a buffer is being written.
AwakeHasRoom == ~stopped => Free(dirty, cur) >= MaxFrags + 1

IInv == TypeOK /\ XmitSane /\ XmitHasRoom /\ AwakeHasRoom

------------------------------------------------------------------------------
(* Arithmetic of the ring.                                                  *)

LEMMA Bounds ==
  /\ T \in Nat /\ MaxFrags \in Nat /\ MaxSkbDescs \in Nat
  /\ MaxSkbs \in Nat /\ MaxRestarts \in Nat
  /\ 1 <= MaxFrags /\ MaxFrags < MaxSkbDescs /\ MaxSkbDescs < T
  /\ WakeThreshold \in Int
  /\ MaxFrags + 1 <= WakeThreshold /\ WakeThreshold <= T - 2
  /\ MaxSkbDescs <= T - 2
  BY TransmitAssumption DEF WakeThreshold, StopThreshold

\* fec_enet_get_nextdesc, and any number of steps below the ring size, stay
\* inside the ring.
LEMMA StepsInRing ==
  /\ \A i \in Slots : Next1(i) \in Slots
  /\ \A i \in Slots, k \in 0 .. T - 1 : Ahead(i, k) \in Slots
  BY Bounds DEF Slots, Next1, Ahead

\* The free count is a number of descriptors.
LEMMA FreeInRing == \A d, c \in Slots : Free(d, c) \in 0 .. T - 1
  BY Bounds DEF Slots, Free

\* Cleaning a descriptor that is in use frees exactly one.
LEMMA CleaningFrees ==
  \A d, c \in Slots :
    d # c /\ Next1(d) # c => Free(Next1(d), c) = Free(d, c) + 1
<1> SUFFICES ASSUME NEW d \in Slots, NEW c \in Slots, d # c, Next1(d) # c
             PROVE  Free(Next1(d), c) = Free(d, c) + 1
    OBVIOUS
<1>1. /\ T \in Nat /\ T >= 2 /\ d \in Nat /\ c \in Nat /\ d <= T - 1 /\ c <= T - 1
  BY Bounds DEF Slots
<1>2. CASE d >= T - 1
  <2>1. d = T - 1 /\ Next1(d) = 0 /\ c # 0
    BY <1>1, <1>2 DEF Next1
  <2> QED
    BY <1>1, <2>1 DEF Free
<1>3. CASE d < T - 1
  <2>1. Next1(d) = d + 1 /\ c # d + 1
    BY <1>1, <1>3 DEF Next1
  <2> QED
    BY <1>1, <2>1 DEF Free
<1> QED
  BY <1>1, <1>2, <1>3

\* Taking no more descriptors than are free does not reach dirty_tx.
LEMMA TakingStaysApart ==
  \A d, c \in Slots, n \in 0 .. T - 1 :
    d # c /\ n <= Free(d, c) => Ahead(c, n) # d
<1> SUFFICES ASSUME NEW d \in Slots, NEW c \in Slots, NEW n \in 0 .. T - 1,
                    d # c, n <= Free(d, c)
             PROVE  Ahead(c, n) # d
    OBVIOUS
<1>1. /\ T \in Nat /\ n \in Nat /\ d \in Nat /\ c \in Nat
      /\ d <= T - 1 /\ c <= T - 1 /\ n <= T - 1
  BY Bounds DEF Slots
<1>2. CASE d > c
  <2>1. n <= d - c - 1
    BY <1>1, <1>2 DEF Free
  <2> QED
    BY <1>1, <1>2, <2>1 DEF Ahead
<1>3. CASE d < c
  <2>1. n <= d - c - 1 + T
    BY <1>1, <1>3 DEF Free
  <2> QED
    BY <1>1, <1>3, <2>1 DEF Ahead
<1> QED
  BY <1>1, <1>2, <1>3

\* After a restart all descriptors but two are free.
LEMMA RestartedFree ==
  PrevOf(0) \in Slots /\ PrevOf(0) # 0 /\ Free(PrevOf(0), 0) = T - 2
  BY Bounds DEF Slots, Free, PrevOf

\* The descriptor that start_xmit writes next, and the last one, are in the
\* ring.
LEMMA OffsetsInRing ==
  ASSUME IInv, xmit # Idle
  PROVE  /\ xmit.done < xmit.descs => FillOffset \in 0 .. T - 1
         /\ xmit.descs - 1 \in 0 .. T - 1 /\ xmit.descs \in 0 .. T - 1
<1>1. /\ xmit.descs \in 0 .. MaxSkbDescs /\ xmit.done \in 0 .. MaxSkbDescs
      /\ xmit.tso \in BOOLEAN /\ xmit.descs >= 1
  BY DEF IInv, TypeOK, XmitTypeOK, XmitSane
<1>2. xmit.descs - 1 \in 0 .. T - 1 /\ xmit.descs \in 0 .. T - 1
  BY <1>1, Bounds
<1>3. xmit.done < xmit.descs => FillOffset \in 0 .. T - 1
  BY <1>1, Bounds DEF FillOffset
<1> QED
  BY <1>2, <1>3

------------------------------------------------------------------------------
(* Init and the steps.                                                      *)

LEMMA InitIInv == Init => IInv
<1> SUFFICES ASSUME Init PROVE IInv
    OBVIOUS
<1>1. 0 \in Slots
  BY Bounds DEF Slots
<1>2. RingTypeOK
  <2>1. \A i \in Slots : NoSkb \in 0 .. MaxSkbs
    BY Bounds DEF NoSkb
  <2> QED
    BY <1>1, <2>1, RestartedFree DEF Init, RingTypeOK, BitsTypeOK, Marks
<1>3. XmitTypeOK /\ XmitSane
  BY Bounds DEF Init, XmitTypeOK, XmitSane, Idle
<1>4. HwTypeOK
  BY <1>1 DEF Init, HwTypeOK
<1>5. CtlTypeOK
  <2>1. restarts \in 0 .. MaxRestarts
    BY Bounds DEF Init
  <2> QED
    BY <2>1 DEF Init, CtlTypeOK
<1>6. SkbTypeOK
  <2>1. handed \in 0 .. MaxSkbs
    BY Bounds DEF Init
  <2> QED
    BY <2>1 DEF Init, SkbTypeOK
<1>7. AwakeHasRoom
  BY DEF Init, AwakeHasRoom
<1>8. XmitHasRoom
  BY RestartedFree, Bounds DEF Init, XmitHasRoom, Idle
<1> QED
  BY <1>2, <1>3, <1>4, <1>5, <1>6, <1>7, <1>8 DEF IInv, TypeOK

USE DEF ringVars, hwVars, irqVars, ctlVars, skbVars

\* start_xmit begins: only the record of the transmission changes.
LEMMA StepXmitBegin ==
  ASSUME IInv, NEW n \in 1 .. MaxSkbDescs, NEW tso \in BOOLEAN, XmitBegin(n, tso),
         tso \/ n <= MaxFrags + 1
  PROVE  IInv'
<1>1. xmit' = [descs |-> n, tso |-> tso, done |-> 0] /\ handed < MaxSkbs
      /\ handed' = handed
  BY DEF XmitBegin, MayTransmit
<1>2. XmitTypeOK'
  BY <1>1, Bounds DEF XmitTypeOK
<1>3. XmitSane'
  BY <1>1, Bounds DEF XmitSane
<1>4. RingTypeOK' /\ HwTypeOK' /\ CtlTypeOK' /\ SkbTypeOK' /\ AwakeHasRoom'
  BY DEF IInv, TypeOK, RingTypeOK, BitsTypeOK, HwTypeOK, CtlTypeOK, SkbTypeOK,
     AwakeHasRoom, XmitBegin
<1>5. XmitHasRoom'
  <2>1. Free(dirty, cur) \in 0 .. T - 1
    BY FreeInRing DEF IInv, TypeOK, RingTypeOK
  <2>2. n <= Free(dirty, cur)
    BY <2>1, Bounds DEF XmitBegin, HasRoom
  <2>3. xmit'.descs = n /\ cur' = cur /\ dirty' = dirty
    BY <1>1 DEF XmitBegin
  <2> QED
    BY <2>2, <2>3 DEF IInv, XmitHasRoom
<1> QED
  BY <1>2, <1>3, <1>4, <1>5 DEF IInv, TypeOK

\* With no transmission in progress only the cursors matter.
LEMMA IdleHasRoom ==
  ASSUME cur' \in Slots, dirty' \in Slots, cur' # dirty', xmit' = Idle
  PROVE  XmitHasRoom'
<1>1. Free(dirty', cur') \in 0 .. T - 1 /\ xmit'.descs = 0
  BY FreeInRing DEF Idle
<1>2. Free(dirty, cur)' = Free(dirty', cur')
  BY DEF Free
<1> QED
  BY <1>1, <1>2, Bounds DEF XmitHasRoom

\* After settling a buffer start_xmit stops the queue at the threshold.
LEMMA StopsInTime ==
  ASSUME NEW d \in Slots, NEW c \in Slots, ~(Free(d, c) <= StopThreshold)
  PROVE  Free(d, c) >= MaxFrags + 1
<1>1. Free(d, c) \in 0 .. T - 1
  BY FreeInRing
<1> QED
  BY <1>1, Bounds DEF StopThreshold

\* One more free of one buffer, or of some, keeps the counts natural numbers.
LEMMA FreeOneTyped ==
  ASSUME freed \in [Skbs -> Nat], NEW s \in Skbs
  PROVE  [freed EXCEPT ![s] = @ + 1] \in [Skbs -> Nat]
<1>1. freed[s] + 1 \in Nat
  OBVIOUS
<1> QED
  BY <1>1

LEMMA FreedStaysTyped ==
  ASSUME freed \in [Skbs -> Nat], NEW S
  PROVE  [s \in Skbs |-> IF s \in S THEN freed[s] + 1 ELSE freed[s]]
           \in [Skbs -> Nat]
  OBVIOUS

LEMMA StepXmitDrop == ASSUME IInv, XmitDrop PROVE IInv'
<1>1. handed + 1 \in 0 .. MaxSkbs /\ xmit = Idle
  BY Bounds DEF IInv, TypeOK, SkbTypeOK, XmitDrop, MayTransmit
<1>2. SkbTypeOK'
  <2>1. freed' \in [Skbs -> Nat]
    <3>1. handed + 1 \in Skbs
      BY Bounds DEF IInv, TypeOK, SkbTypeOK, XmitDrop, MayTransmit, Skbs
    <3> QED
      BY <3>1, FreeOneTyped DEF IInv, TypeOK, SkbTypeOK, XmitDrop
  <2> QED
    BY <1>1, <2>1 DEF SkbTypeOK, XmitDrop
<1>3. RingTypeOK' /\ XmitTypeOK' /\ HwTypeOK' /\ CtlTypeOK'
  BY DEF IInv, TypeOK, RingTypeOK, BitsTypeOK, XmitTypeOK, HwTypeOK, CtlTypeOK,
     XmitDrop
<1>4. XmitSane'
  <2>1. xmit' = Idle
    BY <1>1 DEF XmitDrop
  <2> QED
    BY <2>1 DEF XmitSane, Idle
<1>5. AwakeHasRoom'
  BY StopsInTime DEF IInv, TypeOK, RingTypeOK, AwakeHasRoom, XmitDrop
<1>6. XmitHasRoom'
  BY DEF IInv, XmitHasRoom, XmitDrop
<1> QED
  BY <1>2, <1>3, <1>4, <1>5, <1>6 DEF IInv, TypeOK

LEMMA StepFillDesc == ASSUME IInv, FillDesc PROVE IInv'
<1>1. BitsTypeOK'
  BY DEF IInv, TypeOK, RingTypeOK, BitsTypeOK, FillDesc
<1>2. RingTypeOK' /\ HwTypeOK' /\ CtlTypeOK' /\ SkbTypeOK' /\ AwakeHasRoom'
  BY <1>1 DEF IInv, TypeOK, RingTypeOK, HwTypeOK, CtlTypeOK, SkbTypeOK,
     AwakeHasRoom, FillDesc
<1>3. /\ xmit.descs \in 0 .. MaxSkbDescs /\ xmit.done \in 0 .. MaxSkbDescs
      /\ xmit.done < xmit.descs /\ xmit.descs >= 1 /\ handed < MaxSkbs
  BY DEF IInv, TypeOK, XmitTypeOK, XmitSane, FillDesc
<1>4. xmit.done + 1 \in 0 .. MaxSkbDescs /\ xmit.done + 1 <= xmit.descs
  BY <1>3, Bounds
<1>5. XmitTypeOK'
  BY <1>4 DEF IInv, TypeOK, XmitTypeOK, FillDesc
<1>6. xmit'.done = xmit.done + 1 /\ xmit'.descs = xmit.descs /\ handed' = handed
  BY DEF IInv, TypeOK, XmitTypeOK, FillDesc
<1>7. XmitSane'
  BY <1>3, <1>4, <1>6 DEF XmitSane
<1>8. XmitHasRoom'
  BY <1>6 DEF IInv, XmitHasRoom, FillDesc
<1> QED
  BY <1>2, <1>5, <1>7, <1>8 DEF IInv, TypeOK

LEMMA StepMapFailure == ASSUME IInv, MapFailure PROVE IInv'
<1>1. xmit' = Idle /\ handed < MaxSkbs /\ handed' \in {handed, handed + 1}
  BY DEF IInv, XmitSane, MapFailure
<1>2. XmitTypeOK' /\ XmitSane'
  BY <1>1, Bounds DEF XmitTypeOK, XmitSane, Idle
<1>3. SkbTypeOK'
  <2>1. handed' \in 0 .. MaxSkbs
    BY <1>1, Bounds DEF IInv, TypeOK, SkbTypeOK
  <2>2. freed' \in [Skbs -> Nat]
    <3>1. handed + 1 \in Skbs
      BY <1>1, Bounds DEF IInv, TypeOK, SkbTypeOK, Skbs
    <3> QED
      BY <3>1, FreeOneTyped DEF IInv, TypeOK, SkbTypeOK, MapFailure
  <2> QED
    BY <2>1, <2>2 DEF SkbTypeOK
<1>4. stopped' \in BOOLEAN
  <2>1. CASE xmit.tso
    BY <2>1 DEF IInv, TypeOK, RingTypeOK, MapFailure
  <2>2. CASE ~xmit.tso
    <3>1. stopped' = (Free(dirty, cur) <= StopThreshold)
      BY <2>2 DEF MapFailure
    <3> QED
      BY <3>1
  <2> QED
    BY <2>1, <2>2
<1>5. RingTypeOK' /\ HwTypeOK' /\ CtlTypeOK'
  BY <1>4 DEF IInv, TypeOK, RingTypeOK, BitsTypeOK, HwTypeOK, CtlTypeOK, MapFailure
<1>6. AwakeHasRoom'
  <2>1. CASE xmit.tso
    BY <2>1 DEF IInv, AwakeHasRoom, MapFailure
  <2>2. CASE ~xmit.tso
    BY <2>2, StopsInTime DEF IInv, TypeOK, RingTypeOK, AwakeHasRoom, MapFailure
  <2> QED
    BY <2>1, <2>2
<1>7. XmitHasRoom'
  BY <1>1, IdleHasRoom DEF IInv, TypeOK, RingTypeOK, XmitHasRoom, MapFailure
<1> QED
  BY <1>2, <1>3, <1>5, <1>6, <1>7 DEF IInv, TypeOK

LEMMA StepXmitEnd == ASSUME IInv, XmitEnd PROVE IInv'
<1>1. xmit' = Idle /\ handed < MaxSkbs /\ handed' = handed + 1
  BY DEF IInv, XmitSane, XmitEnd
<1>2. XmitTypeOK' /\ XmitSane'
  BY <1>1, Bounds DEF XmitTypeOK, XmitSane, Idle
<1>3. handed + 1 \in 0 .. MaxSkbs
  BY <1>1, Bounds DEF IInv, TypeOK, SkbTypeOK
<1>4. SkbTypeOK'
  BY <1>1, <1>3 DEF IInv, TypeOK, SkbTypeOK, XmitEnd
<1>5. cur' \in Slots
  <2>1. xmit.descs \in 0 .. T - 1
    BY OffsetsInRing DEF XmitEnd
  <2> QED
    BY <2>1, StepsInRing DEF IInv, TypeOK, RingTypeOK, XmitEnd
<1>6. txSkb' \in [Slots -> 0 .. MaxSkbs]
  BY <1>3 DEF IInv, TypeOK, RingTypeOK, XmitEnd
<1>7. RingTypeOK'
  BY <1>5, <1>6 DEF IInv, TypeOK, RingTypeOK, BitsTypeOK, XmitEnd
<1>8. HwTypeOK' /\ CtlTypeOK'
  BY DEF IInv, TypeOK, HwTypeOK, CtlTypeOK, XmitEnd
<1>9. AwakeHasRoom'
  BY <1>5, StopsInTime DEF IInv, TypeOK, RingTypeOK, AwakeHasRoom, XmitEnd
<1>10. XmitHasRoom'
  <2>1. xmit.descs \in 0 .. T - 1
    BY OffsetsInRing DEF XmitEnd
  <2>2. cur' # dirty'
    BY <2>1, TakingStaysApart DEF IInv, TypeOK, RingTypeOK, XmitHasRoom, XmitEnd
  <2> QED
    BY <1>1, <1>5, <2>2, IdleHasRoom DEF IInv, TypeOK, RingTypeOK, XmitEnd
<1> QED
  BY <1>2, <1>4, <1>7, <1>8, <1>9, <1>10 DEF IInv, TypeOK

\* The MAC changes no cursor of the driver.
LEMMA StepHardware == ASSUME IInv, Hardware PROVE IInv'
<1>1. CASE HwPeek \/ HwIdle
  <2>1. /\ UNCHANGED <<ringVars, xmit, stopped, hw, irqVars, ctlVars, skbVars>>
        /\ active' \in {active, FALSE} /\ stopping' \in {stopping, TRUE}
    BY <1>1 DEF HwPeek, HwIdle
  <2>2. HwTypeOK'
    BY <2>1 DEF IInv, TypeOK, HwTypeOK
  <2>3. RingTypeOK' /\ XmitTypeOK' /\ CtlTypeOK' /\ SkbTypeOK' /\ XmitSane'
        /\ XmitHasRoom' /\ AwakeHasRoom'
    BY <2>1 DEF IInv, TypeOK, RingTypeOK, BitsTypeOK, XmitTypeOK, CtlTypeOK,
       SkbTypeOK, XmitSane, XmitHasRoom, AwakeHasRoom
  <2> QED
    BY <2>2, <2>3 DEF IInv, TypeOK
<1>2. CASE HwTransmit
  <2>1. Next1(hw) \in Slots
    BY StepsInRing DEF IInv, TypeOK, HwTypeOK, RingTypeOK, BitsTypeOK
  <2>2. RingTypeOK' /\ HwTypeOK'
    BY <1>2, <2>1 DEF IInv, TypeOK, RingTypeOK, BitsTypeOK, HwTypeOK, HwTransmit
  <2>3. event' \in BOOLEAN
    BY <1>2, <2>1 DEF IInv, TypeOK, CtlTypeOK, HwTransmit
  <2>4. XmitTypeOK' /\ CtlTypeOK' /\ SkbTypeOK' /\ XmitSane' /\ XmitHasRoom'
        /\ AwakeHasRoom'
    BY <1>2, <2>3 DEF IInv, TypeOK, XmitTypeOK, CtlTypeOK, SkbTypeOK, XmitSane,
       XmitHasRoom, AwakeHasRoom, HwTransmit
  <2> QED
    BY <2>2, <2>4 DEF IInv, TypeOK
<1> QED
  BY <1>1, <1>2 DEF Hardware

\* Cleaning frees a descriptor, and the queue wakes only above the threshold.
LEMMA StepCleanOne == ASSUME IInv, CleanOne PROVE IInv'
<1> DEFINE bdp == Next1(dirty)
<1>1. bdp \in Slots /\ bdp # cur /\ dirty' = bdp /\ cur' = cur
  BY StepsInRing DEF IInv, TypeOK, RingTypeOK, CleanOne, Cleanable
<1>2. Free(bdp, cur) \in 0 .. T - 1 /\ Free(dirty, cur) \in 0 .. T - 1
      /\ Free(bdp, cur) = Free(dirty, cur) + 1
  BY <1>1, FreeInRing, CleaningFrees DEF IInv, TypeOK, RingTypeOK, XmitHasRoom
<1>3. stopped' = (stopped /\ ~Wakes(bdp))
  BY DEF CleanOne
<1>4. AwakeHasRoom'
  <2>1. CASE ~stopped
    BY <2>1, <1>1, <1>2, Bounds DEF IInv, AwakeHasRoom
  <2>2. CASE stopped /\ Wakes(bdp)
    BY <2>2, <1>1, <1>2, Bounds DEF Wakes, AwakeHasRoom
  <2>3. CASE stopped /\ ~Wakes(bdp)
    BY <2>3, <1>3 DEF AwakeHasRoom
  <2> QED
    BY <2>1, <2>2, <2>3
<1>5. txSkb' \in [Slots -> 0 .. MaxSkbs]
  <2>1. NoSkb \in 0 .. MaxSkbs
    BY Bounds DEF NoSkb
  <2> QED
    BY <2>1 DEF IInv, TypeOK, RingTypeOK, CleanOne
<1>6. RingTypeOK'
  <2>1. stopped' \in BOOLEAN
    BY <1>3
  <2> QED
    BY <1>1, <1>5, <2>1 DEF IInv, TypeOK, RingTypeOK, BitsTypeOK, CleanOne
<1>7. freed' \in [Skbs -> Nat]
  <2>1. freed' = [s \in Skbs |-> IF s \in {txSkb[bdp]} THEN freed[s] + 1 ELSE freed[s]]
    BY DEF CleanOne
  <2> QED
    BY <2>1, FreedStaysTyped DEF IInv, TypeOK, SkbTypeOK
<1>8. XmitTypeOK' /\ HwTypeOK' /\ CtlTypeOK' /\ SkbTypeOK' /\ XmitSane'
  BY <1>7 DEF IInv, TypeOK, XmitTypeOK, HwTypeOK, CtlTypeOK, SkbTypeOK, XmitSane,
     CleanOne
<1>9. XmitHasRoom'
  <2>1. xmit.descs \in Nat /\ xmit' = xmit
    BY DEF IInv, TypeOK, XmitTypeOK, CleanOne
  <2> QED
    BY <1>1, <1>2, <2>1, Bounds DEF IInv, XmitHasRoom
<1> QED
  BY <1>4, <1>6, <1>8, <1>9 DEF IInv, TypeOK

\* The other steps of the interrupt handler and the poll leave the ring alone.
LEMMA StepSoftirq == ASSUME IInv, Softirq PROVE IInv'
<1>1. CASE CleanOne
  BY <1>1, StepCleanOne
<1>2. CASE Interrupt \/ ReceiveInterrupt \/ PollStart \/ CleanEnd \/ PollComplete
           \/ PollAgain
  <2>1. RingTypeOK' /\ XmitTypeOK' /\ SkbTypeOK' /\ XmitSane' /\ XmitHasRoom'
        /\ AwakeHasRoom'
    BY <1>2 DEF IInv, TypeOK, RingTypeOK, BitsTypeOK, XmitTypeOK, SkbTypeOK,
       XmitSane, XmitHasRoom, AwakeHasRoom, Interrupt, ReceiveInterrupt, PollStart, CleanEnd,
       PollComplete, PollAgain
  <2>2. HwTypeOK'
    BY <1>2 DEF IInv, TypeOK, HwTypeOK, Interrupt, ReceiveInterrupt, PollStart,
       CleanEnd, PollComplete, PollAgain, Retrigger, CtlTypeOK
  <2>3. CtlTypeOK'
    <3>1. UNCHANGED <<mac, up, link, qdisc, worker, queued, restarts>>
      BY <1>2 DEF Interrupt, ReceiveInterrupt, PollStart, CleanEnd, PollComplete,
         PollAgain
    <3>2. napi' \in {"off", "idle", "sched", "clean", "done"}
      BY <1>2 DEF IInv, TypeOK, CtlTypeOK, Interrupt, ReceiveInterrupt, PollStart,
         CleanEnd, PollComplete, PollAgain
    <3>3. /\ event' \in {event, FALSE} /\ workTx' \in {workTx, TRUE, FALSE}
          /\ unmasked' \in BOOLEAN
      BY <1>2 DEF IInv, TypeOK, CtlTypeOK, Interrupt, ReceiveInterrupt, PollStart,
         CleanEnd, PollComplete, PollAgain
    <3> QED
      BY <3>1, <3>2, <3>3 DEF IInv, TypeOK, CtlTypeOK
  <2> QED
    BY <2>1, <2>2, <2>3 DEF IInv, TypeOK
<1> QED
  BY <1>1, <1>2 DEF Softirq

\* fec_restart leaves an empty ring with room for everything.
LEMMA RestartTyped ==
  ASSUME IInv, Restart, xmit' = xmit, handed' = handed, stopped' = FALSE
  PROVE  /\ RingTypeOK' /\ XmitTypeOK' /\ HwTypeOK' /\ SkbTypeOK' /\ XmitSane'
         /\ XmitHasRoom' /\ AwakeHasRoom'
<1>1. 0 \in Slots
  BY Bounds DEF Slots
<1>2. RingTypeOK'
  <2>1. NoSkb \in 0 .. MaxSkbs
    BY Bounds DEF NoSkb
  <2> QED
    BY <1>1, <2>1, RestartedFree DEF IInv, TypeOK, RingTypeOK, BitsTypeOK, Restart
<1>3. XmitTypeOK' /\ XmitSane'
  BY DEF IInv, TypeOK, XmitTypeOK, XmitSane
<1>4. HwTypeOK'
  BY <1>1 DEF HwTypeOK, Restart
<1>5. SkbTypeOK'
  BY FreedStaysTyped DEF IInv, TypeOK, SkbTypeOK, Restart, FreeAll
<1>6. AwakeHasRoom'
  <2>1. dirty' = PrevOf(0) /\ cur' = 0
    BY DEF Restart
  <2> QED
    BY <2>1, RestartedFree, Bounds DEF AwakeHasRoom
<1>7. XmitHasRoom'
  <2>1. dirty' = PrevOf(0) /\ cur' = 0
    BY DEF Restart
  <2>2. xmit'.descs \in 0 .. MaxSkbDescs
    BY DEF IInv, TypeOK, XmitTypeOK
  <2> QED
    BY <2>1, <2>2, RestartedFree, Bounds DEF XmitHasRoom
<1> QED
  BY <1>2, <1>3, <1>4, <1>5, <1>6, <1>7

LEMMA StepRestart == ASSUME IInv, DoRestart \/ Open PROVE IInv'
<1>1. /\ RingTypeOK' /\ XmitTypeOK' /\ HwTypeOK' /\ SkbTypeOK' /\ XmitSane'
      /\ XmitHasRoom' /\ AwakeHasRoom'
  BY RestartTyped DEF DoRestart, Open
<1>2. CtlTypeOK'
  BY DEF IInv, TypeOK, CtlTypeOK, DoRestart, Open, Restart
<1> QED
  BY <1>1, <1>2 DEF IInv, TypeOK

\* fec_stop touches only the MAC; close also frees what is left in the ring.
LEMMA StepStop == ASSUME IInv, DoStop \/ PauseParam PROVE IInv'
<1>1. CtlTypeOK'
  <2>1. restarts' \in 0 .. MaxRestarts
    BY Bounds DEF IInv, TypeOK, CtlTypeOK, DoStop, PauseParam
  <2> QED
    BY <2>1 DEF IInv, TypeOK, CtlTypeOK, DoStop, PauseParam, Stop
<1>2. RingTypeOK' /\ XmitTypeOK' /\ HwTypeOK' /\ SkbTypeOK' /\ XmitSane'
      /\ XmitHasRoom' /\ AwakeHasRoom'
  BY DEF IInv, TypeOK, RingTypeOK, BitsTypeOK, XmitTypeOK, HwTypeOK, SkbTypeOK,
     XmitSane, XmitHasRoom, AwakeHasRoom, DoStop, PauseParam, Stop
<1> QED
  BY <1>1, <1>2 DEF IInv, TypeOK

LEMMA StepCloseEnd == ASSUME IInv, CloseEnd PROVE IInv'
<1>1. RingTypeOK'
  <2>1. NoSkb \in 0 .. MaxSkbs
    BY Bounds DEF NoSkb
  <2> QED
    BY <2>1 DEF IInv, TypeOK, RingTypeOK, BitsTypeOK, CloseEnd
<1>2. SkbTypeOK'
  BY FreedStaysTyped DEF IInv, TypeOK, SkbTypeOK, CloseEnd, FreeAll
<1>3. XmitTypeOK' /\ HwTypeOK' /\ CtlTypeOK' /\ XmitSane' /\ XmitHasRoom'
      /\ AwakeHasRoom'
  BY DEF IInv, TypeOK, XmitTypeOK, HwTypeOK, CtlTypeOK, XmitSane, XmitHasRoom,
     AwakeHasRoom, CloseEnd, Stop
<1> QED
  BY <1>1, <1>2, <1>3 DEF IInv, TypeOK

\* The control steps that change neither the ring nor the MAC.
LEMMA StepQuiet ==
  ASSUME IInv,
         LinkUp \/ LinkDown \/ Detach \/ TxTimeout \/ TimeoutWork \/ NapiEnabled
           \/ CloseBegin
  PROVE  IInv'
<1>1. RingTypeOK' /\ XmitTypeOK' /\ HwTypeOK' /\ SkbTypeOK' /\ XmitSane'
      /\ XmitHasRoom' /\ AwakeHasRoom'
  BY DEF IInv, TypeOK, RingTypeOK, BitsTypeOK, XmitTypeOK, HwTypeOK, SkbTypeOK,
     XmitSane, XmitHasRoom, AwakeHasRoom, LinkUp, LinkDown, Detach, TxTimeout, TimeoutWork,
     NapiEnabled, CloseBegin
<1>2. restarts' \in 0 .. MaxRestarts
  BY Bounds DEF IInv, TypeOK, CtlTypeOK, LinkUp, LinkDown, Detach, TxTimeout,
     TimeoutWork, NapiEnabled, CloseBegin
<1>3. CtlTypeOK'
  <2>1. /\ UNCHANGED <<mac, event, unmasked, workTx>>
        /\ napi' \in {napi, "idle"}
        /\ worker' \in {worker, "idle", "restart", "stop", "close"}
    BY <1>1 DEF LinkUp, LinkDown, Detach, TxTimeout, TimeoutWork, NapiEnabled,
       CloseBegin
  <2>2. /\ up' \in {up, FALSE} /\ qdisc' \in {qdisc, TRUE, FALSE}
        /\ link' \in BOOLEAN /\ queued' \in {queued, TRUE, FALSE}
    <3>1. CASE NapiEnabled
      BY <3>1 DEF IInv, TypeOK, CtlTypeOK, NapiEnabled
    <3>2. CASE ~NapiEnabled
      BY <3>2 DEF IInv, TypeOK, CtlTypeOK, LinkUp, LinkDown, Detach, TxTimeout,
         TimeoutWork, CloseBegin
    <3> QED
      BY <3>1, <3>2
  <2> QED
    <3>1. up' \in BOOLEAN /\ qdisc' \in BOOLEAN /\ queued' \in BOOLEAN
      BY <2>2 DEF IInv, TypeOK, CtlTypeOK
    <3>2. /\ napi' \in {"off", "idle", "sched", "clean", "done"}
          /\ worker' \in {"idle", "restart", "stop", "close", "leave", "leaveDown"}
      BY <2>1 DEF IInv, TypeOK, CtlTypeOK
    <3> QED
      BY <1>2, <2>1, <2>2, <3>1, <3>2 DEF IInv, TypeOK, CtlTypeOK
<1> QED
  BY <1>1, <1>3 DEF IInv, TypeOK

LEMMA StepStutter == ASSUME IInv, UNCHANGED vars PROVE IInv'
  BY DEF IInv, TypeOK, RingTypeOK, BitsTypeOK, XmitTypeOK, HwTypeOK, CtlTypeOK,
     SkbTypeOK, XmitSane, XmitHasRoom, AwakeHasRoom, vars

THEOREM Invariance == Spec => []IInv
<1>1. ASSUME IInv, [Next]_vars PROVE IInv'
  <2> USE <1>1
  <2>1. ASSUME NEW n \in 1 .. MaxFrags + 1, XmitBegin(n, FALSE) PROVE IInv'
    <3>1. n \in 1 .. MaxSkbDescs /\ (FALSE \/ n <= MaxFrags + 1)
      BY Bounds
    <3> QED
      BY <2>1, <3>1, StepXmitBegin
  <2>2. ASSUME NEW n \in 2 .. MaxSkbDescs, XmitBegin(n, TRUE) PROVE IInv'
    <3>1. n \in 1 .. MaxSkbDescs
      BY Bounds
    <3> QED
      BY <2>2, <3>1, StepXmitBegin
  <2>3. CASE XmitDrop
    BY <2>3, StepXmitDrop
  <2>4. CASE FillDesc
    BY <2>4, StepFillDesc
  <2>5. CASE MapFailure
    BY <2>5, StepMapFailure
  <2>6. CASE XmitEnd
    BY <2>6, StepXmitEnd
  <2>7. CASE Hardware
    BY <2>7, StepHardware
  <2>8. CASE Softirq
    BY <2>8, StepSoftirq
  <2>9. CASE Control
    BY <2>9, StepRestart, StepStop, StepCloseEnd, StepQuiet DEF Control
  <2>10. CASE UNCHANGED vars
    BY <2>10, StepStutter
  <2> QED
    BY <2>1, <2>2, <2>3, <2>4, <2>5, <2>6, <2>7, <2>8, <2>9, <2>10
    DEF Next, Stack
<1> QED
  BY InitIInv, <1>1, PTL DEF Spec

\* The three cursors stay inside the ring and all fields keep their types,
\* for every ring size and every limit of the driver.
THEOREM TypeCorrect == Spec => []TypeOK
<1>1. IInv => TypeOK
  BY DEF IInv
<1> QED
  BY <1>1, Invariance, PTL

\* Whatever the ring size, MAX_SKB_FRAGS and the TSO limit, as long as the wake
\* threshold covers one scatter-gather buffer: "NOT enough BD for SG" is never
\* printed, in any interleaving of start_xmit, clean-up and restarts.
THEOREM AwakeQueueHasRoom == Spec => []AwakeMeansRoom
<1>1. IInv => AwakeMeansRoom
  BY DEF IInv, AwakeHasRoom, AwakeMeansRoom, HasRoom
<1> QED
  BY <1>1, Invariance, PTL

\* bd.cur and dirty_tx never meet: the free count of fec_enet_get_free_txdesc_num
\* needs one descriptor between them, empty ring or full.
THEOREM CursorsNeverMeet == Spec => [](cur # dirty)
<1>1. IInv => cur # dirty
  BY DEF IInv, XmitHasRoom
<1> QED
  BY <1>1, Invariance, PTL

------------------------------------------------------------------------------
(* What lies in the ring.  The inductive invariant RInv measures every      *)
(* descriptor by its distance from the one after dirty_tx.                  *)


\* The driver's cursor after dirty_tx, and how far a descriptor is ahead of it.
First == Next1(dirty)
Off(i) == Dist(First, i)

\* start_xmit only runs on an open interface: the stack closes it afterwards.
XmitUp == (qdisc \/ xmit # Idle) => up

\* Buffers are remembered only at descriptors in use.
InRing == \A i \in Slots : txSkb[i] # NoSkb => Off(i) < Used

\* A buffer not settled yet was never freed; one that was settled is either
\* freed, once, or remembered at one descriptor.
Settled ==
  /\ \A s \in Skbs : s > handed => freed[s] = 0
  /\ \A i \in Slots : txSkb[i] <= handed
Conserved == Settled /\ BuffersConserved

\* The offsets that start_xmit has handed to the MAC, with u descriptors in use
\* and x being written: TSO front to back, a scatter-gather buffer its fragments
\* first and then its head.
HeadLast(x) == ~x.tso /\ x.done < x.descs
Written(u, x, k) ==
  \/ k < u
  \/ k < u + x.done /\ ~HeadLast(x)
  \/ u < k /\ k <= u + x.done /\ HeadLast(x)

\* The MAC has sent everything behind it, and nothing of what lies before it.
MacFollows ==
  mac =>
    /\ Off(hw) <= Used + (IF HeadLast(xmit) THEN 0 ELSE xmit.done)
    /\ \A i \in Slots : ready[i] <=> (Off(hw) <= Off(i) /\ Written(Used, xmit, Off(i)))

\* The descriptors of the buffer in progress: the last one, once written, ends it.
Marked ==
  xmit # Idle =>
    \A i \in Slots :
      Used <= Off(i) /\ Off(i) < Used + xmit.descs /\ Written(Used, xmit, Off(i))
        => (ends[i] = "buffer" <=> Off(i) = Used + xmit.descs - 1)

\* A descriptor in use ends a buffer exactly if the buffer is remembered there,
\* and the last one in use does.
Ended ==
  mac =>
    /\ \A i \in Slots : Off(i) < Used => (ends[i] = "buffer" <=> txSkb[i] # NoSkb)
    /\ Used > 0 => ends[PrevOf(cur)] = "buffer"

\* The ring remembers the buffers in the order of their numbers.
Sorted ==
  \A i, j \in Slots :
    txSkb[i] # NoSkb /\ txSkb[j] # NoSkb /\ Off(i) < Off(j) => txSkb[i] < txSkb[j]

RingInv == InRing /\ Conserved /\ MacFollows /\ Marked /\ Ended /\ Sorted

\* start_xmit and the clean-up exclude each other, and NAPI is off from the
\* restart or stop of the MAC to the napi_enable.
XmitAlone == xmit # Idle => napi # "clean"
LeavesOff == worker \in {"leave", "leaveDown"} => napi = "off"

\* With a link the interrupt is unmasked whenever NAPI does not run.
QuietUnmasked == napi \in {"idle", "off"} /\ mac /\ link /\ ~Disabling => unmasked

\* The end of a buffer that was sent has its interrupt pending, its mark in
\* work_tx, or its clean-up running.
Announced ==
  mac => \A i \in Slots :
    ends[i] = "buffer" /\ Written(Used, xmit, Off(i)) /\ ~ready[i]
      => event \/ workTx \/ napi = "clean"

IrqInv == XmitUp /\ XmitAlone /\ LeavesOff /\ QuietUnmasked /\ Announced

RInv == RingInv /\ IrqInv
------------------------------------------------------------------------------
(* Distances in the ring *)

LEMMA DistInRing ==
  /\ \A f, i \in Slots : Dist(f, i) \in 0 .. T - 1
  /\ \A f, i, j \in Slots : Dist(f, i) = Dist(f, j) => i = j
  /\ \A f, i \in Slots : Dist(f, i) = 0 <=> i = f
  BY Bounds DEF Slots, Dist

LEMMA DistNext ==
  ASSUME NEW f \in Slots, NEW i \in Slots, Dist(f, i) < T - 1
  PROVE  Next1(i) \in Slots /\ Dist(f, Next1(i)) = Dist(f, i) + 1
  BY Bounds DEF Slots, Dist, Next1

LEMMA DistPrev ==
  ASSUME NEW f \in Slots, NEW i \in Slots, Dist(f, i) > 0
  PROVE  PrevOf(i) \in Slots /\ Dist(f, PrevOf(i)) = Dist(f, i) - 1
  BY Bounds DEF Slots, Dist, PrevOf

LEMMA DistAhead ==
  ASSUME NEW f \in Slots, NEW i \in Slots, NEW k \in 0 .. T - 1, Dist(f, i) + k <= T - 1
  PROVE  Ahead(i, k) \in Slots /\ Dist(f, Ahead(i, k)) = Dist(f, i) + k
  BY Bounds DEF Slots, Dist, Ahead

\* Cleaning the first descriptor brings every other one closer.
LEMMA DistFromNext ==
  ASSUME NEW f \in Slots, NEW i \in Slots, i # f
  PROVE  Next1(f) \in Slots /\ Dist(Next1(f), i) = Dist(f, i) - 1
  BY Bounds DEF Slots, Dist, Next1

LEMMA DistBehind ==
  ASSUME NEW f \in Slots
  PROVE  Dist(Next1(f), f) = T - 1
  BY Bounds DEF Slots, Dist, Next1

\* What is in use and what is free make up the ring but for two descriptors.
LEMMA UsedAndFree ==
  ASSUME NEW d \in Slots, NEW c \in Slots, d # c
  PROVE  Dist(Next1(d), c) + Free(d, c) = T - 2
<1>1. /\ T \in Nat /\ T >= 2 /\ d \in Nat /\ c \in Nat /\ d <= T - 1 /\ c <= T - 1
  BY Bounds DEF Slots
<1>2. CASE d >= T - 1
  BY <1>1, <1>2 DEF Dist, Next1, Free
<1>3. CASE d < T - 1
  BY <1>1, <1>3 DEF Dist, Next1, Free
<1> QED
  BY <1>1, <1>2, <1>3
------------------------------------------------------------------------------
(* Facts of every state *)

LEMMA RingFacts ==
  ASSUME IInv
  PROVE  /\ First \in Slots /\ cur \in Slots /\ dirty \in Slots /\ hw \in Slots
         /\ First # dirty \/ T = 1
         /\ Used = Off(cur) /\ Used \in Nat
         /\ xmit.descs \in Nat /\ xmit.done \in Nat /\ xmit.tso \in BOOLEAN
         /\ xmit.done <= xmit.descs /\ Used + xmit.descs <= T - 2
         /\ \A i \in Slots : Off(i) \in 0 .. T - 1
<1>1. cur \in Slots /\ dirty \in Slots /\ hw \in Slots /\ cur # dirty
  BY DEF IInv, TypeOK, RingTypeOK, HwTypeOK, XmitHasRoom
<1>2. First \in Slots
  BY <1>1, StepsInRing DEF First
<1>3. Used = Off(cur) /\ \A i \in Slots : Off(i) \in 0 .. T - 1
  BY <1>2, DistInRing DEF Used, Off, First
<1>4. Used \in Nat /\ Used + Free(dirty, cur) = T - 2 /\ Free(dirty, cur) \in Int
  BY <1>1, <1>3, UsedAndFree, FreeInRing, Bounds DEF Used
<1>5. /\ xmit.descs \in Nat /\ xmit.done \in Nat /\ xmit.tso \in BOOLEAN
      /\ xmit.done <= xmit.descs /\ xmit.descs <= Free(dirty, cur)
  BY Bounds DEF IInv, TypeOK, XmitTypeOK, XmitSane, XmitHasRoom
<1>6. Used + xmit.descs <= T - 2
  BY <1>4, <1>5, Bounds
<1>7. First # dirty \/ T = 1
  BY <1>1, Bounds DEF First, Next1, Slots
<1> QED
  BY <1>1, <1>2, <1>3, <1>4, <1>5, <1>6, <1>7

LEMMA IdleIsEmpty ==
  Idle.descs = 0 /\ Idle.done = 0 /\ Idle.tso = FALSE
  BY DEF Idle

\* What is written for a buffer stays below what is free.
LEMMA WrittenBounded ==
  ASSUME IInv, NEW k \in Nat, Written(Used, xmit, k)
  PROVE  k < Used + xmit.descs
<1>1. /\ Used \in Nat /\ xmit.descs \in Nat /\ xmit.done \in Nat /\ xmit.done <= xmit.descs
  BY RingFacts
<1> QED
  BY <1>1 DEF Written, HeadLast
------------------------------------------------------------------------------
(* The ring through every step *)

LEMMA RingStays ==
  ASSUME RingInv, mac' => mac,
         UNCHANGED <<ready, ends, txSkb, cur, dirty, xmit, hw, handed, freed>>
  PROVE  RingInv'
<1>1. First' = First /\ Used' = Used
  BY DEF First, Used
<1>2. InRing' /\ Sorted'
  BY <1>1 DEF RingInv, InRing, Sorted, Off
<1>3. Conserved'
  BY DEF RingInv, Conserved, Settled, BuffersConserved
<1>4. MacFollows'
  BY <1>1 DEF RingInv, MacFollows, Off
<1>5. Marked' /\ Ended'
  BY <1>1 DEF RingInv, Marked, Ended, Off
<1> QED
  BY <1>2, <1>3, <1>4, <1>5 DEF RingInv

\* Nothing is written yet when a transmission begins.
LEMMA RingXmitBegin ==
  ASSUME IInv, RingInv, NEW n \in 1 .. MaxSkbDescs, NEW tso \in BOOLEAN, XmitBegin(n, tso)
  PROVE  RingInv'
<1>1. First' = First /\ Used' = Used /\ xmit = Idle
  BY DEF First, Used, XmitBegin, MayTransmit
<1>2. xmit.done = 0 /\ xmit'.done = 0 /\ xmit'.descs = n /\ ~HeadLast(xmit)
  BY <1>1, IdleIsEmpty DEF XmitBegin, HeadLast
<1>3. \A k \in 0 .. T - 1 : /\ Written(Used, xmit, k) <=> k < Used
                            /\ Written(Used, xmit', k) <=> k < Used
  BY <1>2, RingFacts, Bounds DEF Written
<1>4. \A i \in Slots : Off(i) \in 0 .. T - 1
  BY RingFacts
<1>5. InRing' /\ Sorted'
  BY <1>1 DEF RingInv, InRing, Sorted, Off, XmitBegin
<1>6. Conserved'
  BY DEF RingInv, Conserved, Settled, BuffersConserved, XmitBegin
<1>7. MacFollows'
  <2>1. SUFFICES ASSUME mac'
        PROVE  /\ Off(hw) <= Used
               /\ \A i \in Slots : ready[i] <=> (Off(hw) <= Off(i) /\ Off(i) < Used)
    BY <1>1, <1>2, <1>3, <1>4, RingFacts DEF MacFollows, Off, XmitBegin
  <2> QED
    BY <1>2, <1>3, <1>4, <2>1, RingFacts DEF RingInv, MacFollows, XmitBegin
<1>8. Marked'
  BY <1>1, <1>3, <1>4, RingFacts DEF Marked, Off
<1>9. Ended'
  BY <1>1 DEF RingInv, Ended, Off, XmitBegin
<1> QED
  BY <1>5, <1>6, <1>7, <1>8, <1>9 DEF RingInv

\* A buffer that is settled without entering the ring is freed.
LEMMA DroppedOnce ==
  ASSUME IInv, Conserved, handed < MaxSkbs, UNCHANGED txSkb, handed' = handed + 1,
         freed' = [freed EXCEPT ![handed + 1] = @ + 1]
  PROVE  Conserved'
<1>1. /\ handed \in Nat /\ handed + 1 \in Skbs /\ freed \in [Skbs -> Nat]
      /\ \A s \in Skbs : s \in Nat
  BY Bounds DEF IInv, TypeOK, SkbTypeOK, Skbs
<1>2. /\ \A s \in Skbs : freed'[s] = (IF s = handed + 1 THEN freed[s] + 1 ELSE freed[s])
      /\ freed[handed + 1] = 0
  BY <1>1 DEF Conserved, Settled
<1>3. \A i \in Slots : txSkb[i] \in 0 .. MaxSkbs /\ txSkb[i] <= handed
  BY DEF IInv, TypeOK, RingTypeOK, Conserved, Settled
<1>4. Settled'
  <2>1. \A s \in Skbs : s > handed + 1 => freed'[s] = 0
    BY <1>1, <1>2 DEF Conserved, Settled
  <2>2. \A i \in Slots : txSkb[i] <= handed + 1
    BY <1>1, <1>3, Bounds
  <2> QED
    BY <2>1, <2>2 DEF Settled
<1>5. BuffersConserved'
  <2> SUFFICES ASSUME NEW s \in Skbs
               PROVE  /\ freed'[s] <= 1
                      /\ (freed'[s] = 0 /\ s <= handed + 1) <=> \E i \in Slots : txSkb[i] = s
                      /\ \A i, j \in Slots : txSkb[i] = s /\ txSkb[j] = s => i = j
    BY DEF BuffersConserved
  <2>1. /\ freed[s] <= 1 /\ ((freed[s] = 0 /\ s <= handed) <=> \E i \in Slots : txSkb[i] = s)
        /\ \A i, j \in Slots : txSkb[i] = s /\ txSkb[j] = s => i = j
    BY DEF Conserved, BuffersConserved
  <2>2. CASE s = handed + 1
    BY <1>1, <1>2, <2>1, <2>2
  <2>3. CASE s # handed + 1
    BY <1>1, <1>2, <2>1, <2>3
  <2> QED
    BY <2>2, <2>3
<1> QED
  BY <1>4, <1>5 DEF Conserved

LEMMA RingXmitDrop ==
  ASSUME IInv, RingInv, XmitDrop
  PROVE  RingInv'
<1>1. First' = First /\ Used' = Used
  BY DEF First, Used, XmitDrop
<1>2. InRing' /\ Sorted'
  BY <1>1 DEF RingInv, InRing, Sorted, Off, XmitDrop
<1>3. Conserved'
  BY DroppedOnce DEF RingInv, XmitDrop, MayTransmit
<1>4. MacFollows'
  BY <1>1 DEF RingInv, MacFollows, Off, XmitDrop
<1>5. Marked' /\ Ended'
  BY <1>1 DEF RingInv, Marked, Ended, Off, XmitDrop
<1> QED
  BY <1>2, <1>3, <1>4, <1>5 DEF RingInv

\* The head is mapped before anything is written, so nothing is left behind.
LEMMA RingMapFailure ==
  ASSUME IInv, RingInv, MapFailures # "any", MapFailure
  PROVE  RingInv'
<1>1. /\ First' = First /\ Used' = Used /\ xmit' = Idle
      /\ xmit # Idle /\ xmit.tso = FALSE /\ xmit.done = 0 /\ xmit.done < xmit.descs
  <2>1. MapFailures = "head"
    BY TransmitAssumption DEF MapFailure
  <2>2. ~xmit.tso /\ xmit.done = 0
    BY <2>1 DEF MapFailure
  <2> QED
    BY <2>2, RingFacts DEF First, Used, MapFailure
<1>2. HeadLast(xmit) /\ ~HeadLast(xmit')
  BY <1>1, IdleIsEmpty DEF HeadLast
<1>3. \A k \in 0 .. T - 1 : /\ Written(Used, xmit, k) <=> k < Used
                            /\ Written(Used, xmit', k) <=> k < Used
  BY <1>1, <1>2, IdleIsEmpty, RingFacts, Bounds DEF Written
<1>4. \A i \in Slots : Off(i) \in 0 .. T - 1
  BY RingFacts
<1>5. InRing' /\ Sorted'
  BY <1>1 DEF RingInv, InRing, Sorted, Off, MapFailure
<1>6. Conserved'
  <2>1. handed < MaxSkbs
    BY <1>1 DEF IInv, XmitSane
  <2> QED
    BY <1>1, <2>1, DroppedOnce DEF RingInv, MapFailure
<1>7. MacFollows'
  <2>1. SUFFICES ASSUME mac
        PROVE  /\ Off(hw) <= Used
               /\ \A i \in Slots : ready[i] <=> (Off(hw) <= Off(i) /\ Off(i) < Used)
    <3>1. (IF HeadLast(xmit') THEN 0 ELSE xmit'.done) = 0 /\ Used + 0 = Used
      BY <1>1, <1>2, IdleIsEmpty, RingFacts
    <3> QED
      BY <1>1, <1>3, <1>4, <2>1, <3>1 DEF MacFollows, Off, MapFailure
  <2> QED
    BY <1>2, <1>3, <1>4, <2>1, RingFacts DEF RingInv, MacFollows
<1>8. Marked'
  BY <1>1 DEF Marked
<1>9. Ended'
  BY <1>1 DEF RingInv, Ended, Off, MapFailure
<1> QED
  BY <1>5, <1>6, <1>7, <1>8, <1>9 DEF RingInv

\* One descriptor of the buffer in progress becomes ready; the MAC is not past it.
LEMMA FillAddsOne ==
  ASSUME IInv, FillDesc
  PROVE  LET i == Ahead(cur, FillOffset) IN
         /\ FillOffset \in 0 .. xmit.descs - 1
         /\ i \in Slots /\ Off(i) = Used + FillOffset
         /\ HeadLast(xmit) \/ FillOffset = xmit.done
         /\ \A k \in 0 .. T - 1 : Written(Used, xmit', k) <=> (Written(Used, xmit, k) \/ k = Used + FillOffset)
<1>1. /\ Used \in Nat /\ xmit.descs \in Nat /\ xmit.done \in Nat /\ xmit.tso \in BOOLEAN
      /\ Used + xmit.descs <= T - 2 /\ Used = Off(cur) /\ cur \in Slots /\ First \in Slots
      /\ xmit.done < xmit.descs
  BY RingFacts DEF FillDesc
<1>2. xmit'.descs = xmit.descs /\ xmit'.tso = xmit.tso /\ xmit'.done = xmit.done + 1
  BY DEF IInv, TypeOK, XmitTypeOK, FillDesc
<1>3. FillOffset \in 0 .. xmit.descs - 1
  BY <1>1 DEF FillOffset
<1>4. Ahead(cur, FillOffset) \in Slots /\ Off(Ahead(cur, FillOffset)) = Used + FillOffset
  BY <1>1, <1>3, DistAhead, Bounds DEF Off
<1>5. HeadLast(xmit) \/ FillOffset = xmit.done
  BY <1>1 DEF FillOffset, HeadLast
<1>6. ASSUME NEW k \in 0 .. T - 1
      PROVE  Written(Used, xmit', k) <=> (Written(Used, xmit, k) \/ k = Used + FillOffset)
  <2>0. k \in Nat
    BY Bounds
  <2>1. CASE xmit.tso
    BY <1>1, <1>2, <2>0, <2>1 DEF Written, HeadLast, FillOffset
  <2>2. CASE ~xmit.tso /\ xmit.done = xmit.descs - 1
    BY <1>1, <1>2, <2>0, <2>2 DEF Written, HeadLast, FillOffset
  <2>3. CASE ~xmit.tso /\ xmit.done # xmit.descs - 1
    BY <1>1, <1>2, <2>0, <2>3 DEF Written, HeadLast, FillOffset
  <2> QED
    BY <2>1, <2>2, <2>3
<1> QED
  BY <1>3, <1>4, <1>5, <1>6

LEMMA RingFillDesc ==
  ASSUME IInv, RingInv, FillDesc
  PROVE  RingInv'
<1> DEFINE o == FillOffset
           i == Ahead(cur, o)
<1>1. /\ First' = First /\ Used' = Used /\ xmit # Idle /\ xmit.done < xmit.descs
      /\ UNCHANGED <<txSkb, cur, dirty, hw, mac, handed, freed>>
  BY DEF First, Used, FillDesc
<1>2. xmit'.descs = xmit.descs /\ xmit'.tso = xmit.tso /\ xmit'.done = xmit.done + 1
  BY DEF IInv, TypeOK, XmitTypeOK, FillDesc
<1>3. /\ o \in 0 .. xmit.descs - 1 /\ i \in Slots /\ Off(i) = Used + o
      /\ HeadLast(xmit) \/ o = xmit.done
      /\ \A k \in 0 .. T - 1 : Written(Used, xmit', k) <=> (Written(Used, xmit, k) \/ k = Used + o)
  BY FillAddsOne
<1>4. \E mark \in Marks : /\ mark = "buffer" <=> o = xmit.descs - 1
                          /\ ends' = [ends EXCEPT ![i] = mark]
  BY DEF FillDesc
<1>5. ready' = [ready EXCEPT ![i] = TRUE] /\ ready \in [Slots -> BOOLEAN] /\ ends \in [Slots -> Marks]
  BY DEF FillDesc, IInv, TypeOK, RingTypeOK, BitsTypeOK
<1>6. /\ \A j \in Slots : Off(j) \in 0 .. T - 1
      /\ \A j \in Slots : Off(j) = Used + o <=> j = i
      /\ Used \in Nat /\ xmit.descs \in Nat /\ xmit.done \in Nat
      /\ First \in Slots /\ cur \in Slots /\ hw \in Slots /\ Used = Off(cur)
  BY <1>3, RingFacts, DistInRing DEF Off
<1> HIDE DEF o, i
<1>7. \A j \in Slots : ready'[j] = (IF j = i THEN TRUE ELSE ready[j])
  BY <1>3, <1>5
<1>8. /\ ends'[i] = "buffer" <=> o = xmit.descs - 1
      /\ \A j \in Slots : j # i => ends'[j] = ends[j]
  BY <1>3, <1>4, <1>5
<1>9. InRing' /\ Sorted'
  BY <1>1 DEF RingInv, InRing, Sorted, Off
<1>10. Conserved'
  BY <1>1 DEF RingInv, Conserved, Settled, BuffersConserved
<1>11. MacFollows'
  <2> SUFFICES ASSUME mac
      PROVE  /\ Off(hw) <= Used + (IF HeadLast(xmit') THEN 0 ELSE xmit'.done)
             /\ \A j \in Slots : ready'[j] <=> (Off(hw) <= Off(j) /\ Written(Used, xmit', Off(j)))
    BY <1>1 DEF MacFollows, Off
  <2>1. /\ Off(hw) <= Used + (IF HeadLast(xmit) THEN 0 ELSE xmit.done)
        /\ \A j \in Slots : ready[j] <=> (Off(hw) <= Off(j) /\ Written(Used, xmit, Off(j)))
    BY DEF RingInv, MacFollows
  <2>2. Off(hw) \in Nat /\ Off(hw) <= Used + o
    BY <1>3, <1>6, <2>1, Bounds
  <2>3. HeadLast(xmit') => HeadLast(xmit)
    BY <1>2, <1>6 DEF HeadLast
  <2>4. Off(hw) <= Used + (IF HeadLast(xmit') THEN 0 ELSE xmit'.done)
    BY <1>2, <1>6, <2>1, <2>2, <2>3
  <2>5. ASSUME NEW j \in Slots
        PROVE  ready'[j] <=> (Off(hw) <= Off(j) /\ Written(Used, xmit', Off(j)))
    BY <1>3, <1>6, <1>7, <2>1, <2>2
  <2> QED
    BY <2>4, <2>5
<1>12. Marked'
  <2> SUFFICES ASSUME NEW j \in Slots, Used <= Off(j), Off(j) < Used + xmit.descs, Written(Used, xmit', Off(j))
      PROVE  ends'[j] = "buffer" <=> Off(j) = Used + xmit.descs - 1
    BY <1>1, <1>2 DEF Marked, Off
  <2>1. CASE j = i
    BY <1>3, <1>6, <1>8, <2>1
  <2>2. CASE j # i
    <3>1. Written(Used, xmit, Off(j))
      BY <1>3, <1>6, <2>2
    <3> QED
      BY <1>1, <1>8, <2>2, <3>1 DEF RingInv, Marked
  <2> QED
    BY <2>1, <2>2
<1>13. Ended'
  <2>1. \A j \in Slots : Off(j) < Used => j # i /\ ends'[j] = ends[j]
    BY <1>3, <1>6, <1>8, Bounds
  <2>2. Used > 0 => PrevOf(cur) \in Slots /\ Off(PrevOf(cur)) < Used
    BY <1>6, DistPrev DEF Off
  <2> QED
    BY <1>1, <2>1, <2>2 DEF RingInv, Ended, Off
<1> QED
  BY <1>9, <1>10, <1>11, <1>12, <1>13 DEF RingInv

\* The finished buffer is remembered at its last descriptor, behind all others.
LEMMA RingXmitEnd ==
  ASSUME IInv, RingInv, XmitEnd
  PROVE  RingInv'
<1> DEFINE l == LastSlot
           n == xmit.descs
<1>1. /\ First' = First /\ xmit # Idle /\ xmit.done = n /\ xmit' = Idle
      /\ UNCHANGED <<ready, ends, dirty, hw, mac, freed>>
      /\ cur' = Ahead(cur, n) /\ handed' = handed + 1
  BY DEF First, XmitEnd
<1>2. /\ Used = Off(cur) /\ Used \in Nat /\ n \in Nat /\ n >= 1 /\ Used + n <= T - 2
      /\ First \in Slots /\ cur \in Slots /\ hw \in Slots
      /\ \A j \in Slots : Off(j) \in 0 .. T - 1
  BY <1>1, RingFacts DEF IInv, XmitSane
<1>3. cur' \in Slots /\ Used' = Used + n
  <2>1. n \in 0 .. T - 1 /\ Off(cur) + n <= T - 1
    BY <1>2, Bounds
  <2>2. cur' \in Slots /\ Off(cur') = Off(cur) + n
    BY <1>1, <1>2, <2>1, DistAhead DEF Off
  <2> QED
    BY <1>1, <1>2, <2>2 DEF Used, Off, First
<1>4. l \in Slots /\ Off(l) = Used + n - 1
  <2>1. n - 1 \in 0 .. T - 1 /\ Off(cur) + (n - 1) <= T - 1
    BY <1>2, Bounds
  <2> QED
    BY <1>2, <2>1, DistAhead DEF Off, LastSlot
<1>5. \A j \in Slots : Off(j) = Used + n - 1 <=> j = l
  BY <1>2, <1>4, DistInRing DEF Off
<1>6. ~HeadLast(xmit) /\ ~HeadLast(xmit') /\ xmit'.done = 0
  BY <1>1, <1>2, IdleIsEmpty DEF HeadLast
<1>7. \A k \in 0 .. T - 1 : /\ Written(Used, xmit, k) <=> k < Used + n
                            /\ Written(Used', xmit', k) <=> k < Used + n
  BY <1>1, <1>2, <1>3, <1>6, Bounds DEF Written
<1>8. txSkb' = [txSkb EXCEPT ![l] = handed + 1] /\ txSkb \in [Slots -> 0 .. MaxSkbs]
  BY DEF XmitEnd, IInv, TypeOK, RingTypeOK
<1>9. /\ handed \in Nat /\ handed + 1 \in Skbs /\ handed + 1 # NoSkb
      /\ \A s \in Skbs : s \in Nat /\ s # NoSkb
  BY <1>1, Bounds DEF IInv, XmitSane, TypeOK, SkbTypeOK, Skbs, NoSkb
<1>10. txSkb[l] = NoSkb
  BY <1>2, <1>4 DEF RingInv, InRing
<1> HIDE DEF l, n
<1>11. /\ \A j \in Slots : txSkb'[j] = (IF j = l THEN handed + 1 ELSE txSkb[j])
       /\ \A j \in Slots : txSkb[j] # NoSkb => Off(j) < Used /\ j # l
       /\ \A j \in Slots : txSkb[j] \in Nat /\ txSkb[j] <= handed
  BY <1>4, <1>8, <1>10, Bounds DEF RingInv, InRing, Conserved, Settled
<1>12. InRing'
  <2> SUFFICES ASSUME NEW j \in Slots, txSkb'[j] # NoSkb
               PROVE  Off(j) < Used + n
    BY <1>1, <1>3 DEF InRing, Off
  <2> QED
    BY <1>2, <1>4, <1>11
<1>13. Conserved'
  <2>1. Settled'
    <3>1. \A s \in Skbs : s > handed + 1 => freed[s] = 0
      BY <1>9 DEF RingInv, Conserved, Settled
    <3>2. \A j \in Slots : txSkb'[j] <= handed + 1
      BY <1>9, <1>11
    <3> QED
      BY <1>1, <3>1, <3>2 DEF Settled
  <2>2. BuffersConserved'
    <3> SUFFICES ASSUME NEW s \in Skbs
                 PROVE  /\ freed[s] <= 1
                        /\ (freed[s] = 0 /\ s <= handed + 1) <=> \E i \in Slots : txSkb'[i] = s
                        /\ \A i, j \in Slots : txSkb'[i] = s /\ txSkb'[j] = s => i = j
      BY <1>1 DEF BuffersConserved
    <3>1. /\ freed[s] <= 1 /\ ((freed[s] = 0 /\ s <= handed) <=> \E i \in Slots : txSkb[i] = s)
          /\ \A i, j \in Slots : txSkb[i] = s /\ txSkb[j] = s => i = j
      BY DEF RingInv, Conserved, BuffersConserved
    <3>2. CASE s = handed + 1
      <4>1. freed[s] = 0
        BY <1>9, <3>2 DEF RingInv, Conserved, Settled
      <4>2. txSkb'[l] = s
        BY <1>4, <1>11, <3>2
      <4>3. \A i \in Slots : txSkb'[i] = s => i = l
        BY <1>9, <1>11, <3>2
      <4> QED
        BY <1>4, <1>9, <3>2, <4>1, <4>2, <4>3
    <3>3. CASE s # handed + 1
      <4>1. \A i \in Slots : txSkb'[i] = s <=> txSkb[i] = s
        BY <1>9, <1>10, <1>11, <3>3
      <4>2. s <= handed + 1 <=> s <= handed
        BY <1>9, <3>3
      <4> QED
        BY <3>1, <4>1, <4>2
    <3> QED
      BY <3>2, <3>3
  <2> QED
    BY <2>1, <2>2 DEF Conserved
<1>14. MacFollows'
  <2> SUFFICES ASSUME mac
      PROVE  /\ Off(hw) <= Used + n + 0
             /\ \A j \in Slots : ready[j] <=> (Off(hw) <= Off(j) /\ Written(Used', xmit', Off(j)))
    BY <1>1, <1>3, <1>6 DEF MacFollows, Off
  <2>1. Off(hw) <= Used + n + 0
    BY <1>1, <1>2, <1>6 DEF RingInv, MacFollows
  <2> QED
    BY <1>2, <1>7, <2>1 DEF RingInv, MacFollows
<1>15. Marked'
  BY <1>1 DEF Marked
<1>16. \A j \in Slots : Off(j) < Used + n => (ends[j] = "buffer" <=> txSkb'[j] # NoSkb) \/ ~mac
  <2> SUFFICES ASSUME NEW j \in Slots, Off(j) < Used + n, mac
               PROVE  ends[j] = "buffer" <=> txSkb'[j] # NoSkb
    OBVIOUS
  <2>1. CASE Off(j) < Used
    BY <1>2, <1>4, <1>11, <2>1 DEF RingInv, Ended
  <2>2. CASE Used <= Off(j)
    <3>1. ends[j] = "buffer" <=> j = l
      BY <1>1, <1>2, <1>5, <1>7, <2>2 DEF RingInv, Marked, n
    <3>2. txSkb'[j] # NoSkb <=> j = l
      BY <1>2, <1>9, <1>11, <2>2
    <3> QED
      BY <3>1, <3>2
  <2> QED
    BY <1>2, <2>1, <2>2
<1>17. Ended'
  <2>1. PrevOf(cur') \in Slots /\ Off(PrevOf(cur')) = Used + n - 1
    <3>1. Off(cur') = Used + n /\ Used + n > 0
      BY <1>1, <1>2, <1>3 DEF Used, Off, First
    <3> QED
      BY <1>2, <1>3, <3>1, DistPrev DEF Off
  <2>2. PrevOf(cur') = l /\ txSkb'[l] # NoSkb
    BY <1>4, <1>5, <1>9, <1>11, <2>1
  <2>3. mac => ends[PrevOf(cur')] = "buffer"
    BY <1>2, <1>4, <1>16, <2>2
  <2> QED
    BY <1>1, <1>3, <1>16, <2>3 DEF Ended, Off
<1>18. Sorted'
  <2> SUFFICES ASSUME NEW i \in Slots, NEW j \in Slots, txSkb'[i] # NoSkb, txSkb'[j] # NoSkb, Off(i) < Off(j)
               PROVE  txSkb'[i] < txSkb'[j]
    BY <1>1 DEF Sorted, Off
  <2>1. i # l
    BY <1>2, <1>4, <1>11
  <2> QED
    BY <1>9, <1>11, <2>1 DEF RingInv, Sorted
<1> QED
  BY <1>12, <1>13, <1>14, <1>15, <1>17, <1>18 DEF RingInv

\* The MAC sends a descriptor that was written, and goes on to the next.
LEMMA RingHwTransmit ==
  ASSUME IInv, RingInv, HwTransmit
  PROVE  RingInv'
<1>1. /\ First' = First /\ Used' = Used /\ mac /\ ready[hw] /\ hw' = Next1(hw)
      /\ ready' = [ready EXCEPT ![hw] = FALSE] /\ ready \in [Slots -> BOOLEAN]
      /\ UNCHANGED <<ends, txSkb, cur, dirty, xmit, mac, handed, freed>>
  BY DEF First, Used, HwTransmit, IInv, TypeOK, RingTypeOK, BitsTypeOK
<1>2. /\ Used \in Nat /\ xmit.descs \in Nat /\ xmit.done \in Nat /\ Used + xmit.descs <= T - 2
      /\ First \in Slots /\ hw \in Slots
      /\ \A j \in Slots : Off(j) \in 0 .. T - 1
  BY RingFacts
<1>3. Written(Used, xmit, Off(hw)) /\ Off(hw) <= Used + (IF HeadLast(xmit) THEN 0 ELSE xmit.done)
  BY <1>1, <1>2 DEF RingInv, MacFollows
<1>4. Off(hw) < T - 1
  BY <1>2, <1>3, WrittenBounded, Bounds
<1>5. hw' \in Slots /\ Off(hw') = Off(hw) + 1
  BY <1>1, <1>2, <1>4, DistNext DEF Off
<1>6. Off(hw) + 1 <= Used + (IF HeadLast(xmit) THEN 0 ELSE xmit.done)
  BY <1>2, <1>3 DEF Written
<1>7. \A j \in Slots : /\ ready'[j] = (IF j = hw THEN FALSE ELSE ready[j])
                       /\ Off(j) = Off(hw) <=> j = hw
  BY <1>1, <1>2, DistInRing DEF Off
<1>8. MacFollows'
  <2>1. \A j \in Slots : ready[j] <=> (Off(hw) <= Off(j) /\ Written(Used, xmit, Off(j)))
    BY <1>1 DEF RingInv, MacFollows
  <2>2. \A j \in Slots : ready'[j] <=> (Off(hw) + 1 <= Off(j) /\ Written(Used, xmit, Off(j)))
    <3> SUFFICES ASSUME NEW j \in Slots
                 PROVE  ready'[j] <=> (Off(hw) + 1 <= Off(j) /\ Written(Used, xmit, Off(j)))
      OBVIOUS
    <3> DEFINE h == Off(hw)
               o == Off(j)
    <3>0. h \in Nat /\ o \in Nat
      BY <1>2, Bounds
    <3>1. h \in Nat /\ o \in Nat /\ (o = h <=> j = hw)
      BY <1>2, <3>0, DistInRing DEF Off
    <3>2. CASE j = hw
      <4> HIDE DEF h, o
      <4>1. ~(h + 1 <= o)
        BY <3>1, <3>2
      <4> QED
        BY <1>7, <3>2, <4>1 DEF h, o
    <3>3. CASE j # hw
      <4> HIDE DEF h, o
      <4>1. (h + 1 <= o) <=> (h <= o)
        BY <3>1, <3>3
      <4> QED
        BY <1>7, <2>1, <3>3, <4>1 DEF h, o
    <3> QED
      BY <3>2, <3>3
  <2> QED
    BY <1>1, <1>5, <1>6, <2>2 DEF MacFollows, Off
<1>9. InRing' /\ Sorted'
  BY <1>1 DEF RingInv, InRing, Sorted, Off
<1>10. Conserved'
  BY <1>1 DEF RingInv, Conserved, Settled, BuffersConserved
<1>11. Marked' /\ Ended'
  BY <1>1 DEF RingInv, Marked, Ended, Off
<1> QED
  BY <1>8, <1>9, <1>10, <1>11 DEF RingInv

\* Whoever takes buffers out of the ring and frees just these keeps the account.
LEMMA TakenOutFreed ==
  ASSUME IInv, Conserved, UNCHANGED handed,
         \A i \in Slots : txSkb'[i] \in {txSkb[i], NoSkb},
         \A s \in Skbs : freed'[s] =
           IF \E i \in Slots : txSkb[i] = s /\ txSkb'[i] = NoSkb THEN freed[s] + 1 ELSE freed[s]
  PROVE  Conserved'
<1>1. /\ handed \in Nat /\ NoSkb <= handed /\ freed \in [Skbs -> Nat]
      /\ \A s \in Skbs : s \in Nat /\ s # NoSkb
  BY Bounds DEF IInv, TypeOK, SkbTypeOK, Skbs, NoSkb
<1>2. \A s \in Skbs :
        /\ freed[s] <= 1 /\ ((freed[s] = 0 /\ s <= handed) <=> \E i \in Slots : txSkb[i] = s)
        /\ \A i, j \in Slots : txSkb[i] = s /\ txSkb[j] = s => i = j
  BY DEF Conserved, BuffersConserved
<1>3. Settled'
  <2>1. \A s \in Skbs : s > handed => freed'[s] = 0
    <3> SUFFICES ASSUME NEW s \in Skbs, s > handed PROVE freed'[s] = 0
      OBVIOUS
    <3>1. freed[s] = 0 /\ ~(s <= handed)
      BY <1>1 DEF Conserved, Settled
    <3>2. ~\E i \in Slots : txSkb[i] = s
      BY <1>2, <3>1
    <3> QED
      BY <3>1, <3>2
  <2>2. \A i \in Slots : txSkb'[i] <= handed
    BY <1>1 DEF Conserved, Settled
  <2> QED
    BY <2>1, <2>2 DEF Settled
<1>4. BuffersConserved'
  <2> SUFFICES ASSUME NEW s \in Skbs
               PROVE  /\ freed'[s] <= 1
                      /\ (freed'[s] = 0 /\ s <= handed) <=> \E i \in Slots : txSkb'[i] = s
                      /\ \A i, j \in Slots : txSkb'[i] = s /\ txSkb'[j] = s => i = j
    BY DEF BuffersConserved
  <2>1. CASE \E i \in Slots : txSkb[i] = s /\ txSkb'[i] = NoSkb
    <3>1. freed[s] = 0 /\ freed'[s] = 1
      BY <1>2, <2>1
    <3>2. \A i \in Slots : txSkb'[i] # s
      BY <1>1, <1>2, <2>1
    <3> QED
      BY <3>1, <3>2
  <2>2. CASE ~\E i \in Slots : txSkb[i] = s /\ txSkb'[i] = NoSkb
    <3>1. freed'[s] = freed[s]
      BY <2>2
    <3>2. \A i \in Slots : txSkb'[i] = s <=> txSkb[i] = s
      BY <1>1, <2>2
    <3> QED
      BY <1>2, <3>1, <3>2
  <2> QED
    BY <2>1, <2>2
<1> QED
  BY <1>3, <1>4 DEF Conserved

\* The clean-up takes the first descriptor in use, which the MAC has sent.
LEMMA RingCleanOne ==
  ASSUME IInv, RingInv, XmitAlone, CleanOne
  PROVE  RingInv'
<1> DEFINE f == First
<1>1. /\ xmit = Idle /\ f # cur /\ ~ready[f] /\ dirty' = f
      /\ txSkb' = [txSkb EXCEPT ![f] = NoSkb] /\ txSkb \in [Slots -> 0 .. MaxSkbs]
      /\ freed' = [s \in Skbs |-> IF s = txSkb[f] THEN freed[s] + 1 ELSE freed[s]]
      /\ UNCHANGED <<ready, ends, cur, xmit, hw, mac, handed>>
  BY DEF First, CleanOne, Cleanable, XmitAlone, IInv, TypeOK, RingTypeOK
<1>2. /\ f \in Slots /\ cur \in Slots /\ hw \in Slots /\ Used = Dist(f, cur) /\ Used \in Nat
      /\ Used <= T - 2
      /\ \A j \in Slots : Dist(f, j) \in 0 .. T - 1
  BY RingFacts, Bounds DEF Off
<1>3. Used > 0 /\ \A j \in Slots : Dist(f, j) = 0 <=> j = f
  BY <1>1, <1>2, DistInRing
<1>4. First' = Next1(f)
  BY <1>1 DEF First
<1>5. /\ First' \in Slots /\ Dist(First', f) = T - 1
      /\ \A j \in Slots : j # f => Dist(First', j) = Dist(f, j) - 1
  <2> HIDE DEF f
  <2>1. Dist(First', f) = T - 1 /\ First' \in Slots
    BY <1>2, <1>4, DistBehind, StepsInRing
  <2>2. ASSUME NEW j \in Slots, j # f
        PROVE  Dist(First', j) = Dist(f, j) - 1
    BY <1>2, <1>4, <2>2, DistFromNext
  <2> QED
    BY <2>1, <2>2
<1>6. Used' = Used - 1
  BY <1>1, <1>2, <1>5 DEF Used, First
<1>7. ~HeadLast(xmit) /\ xmit.done = 0
  BY <1>1, IdleIsEmpty DEF HeadLast
<1>8. \A k \in 0 .. T - 1 : /\ Written(Used, xmit, k) <=> k < Used
                            /\ Written(Used', xmit, k) <=> k < Used - 1
  BY <1>2, <1>6, <1>7, Bounds DEF Written
<1>9. mac => hw # f
  <2>1. mac /\ hw = f => ready[f]
    BY <1>2, <1>3, <1>8, Bounds DEF RingInv, MacFollows, Off
  <2> QED
    BY <1>1, <2>1
<1> HIDE DEF f
<1>10. \A j \in Slots : txSkb'[j] = (IF j = f THEN NoSkb ELSE txSkb[j])
  BY <1>1, <1>2
<1>11. Conserved'
  <2>1. ASSUME NEW s \in Skbs
        PROVE  s = txSkb[f] <=> \E i \in Slots : txSkb[i] = s /\ txSkb'[i] = NoSkb
    <3>1. s # NoSkb
      BY Bounds DEF Skbs, NoSkb
    <3> QED
      BY <1>2, <1>10, <3>1
  <2>2. \A i \in Slots : txSkb'[i] \in {txSkb[i], NoSkb}
    BY <1>10
  <2>3. \A s \in Skbs : freed'[s] =
          IF \E i \in Slots : txSkb[i] = s /\ txSkb'[i] = NoSkb THEN freed[s] + 1 ELSE freed[s]
    BY <1>1, <2>1
  <2> QED
    BY <1>1, <2>2, <2>3, TakenOutFreed DEF RingInv
<1>12. InRing'
  <2> SUFFICES ASSUME NEW j \in Slots, txSkb'[j] # NoSkb PROVE Dist(First', j) < Used - 1
    BY <1>6 DEF InRing, Off
  <2>1. j # f /\ Dist(f, j) < Used
    BY <1>10 DEF RingInv, InRing, Off, f
  <2> QED
    BY <1>2, <1>5, <2>1
<1>13. Sorted'
  <2> SUFFICES ASSUME NEW i \in Slots, NEW j \in Slots, txSkb'[i] # NoSkb, txSkb'[j] # NoSkb,
                      Dist(First', i) < Dist(First', j)
               PROVE  txSkb'[i] < txSkb'[j]
    BY DEF Sorted, Off
  <2>1. i # f /\ j # f
    BY <1>10
  <2>2. Dist(f, i) < Dist(f, j)
    BY <1>2, <1>5, <2>1, Bounds
  <2> QED
    BY <1>10, <2>1, <2>2 DEF RingInv, Sorted, Off, f
<1>14. MacFollows'
  <2> SUFFICES ASSUME mac
      PROVE  /\ Dist(First', hw) <= Used - 1 + 0
             /\ \A j \in Slots : ready[j] <=> (Dist(First', hw) <= Dist(First', j)
                                               /\ Written(Used', xmit, Dist(First', j)))
    BY <1>1, <1>6, <1>7 DEF MacFollows, Off
  <2>1. /\ Dist(f, hw) <= Used + 0
        /\ \A j \in Slots : ready[j] <=> (Dist(f, hw) <= Dist(f, j) /\ Written(Used, xmit, Dist(f, j)))
    BY <1>7 DEF RingInv, MacFollows, Off, f
  <2>2. Dist(First', hw) = Dist(f, hw) - 1 /\ Dist(f, hw) \in Nat
    BY <1>2, <1>5, <1>9, Bounds
  <2>3. ASSUME NEW j \in Slots
        PROVE  ready[j] <=> (Dist(First', hw) <= Dist(First', j) /\ Written(Used', xmit, Dist(First', j)))
    <3>1. CASE j = f
      <4>1. T - 1 \in 0 .. T - 1 /\ ~(T - 1 < Used - 1)
        BY <1>2, Bounds
      <4>2. ~Written(Used', xmit, Dist(First', j))
        BY <1>5, <1>8, <3>1, <4>1
      <4> QED
        BY <1>1, <3>1, <4>2
    <3>2. CASE j # f
      <4>1. /\ Dist(First', j) = Dist(f, j) - 1 /\ Dist(f, j) \in 1 .. T - 1
            /\ Dist(First', j) \in 0 .. T - 1
        BY <1>2, <1>3, <1>5, <3>2, Bounds
      <4>2. Written(Used', xmit, Dist(First', j)) <=> Written(Used, xmit, Dist(f, j))
        BY <1>2, <1>8, <4>1, Bounds
      <4>3. (Dist(First', hw) <= Dist(First', j)) <=> (Dist(f, hw) <= Dist(f, j))
        BY <2>2, <4>1, Bounds
      <4> QED
        BY <2>1, <4>2, <4>3
    <3> QED
      BY <3>1, <3>2
  <2>4. Dist(First', hw) <= Used - 1 + 0
    BY <1>2, <2>1, <2>2
  <2> QED
    BY <2>3, <2>4
<1>15. Marked'
  BY <1>1 DEF Marked
<1>16. Ended'
  <2> SUFFICES ASSUME mac
      PROVE  /\ \A i \in Slots : Dist(First', i) < Used - 1 => (ends[i] = "buffer" <=> txSkb'[i] # NoSkb)
             /\ Used - 1 > 0 => ends[PrevOf(cur)] = "buffer"
    BY <1>1, <1>6 DEF Ended, Off
  <2>1. ASSUME NEW i \in Slots, Dist(First', i) < Used - 1
        PROVE  ends[i] = "buffer" <=> txSkb'[i] # NoSkb
    <3>1. i # f
      BY <1>2, <1>5, <2>1, Bounds
    <3>2. Dist(f, i) < Used
      BY <1>2, <1>5, <2>1, <3>1, Bounds
    <3> QED
      BY <1>10, <3>1, <3>2 DEF RingInv, Ended, Off, f
  <2> QED
    BY <1>3, <2>1 DEF RingInv, Ended
<1> QED
  BY <1>11, <1>12, <1>13, <1>14, <1>15, <1>16 DEF RingInv

\* A restart or a close frees every buffer of the ring.
LEMMA FreeAllConserves ==
  ASSUME IInv, Conserved, UNCHANGED handed, txSkb' = [i \in Slots |-> NoSkb], FreeAll
  PROVE  Conserved'
<1>1. \A i \in Slots : txSkb'[i] = NoSkb
  OBVIOUS
<1>2. \A s \in Skbs : s \in Held <=> \E i \in Slots : txSkb[i] = s /\ txSkb'[i] = NoSkb
  BY <1>1, Bounds DEF Held, Skbs, NoSkb
<1>3. \A s \in Skbs : freed'[s] =
        IF \E i \in Slots : txSkb[i] = s /\ txSkb'[i] = NoSkb THEN freed[s] + 1 ELSE freed[s]
  BY <1>2 DEF FreeAll
<1> QED
  BY <1>1, <1>3, TakenOutFreed

LEMMA RingRestart ==
  ASSUME IInv, RingInv, Restart, xmit = Idle, UNCHANGED <<xmit, handed>>
  PROVE  RingInv'
<1>1. /\ \A i \in Slots : txSkb'[i] = NoSkb /\ ready'[i] = FALSE
      /\ cur' = 0 /\ dirty' = PrevOf(0) /\ hw' = 0
  BY DEF Restart
<1>2. 0 \in Slots /\ First' = 0
  BY <1>1, Bounds DEF First, Next1, PrevOf, Slots
<1>3. Used' = 0 /\ Dist(First', hw') = 0
  BY <1>1, <1>2, DistInRing DEF Used, First
<1>4. ~HeadLast(xmit') /\ xmit'.done = 0 /\ xmit' = Idle
  BY IdleIsEmpty DEF HeadLast
<1>5. \A k \in 0 .. T - 1 : ~Written(Used', xmit', k)
  BY <1>3, <1>4, Bounds DEF Written
<1>6. \A j \in Slots : Dist(First', j) \in 0 .. T - 1
  BY <1>2, DistInRing
<1>7. InRing' /\ Sorted'
  BY <1>1 DEF InRing, Sorted
<1>8. Conserved'
  BY FreeAllConserves DEF RingInv, Restart
<1>9. MacFollows'
  BY <1>1, <1>3, <1>4, <1>5, <1>6 DEF MacFollows, Off
<1>10. Marked'
  BY <1>4 DEF Marked
<1>11. Ended'
  BY <1>3, <1>6, Bounds DEF Ended, Off
<1> QED
  BY <1>7, <1>8, <1>9, <1>10, <1>11 DEF RingInv

LEMMA RingCloseEnd ==
  ASSUME IInv, RingInv, CloseEnd
  PROVE  RingInv'
<1>1. /\ \A i \in Slots : txSkb'[i] = NoSkb
      /\ ~mac' /\ First' = First /\ Used' = Used /\ UNCHANGED <<xmit, ends>>
  BY DEF CloseEnd, Stop, First, Used
<1>2. InRing' /\ Sorted' /\ MacFollows' /\ Ended'
  BY <1>1 DEF InRing, Sorted, MacFollows, Ended
<1>3. Conserved'
  BY FreeAllConserves DEF RingInv, CloseEnd
<1>4. Marked'
  BY <1>1 DEF RingInv, Marked, Off
<1> QED
  BY <1>2, <1>3, <1>4 DEF RingInv

LEMMA RingNext ==
  ASSUME IInv, RingInv, XmitUp, XmitAlone, MapFailures # "any", [Next]_vars
  PROVE  RingInv'
<1>1. ASSUME NEW n \in 1 .. MaxFrags + 1, XmitBegin(n, FALSE) PROVE RingInv'
  <2>1. n \in 1 .. MaxSkbDescs
    BY Bounds
  <2> QED
    BY <1>1, <2>1, RingXmitBegin
<1>2. ASSUME NEW n \in 2 .. MaxSkbDescs, XmitBegin(n, TRUE) PROVE RingInv'
  <2>1. n \in 1 .. MaxSkbDescs
    BY Bounds
  <2> QED
    BY <1>2, <2>1, RingXmitBegin
<1>3. CASE XmitDrop \/ FillDesc \/ MapFailure \/ XmitEnd \/ HwTransmit \/ CleanOne \/ CloseEnd
  BY <1>3, RingXmitDrop, RingFillDesc, RingMapFailure, RingXmitEnd, RingHwTransmit,
     RingCleanOne,
     RingCloseEnd
<1>4. CASE DoRestart \/ Open
  <2>1. xmit = Idle /\ Restart /\ UNCHANGED <<xmit, handed>>
    BY <1>4 DEF DoRestart, Open, XmitUp
  <2> QED
    BY <2>1, RingRestart
<1>5. CASE HwPeek
  BY <1>5, RingStays DEF HwPeek
<1>6. CASE HwIdle
  BY <1>6, RingStays DEF HwIdle
<1>7. CASE Interrupt
  BY <1>7, RingStays DEF Interrupt
<1>8. CASE ReceiveInterrupt
  BY <1>8, RingStays DEF ReceiveInterrupt
<1>9. CASE PollStart
  BY <1>9, RingStays DEF PollStart
<1>10. CASE CleanEnd
  BY <1>10, RingStays DEF CleanEnd
<1>11. CASE PollComplete
  BY <1>11, RingStays DEF PollComplete
<1>12. CASE PollAgain
  BY <1>12, RingStays DEF PollAgain
<1>13. CASE LinkUp
  BY <1>13, RingStays DEF LinkUp
<1>14. CASE LinkDown
  BY <1>14, RingStays DEF LinkDown
<1>15. CASE Detach
  BY <1>15, RingStays DEF Detach
<1>16. CASE PauseParam
  <2>1. UNCHANGED <<ready, ends, txSkb, cur, dirty, xmit, hw, handed, freed>>
    BY <1>16 DEF PauseParam, Stop
  <2>2. mac' => mac
    BY <1>16 DEF PauseParam, Stop
  <2> QED
    BY <2>1, <2>2, RingStays
<1>17. CASE TxTimeout
  BY <1>17, RingStays DEF TxTimeout
<1>18. CASE TimeoutWork
  BY <1>18, RingStays DEF TimeoutWork
<1>19. CASE DoStop
  BY <1>19, RingStays DEF DoStop, Stop
<1>20. CASE NapiEnabled
  BY <1>20, RingStays DEF NapiEnabled
<1>21. CASE CloseBegin
  BY <1>21, RingStays DEF CloseBegin
<1>22. CASE UNCHANGED vars
  BY <1>22, RingStays DEF vars
<1> QED
  BY <1>1, <1>2, <1>3, <1>4, <1>5, <1>6, <1>7, <1>8, <1>9, <1>10, <1>11, <1>12, <1>13,
     <1>14, <1>15, <1>16, <1>17, <1>18, <1>19, <1>20, <1>21, <1>22
  DEF Next, Stack, Hardware, Softirq, Control

------------------------------------------------------------------------------
(* Interrupts and the contexts *)

ContextInv == XmitUp /\ XmitAlone /\ LeavesOff /\ QuietUnmasked

LEMMA ContextNext ==
  ASSUME IInv, ContextInv, [Next]_vars
  PROVE  ContextInv'
<1> USE DEF ContextInv, XmitUp, XmitAlone, LeavesOff, QuietUnmasked, Disabling
<1>1. ASSUME NEW n, NEW tso, XmitBegin(n, tso) PROVE ContextInv'
  BY <1>1 DEF XmitBegin, MayTransmit
<1>2. CASE XmitDrop
  BY <1>2 DEF XmitDrop, MayTransmit
<1>3. CASE FillDesc
  BY <1>3 DEF FillDesc
<1>4. CASE MapFailure
  BY <1>4 DEF MapFailure
<1>5. CASE XmitEnd
  BY <1>5 DEF XmitEnd
<1>6. CASE HwPeek
  BY <1>6 DEF HwPeek
<1>7. CASE HwTransmit
  BY <1>7 DEF HwTransmit
<1>8. CASE HwIdle
  BY <1>8 DEF HwIdle
<1>9. CASE Interrupt
  BY <1>9 DEF Interrupt, Schedules
<1>10. CASE ReceiveInterrupt
  BY <1>10 DEF ReceiveInterrupt, Schedules
<1>11. CASE PollStart
  BY <1>11 DEF PollStart
<1>12. CASE CleanOne
  BY <1>12 DEF CleanOne, Cleanable
<1>13. CASE CleanEnd
  BY <1>13 DEF CleanEnd, Cleanable
<1>14. CASE PollComplete
  BY <1>14 DEF PollComplete
<1>15. CASE PollAgain
  BY <1>15 DEF PollAgain
<1>16. CASE LinkUp
  BY <1>16 DEF LinkUp
<1>17. CASE LinkDown
  BY <1>17 DEF LinkDown
<1>18. CASE Detach
  BY <1>18 DEF Detach
<1>19. CASE PauseParam
  BY <1>19 DEF PauseParam, Stop
<1>20. CASE TxTimeout
  BY <1>20 DEF TxTimeout
<1>21. CASE TimeoutWork
  BY <1>21 DEF TimeoutWork
<1>22. CASE DoRestart
  BY <1>22 DEF DoRestart, Restart
<1>23. CASE DoStop
  BY <1>23 DEF DoStop, Stop
<1>24. CASE NapiEnabled
  BY <1>24 DEF NapiEnabled
<1>25. CASE Open
  BY <1>25 DEF Open, Restart
<1>26. CASE CloseBegin
  BY <1>26 DEF CloseBegin
<1>27. CASE CloseEnd
  BY <1>27 DEF CloseEnd, Stop
<1>28. CASE UNCHANGED vars
  BY <1>28 DEF vars
<1> HIDE DEF ContextInv, XmitUp, XmitAlone, LeavesOff, QuietUnmasked, Disabling
<1> QED
  BY <1>1, <1>2, <1>3, <1>4, <1>5, <1>6, <1>7, <1>8, <1>9, <1>10, <1>11, <1>12, <1>13,
     <1>14, <1>15, <1>16, <1>17, <1>18, <1>19, <1>20, <1>21, <1>22, <1>23, <1>24, <1>25,
     <1>26, <1>27, <1>28
  DEF Next, Stack, Hardware, Softirq, Control

\* A step that neither moves a cursor nor writes a descriptor announces nothing
\* less, as long as the interrupt, the mark or the clean-up survives.
LEMMA AnnouncedStays ==
  ASSUME Announced, mac' => mac,
         UNCHANGED <<ready, ends, cur, dirty, xmit>>,
         (event \/ workTx \/ napi = "clean") => (event' \/ workTx' \/ napi' = "clean")
  PROVE  Announced'
<1>1. First' = First /\ Used' = Used
  BY DEF First, Used
<1> QED
  BY <1>1 DEF Announced, Off

LEMMA AnnouncedXmitBegin ==
  ASSUME IInv, Announced, NEW n \in 1 .. MaxSkbDescs, NEW tso \in BOOLEAN, XmitBegin(n, tso)
  PROVE  Announced'
<1>1. /\ First' = First /\ Used' = Used /\ xmit = Idle /\ xmit'.done = 0
      /\ UNCHANGED <<ready, ends, event, workTx, napi, mac>>
  BY DEF First, Used, XmitBegin, MayTransmit
<1>2. \A i \in Slots : Written(Used, xmit', Off(i)) => Written(Used, xmit, Off(i))
  BY <1>1, IdleIsEmpty, RingFacts, Bounds DEF Written
<1> QED
  BY <1>1, <1>2 DEF Announced, Off

LEMMA AnnouncedMapFailure ==
  ASSUME IInv, Announced, MapFailure
  PROVE  Announced'
<1>1. /\ First' = First /\ Used' = Used /\ xmit' = Idle
      /\ UNCHANGED <<ready, ends, event, workTx, napi, mac>>
  BY DEF First, Used, MapFailure
<1>2. \A i \in Slots : Written(Used, xmit', Off(i)) => Written(Used, xmit, Off(i))
  BY <1>1, IdleIsEmpty, RingFacts, Bounds DEF Written
<1> QED
  BY <1>1, <1>2 DEF Announced, Off

\* What is written becomes ready at the same time.
LEMMA AnnouncedFillDesc ==
  ASSUME IInv, Announced, FillDesc
  PROVE  Announced'
<1> DEFINE i == Ahead(cur, FillOffset)
<1>1. /\ First' = First /\ Used' = Used
      /\ UNCHANGED <<event, workTx, napi, mac>>
  BY DEF First, Used, FillDesc
<1>2. /\ i \in Slots /\ Off(i) = Used + FillOffset
      /\ \A k \in 0 .. T - 1 : Written(Used, xmit', k) <=> (Written(Used, xmit, k) \/ k = Used + FillOffset)
  BY FillAddsOne
<1>3. \A j \in Slots : Off(j) \in 0 .. T - 1 /\ (Off(j) = Used + FillOffset <=> j = i)
  BY <1>2, RingFacts, DistInRing DEF Off
<1>4. /\ ready' = [ready EXCEPT ![i] = TRUE] /\ \E mark \in Marks : ends' = [ends EXCEPT ![i] = mark]
      /\ ready \in [Slots -> BOOLEAN] /\ ends \in [Slots -> Marks]
  BY DEF FillDesc, IInv, TypeOK, RingTypeOK, BitsTypeOK
<1> HIDE DEF i
<1>5. \A j \in Slots : /\ j # i => ends'[j] = ends[j]
                       /\ ~ready'[j] => j # i /\ ~ready[j]
  BY <1>2, <1>4
<1>6. \A j \in Slots : ~ready'[j] /\ Written(Used, xmit', Off(j)) => Written(Used, xmit, Off(j))
  BY <1>2, <1>3, <1>5
<1> QED
  BY <1>1, <1>5, <1>6 DEF Announced, Off

\* Every descriptor was written already when the transmission ends.
LEMMA AnnouncedXmitEnd ==
  ASSUME IInv, Announced, XmitEnd
  PROVE  Announced'
<1>1. /\ First' = First /\ xmit' = Idle /\ xmit.done = xmit.descs
      /\ UNCHANGED <<ready, ends, dirty, event, workTx, napi, mac>> /\ cur' = Ahead(cur, xmit.descs)
  BY DEF First, XmitEnd
<1>2. /\ Used = Off(cur) /\ Used \in Nat /\ xmit.descs \in Nat /\ Used + xmit.descs <= T - 2
      /\ First \in Slots /\ cur \in Slots
      /\ \A j \in Slots : Off(j) \in 0 .. T - 1
  BY RingFacts
<1>3. Used' = Used + xmit.descs
  <2>1. xmit.descs \in 0 .. T - 1 /\ Off(cur) + xmit.descs <= T - 1
    BY <1>2, Bounds
  <2>2. Off(cur') = Off(cur) + xmit.descs
    BY <1>1, <1>2, <2>1, DistAhead DEF Off
  <2> QED
    BY <1>1, <1>2, <2>2 DEF Used, Off, First
<1>4. \A j \in Slots : Written(Used', xmit', Off(j)) => Written(Used, xmit, Off(j))
  BY <1>1, <1>2, <1>3, IdleIsEmpty, Bounds DEF Written, HeadLast
<1> QED
  BY <1>1, <1>4 DEF Announced, Off

\* The MAC raises TXF with the end of a buffer.
LEMMA AnnouncedHwTransmit ==
  ASSUME IInv, Announced, HwTransmit
  PROVE  Announced'
<1>1. /\ First' = First /\ Used' = Used /\ ready' = [ready EXCEPT ![hw] = FALSE]
      /\ UNCHANGED <<ends, xmit, workTx, napi, mac>> /\ event' = (event \/ ends[hw] = "buffer")
  BY DEF First, Used, HwTransmit
<1>2. \A j \in Slots : j # hw => ready'[j] = ready[j]
  BY <1>1 DEF IInv, TypeOK, RingTypeOK, BitsTypeOK
<1> QED
  BY <1>1, <1>2 DEF Announced, Off

\* The clean-up is over when nothing is left, or when the MAC has sent nothing.
LEMMA AnnouncedCleanEnd ==
  ASSUME IInv, RingInv, XmitAlone, CleanEnd
  PROVE  Announced'
<1>1. /\ First' = First /\ Used' = Used /\ xmit = Idle /\ (First = cur \/ ready[First])
      /\ UNCHANGED <<ready, ends, xmit, mac>>
  BY DEF First, Used, CleanEnd, Cleanable, XmitAlone
<1>2. /\ First \in Slots /\ cur \in Slots /\ hw \in Slots /\ Used = Off(cur)
      /\ \A j \in Slots : Off(j) \in 0 .. T - 1
  BY RingFacts
<1>3. \A k \in 0 .. T - 1 : Written(Used, xmit, k) => k < Used
  BY <1>1, <1>2, IdleIsEmpty, RingFacts, Bounds DEF Written, HeadLast
<1>4. Off(First) = 0
  BY <1>2, DistInRing DEF Off
<1>5. CASE First = cur
  <2>1. Used = 0
    BY <1>2, <1>4, <1>5
  <2>2. \A j \in Slots : ~Written(Used, xmit, Off(j))
    BY <1>2, <1>3, <2>1, Bounds
  <2> QED
    BY <1>1, <2>2 DEF Announced, Off
<1>6. CASE ready[First]
  <2>1. mac => Off(hw) <= 0
    BY <1>2, <1>4, <1>6 DEF RingInv, MacFollows
  <2>2. mac => \A j \in Slots : Written(Used, xmit, Off(j)) => ready[j]
    <3>1. mac => \A j \in Slots : Off(hw) <= Off(j)
      BY <1>2, <2>1, Bounds
    <3> QED
      BY <3>1 DEF RingInv, MacFollows
  <2> QED
    BY <1>1, <2>2 DEF Announced, Off
<1> QED
  BY <1>1, <1>5, <1>6

LEMMA AnnouncedRestart ==
  ASSUME Restart, xmit = Idle, UNCHANGED xmit
  PROVE  Announced'
<1>1. cur' = 0 /\ dirty' = PrevOf(0)
  BY DEF Restart
<1>2. 0 \in Slots /\ First' = 0
  BY <1>1, Bounds DEF First, Next1, PrevOf, Slots
<1>3. Used' = 0
  BY <1>1, <1>2, DistInRing DEF Used, First
<1>4. \A k \in 0 .. T - 1 : ~Written(Used', xmit', k)
  BY <1>3, IdleIsEmpty, Bounds DEF Written
<1>5. \A j \in Slots : Dist(First', j) \in 0 .. T - 1
  BY <1>2, DistInRing
<1> QED
  BY <1>4, <1>5 DEF Announced, Off

LEMMA AnnouncedNext ==
  ASSUME IInv, RingInv, IrqInv, [Next]_vars
  PROVE  Announced'
<1>0. Announced /\ XmitUp /\ XmitAlone
  BY DEF IrqInv
<1>1. ASSUME NEW n \in 1 .. MaxFrags + 1, XmitBegin(n, FALSE) PROVE Announced'
  <2>1. n \in 1 .. MaxSkbDescs
    BY Bounds
  <2> QED
    BY <1>0, <1>1, <2>1, AnnouncedXmitBegin
<1>2. ASSUME NEW n \in 2 .. MaxSkbDescs, XmitBegin(n, TRUE) PROVE Announced'
  <2>1. n \in 1 .. MaxSkbDescs
    BY Bounds
  <2> QED
    BY <1>0, <1>2, <2>1, AnnouncedXmitBegin
<1>3. CASE FillDesc \/ MapFailure \/ XmitEnd \/ HwTransmit \/ CleanEnd
  BY <1>0, <1>3, AnnouncedFillDesc, AnnouncedMapFailure, AnnouncedXmitEnd, AnnouncedHwTransmit,
     AnnouncedCleanEnd
<1>4. CASE DoRestart \/ Open
  <2>1. xmit = Idle /\ Restart /\ UNCHANGED xmit
    BY <1>0, <1>4 DEF DoRestart, Open, XmitUp
  <2> QED
    BY <2>1, AnnouncedRestart
<1>5. CASE CleanOne
  <2>1. napi' = "clean"
    BY <1>5 DEF CleanOne, Cleanable
  <2> QED
    BY <2>1 DEF Announced
<1>6. CASE DoStop \/ CloseEnd
  <2>1. ~mac'
    BY <1>6 DEF DoStop, CloseEnd, Stop
  <2> QED
    BY <2>1 DEF Announced
<1>7. CASE PauseParam
  <2>1. CASE Stop
    BY <2>1 DEF Announced, Stop
  <2>2. CASE ~Stop
    BY <1>0, <1>7, <2>2, AnnouncedStays DEF PauseParam
  <2> QED
    BY <2>1, <2>2
<1>8. CASE XmitDrop
  BY <1>0, <1>8, AnnouncedStays DEF XmitDrop, MayTransmit
<1>9. CASE HwPeek
  BY <1>0, <1>9, AnnouncedStays DEF HwPeek
<1>10. CASE HwIdle
  BY <1>0, <1>10, AnnouncedStays DEF HwIdle
<1>11. CASE Interrupt
  BY <1>0, <1>11, AnnouncedStays DEF Interrupt, Schedules
<1>12. CASE ReceiveInterrupt
  BY <1>0, <1>12, AnnouncedStays DEF ReceiveInterrupt, Schedules
<1>13. CASE PollStart
  BY <1>0, <1>13, AnnouncedStays DEF PollStart
<1>14. CASE PollComplete
  BY <1>0, <1>14, AnnouncedStays DEF PollComplete
<1>15. CASE PollAgain
  BY <1>0, <1>15, AnnouncedStays DEF PollAgain
<1>16. CASE LinkUp
  BY <1>0, <1>16, AnnouncedStays DEF LinkUp
<1>17. CASE LinkDown
  BY <1>0, <1>17, AnnouncedStays DEF LinkDown
<1>18. CASE Detach
  BY <1>0, <1>18, AnnouncedStays DEF Detach
<1>19. CASE TxTimeout
  BY <1>0, <1>19, AnnouncedStays DEF TxTimeout
<1>20. CASE TimeoutWork
  BY <1>0, <1>20, AnnouncedStays DEF TimeoutWork
<1>21. CASE NapiEnabled
  BY <1>0, <1>21, AnnouncedStays DEF NapiEnabled, IrqInv, LeavesOff
<1>22. CASE CloseBegin
  BY <1>0, <1>22, AnnouncedStays DEF CloseBegin
<1>23. CASE UNCHANGED vars
  BY <1>0, <1>23, AnnouncedStays DEF vars
<1> QED
  BY <1>1, <1>2, <1>3, <1>4, <1>5, <1>6, <1>7, <1>8, <1>9, <1>10, <1>11, <1>12, <1>13,
     <1>14, <1>15, <1>16, <1>17, <1>18, <1>19, <1>20, <1>21, <1>22, <1>23
  DEF Next, Stack, Hardware, Softirq, Control

LEMMA InitRInv == Init => RInv
<1> SUFFICES ASSUME Init PROVE RInv
  OBVIOUS
<1>1. /\ \A i \in Slots : txSkb[i] = NoSkb /\ ready[i] = FALSE
      /\ cur = 0 /\ dirty = PrevOf(0) /\ handed = 0 /\ \A s \in Skbs : freed[s] = 0
      /\ xmit = Idle /\ ~mac
  BY DEF Init
<1>2. InRing /\ Sorted /\ MacFollows /\ Marked /\ Ended
  BY <1>1 DEF InRing, Sorted, MacFollows, Marked, Ended
<1>3. Conserved
  <2>1. Settled
    BY <1>1 DEF Settled, NoSkb
  <2>2. \A s \in Skbs : ~(s <= 0) /\ s # NoSkb
    BY Bounds DEF Skbs, NoSkb
  <2> QED
    BY <1>1, <2>1, <2>2 DEF Conserved, BuffersConserved
<1>4. IrqInv
  BY <1>1 DEF Init, IrqInv, XmitUp, XmitAlone, LeavesOff, QuietUnmasked, Announced
<1> QED
  BY <1>2, <1>3, <1>4 DEF RInv, RingInv

\* The ring's invariant, for every ring size, TSO limit and number of fragments,
\* with and without ERR006358, as long as no mapping fails in the middle of a
\* buffer.
THEOREM RingInvariance ==
  ASSUME MapFailures # "any"
  PROVE  Spec => [](IInv /\ RInv)
<1>1. RInv /\ IInv /\ [Next]_vars => RInv'
  <2> SUFFICES ASSUME RInv, IInv, [Next]_vars PROVE RInv'
    OBVIOUS
  <2>1. RingInv /\ IrqInv /\ ContextInv /\ XmitUp /\ XmitAlone
    BY DEF RInv, IrqInv, ContextInv
  <2>2. RingInv' /\ ContextInv' /\ Announced'
    BY <2>1, RingNext, ContextNext, AnnouncedNext
  <2> QED
    BY <2>2 DEF RInv, IrqInv, ContextInv
<1> QED
  BY <1>1, InitRInv, Invariance, PTL DEF Spec

------------------------------------------------------------------------------
(* What the driver promises *)

\* A buffer is in the ring, at one place, exactly while start_xmit accepted it
\* and nobody freed it, whatever restarts, closes and clean-ups do in between.
THEOREM BuffersAreConserved ==
  ASSUME MapFailures # "any"
  PROVE  Spec => []BuffersConserved
<1>1. RInv => BuffersConserved
  BY DEF RInv, RingInv, Conserved
<1> QED
  BY <1>1, RingInvariance, PTL

\* Between transmissions the MAC owns only descriptors of accepted buffers.
THEOREM OnlyQueuedIsReady ==
  ASSUME MapFailures # "any"
  PROVE  Spec => []OnlyQueuedReady
<1>1. IInv /\ RInv => OnlyQueuedReady
  <2> SUFFICES ASSUME IInv, RInv, mac, NEW i \in Slots, ready[i], ~(Off(i) < Used)
               PROVE  i \in Filling
    BY DEF OnlyQueuedReady, Off, First
  <2>1. /\ Used = Off(cur) /\ Used \in Nat /\ xmit.descs \in Nat /\ Used + xmit.descs <= T - 2
        /\ Off(i) \in 0 .. T - 1 /\ First \in Slots /\ cur \in Slots
    BY RingFacts
  <2>2. Off(i) < Used + xmit.descs
    <3>1. Written(Used, xmit, Off(i)) /\ Off(i) \in Nat
      BY <2>1, Bounds DEF RInv, RingInv, MacFollows
    <3> QED
      BY <3>1, WrittenBounded
  <2> DEFINE k == Off(i) - Used
  <2>3. k \in 0 .. xmit.descs - 1 /\ k \in 0 .. T - 1 /\ Off(cur) + k = Off(i) /\ Off(i) <= T - 1
    BY <2>1, <2>2, Bounds
  <2> HIDE DEF k
  <2>4. Ahead(cur, k) \in Slots /\ Off(Ahead(cur, k)) = Off(i)
    BY <2>1, <2>3, DistAhead DEF Off
  <2>5. Ahead(cur, k) = i
    BY <2>1, <2>4, DistInRing DEF Off
  <2> QED
    BY <2>3, <2>5 DEF Filling
<1> QED
  BY <1>1, RingInvariance, PTL

\* The MAC stands between dirty_tx and what start_xmit has written; everything
\* behind it is done and everything before it, up to bd.cur, is still to be sent.
THEOREM MacStaysInStep ==
  ASSUME MapFailures # "any"
  PROVE  Spec => []MacInStep
<1>1. IInv /\ RInv => MacInStep
  <2> SUFFICES ASSUME IInv, RInv, mac
               PROVE  /\ Off(hw) <= Used + xmit.done
                      /\ \A k \in 0 .. Used - 1 : ready[Ahead(First, k)] <=> k >= Off(hw)
    BY DEF MacInStep, Off, First
  <2>1. /\ Used \in Nat /\ xmit.done \in Nat /\ xmit.descs \in Nat /\ Used + xmit.descs <= T - 2
        /\ First \in Slots /\ hw \in Slots /\ Off(hw) \in 0 .. T - 1
    BY RingFacts
  <2>2. /\ Off(hw) <= Used + (IF HeadLast(xmit) THEN 0 ELSE xmit.done)
        /\ \A i \in Slots : ready[i] <=> (Off(hw) <= Off(i) /\ Written(Used, xmit, Off(i)))
    BY DEF RInv, RingInv, MacFollows
  <2>3. Off(hw) <= Used + xmit.done
    BY <2>1, <2>2
  <2>4. ASSUME NEW k \in 0 .. Used - 1
        PROVE  ready[Ahead(First, k)] <=> k >= Off(hw)
    <3>1. /\ k \in 0 .. T - 1 /\ k < Used /\ Dist(First, First) = 0 /\ 0 + k <= T - 1 /\ 0 + k = k
      BY <2>1, DistInRing, Bounds
    <3>2. Ahead(First, k) \in Slots /\ Off(Ahead(First, k)) = k
      BY <2>1, <3>1, DistAhead DEF Off
    <3>3. Written(Used, xmit, k)
      BY <3>1 DEF Written
    <3>4. k >= Off(hw) <=> Off(hw) <= k
      BY <2>1, <3>1, Bounds
    <3> QED
      BY <2>2, <3>2, <3>3, <3>4
  <2> QED
    BY <2>3, <2>4
<1> QED
  BY <1>1, RingInvariance, PTL

\* The head becomes ready last, so a scatter-gather buffer is never on the wire
\* before all of its descriptors are written.
THEOREM HalfBufferNeverSent ==
  ASSUME MapFailures # "any"
  PROVE  Spec => []NeverSendsHalfBuffer
<1>1. IInv /\ RInv => NeverSendsHalfBuffer
  <2> SUFFICES ASSUME IInv, RInv, mac, HeadLast(xmit)
               PROVE  Off(hw) <= Used
    BY DEF NeverSendsHalfBuffer, Off, First, HeadLast
  <2> QED
    BY RingFacts DEF RInv, RingInv, MacFollows
<1> QED
  BY <1>1, RingInvariance, PTL

\* No lost wake-up: when NAPI rests, a buffer the MAC finished has its interrupt
\* still to come, or it was taken while NAPI was disabled and left its mark.
THEOREM CompletionIsAnnounced ==
  ASSUME MapFailures # "any"
  PROVE  Spec => []CompletionAnnounced
<1>1. IInv /\ RInv => CompletionAnnounced
  <2> SUFFICES ASSUME IInv, RInv, napi = "idle", mac, link, ~Disabling,
                      NEW i \in Slots, txSkb[i] # NoSkb, ~ready[i]
               PROVE  (unmasked /\ event) \/ workTx
    BY DEF CompletionAnnounced
  <2>1. Off(i) < Used /\ ends[i] = "buffer"
    BY DEF RInv, RingInv, InRing, Ended
  <2>2. Written(Used, xmit, Off(i))
    BY <2>1 DEF Written
  <2>3. event \/ workTx
    BY <2>1, <2>2 DEF RInv, IrqInv, Announced
  <2>4. unmasked
    BY DEF RInv, IrqInv, QuietUnmasked
  <2> QED
    BY <2>3, <2>4
<1> QED
  BY <1>1, RingInvariance, PTL

LEMMA LeastOf ==
  ASSUME NEW S \in SUBSET Nat, S # {}
  PROVE  \E m \in S : \A n \in S : m <= n
<1>1. IsWellFoundedOn(OpToRel(<, Nat), Nat)
  BY NatLessThanWellFounded
<1>2. PICK m \in S : \A n \in S : <<n, m>> \notin OpToRel(<, Nat)
  BY <1>1, WFMin
<1>3. \A n \in S : ~(n < m)
  BY <1>2 DEF OpToRel
<1> QED
  BY <1>3

\* The MAC never sends data of a freed buffer: each ready descriptor of an
\* accepted buffer has the buffer remembered at the descriptor that ends it.
THEOREM MacOnlyReadsLiveData ==
  ASSUME MapFailures # "any"
  PROVE  Spec => []MacReadsLiveData
<1>1. IInv /\ RInv => MacReadsLiveData
  <2> SUFFICES ASSUME IInv, RInv, mac, NEW k \in 0 .. Used - 1
               PROVE  \E l \in k .. Used - 1 :
                        /\ ends[Ahead(First, l)] = "buffer" /\ txSkb[Ahead(First, l)] # NoSkb
                        /\ \A m \in k .. l - 1 : ends[Ahead(First, m)] # "buffer"
    BY DEF MacReadsLiveData, First
  <2>1. /\ Used \in Nat /\ Used <= T - 2 /\ k \in Nat /\ k <= Used - 1
        /\ First \in Slots /\ cur \in Slots /\ Used = Off(cur)
    BY RingFacts, Bounds
  <2>2. ASSUME NEW l \in 0 .. Used - 1
        PROVE  Ahead(First, l) \in Slots /\ Off(Ahead(First, l)) = l
    <3>1. l \in 0 .. T - 1 /\ Dist(First, First) = 0 /\ 0 + l <= T - 1 /\ 0 + l = l
      BY <2>1, DistInRing, Bounds
    <3> QED
      BY <2>1, <3>1, DistAhead DEF Off
  <2>3. ends[Ahead(First, Used - 1)] = "buffer"
    <3>1. PrevOf(cur) \in Slots /\ Off(PrevOf(cur)) = Used - 1
      BY <2>1, DistPrev DEF Off
    <3>2. PrevOf(cur) = Ahead(First, Used - 1)
      <4>1. Used - 1 \in 0 .. Used - 1
        BY <2>1
      <4> QED
        BY <2>1, <2>2, <3>1, <4>1, DistInRing DEF Off
    <3> QED
      BY <2>1, <3>2 DEF RInv, RingInv, Ended
  <2> DEFINE S == {l \in k .. Used - 1 : ends[Ahead(First, l)] = "buffer"}
  <2>4. S \in SUBSET Nat /\ Used - 1 \in S
    BY <2>1, <2>3
  <2>5. PICK l \in S : \A n \in S : l <= n
    BY <2>4, LeastOf
  <2>6. \A m \in k .. l - 1 : ends[Ahead(First, m)] # "buffer"
    <3> SUFFICES ASSUME NEW m \in k .. l - 1, ends[Ahead(First, m)] = "buffer" PROVE FALSE
      OBVIOUS
    <3>1. m \in S
      BY <2>1, <2>4
    <3> QED
      BY <2>4, <2>5, <3>1
  <2>7. txSkb[Ahead(First, l)] # NoSkb
    <3>1. l \in 0 .. Used - 1
      BY <2>1
    <3>2. Ahead(First, l) \in Slots /\ Off(Ahead(First, l)) < Used
      BY <2>1, <2>2, <3>1
    <3> QED
      BY <3>2 DEF RInv, RingInv, Ended
  <2> QED
    BY <2>6, <2>7
<1> QED
  BY <1>1, RingInvariance, PTL

------------------------------------------------------------------------------
(* The ring implements the promise to the network stack *)

Returned == [s \in 1 .. handed |-> freed[s]]

OwnershipNext == Ownership!Accept \/ Ownership!Drop \/ Ownership!Complete \/ Ownership!Flush

LEMMA SkbFacts ==
  ASSUME IInv, RingInv
  PROVE  /\ handed \in Nat /\ handed <= MaxSkbs /\ freed \in [Skbs -> Nat]
         /\ 1 .. handed \subseteq Skbs
         /\ \A i \in Slots : txSkb[i] \in Nat
         /\ \A i \in Slots : txSkb[i] # NoSkb => txSkb[i] \in 1 .. handed
         /\ Held \subseteq 1 .. handed
<1>1. handed \in Nat /\ handed <= MaxSkbs /\ freed \in [Skbs -> Nat]
  BY Bounds DEF IInv, TypeOK, SkbTypeOK
<1>2. \A i \in Slots : txSkb[i] \in Nat /\ txSkb[i] <= handed
  BY Bounds DEF IInv, TypeOK, RingTypeOK, RingInv, Conserved, Settled
<1>3. \A i \in Slots : txSkb[i] # NoSkb => txSkb[i] \in 1 .. handed
  BY <1>1, <1>2 DEF NoSkb
<1> QED
  BY <1>1, <1>2, <1>3, Bounds DEF Skbs, Held

LEMMA MapDrop ==
  ASSUME IInv, RingInv, handed < MaxSkbs, UNCHANGED txSkb, handed' = handed + 1,
         freed' = [freed EXCEPT ![handed + 1] = @ + 1]
  PROVE  Ownership!Drop
<1>1. handed \in Nat /\ handed + 1 \in Skbs /\ 1 .. handed \subseteq Skbs /\ freed \in [Skbs -> Nat]
  BY SkbFacts, Bounds DEF Skbs
<1>2. freed[handed + 1] = 0
  BY <1>1 DEF RingInv, Conserved, Settled
<1>3. Held' = Held
  BY DEF Held
<1>4. Returned' = [s \in 1 .. handed + 1 |-> IF s = handed + 1 THEN 1 ELSE Returned[s]]
  <2>1. \A s \in 1 .. handed + 1 : s = handed + 1 \/ s \in 1 .. handed
    BY <1>1
  <2>2. \A s \in 1 .. handed + 1 : freed'[s] = (IF s = handed + 1 THEN 1 ELSE Returned[s])
    BY <1>1, <1>2, <2>1 DEF Returned
  <2> QED
    BY <2>2 DEF Returned
<1> QED
  BY <1>3, <1>4 DEF Ownership!Drop, Ownership!Settle, Returned

LEMMA MapAccept ==
  ASSUME IInv, RingInv, XmitEnd
  PROVE  Ownership!Accept
<1>1. /\ handed < MaxSkbs /\ handed' = handed + 1 /\ freed' = freed
      /\ txSkb' = [txSkb EXCEPT ![LastSlot] = handed + 1] /\ txSkb \in [Slots -> 0 .. MaxSkbs]
  BY DEF XmitEnd, IInv, XmitSane, TypeOK, RingTypeOK
<1>2. handed \in Nat /\ handed + 1 \in Skbs /\ 1 .. handed \subseteq Skbs /\ handed + 1 # NoSkb
  BY <1>1, SkbFacts, Bounds DEF Skbs, NoSkb
<1>3. freed[handed + 1] = 0
  BY <1>2 DEF RingInv, Conserved, Settled
<1>4. LastSlot \in Slots /\ txSkb[LastSlot] = NoSkb
  <2>1. /\ Used = Off(cur) /\ Used \in Nat /\ xmit.descs \in Nat /\ xmit.descs >= 1
        /\ Used + xmit.descs <= T - 2 /\ First \in Slots /\ cur \in Slots
    BY RingFacts DEF IInv, XmitSane, XmitEnd
  <2>2. xmit.descs - 1 \in 0 .. T - 1 /\ Off(cur) + (xmit.descs - 1) <= T - 1
    BY <2>1, Bounds
  <2>3. LastSlot \in Slots /\ Off(LastSlot) = Off(cur) + (xmit.descs - 1)
    BY <2>1, <2>2, DistAhead DEF Off, LastSlot
  <2>4. ~(Off(LastSlot) < Used)
    BY <2>1, <2>3
  <2> QED
    BY <2>3, <2>4 DEF RingInv, InRing
<1>5. \A i \in Slots : txSkb'[i] = (IF i = LastSlot THEN handed + 1 ELSE txSkb[i])
  BY <1>1, <1>4
<1>6. Held' = Held \union {handed + 1}
  BY <1>2, <1>4, <1>5 DEF Held
<1>7. Returned' = [s \in 1 .. handed + 1 |-> IF s = handed + 1 THEN 0 ELSE Returned[s]]
  <2>1. \A s \in 1 .. handed + 1 : s = handed + 1 \/ s \in 1 .. handed
    BY <1>2
  <2>2. \A s \in 1 .. handed + 1 : freed'[s] = (IF s = handed + 1 THEN 0 ELSE Returned[s])
    BY <1>1, <1>2, <1>3, <2>1 DEF Returned
  <2> QED
    BY <1>1, <2>2 DEF Returned
<1> QED
  BY <1>1, <1>6, <1>7 DEF Ownership!Accept, Ownership!Settle, Returned

LEMMA MapFlush ==
  ASSUME IInv, RingInv, UNCHANGED handed, txSkb' = [i \in Slots |-> NoSkb], FreeAll
  PROVE  Ownership!Flush
<1>1. Held' = Held \ Held
  BY DEF Held
<1>2. 1 .. handed \subseteq Skbs
  BY SkbFacts
<1>3. Returned' = [s \in 1 .. handed |-> IF s \in Held THEN Returned[s] + 1 ELSE Returned[s]]
  BY <1>2 DEF Returned, FreeAll
<1> QED
  BY <1>1, <1>3 DEF Ownership!Flush, Ownership!GiveBack, Returned

\* The first descriptor in use remembers the oldest buffer, or none.
LEMMA MapCleanOne ==
  ASSUME IInv, RingInv, CleanOne
  PROVE  Ownership!Complete \/ UNCHANGED <<handed, Held, Returned>>
<1> DEFINE f == First
           o == txSkb[f]
<1>1. /\ txSkb' = [txSkb EXCEPT ![f] = NoSkb] /\ txSkb \in [Slots -> 0 .. MaxSkbs]
      /\ freed' = [s \in Skbs |-> IF s = o THEN freed[s] + 1 ELSE freed[s]]
      /\ handed' = handed
  BY DEF First, CleanOne, IInv, TypeOK, RingTypeOK
<1>2. f \in Slots /\ \A j \in Slots : Dist(f, j) \in 0 .. T - 1 /\ (Dist(f, j) = 0 <=> j = f)
  BY RingFacts, DistInRing DEF Off
<1>3. /\ handed \in Nat /\ 1 .. handed \subseteq Skbs /\ freed \in [Skbs -> Nat]
      /\ Held \subseteq 1 .. handed /\ \A i \in Slots : txSkb[i] \in Nat
  BY SkbFacts
<1>4. \A j \in Slots : txSkb[j] # NoSkb /\ o # NoSkb /\ j # f => o < txSkb[j]
  <2> SUFFICES ASSUME NEW j \in Slots, txSkb[j] # NoSkb, o # NoSkb, j # f PROVE o < txSkb[j]
    OBVIOUS
  <2>1. Off(f) < Off(j)
    BY <1>2, Bounds DEF Off
  <2> QED
    BY <1>2, <2>1 DEF RingInv, Sorted
<1> HIDE DEF f
<1>5. \A j \in Slots : txSkb'[j] = (IF j = f THEN NoSkb ELSE txSkb[j])
  BY <1>1, <1>2
<1>6. CASE o = NoSkb
  <2>1. Held' = Held
    BY <1>2, <1>5, <1>6 DEF Held
  <2>2. \A s \in 1 .. handed : s # o /\ freed'[s] = freed[s]
    BY <1>1, <1>3, <1>6 DEF NoSkb
  <2>3. Returned' = Returned
    BY <1>1, <2>2 DEF Returned
  <2> QED
    BY <1>1, <2>1, <2>3
<1>7. CASE o # NoSkb
  <2>1. o \in Held /\ \A s \in Held : o <= s
    BY <1>2, <1>3, <1>4, <1>7 DEF Held
  <2>2. Held' = Held \ {o}
    <3>1. \A j \in Slots : txSkb'[j] # NoSkb => j # f /\ txSkb'[j] = txSkb[j] /\ txSkb[j] # o
      BY <1>2, <1>3, <1>4, <1>5, <1>7
    <3>2. \A j \in Slots : txSkb[j] # NoSkb /\ txSkb[j] # o => txSkb'[j] = txSkb[j]
      BY <1>5
    <3> QED
      BY <3>1, <3>2 DEF Held
  <2>3. Returned' = [s \in 1 .. handed |-> IF s \in {o} THEN Returned[s] + 1 ELSE Returned[s]]
    BY <1>1, <1>3 DEF Returned
  <2> HIDE DEF o
  <2> QED
    BY <1>1, <2>1, <2>2, <2>3 DEF Ownership!Complete, Ownership!GiveBack, Returned
<1> QED
  BY <1>6, <1>7

LEMMA MapNext ==
  ASSUME IInv, RInv, MapFailures # "any", [Next]_vars
  PROVE  OwnershipNext \/ UNCHANGED <<handed, Held, Returned>>
<1>0. RingInv /\ XmitUp /\ XmitAlone
  BY DEF RInv, IrqInv
<1>1. CASE XmitDrop
  BY <1>0, <1>1, MapDrop DEF XmitDrop, MayTransmit, OwnershipNext
<1>2. CASE MapFailure
  <2>1. handed < MaxSkbs
    BY <1>2 DEF IInv, XmitSane, MapFailure
  <2>2. ~xmit.tso
    BY <1>2, TransmitAssumption DEF MapFailure
  <2> QED
    BY <1>0, <1>2, <2>1, <2>2, MapDrop DEF MapFailure, OwnershipNext
<1>3. CASE XmitEnd
  BY <1>0, <1>3, MapAccept DEF OwnershipNext
<1>4. CASE CleanOne
  BY <1>0, <1>4, MapCleanOne DEF OwnershipNext
<1>5. CASE DoRestart \/ Open \/ CloseEnd
  <2>1. UNCHANGED handed /\ txSkb' = [i \in Slots |-> NoSkb] /\ FreeAll
    BY <1>5 DEF DoRestart, Open, CloseEnd, Restart
  <2> QED
    BY <1>0, <2>1, MapFlush DEF OwnershipNext
<1>6. ASSUME UNCHANGED <<handed, txSkb, freed>>
      PROVE  UNCHANGED <<handed, Held, Returned>>
  BY <1>6 DEF Held, Returned
<1>7. ASSUME NEW n, NEW tso, XmitBegin(n, tso)
      PROVE  UNCHANGED <<handed, txSkb, freed>>
  BY <1>7 DEF XmitBegin
<1>8. ASSUME UNCHANGED vars PROVE UNCHANGED <<handed, txSkb, freed>>
  BY <1>8 DEF vars
<1>9. ASSUME FillDesc PROVE UNCHANGED <<handed, txSkb, freed>>
  BY <1>9 DEF FillDesc
<1>10. ASSUME HwPeek PROVE UNCHANGED <<handed, txSkb, freed>>
  BY <1>10 DEF HwPeek
<1>11. ASSUME HwTransmit PROVE UNCHANGED <<handed, txSkb, freed>>
  BY <1>11 DEF HwTransmit
<1>12. ASSUME HwIdle PROVE UNCHANGED <<handed, txSkb, freed>>
  BY <1>12 DEF HwIdle
<1>13. ASSUME Interrupt PROVE UNCHANGED <<handed, txSkb, freed>>
  BY <1>13 DEF Interrupt
<1>14. ASSUME ReceiveInterrupt PROVE UNCHANGED <<handed, txSkb, freed>>
  BY <1>14 DEF ReceiveInterrupt
<1>15. ASSUME PollStart PROVE UNCHANGED <<handed, txSkb, freed>>
  BY <1>15 DEF PollStart
<1>16. ASSUME CleanEnd PROVE UNCHANGED <<handed, txSkb, freed>>
  BY <1>16 DEF CleanEnd
<1>17. ASSUME PollComplete PROVE UNCHANGED <<handed, txSkb, freed>>
  BY <1>17 DEF PollComplete
<1>18. ASSUME PollAgain PROVE UNCHANGED <<handed, txSkb, freed>>
  BY <1>18 DEF PollAgain
<1>19. ASSUME LinkUp PROVE UNCHANGED <<handed, txSkb, freed>>
  BY <1>19 DEF LinkUp
<1>20. ASSUME LinkDown PROVE UNCHANGED <<handed, txSkb, freed>>
  BY <1>20 DEF LinkDown
<1>21. ASSUME Detach PROVE UNCHANGED <<handed, txSkb, freed>>
  BY <1>21 DEF Detach
<1>22. ASSUME PauseParam PROVE UNCHANGED <<handed, txSkb, freed>>
  BY <1>22 DEF PauseParam
<1>23. ASSUME TxTimeout PROVE UNCHANGED <<handed, txSkb, freed>>
  BY <1>23 DEF TxTimeout
<1>24. ASSUME TimeoutWork PROVE UNCHANGED <<handed, txSkb, freed>>
  BY <1>24 DEF TimeoutWork
<1>25. ASSUME DoStop PROVE UNCHANGED <<handed, txSkb, freed>>
  BY <1>25 DEF DoStop
<1>26. ASSUME NapiEnabled PROVE UNCHANGED <<handed, txSkb, freed>>
  BY <1>26 DEF NapiEnabled
<1>27. ASSUME CloseBegin PROVE UNCHANGED <<handed, txSkb, freed>>
  BY <1>27 DEF CloseBegin
<1> QED
  BY <1>1, <1>2, <1>3, <1>4, <1>5, <1>6, <1>7, <1>8, <1>9, <1>10, <1>11, <1>12, <1>13,
     <1>14, <1>15, <1>16, <1>17, <1>18, <1>19, <1>20, <1>21, <1>22, <1>23, <1>24, <1>25,
     <1>26, <1>27
  DEF Next, Stack, Hardware, Softirq, Control

\* start_xmit, the clean-up, restarts and close together give every buffer back
\* exactly once and the accepted ones in the order of acceptance, for every ring
\* size and every limit, as long as no mapping fails in the middle of a buffer.
THEOREM RingImplementsOwnership ==
  ASSUME MapFailures # "any"
  PROVE  Spec => ImplementsOwnership
<1>1. Init => Ownership!OwnershipInit
  <2> SUFFICES ASSUME Init PROVE Ownership!OwnershipInit
    OBVIOUS
  <2>1. handed = 0 /\ \A i \in Slots : txSkb[i] = NoSkb
    BY DEF Init
  <2>2. Held = {}
    BY <2>1 DEF Held
  <2>3. \A s \in 1 .. 0 : freed[s] = 0
    OBVIOUS
  <2> QED
    BY <2>1, <2>2, <2>3 DEF Ownership!OwnershipInit
<1>2. IInv /\ RInv /\ [Next]_vars
        => [Ownership!Accept \/ Ownership!Drop \/ Ownership!Complete \/ Ownership!Flush]_<<handed,
             Held, [s \in 1 .. handed |-> freed[s]]>>
  BY MapNext DEF OwnershipNext, Returned
<1> QED
  BY <1>1, <1>2, RingInvariance, PTL DEF Spec, ImplementsOwnership, Ownership!OwnershipSpec
==============================================================================
