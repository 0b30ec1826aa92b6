-------------------------- MODULE ZcReceiver_proofs --------------------------
(***************************************************************************)
(* First the receive path alone (Spec), for every ring size, budget, set   *)
(* of buffers and number of events.  The inductive invariant IInv says who *)
(* may own NAPI: each restart and close holds it exclusively, and an       *)
(* interface without ring buffers has no NAPI to disable.  The ring with   *)
(* its two cursors, its restarts and its counter then implements the FIFO  *)
(* channel of ZcChannel.                                                   *)
(*                                                                         *)
(* Then the receiver on its driver (SysSpec), for every number of frames,  *)
(* link changes and failures: the index that the application keeps stays   *)
(* in step with the driver's cursor, the driver never faults, the buffer   *)
(* outlives the DMA into it and the screen is on in the end.  IInv holds   *)
(* here too, because every step of the system is a step of the driver or   *)
(* leaves it alone.                                                        *)
(***************************************************************************)
EXTENDS ZcReceiver, FiniteSetTheorems, FunctionTheorems, SequenceTheorems, TLAPS

\* Frames arrive and are to be handled: no restart or stop is about to begin.
Listening == mac /\ link /\ ~Disabling

\* With a link the receive interrupt is unmasked whenever NAPI is not running.
QuietUnmasked == Listening /\ napi \in {"idle", "off"} => unmasked

\* work_rx is set while the loop runs, and after it if the budget ran out; a
\* poll counts from zero.
LoopHasWork ==
  /\ napi = "poll" \/ (napi \in {"exit", "tx"} /\ pkts = Budget) => workRx
  /\ napi \in {"off", "idle", "sched"} => pkts = 0

\* Another loop is to come, and work_rx will send it round the ring.
LoopComes ==
  workRx /\ \/ napi = "sched"
            \/ napi = "tx" /\ again
            \/ napi \in {"exit", "tx"} /\ pkts = Budget

\* A frame waiting at the cursor has its interrupt pending or its loop to come,
\* unless its event was lost.
Heard ==
  Listening /\ napi \notin {"poll", "crashed"} /\ desc[cur] # "empty"
    => event \/ missed \/ LoopComes

\* A worker that passed napi_disable owns NAPI, alone.
OneOwner ==
  /\ \A w \in Workers : worker[w] \in {"restarted", "stopped"} =>
       napi = "off" /\ ring # "none"
  /\ \A v, w \in Workers : worker[v] \in {"restarted", "stopped"}
       /\ worker[w] \in {"restarted", "stopped"} => v = w

\* NAPI is enabled only on a ring that has buffers.
NapiHasRing == napi \notin {"off", "crashed"} => ring # "none"

\* The workers live inside the interface's and the lock's lifetime.
WorkersBounded ==
  /\ worker["timeout"] # "idle" => rtnl = "timeout"
  /\ worker["phy"] # "idle" => up \/ rtnl = "closing"

\* Ring buffers exist between open and the end of close.
RingLives == ring # "none" => up \/ rtnl \in {"opening", "closing", "draining"}

\* The interface that is being opened is not up yet, and NAPI is off.
OpeningAlone ==
  /\ rtnl \in {"opening", "unwinding"} => ~up /\ napi \in {"off", "crashed"}
  /\ rtnl = "opening" => ring # "none"

\* A zero-copy size was stored together with its address.
LargeHasAddr == zc.large => zc.addr \in Addrs

IInv ==
  /\ TypeOK /\ QuietUnmasked /\ LoopHasWork /\ Heard /\ OneOwner /\ NapiHasRing
  /\ WorkersBounded /\ RingLives /\ OpeningAlone /\ LargeHasAddr /\ NoDmaAfterFree

\* The receiver's order of ioctls: the ring and the mode agree.
Disciplined ==
  /\ ring \in Addrs => zc.enabled
  /\ zc.enabled => zc.ready

------------------------------------------------------------------------------
\* The numeric constants, without the assumption on the set of buffers.
LEMMA BoundsAreNat ==
  /\ R \in Nat /\ R > 0 /\ Budget \in Nat /\ Budget > 0
  /\ MaxFrames \in Nat /\ MaxLinkEvents \in Nat /\ MaxTimeouts \in Nat
  BY FecAssumption

\* fec_enet_get_nextdesc stays inside the ring.
LEMMA AfterInRing == ASSUME NEW i \in Slots PROVE After(i) \in Slots
  BY BoundsAreNat DEF After, Slots

\* Init satisfies the inductive invariant.
LEMMA InitIInv == Init => IInv
<1> SUFFICES ASSUME Init PROVE IInv
    OBVIOUS
<1>1. 0 \in Slots
  BY BoundsAreNat DEF Slots
<1>2. TypeOK
  <2>1. HwTypeOK
    <3>1. frames \in 0 .. MaxFrames
      BY BoundsAreNat DEF Init
    <3> QED
      BY <1>1, <3>1 DEF Init, HwTypeOK
  <2>2. NapiTypeOK
    <3>1. pkts \in 0 .. Budget
      BY BoundsAreNat DEF Init
    <3> QED
      BY <1>1, <3>1 DEF Init, NapiTypeOK
  <2>3. CtlTypeOK
    <3>1. linkEvents \in 0 .. MaxLinkEvents /\ timeouts \in 0 .. MaxTimeouts
      BY BoundsAreNat DEF Init
    <3> QED
      BY <3>1 DEF Init, CtlTypeOK
  <2>4. ZcTypeOK
    BY DEF Init, ZcTypeOK, ZcConfig
  <2> QED
    BY <2>1, <2>2, <2>3, <2>4 DEF TypeOK
<1>3. worker["phy"] = "idle" /\ worker["timeout"] = "idle"
  BY DEF Init, Workers
<1>4. ~zc.large /\ \A w \in Workers : worker[w] = "idle"
  BY DEF Init
<1> QED
  BY <1>2, <1>3, <1>4 DEF Init, IInv, QuietUnmasked, LoopHasWork, Heard, LoopComes, Listening, OneOwner,
     NapiHasRing, WorkersBounded, RingLives, OpeningAlone, LargeHasAddr, NoDmaAfterFree

USE DEF hwVars, napiVars, ctlVars, zcVars

\* The MAC completes a descriptor.
LEMMA StepReceive ==
  ASSUME IInv, NEW kind \in {"good", "bad"}, HwReceive(kind) PROVE IInv'
<1>1. TypeOK'
  <2>1. After(hw) \in Slots
    BY AfterInRing DEF IInv, TypeOK, HwTypeOK
  <2>2. HwTypeOK'
    BY <2>1, BoundsAreNat DEF IInv, TypeOK, HwTypeOK, HwReceive
  <2>3. NapiTypeOK' /\ CtlTypeOK' /\ ZcTypeOK'
    BY DEF IInv, TypeOK, NapiTypeOK, CtlTypeOK, ZcTypeOK, HwReceive
  <2> QED
    BY <2>2, <2>3 DEF TypeOK
<1>2. QuietUnmasked' /\ LoopHasWork' /\ Heard'
  BY DEF IInv, HwReceive, QuietUnmasked, LoopHasWork, Heard, LoopComes, Listening, Disabling
<1>3. OneOwner' /\ NapiHasRing' /\ WorkersBounded' /\ RingLives' /\ OpeningAlone'
      /\ LargeHasAddr' /\ NoDmaAfterFree'
  BY DEF IInv, HwReceive, OneOwner, NapiHasRing, WorkersBounded, RingLives, OpeningAlone,
     LargeHasAddr, NoDmaAfterFree
<1> QED
  BY <1>1, <1>2, <1>3 DEF IInv

\* The interrupt handler schedules NAPI, tells it to come again, or loses the
\* event where NoLostWakeup says so.
LEMMA StepInterrupt == ASSUME IInv, Interrupt PROVE IInv'
<1>1. PICK tx \in BOOLEAN : Handler(napi, again, tx)
  BY DEF Interrupt
<1>2. napi' = napi \/ (napi = "idle" /\ napi' = "sched")
  BY <1>1 DEF Handler, MaySchedule
<1>3. TypeOK'
  <2>1. HwTypeOK' /\ NapiTypeOK'
    BY <1>1, <1>2 DEF IInv, TypeOK, HwTypeOK, NapiTypeOK, CtlTypeOK, Interrupt,
       Handler
  <2>2. CtlTypeOK' /\ ZcTypeOK'
    BY DEF IInv, TypeOK, CtlTypeOK, ZcTypeOK, Interrupt
  <2> QED
    BY <2>1, <2>2 DEF TypeOK
<1>4. QuietUnmasked' /\ LoopHasWork'
  BY <1>1, <1>2 DEF IInv, Interrupt, Handler, QuietUnmasked, LoopHasWork, Listening,
     Disabling
<1>5. Heard'
  <2> SUFFICES ASSUME Listening', napi' \notin {"poll", "crashed"},
                      desc'[cur'] # "empty"
               PROVE  event' \/ missed' \/ LoopComes'
    BY DEF Heard
  <2>1. /\ Listening /\ napi \notin {"poll", "crashed"} /\ desc[cur] # "empty"
        /\ link /\ ~Disabling /\ pkts' = pkts /\ pkts \in 0 .. Budget
    BY <1>2 DEF Interrupt, Listening, Disabling, IInv, TypeOK, NapiTypeOK
  <2>2. event \/ missed \/ LoopComes
    BY <2>1 DEF IInv, Heard
  <2>3. CASE missed
    BY <1>1, <2>3 DEF Handler
  <2>4. CASE LoopComes
    BY <1>1, <2>1, <2>4 DEF Handler, MaySchedule, LoopComes
  <2>5. CASE event
    <3>1. workRx' = TRUE
      BY <1>1, <2>5 DEF Handler
    <3>2. napi \in {"off", "idle", "sched", "exit", "tx"}
      BY <2>1 DEF IInv, TypeOK, NapiTypeOK
    <3>3. CASE napi = "off"
      BY <1>1, <2>1, <2>5, <3>3 DEF Handler
    <3>4. CASE napi = "idle"
      BY <1>1, <2>1, <2>5, <3>1, <3>4 DEF Handler, MaySchedule, LoopComes
    <3>5. CASE napi = "sched"
      BY <1>1, <3>1, <3>5 DEF Handler, MaySchedule, LoopComes
    <3>6. CASE napi = "exit"
      <4>1. pkts < Budget \/ pkts = Budget
        BY <2>1, BoundsAreNat
      <4> QED
        BY <1>1, <2>1, <2>5, <3>1, <3>6, <4>1 DEF Handler, MaySchedule, LoopComes
    <3>7. CASE napi = "tx"
      BY <1>1, <2>1, <2>5, <3>1, <3>7 DEF Handler, MaySchedule, LoopComes
    <3> QED
      BY <3>2, <3>3, <3>4, <3>5, <3>6, <3>7
  <2> QED
    BY <2>2, <2>3, <2>4, <2>5
<1>6. OneOwner' /\ NapiHasRing' /\ WorkersBounded' /\ RingLives' /\ OpeningAlone'
      /\ LargeHasAddr' /\ NoDmaAfterFree'
  BY <1>2 DEF IInv, Interrupt, OneOwner, NapiHasRing, WorkersBounded,
     RingLives, OpeningAlone, LargeHasAddr, NoDmaAfterFree
<1> QED
  BY <1>3, <1>4, <1>5, <1>6 DEF IInv

\* The NAPI poll: its stages, one frame, and an interrupt at its end.
LEMMA StepPoll ==
  ASSUME IInv, HandleFrame \/ PollStep \/ CompleteInterrupted PROVE IInv'
<1>0. /\ pkts \in 0 .. Budget /\ 0 \in 0 .. Budget /\ 0 \in Slots
      /\ 0 < Budget /\ (pkts < Budget <=> pkts # Budget)
  BY BoundsAreNat DEF IInv, TypeOK, NapiTypeOK, Slots
<1>1. UNCHANGED <<mac, ctlVars, zc>>
  BY DEF HandleFrame, PollStep, PollStart, LoopEnd, ClearRx, Complete, PollAgain,
     CompleteInterrupted
<1>2. napi \in {"sched", "poll", "exit", "tx"} /\ napi' # "off"
  BY DEF HandleFrame, AfterFrame, PollStep, PollStart, LoopEnd, ClearRx, Complete,
     PollAgain, CompleteInterrupted, Completed, Handler
<1>3. TypeOK'
  <2>1. HwTypeOK'
    BY DEF IInv, TypeOK, HwTypeOK, NapiTypeOK, HandleFrame, PollStep, PollStart,
       LoopEnd, ClearRx, Complete, PollAgain, CompleteInterrupted, Handler
  <2>2. NapiTypeOK'
    <3>1. CASE PollStart
      BY <1>0, <3>1 DEF IInv, TypeOK, NapiTypeOK, PollStart
    <3>2. CASE HandleFrame
      <4>1. After(bdp) \in Slots
        BY AfterInRing DEF IInv, TypeOK, NapiTypeOK
      <4>2. napi' \in {"poll", "crashed"}
        BY <3>2 DEF HandleFrame, AfterFrame
      <4> QED
        BY <3>2, <4>1, <4>2, BoundsAreNat DEF IInv, TypeOK, NapiTypeOK,
           HandleFrame
    <3>3. CASE LoopEnd \/ ClearRx
      BY <1>0, <3>3 DEF IInv, TypeOK, NapiTypeOK, LoopEnd, ClearRx
    <3>4. CASE Complete \/ PollAgain
      BY <1>0, <3>4 DEF IInv, TypeOK, NapiTypeOK, Complete, PollAgain, Completed
    <3>5. CASE CompleteInterrupted
      BY <1>0, <3>5 DEF IInv, TypeOK, NapiTypeOK, HwTypeOK, CtlTypeOK,
         CompleteInterrupted, Handler, Completed
    <3> QED
      BY <3>1, <3>2, <3>3, <3>4, <3>5 DEF PollStep
  <2>3. CtlTypeOK'
    BY <1>1 DEF IInv, TypeOK, CtlTypeOK
  <2>4. ZcTypeOK'
    <3>1. CASE HandleFrame
      BY <3>1 DEF IInv, TypeOK, ZcTypeOK, HandleFrame
    <3>2. CASE PollStep \/ CompleteInterrupted
      BY <3>2 DEF IInv, TypeOK, ZcTypeOK, PollStep, PollStart, LoopEnd, ClearRx,
         Complete, PollAgain, CompleteInterrupted
    <3> QED
      BY <3>1, <3>2
  <2> QED
    BY <2>1, <2>2, <2>3, <2>4 DEF TypeOK
<1>4. Listening' = Listening /\ Disabling' = Disabling
  BY <1>1 DEF Listening, Disabling
<1>5. QuietUnmasked' /\ LoopHasWork' /\ Heard'
  <2>1. CASE PollStart
    BY <1>0, <1>4, <2>1 DEF IInv, PollStart, QuietUnmasked, LoopHasWork, Heard,
       LoopComes
  <2>2. CASE HandleFrame
    BY <2>2 DEF IInv, HandleFrame, AfterFrame, QuietUnmasked, LoopHasWork, Heard
  <2>3. CASE LoopEnd
    BY <1>0, <2>3 DEF IInv, LoopEnd, QuietUnmasked, LoopHasWork, Heard, LoopComes
  <2>4. CASE ClearRx
    BY <1>0, <1>4, <2>4 DEF IInv, ClearRx, QuietUnmasked, LoopHasWork, Heard,
       LoopComes
  <2>5. CASE Complete
    BY <1>0, <1>4, <2>5 DEF IInv, Complete, Completed, QuietUnmasked, LoopHasWork,
       Heard, LoopComes
  <2>6. CASE PollAgain
    BY <1>0, <1>4, <2>6 DEF IInv, PollAgain, Completed, QuietUnmasked, LoopHasWork,
       Heard, LoopComes, Listening
  <2>7. CASE CompleteInterrupted
    <3>1. PICK tx \in BOOLEAN : Handler(Completed, FALSE, tx)
      BY <2>7 DEF CompleteInterrupted
    <3>2. napi = "tx" /\ pkts # Budget /\ unmasked' /\ UNCHANGED <<desc, cur>>
      BY <1>0, <2>7 DEF CompleteInterrupted
    <3>3. napi' \in {"idle", "sched"}
      BY <3>1 DEF Handler, Completed
    <3>4. Heard'
      <4> SUFFICES ASSUME Listening', desc'[cur'] # "empty"
                   PROVE  event' \/ missed' \/ LoopComes'
        BY DEF Heard
      <4>1. (event \/ missed \/ (workRx /\ again)) /\ link /\ ~Disabling
        BY <1>4, <3>2 DEF IInv, Heard, LoopComes, Listening
      <4>2. CASE missed
        BY <3>1, <4>2 DEF Handler
      <4>3. CASE event
        BY <3>1, <4>1, <4>3 DEF Handler, MaySchedule, Completed, LoopComes
      <4>4. CASE workRx /\ again
        BY <3>1, <4>4 DEF Handler, MaySchedule, Completed, LoopComes
      <4> QED
        BY <4>1, <4>2, <4>3, <4>4
    <3> QED
      BY <2>7, <3>2, <3>3, <3>4 DEF CompleteInterrupted, QuietUnmasked, LoopHasWork
  <2> QED
    BY <2>1, <2>2, <2>3, <2>4, <2>5, <2>6, <2>7 DEF PollStep
<1>6. OneOwner'
  BY <1>1, <1>2 DEF IInv, OneOwner
<1>7. NapiHasRing' /\ WorkersBounded' /\ RingLives' /\ OpeningAlone'
      /\ LargeHasAddr' /\ NoDmaAfterFree'
  BY <1>1, <1>2 DEF IInv, NapiHasRing, WorkersBounded, RingLives, OpeningAlone,
     LargeHasAddr, NoDmaAfterFree
<1> QED
  BY <1>3, <1>5, <1>6, <1>7 DEF IInv

\* A worker starts: from now on Disabling holds, or the link is recorded lost.
LEMMA StepWorkerBegins ==
  ASSUME IInv, \/ \E op \in {"restart", "stop"} : AdjustLinkBegin(op)
               \/ TxTimeout \/ TimeoutWorkBegin
  PROVE  IInv'
<1>1. ASSUME NEW op \in {"restart", "stop"}, AdjustLinkBegin(op) PROVE IInv'
  <2>1. TypeOK'
    <3>1. CtlTypeOK'
      <4>1. linkEvents' \in 0 .. MaxLinkEvents
        BY <1>1, BoundsAreNat DEF IInv, TypeOK, CtlTypeOK, AdjustLinkBegin
      <4> QED
        BY <1>1, <4>1 DEF IInv, TypeOK, CtlTypeOK, AdjustLinkBegin
    <3>2. HwTypeOK' /\ NapiTypeOK' /\ ZcTypeOK'
      BY <1>1 DEF IInv, TypeOK, HwTypeOK, NapiTypeOK, ZcTypeOK, AdjustLinkBegin
    <3> QED
      BY <3>1, <3>2 DEF TypeOK
  <2>2. QuietUnmasked' /\ LoopHasWork' /\ Heard'
    <3>1. CASE up
      <4>1. worker'["phy"] \in {"restart", "stop"}
        BY <1>1, <3>1 DEF IInv, TypeOK, CtlTypeOK, AdjustLinkBegin, Workers
      <4> QED
        BY <1>1, <4>1 DEF IInv, AdjustLinkBegin, QuietUnmasked, LoopHasWork, Heard,
           Listening, Disabling, Workers
    <3>2. CASE ~up
      BY <1>1, <3>2 DEF IInv, AdjustLinkBegin, QuietUnmasked, LoopHasWork, Heard,
         Listening
    <3> QED
      BY <3>1, <3>2
  <2>3. OneOwner' /\ WorkersBounded'
    BY <1>1 DEF IInv, TypeOK, CtlTypeOK, AdjustLinkBegin, OneOwner, WorkersBounded, Workers
  <2>4. NapiHasRing' /\ RingLives' /\ OpeningAlone' /\ LargeHasAddr' /\ NoDmaAfterFree'
    BY <1>1 DEF IInv, AdjustLinkBegin, NapiHasRing, RingLives, OpeningAlone, LargeHasAddr,
       NoDmaAfterFree
  <2> QED
    BY <2>1, <2>2, <2>3, <2>4 DEF IInv
<1>2. CASE TxTimeout
  <2>1. TypeOK'
    <3>1. CtlTypeOK'
      BY <1>2, BoundsAreNat DEF IInv, TypeOK, CtlTypeOK, TxTimeout
    <3>2. HwTypeOK' /\ NapiTypeOK' /\ ZcTypeOK'
      BY <1>2 DEF IInv, TypeOK, HwTypeOK, NapiTypeOK, ZcTypeOK, TxTimeout
    <3> QED
      BY <3>1, <3>2 DEF TypeOK
  <2> QED
    BY <1>2, <2>1 DEF IInv, TxTimeout, QuietUnmasked, LoopHasWork, Heard, LoopComes, Listening,
       Disabling, OneOwner, NapiHasRing, WorkersBounded, RingLives, OpeningAlone,
       LargeHasAddr, NoDmaAfterFree
<1>3. CASE TimeoutWorkBegin
  <2>1. TypeOK'
    <3>1. CtlTypeOK'
      BY <1>3 DEF IInv, TypeOK, CtlTypeOK, TimeoutWorkBegin
    <3>2. HwTypeOK' /\ NapiTypeOK' /\ ZcTypeOK'
      BY <1>3 DEF IInv, TypeOK, HwTypeOK, NapiTypeOK, ZcTypeOK,
         TimeoutWorkBegin
    <3> QED
      BY <3>1, <3>2 DEF TypeOK
  <2>2. QuietUnmasked' /\ LoopHasWork' /\ Heard'
    <3>1. worker'["timeout"] = "restart"
      BY <1>3 DEF IInv, TypeOK, CtlTypeOK, TimeoutWorkBegin, Workers
    <3> QED
      BY <1>3, <3>1 DEF IInv, TimeoutWorkBegin, QuietUnmasked, LoopHasWork, Heard,
         Listening, Disabling, Workers
  <2>3. OneOwner' /\ WorkersBounded'
    BY <1>3 DEF IInv, TypeOK, CtlTypeOK, TimeoutWorkBegin, OneOwner, WorkersBounded, Workers
  <2>4. NapiHasRing' /\ RingLives' /\ OpeningAlone' /\ LargeHasAddr' /\ NoDmaAfterFree'
    BY <1>3 DEF IInv, TimeoutWorkBegin, NapiHasRing, RingLives, OpeningAlone, LargeHasAddr,
       NoDmaAfterFree
  <2> QED
    BY <2>1, <2>2, <2>3, <2>4 DEF IInv
<1> QED
  BY <1>1, <1>2, <1>3

\* A worker passes napi_disable: it restarts or stops the MAC.
LEMMA StepNapiDisabled ==
  ASSUME IInv, NEW w \in Workers, NapiDisabled(w) PROVE IInv'
<1>1. 0 \in Slots
  BY BoundsAreNat DEF Slots
<1>2. TypeOK'
  <2>1. HwTypeOK'
    BY <1>1 DEF IInv, TypeOK, HwTypeOK, NapiDisabled, Restart, Stop
  <2>2. NapiTypeOK'
    BY <1>1 DEF IInv, TypeOK, NapiTypeOK, CtlTypeOK, NapiDisabled, Restart, Stop
  <2>3. CtlTypeOK'
    BY DEF IInv, TypeOK, CtlTypeOK, NapiDisabled
  <2>4. ZcTypeOK'
    BY DEF IInv, TypeOK, ZcTypeOK, NapiDisabled
  <2> QED
    BY <2>1, <2>2, <2>3, <2>4 DEF TypeOK
<1>3. QuietUnmasked' /\ LoopHasWork' /\ Heard'
  <2>1. CASE worker[w] = "stop"
    BY <2>1 DEF IInv, NapiDisabled, Stop, QuietUnmasked, LoopHasWork, Heard, Listening
  <2>2. CASE worker[w] # "stop"
    <3>1. desc'[cur'] = "empty"
      BY <2>2, <1>1 DEF NapiDisabled, Restart
    <3> QED
      BY <2>2, <3>1 DEF IInv, NapiDisabled, Restart, QuietUnmasked, LoopHasWork,
         Heard, Listening
  <2> QED
    BY <2>1, <2>2
<1>4. OneOwner'
  <2>1. \A v \in Workers : worker[v] \notin {"restarted", "stopped"}
    BY DEF IInv, OneOwner, NapiDisabled
  <2>2. \A v \in Workers : v # w => worker'[v] = worker[v]
    BY DEF IInv, TypeOK, CtlTypeOK, NapiDisabled
  <2>3. napi' = "off" /\ ring' # "none"
    BY DEF IInv, NapiHasRing, NapiDisabled
  <2> QED
    BY <2>1, <2>2, <2>3 DEF OneOwner
<1>5. WorkersBounded'
  BY DEF IInv, TypeOK, CtlTypeOK, NapiDisabled, WorkersBounded, Workers
<1>6. NapiHasRing' /\ RingLives' /\ OpeningAlone' /\ LargeHasAddr' /\ NoDmaAfterFree'
  BY DEF IInv, NapiDisabled, NapiHasRing, RingLives, OpeningAlone, LargeHasAddr,
     NoDmaAfterFree
<1> QED
  BY <1>2, <1>3, <1>4, <1>5, <1>6 DEF IInv

\* A worker gives NAPI back.
LEMMA StepNapiEnabled ==
  ASSUME IInv, NEW w \in Workers, NapiEnabled(w) PROVE IInv'
<1>1. TypeOK'
  <2>1. HwTypeOK' /\ NapiTypeOK' /\ ZcTypeOK'
    BY DEF IInv, TypeOK, HwTypeOK, NapiTypeOK, ZcTypeOK, NapiEnabled
  <2>2. CtlTypeOK'
    BY DEF IInv, TypeOK, CtlTypeOK, NapiEnabled
  <2> QED
    BY <2>1, <2>2 DEF TypeOK
<1>2. napi = "off" /\ ring # "none"
  BY DEF IInv, OneOwner, NapiEnabled
<1>3. \A v \in Workers : v # w => worker'[v] = worker[v]
  BY DEF IInv, TypeOK, CtlTypeOK, NapiEnabled
<1>4. worker'[w] = "idle"
  BY DEF IInv, TypeOK, CtlTypeOK, NapiEnabled
<1>5. QuietUnmasked' /\ LoopHasWork' /\ Heard'
  <2>1. Listening' => Listening
    <3>1. Disabling => Disabling'
      <4>1. rtnl = "draining" => rtnl' = "draining"
        BY DEF IInv, WorkersBounded, NapiEnabled
      <4>2. \A v \in Workers :
              worker[v] \in {"restart", "stop"} => worker'[v] = worker[v]
        BY <1>3 DEF NapiEnabled
      <4> QED
        BY <4>1, <4>2 DEF Disabling
    <3> QED
      BY <3>1 DEF NapiEnabled, Listening, IInv, TypeOK, CtlTypeOK
  <2> QED
    BY <1>2, <2>1 DEF IInv, NapiEnabled, QuietUnmasked, LoopHasWork, Heard, LoopComes
<1>6. OneOwner'
  BY <1>3, <1>4 DEF IInv, OneOwner, NapiEnabled
<1>7. WorkersBounded'
  BY <1>3, <1>4 DEF IInv, NapiEnabled, WorkersBounded, Workers
<1>8. NapiHasRing' /\ RingLives' /\ OpeningAlone' /\ LargeHasAddr' /\ NoDmaAfterFree'
  BY <1>2 DEF IInv, NapiEnabled, NapiHasRing, RingLives, OpeningAlone, LargeHasAddr,
     NoDmaAfterFree, WorkersBounded, Workers
<1> QED
  BY <1>1, <1>5, <1>6, <1>7, <1>8 DEF IInv

\* fec_enet_open: a fresh ring under a running MAC, then NAPI, or the way back.
LEMMA StepOpen ==
  ASSUME IInv, Alive, OpenBegin \/ OpenFinish \/ OpenFails \/ ClocksOff
  PROVE  IInv'
<1>1. 0 \in Slots
  BY BoundsAreNat DEF Slots
<1>2. OpenBegin => ring' # "none" /\ ring' \in {"none", "skb"} \cup Addrs
  BY FecAssumption DEF IInv, LargeHasAddr, OpenBegin, RingTarget
<1>3. TypeOK'
  <2>1. HwTypeOK'
    BY <1>1 DEF IInv, TypeOK, HwTypeOK, OpenBegin, OpenFinish, OpenFails, ClocksOff,
       Restart
  <2>2. NapiTypeOK'
    BY <1>1 DEF IInv, TypeOK, NapiTypeOK, CtlTypeOK, OpenBegin, OpenFinish, OpenFails,
       ClocksOff, Restart
  <2>3. CtlTypeOK'
    BY <1>2 DEF IInv, TypeOK, CtlTypeOK, OpenBegin, OpenFinish, OpenFails, ClocksOff
  <2>4. ZcTypeOK'
    BY DEF IInv, TypeOK, ZcTypeOK, OpenBegin, OpenFinish, OpenFails, ClocksOff
  <2> QED
    BY <2>1, <2>2, <2>3, <2>4 DEF TypeOK
<1>4. ~up /\ rtnl \notin {"closing", "draining", "timeout"} /\ napi \in {"off", "crashed"}
  <2>1. OpenBegin => napi \in {"off", "crashed"}
    BY DEF OpenBegin, IInv, RingLives, NapiHasRing
  <2> QED
    BY <2>1 DEF IInv, OpeningAlone, OpenBegin, OpenFinish, OpenFails, ClocksOff
<1>5. UNCHANGED worker /\ \A w \in Workers : worker[w] = "idle"
  BY <1>4 DEF IInv, WorkersBounded, OpenBegin, OpenFinish, OpenFails, ClocksOff,
     Workers
<1>6. QuietUnmasked' /\ LoopHasWork' /\ Heard'
  <2>1. CASE OpenBegin
    <3>1. desc'[cur'] = "empty" /\ unmasked' = link /\ link' = link /\ napi' = napi
      BY <1>1, <2>1 DEF OpenBegin, Restart
    <3> QED
      BY <1>4, <2>1, <3>1 DEF IInv, OpenBegin, QuietUnmasked, LoopHasWork, Heard,
         Listening
  <2>2. CASE OpenFinish
    BY <1>4, <2>2 DEF IInv, Alive, OpenFinish, QuietUnmasked, LoopHasWork, Heard,
       Listening
  <2>3. CASE OpenFails
    BY <2>3 DEF IInv, OpenFails, QuietUnmasked, LoopHasWork, Heard, LoopComes,
       Listening, Disabling
  <2>4. CASE ClocksOff
    BY <1>4, <2>4 DEF IInv, ClocksOff, QuietUnmasked, LoopHasWork, Heard, Listening
  <2> QED
    BY <2>1, <2>2, <2>3, <2>4
<1>7. OneOwner' /\ WorkersBounded'
  <2>1. \A w \in Workers : worker'[w] = "idle"
    BY <1>5
  <2> QED
    BY <2>1 DEF OneOwner, WorkersBounded, Workers
<1>8. NapiHasRing' /\ RingLives' /\ OpeningAlone' /\ LargeHasAddr' /\ NoDmaAfterFree'
  <2>1. CASE OpenBegin
    BY <1>2, <1>4, <2>1 DEF IInv, OpenBegin, NapiHasRing, RingLives, OpeningAlone,
       LargeHasAddr, NoDmaAfterFree
  <2>2. CASE OpenFinish
    BY <1>4, <2>2 DEF IInv, OpenFinish, NapiHasRing, RingLives, OpeningAlone,
       LargeHasAddr, NoDmaAfterFree
  <2>3. CASE OpenFails \/ ClocksOff
    BY <1>4, <2>3 DEF IInv, OpenFails, ClocksOff, NapiHasRing, RingLives, OpeningAlone,
       LargeHasAddr, NoDmaAfterFree
  <2> QED
    BY <2>1, <2>2, <2>3
<1> QED
  BY <1>3, <1>6, <1>7, <1>8 DEF IInv

\* fec_enet_close, in its three waits.
LEMMA StepClose ==
  ASSUME IInv, CloseBegin \/ PhyStop \/ CloseFinish PROVE IInv'
<1>1. TypeOK'
  <2>1. HwTypeOK'
    BY DEF IInv, TypeOK, HwTypeOK, CloseBegin, PhyStop, CloseFinish, Stop
  <2>2. NapiTypeOK'
    BY DEF IInv, TypeOK, NapiTypeOK, CloseBegin, PhyStop, CloseFinish, Stop
  <2>3. CtlTypeOK'
    BY DEF IInv, TypeOK, CtlTypeOK, CloseBegin, PhyStop, CloseFinish
  <2>4. ZcTypeOK'
    BY DEF IInv, TypeOK, ZcTypeOK, CloseBegin, PhyStop, CloseFinish
  <2> QED
    BY <2>1, <2>2, <2>3, <2>4 DEF TypeOK
<1>2. QuietUnmasked' /\ LoopHasWork' /\ Heard'
  <2>1. CASE CloseBegin
    BY <2>1 DEF IInv, CloseBegin, QuietUnmasked, LoopHasWork, Heard, LoopComes, Listening, Disabling
  <2>2. CASE PhyStop
    BY <2>2 DEF IInv, PhyStop, QuietUnmasked, LoopHasWork, Heard, Listening
  <2>3. CASE CloseFinish
    BY <2>3 DEF IInv, CloseFinish, Stop, QuietUnmasked, LoopHasWork, Heard, Listening
  <2> QED
    BY <2>1, <2>2, <2>3
<1>3. OneOwner'
  <2>1. CASE CloseBegin \/ PhyStop
    BY <2>1 DEF IInv, OneOwner, CloseBegin, PhyStop
  <2>2. CASE CloseFinish
    BY <2>2 DEF IInv, OneOwner, CloseFinish
  <2> QED
    BY <2>1, <2>2
<1>4. WorkersBounded'
  BY DEF IInv, WorkersBounded, CloseBegin, PhyStop, CloseFinish
<1>5. NapiHasRing' /\ RingLives' /\ OpeningAlone' /\ LargeHasAddr' /\ NoDmaAfterFree'
  <2>1. CASE CloseBegin \/ PhyStop
    BY <2>1 DEF IInv, NapiHasRing, RingLives, OpeningAlone, LargeHasAddr, NoDmaAfterFree,
       CloseBegin, PhyStop
  <2>2. CASE CloseFinish
    <3>1. /\ napi' = "off" /\ ring' = "none" /\ ~mac' /\ zc' = zc
          /\ rtnl' = "free"
      BY <2>2 DEF CloseFinish, Stop
    <3> QED
      BY <3>1 DEF IInv, NapiHasRing, RingLives, OpeningAlone, LargeHasAddr, NoDmaAfterFree
  <2> QED
    BY <2>1, <2>2
<1> QED
  BY <1>1, <1>2, <1>3, <1>4, <1>5 DEF IInv

ZcIoctl ==
  \/ \E a \in Addrs, large \in BOOLEAN : SetupZc(a, large)
  \/ SetupMisaligned \/ SetupOff \/ WaitBegin \/ WaitReturn \/ WaitSignalled

\* The ioctls change the configuration, the counter and who holds RTNL.
LEMMA StepIoctl == ASSUME IInv, ZcIoctl PROVE IInv'
<1>1. /\ UNCHANGED <<hwVars, napiVars, up, link, ring, worker, queued,
                     linkEvents, timeouts>>
      /\ \/ rtnl' = rtnl
         \/ rtnl \in {"free", "wait"} /\ rtnl' \in {"free", "wait", "crashed"}
  BY DEF ZcIoctl, SetupZc, SetupMisaligned, SetupOff, WaitBegin, WaitReturn,
     WaitSignalled
<1>2. ZcTypeOK' /\ LargeHasAddr'
  <2>1. ASSUME NEW a \in Addrs, NEW large \in BOOLEAN, SetupZc(a, large)
        PROVE  ZcTypeOK' /\ LargeHasAddr'
    BY <2>1 DEF SetupZc, ZcTypeOK, LargeHasAddr, ZcConfig
  <2>2. CASE SetupMisaligned \/ SetupOff
    BY <2>2 DEF IInv, TypeOK, SetupMisaligned, SetupOff, ZcTypeOK, LargeHasAddr,
       ZcConfig
  <2>3. CASE WaitBegin \/ WaitReturn \/ WaitSignalled
    BY <2>3 DEF IInv, TypeOK, WaitBegin, WaitReturn, WaitSignalled, ZcTypeOK,
       LargeHasAddr
  <2> QED
    BY <2>1, <2>2, <2>3 DEF ZcIoctl
<1>3. TypeOK'
  BY <1>1, <1>2 DEF IInv, TypeOK, HwTypeOK, NapiTypeOK, CtlTypeOK
<1>4. QuietUnmasked' /\ LoopHasWork' /\ Heard'
  BY <1>1 DEF IInv, QuietUnmasked, LoopHasWork, Heard, LoopComes, Listening, Disabling
<1>5. OneOwner' /\ NapiHasRing' /\ WorkersBounded' /\ RingLives' /\ OpeningAlone'
      /\ NoDmaAfterFree'
  BY <1>1 DEF IInv, OneOwner, NapiHasRing, WorkersBounded, RingLives, OpeningAlone,
     NoDmaAfterFree
<1> QED
  BY <1>2, <1>3, <1>4, <1>5 DEF IInv

\* Every step preserves the inductive invariant.
LEMMA NextIInv == IInv /\ [Next]_vars => IInv'
<1> SUFFICES ASSUME IInv, [Next]_vars PROVE IInv'
    OBVIOUS
<1>1. CASE Kernel
  BY <1>1, StepInterrupt, StepPoll, StepWorkerBegins, StepClose,
     StepNapiDisabled, StepNapiEnabled DEF Kernel
<1>2. CASE Outside
  BY <1>2, StepReceive, StepWorkerBegins DEF Outside
<1>3. CASE Alive /\ Callers
  BY <1>3, StepOpen, StepClose, StepIoctl DEF Callers, ZcIoctl
<1>4. CASE UNCHANGED vars
  BY <1>4 DEF vars, IInv, TypeOK, HwTypeOK, NapiTypeOK, CtlTypeOK, ZcTypeOK,
     QuietUnmasked, LoopHasWork, Heard, LoopComes, Listening, Disabling, OneOwner, NapiHasRing,
     WorkersBounded, RingLives, OpeningAlone, LargeHasAddr, NoDmaAfterFree
<1> QED
  BY <1>1, <1>2, <1>3, <1>4 DEF Next

\* The inductive invariant holds throughout.
LEMMA AlwaysIInv == Spec => []IInv
  BY InitIInv, NextIInv, PTL DEF Spec

------------------------------------------------------------------------------
\* Type correctness: in particular no cursor ever leaves the ring.
THEOREM TypeCorrect == Spec => []TypeOK
<1>1. IInv => TypeOK
  BY DEF IInv
<1> QED
  BY <1>1, AlwaysIInv, PTL

\* No frame is left in the ring without an interrupt to come, except for an
\* event acknowledged while napi_disable held NAPI, or by an MII interrupt
\* between the end of the receive loop and the clearing of work_rx.
THEOREM WakeupsAreNotLost == Spec => []NoLostWakeup
<1>1. IInv => NoLostWakeup
  BY DEF IInv, QuietUnmasked, Heard, LoopComes, Listening, NoLostWakeup
<1> QED
  BY <1>1, AlwaysIInv, PTL

\* The MAC never runs on a ring whose buffers were freed, whatever workers
\* race with close, except while an open whose PHY probe failed unwinds.
THEOREM DmaStopsBeforeFree == Spec => []NoDmaAfterFree
<1>1. IInv => NoDmaAfterFree
  BY DEF IInv
<1> QED
  BY <1>1, AlwaysIInv, PTL

\* With the ioctls in the receiver's order the driver never faults.
THEOREM DisciplinedNeverCrashes ==
  ASSUME ~AnyCaller PROVE Spec => []NeverCrashes
<1> DEFINE Safe == IInv /\ Disciplined /\ NeverCrashes
<1>1. Init => Safe
  BY InitIInv, FecAssumption DEF Init, IInv, Disciplined, NeverCrashes, Alive
<1>2. Safe /\ [Next]_vars => Safe'
  <2> SUFFICES ASSUME Safe, [Next]_vars PROVE Safe'
      OBVIOUS
  <2>1. IInv'
    BY NextIInv
  <2>2. Disciplined'
    <3>1. CASE ZcIoctl
      <4>1. ASSUME NEW a \in Addrs, NEW large \in BOOLEAN, SetupZc(a, large)
            PROVE  Disciplined'
        BY <4>1 DEF SetupZc, Disciplined
      <4>2. CASE SetupOff
        <5>1. ring \notin Addrs
          BY <4>2, FecAssumption DEF SetupOff, CallerMaySetUp, IInv, RingLives
        <5> QED
          BY <4>2, <5>1 DEF SetupOff, Disciplined, IInv, TypeOK, ZcTypeOK,
             ZcConfig
      <4>3. CASE WaitBegin \/ WaitReturn \/ WaitSignalled
        BY <4>3 DEF WaitBegin, WaitReturn, WaitSignalled, Disciplined
      <4> QED
        BY <3>1, <4>1, <4>2, <4>3 DEF ZcIoctl, SetupMisaligned
    <3>2. CASE OpenBegin
      BY <3>2, FecAssumption DEF OpenBegin, RingTarget, Disciplined
    <3>3. CASE CloseFinish \/ OpenFails
      BY <3>3, FecAssumption DEF CloseFinish, OpenFails, Disciplined
    <3>4. CASE UNCHANGED <<ring, zc>>
      BY <3>4 DEF Disciplined
    <3>5. \/ ZcIoctl \/ OpenBegin \/ CloseFinish \/ OpenFails
          \/ UNCHANGED <<ring, zc>>
      <4>1. CASE Kernel
        BY <4>1 DEF Kernel, Interrupt, HandleFrame, PollStep, PollStart, LoopEnd,
           ClearRx, Complete, PollAgain, CompleteInterrupted, TimeoutWorkBegin,
           PhyStop, NapiDisabled, NapiEnabled
      <4>2. CASE Outside
        BY <4>2 DEF Outside, HwReceive, AdjustLinkBegin, TxTimeout
      <4>3. CASE Callers
        BY <4>3 DEF Callers, ZcIoctl, OpenFinish, ClocksOff, CloseBegin
      <4> QED
        BY <4>1, <4>2, <4>3 DEF Next, vars
    <3> QED
      BY <3>1, <3>2, <3>3, <3>4, <3>5
  <2>3. NeverCrashes'
    <3>1. CASE HandleFrame
      BY <3>1 DEF HandleFrame, AfterFrame, Disciplined, NeverCrashes, Alive
    <3>2. CASE WaitBegin
      BY <3>2 DEF WaitBegin, Disciplined, NeverCrashes, Alive
    <3>3. CASE Kernel /\ ~HandleFrame
      BY <3>3 DEF Kernel, NeverCrashes, Alive, Interrupt, Handler, PollStep,
         PollStart, LoopEnd, ClearRx, Complete, PollAgain, Completed,
         CompleteInterrupted, TimeoutWorkBegin, PhyStop, CloseFinish,
         NapiDisabled, NapiEnabled
    <3>4. CASE Outside
      BY <3>4 DEF Outside, NeverCrashes, Alive, HwReceive, AdjustLinkBegin,
         TxTimeout
    <3>5. CASE Callers /\ ~WaitBegin
      BY <3>5 DEF Callers, NeverCrashes, Alive, OpenBegin, OpenFinish, OpenFails,
         ClocksOff, CloseBegin, SetupZc, SetupMisaligned, SetupOff, WaitReturn,
         WaitSignalled
    <3>6. CASE UNCHANGED vars
      BY <3>6 DEF vars, NeverCrashes, Alive
    <3> QED
      BY <3>1, <3>2, <3>3, <3>4, <3>5, <3>6 DEF Next
  <2> QED
    BY <2>1, <2>2, <2>3
<1>3. Safe => NeverCrashes
  OBVIOUS
<1> QED
  BY <1>1, <1>2, <1>3, PTL DEF Spec

-----------------------------------------------------------------------------
(* The ring as a FIFO channel *)

\* The slot that the driver reaches after handling j frames.
Slot(c, j) == (c + j) % R

\* k frames wait in the ring d, one behind the other from the driver's cursor c
\* to the MAC's cursor h.
Filled(d, h, c, k) ==
  /\ h = Slot(c, k)
  /\ \A j \in 0 .. R - 1 : d[Slot(c, j)] # "empty" <=> j < k

Contiguous == \E k \in 0 .. R : Filled(desc, hw, Cursor, k)

\* The queue of the refinement mapping, as a function of the ring and a cursor.
Frames(d) == Cardinality({i \in Slots : d[i] # "empty"})
Queue(d, c) == [i \in 1 .. Frames(d) |-> d[(c + i - 1) % R]]
------------------------------------------------------------------------------
(* Arithmetic of the ring *)

LEMMA SmallMod ==
  ASSUME NEW a \in 0 .. R - 1 PROVE a % R = a
  BY BoundsAreNat

LEMMA WrapMod ==
  ASSUME NEW a \in R .. 2 * R - 1 PROVE a % R = a - R
  BY BoundsAreNat

LEMMA SlotCases ==
  ASSUME NEW c \in Slots, NEW j \in 0 .. R
  PROVE  /\ Slot(c, j) \in Slots
         /\ Slot(c, j) = IF c + j < R THEN c + j ELSE c + j - R
<1>1. CASE c + j < R
  <2>1. c + j \in 0 .. R - 1
    BY <1>1, BoundsAreNat DEF Slots
  <2> QED
    BY <1>1, <2>1, SmallMod DEF Slot, Slots
<1>2. CASE c + j >= R
  <2> DEFINE a == c + j
  <2>1. a \in R .. 2 * R - 1
    BY <1>2, BoundsAreNat DEF Slots
  <2> HIDE DEF a
  <2>2. a % R = a - R
    BY <2>1, WrapMod
  <2> USE DEF a
  <2> QED
    BY <1>2, <2>2, BoundsAreNat DEF Slot, Slots
<1> QED
  BY <1>1, <1>2, BoundsAreNat DEF Slots

LEMMA AfterCases ==
  ASSUME NEW c \in Slots
  PROVE  After(c) = Slot(c, 1)
  BY DEF After, Slot

\* Different distances below R lead to different slots, and every slot is at one.
LEMMA SlotInjective ==
  ASSUME NEW c \in Slots, NEW i \in 0 .. R - 1, NEW j \in 0 .. R - 1, Slot(c, i) = Slot(c, j)
  PROVE  i = j
<1>1. c \in Int /\ i \in Int /\ j \in Int /\ 0 <= c /\ c < R /\ R \in Int
  BY BoundsAreNat DEF Slots
<1>2. 0 <= i /\ i < R /\ 0 <= j /\ j < R /\ i \in 0 .. R /\ j \in 0 .. R
  BY BoundsAreNat
<1>3. (IF c + i < R THEN c + i ELSE c + i - R) = (IF c + j < R THEN c + j ELSE c + j - R)
  BY <1>2, SlotCases
<1> QED
  BY <1>1, <1>2, <1>3

LEMMA SlotOnto ==
  ASSUME NEW c \in Slots, NEW s \in Slots
  PROVE  \E j \in 0 .. R - 1 : Slot(c, j) = s
<1> DEFINE j == IF s >= c THEN s - c ELSE s - c + R
<1>1. j \in 0 .. R - 1
  BY BoundsAreNat DEF Slots
<1>2. Slot(c, j) = s
  <2>1. j \in 0 .. R
    BY <1>1, BoundsAreNat
  <2>2. Slot(c, j) = IF c + j < R THEN c + j ELSE c + j - R
    BY <2>1, SlotCases
  <2> QED
    BY <2>2, BoundsAreNat DEF Slots
<1> QED
  BY <1>1, <1>2

\* One step further from a slot, or from its successor.
LEMMA SlotNext ==
  ASSUME NEW c \in Slots, NEW j \in 0 .. R - 1
  PROVE  /\ After(Slot(c, j)) = Slot(c, j + 1)
         /\ Slot(After(c), j) = Slot(c, j + 1)
<1>1. j \in 0 .. R /\ j + 1 \in 0 .. R /\ 1 \in 0 .. R
  BY BoundsAreNat
<1>2. Slot(c, j) \in Slots /\ Slot(c, 1) \in Slots
  BY <1>1, SlotCases
<1>3. After(Slot(c, j)) = Slot(Slot(c, j), 1) /\ After(c) = Slot(c, 1)
  BY <1>2, AfterCases
<1>4. Slot(Slot(c, j), 1) = Slot(c, j + 1)
  <2> DEFINE b == Slot(c, j)
  <2>1. b = IF c + j < R THEN c + j ELSE c + j - R
    BY <1>1, SlotCases
  <2>2. b \in Slots
    BY <1>2
  <2> HIDE DEF b
  <2>3. Slot(b, 1) = IF b + 1 < R THEN b + 1 ELSE b + 1 - R
    BY <1>1, <2>2, SlotCases
  <2>4. Slot(c, j + 1) = IF c + (j + 1) < R THEN c + (j + 1) ELSE c + (j + 1) - R
    BY <1>1, SlotCases
  <2>5. c \in Int /\ 0 <= c /\ c < R /\ j \in Int /\ 0 <= j /\ j < R /\ R \in Int
    BY BoundsAreNat DEF Slots
  <2>6. Slot(b, 1) = Slot(c, j + 1)
    BY <2>1, <2>3, <2>4, <2>5
  <2> QED
    BY <2>6 DEF b
<1>5. Slot(Slot(c, 1), j) = Slot(c, j + 1)
  <2> DEFINE b == Slot(c, 1)
  <2>1. b = IF c + 1 < R THEN c + 1 ELSE c + 1 - R
    BY <1>1, SlotCases
  <2>2. b \in Slots
    BY <1>2
  <2> HIDE DEF b
  <2>3. Slot(b, j) = IF b + j < R THEN b + j ELSE b + j - R
    BY <1>1, <2>2, SlotCases
  <2>4. Slot(c, j + 1) = IF c + (j + 1) < R THEN c + (j + 1) ELSE c + (j + 1) - R
    BY <1>1, SlotCases
  <2>5. c \in Int /\ 0 <= c /\ c < R /\ j \in Int /\ 0 <= j /\ j < R /\ R \in Int
    BY BoundsAreNat DEF Slots
  <2>6. Slot(b, j) = Slot(c, j + 1)
    BY <2>1, <2>3, <2>4, <2>5
  <2> QED
    BY <2>6 DEF b
<1> QED
  BY <1>3, <1>4, <1>5
------------------------------------------------------------------------------
(* The queue that Filled describes *)

LEMMA FilledFrames ==
  ASSUME NEW d, NEW h, NEW c \in Slots, NEW k \in 0 .. R, Filled(d, h, c, k)
  PROVE  Frames(d) = k
<1> DEFINE S == {i \in Slots : d[i] # "empty"}
           f == [j \in 1 .. k |-> Slot(c, j - 1)]
<1>0. k \in Nat /\ k <= R
  BY BoundsAreNat
<1>1. \A j \in 1 .. k : j - 1 \in 0 .. R - 1 /\ j - 1 \in 0 .. R /\ j - 1 < k
  BY <1>0, BoundsAreNat
<1>2. \A j \in 1 .. k : f[j] \in S
  BY <1>1, SlotCases DEF Filled
<1>3. \A i, j \in 1 .. k : f[i] = f[j] => i = j
  <2> SUFFICES ASSUME NEW i \in 1 .. k, NEW j \in 1 .. k, f[i] = f[j] PROVE i = j
    OBVIOUS
  <2>1. i - 1 = j - 1
    BY <1>1, SlotInjective
  <2> QED
    BY <2>1, <1>0
<1>4. \A s \in S : \E j \in 1 .. k : f[j] = s
  <2> SUFFICES ASSUME NEW s \in S PROVE \E j \in 1 .. k : f[j] = s
    OBVIOUS
  <2>1. PICK j \in 0 .. R - 1 : Slot(c, j) = s
    BY SlotOnto
  <2>2. j < k
    BY <2>1 DEF Filled
  <2>3. j + 1 \in 1 .. k /\ (j + 1) - 1 = j
    BY <2>2, <1>0, BoundsAreNat
  <2>4. f[j + 1] = s
    BY <2>1, <2>3
  <2> QED
    BY <2>3, <2>4
<1>5. f \in Bijection(1 .. k, S)
  BY <1>2, <1>3, <1>4, Fun_IsBij
<1>6. ExistsBijection(1 .. k, S)
  BY <1>5 DEF ExistsBijection
<1>7. IsFiniteSet(1 .. k) /\ Cardinality(1 .. k) = k
  BY <1>0, FS_Interval
<1>8. Cardinality(S) = k
  BY <1>6, <1>7, FS_Bijection
<1> QED
  BY <1>8 DEF Frames

LEMMA FilledQueue ==
  ASSUME NEW d \in [Slots -> {"empty", "good", "bad"}], NEW h, NEW c \in Slots,
         NEW k \in 0 .. R, Filled(d, h, c, k)
  PROVE  /\ Queue(d, c) = [i \in 1 .. k |-> d[Slot(c, i - 1)]]
         /\ Queue(d, c) \in Seq({"good", "bad"})
         /\ Len(Queue(d, c)) = k
<1>1. k \in Nat /\ Frames(d) = k
  BY FilledFrames, BoundsAreNat
<1>2. \A i \in 1 .. k : (c + i - 1) % R = Slot(c, i - 1)
  BY <1>1, BoundsAreNat DEF Slot, Slots
<1>3. Queue(d, c) = [i \in 1 .. k |-> d[Slot(c, i - 1)]]
  BY <1>1, <1>2 DEF Queue
<1>4. \A i \in 1 .. k : d[Slot(c, i - 1)] \in {"good", "bad"}
  <2> SUFFICES ASSUME NEW i \in 1 .. k PROVE d[Slot(c, i - 1)] \in {"good", "bad"}
    OBVIOUS
  <2>1. i - 1 \in 0 .. R - 1 /\ i - 1 \in 0 .. R /\ i - 1 < k
    BY <1>1, BoundsAreNat
  <2> QED
    BY <2>1, SlotCases DEF Filled
<1> HIDE DEF Queue
<1>5. Queue(d, c) \in [1 .. k -> {"good", "bad"}]
  BY <1>3, <1>4
<1> QED
  BY <1>1, <1>3, <1>5
------------------------------------------------------------------------------
(* What each kind of step does to the queue *)

USE DEF hwVars, napiVars, ctlVars, zcVars

LEMMA CursorInRing ==
  ASSUME TypeOK PROVE Cursor \in Slots
  BY DEF TypeOK, NapiTypeOK, Cursor

LEMMA MappedQueue ==
  /\ Queue(desc, Cursor) = [i \in 1 .. Waiting |-> desc[(Cursor + i - 1) % R]]
  /\ (Queue(desc, Cursor) = [i \in 1 .. Waiting |-> desc[(Cursor + i - 1) % R]])'
  BY DEF Queue, Frames, Waiting

\* The ring and the cursors stay.
LEMMA KeepsQueue ==
  ASSUME Contiguous, UNCHANGED <<desc, hw>>, Cursor' = Cursor
  PROVE  Contiguous' /\ Queue(desc, Cursor)' = Queue(desc, Cursor)
<1>1. PICK k \in 0 .. R : Filled(desc, hw, Cursor, k)
  BY DEF Contiguous
<1>2. Filled(desc', hw', Cursor', k)
  BY <1>1
<1> QED
  BY <1>2 DEF Contiguous, Queue

\* The ring is set up anew.
LEMMA EmptiesQueue ==
  ASSUME desc' = [i \in Slots |-> "empty"], hw' = 0, Cursor' = 0
  PROVE  Contiguous' /\ Queue(desc, Cursor)' = <<>>
<1>1. 0 \in Slots /\ 0 \in 0 .. R
  BY BoundsAreNat DEF Slots
<1>2. Filled(desc', hw', Cursor', 0)
  <2>1. Slot(0, 0) = 0
    BY <1>1, SlotCases, BoundsAreNat
  <2>2. \A j \in 0 .. R - 1 : Slot(0, j) \in Slots /\ ~(j < 0)
    <3> SUFFICES ASSUME NEW j \in 0 .. R - 1 PROVE Slot(0, j) \in Slots /\ ~(j < 0)
      OBVIOUS
    <3>1. j \in 0 .. R /\ ~(j < 0)
      BY BoundsAreNat
    <3> QED
      BY <1>1, <3>1, SlotCases
  <2> QED
    BY <2>1, <2>2 DEF Filled
<1>3. desc' \in [Slots -> {"empty", "good", "bad"}] /\ Cursor' \in Slots
  BY <1>1
<1>4. Queue(desc', Cursor') \in Seq({"good", "bad"}) /\ Len(Queue(desc', Cursor')) = 0
  BY <1>1, <1>2, <1>3, FilledQueue
<1> QED
  BY <1>1, <1>2, <1>4 DEF Contiguous

\* The MAC completes a descriptor.
LEMMA ReceiveAppends ==
  ASSUME TypeOK, Contiguous, NEW kind \in {"good", "bad"}, HwReceive(kind)
  PROVE  /\ Contiguous'
         /\ Len(Queue(desc, Cursor)) < R
         /\ Queue(desc, Cursor)' = Append(Queue(desc, Cursor), kind)
<1> DEFINE c == Cursor
           q == Queue(desc, c)
<1>1. PICK k \in 0 .. R : Filled(desc, hw, c, k)
  BY DEF Contiguous
<1>2. /\ Cursor' = c /\ c \in Slots /\ hw \in Slots /\ desc[hw] = "empty"
      /\ desc' = [desc EXCEPT ![hw] = kind] /\ hw' = After(hw)
      /\ desc \in [Slots -> {"empty", "good", "bad"}]
  BY CursorInRing DEF HwReceive, Cursor, TypeOK, HwTypeOK
<1> HIDE DEF c
<1>3. k < R
  <2> SUFFICES ASSUME k = R PROVE FALSE
    BY <1>1, BoundsAreNat
  <2>1. PICK j \in 0 .. R - 1 : Slot(c, j) = hw
    BY <1>2, SlotOnto
  <2>2. j < k
    BY BoundsAreNat
  <2> QED
    BY <1>1, <1>2, <2>1, <2>2 DEF Filled
<1>4. k \in 0 .. R - 1 /\ k + 1 \in 0 .. R
  BY <1>3, BoundsAreNat
<1>5. Filled(desc', hw', c, k + 1)
  <2>1. hw' = Slot(c, k + 1) /\ hw = Slot(c, k)
    BY <1>1, <1>2, <1>4, SlotNext DEF Filled
  <2>2. ASSUME NEW j \in 0 .. R - 1
        PROVE  desc'[Slot(c, j)] # "empty" <=> j < k + 1
    <3>1. j \in 0 .. R /\ Slot(c, j) \in Slots
      BY <1>2, BoundsAreNat, SlotCases
    <3>2. CASE j = k
      BY <1>2, <2>1, <3>1, <3>2, <1>4
    <3>3. CASE j # k
      <4>1. Slot(c, j) # hw
        BY <1>2, <1>4, <2>1, <3>3, SlotInjective
      <4>2. desc'[Slot(c, j)] = desc[Slot(c, j)]
        BY <1>2, <3>1, <4>1
      <4>3. j < k <=> j < k + 1
        BY <3>3, <1>4, BoundsAreNat
      <4> QED
        BY <1>1, <4>2, <4>3 DEF Filled
    <3> QED
      BY <3>2, <3>3
  <2> QED
    BY <2>1, <2>2 DEF Filled
<1>6. desc' \in [Slots -> {"empty", "good", "bad"}]
  BY <1>2
<1>7. /\ q = [i \in 1 .. k |-> desc[Slot(c, i - 1)]]
      /\ q \in Seq({"good", "bad"}) /\ Len(q) = k
  BY <1>1, <1>2, FilledQueue
<1>8. /\ Queue(desc', c) = [i \in 1 .. k + 1 |-> desc'[Slot(c, i - 1)]]
      /\ Queue(desc', c) \in Seq({"good", "bad"}) /\ Len(Queue(desc', c)) = k + 1
  <2> DEFINE d == desc'
             h == hw'
             n == k + 1
  <2>1. d \in [Slots -> {"empty", "good", "bad"}] /\ c \in Slots /\ n \in 0 .. R
        /\ Filled(d, h, c, n)
    BY <1>2, <1>4, <1>5, <1>6
  <2> HIDE DEF d, h, n
  <2>2. /\ Queue(d, c) = [i \in 1 .. n |-> d[Slot(c, i - 1)]]
        /\ Queue(d, c) \in Seq({"good", "bad"}) /\ Len(Queue(d, c)) = n
    BY <2>1, FilledQueue
  <2> QED
    BY <2>2 DEF d, n
<1>9. \A i \in 1 .. k + 1 : Queue(desc', c)[i] = Append(q, kind)[i]
  <2> SUFFICES ASSUME NEW i \in 1 .. k + 1 PROVE Queue(desc', c)[i] = Append(q, kind)[i]
    OBVIOUS
  <2>0. i - 1 \in 0 .. R - 1 /\ i - 1 \in 0 .. R
    BY <1>4, BoundsAreNat
  <2>1. Queue(desc', c)[i] = desc'[Slot(c, i - 1)] /\ Slot(c, i - 1) \in Slots
    BY <1>2, <1>8, <2>0, SlotCases
  <2>2. CASE i = k + 1
    <3>1. i - 1 = k /\ hw = Slot(c, k)
      BY <1>1, <1>4, <2>2 DEF Filled
    <3> QED
      BY <1>2, <1>7, <2>1, <2>2, <3>1
  <2>3. CASE i # k + 1
    <3>1. i \in 1 .. k /\ i - 1 # k
      BY <2>3, <1>4
    <3>2. Slot(c, i - 1) # hw
      BY <1>1, <1>2, <1>4, <2>0, <3>1, SlotInjective DEF Filled
    <3>3. desc'[Slot(c, i - 1)] = desc[Slot(c, i - 1)]
      BY <1>2, <2>1, <3>2
    <3> QED
      BY <1>7, <2>1, <3>1, <3>3
  <2> QED
    BY <2>2, <2>3
<1>10. Queue(desc', c) = Append(q, kind)
  <2> HIDE DEF q
  <2>1. k \in Nat /\ q \in Seq({"good", "bad"}) /\ Len(q) = k
    BY <1>4, <1>7, BoundsAreNat
  <2>2. Append(q, kind) \in Seq({"good", "bad"}) /\ Len(Append(q, kind)) = k + 1
    BY <2>1, AppendProperties
  <2> QED
    BY <1>8, <1>9, <2>2, SeqEqual
<1>11. Queue(desc, Cursor)' = Queue(desc', c)
  BY <1>2 DEF Queue, c
<1> QED
  BY <1>2, <1>3, <1>4, <1>5, <1>7, <1>10, <1>11, BoundsAreNat DEF Contiguous, c

\* The driver handles the frame at its cursor, announced or not.
LEMMA HandleDequeues ==
  ASSUME TypeOK, Contiguous, HandleFrame
  PROVE  /\ Contiguous'
         /\ Queue(desc, Cursor) # <<>>
         /\ Head(Queue(desc, Cursor)) = desc[bdp]
         /\ Queue(desc, Cursor)' = Tail(Queue(desc, Cursor))
<1> DEFINE q == Queue(desc, bdp)
           d == desc'
           b == After(bdp)
<1>1. /\ Cursor = bdp /\ Cursor' = b /\ bdp \in Slots /\ b \in Slots
      /\ desc[bdp] # "empty" /\ d = [desc EXCEPT ![bdp] = "empty"] /\ hw' = hw
      /\ desc \in [Slots -> {"empty", "good", "bad"}]
      /\ d \in [Slots -> {"empty", "good", "bad"}]
  BY AfterInRing DEF HandleFrame, AfterFrame, Cursor, TypeOK, HwTypeOK, NapiTypeOK
<1>2. PICK k \in 0 .. R : Filled(desc, hw, bdp, k)
  BY <1>1 DEF Contiguous
<1> HIDE DEF d, b
<1>3. 0 \in 0 .. R - 1 /\ 0 \in 0 .. R /\ Slot(bdp, 0) = bdp
  BY <1>1, BoundsAreNat, SlotCases DEF Slots
<1>4. k > 0 /\ k - 1 \in 0 .. R - 1 /\ k - 1 \in 0 .. R /\ (k - 1) + 1 = k
  BY <1>1, <1>2, <1>3, BoundsAreNat DEF Filled
<1>5. Filled(d, hw, b, k - 1)
  <2>1. hw = Slot(b, k - 1)
    BY <1>1, <1>2, <1>4, SlotNext DEF Filled, b
  <2>2. ASSUME NEW j \in 0 .. R - 1
        PROVE  d[Slot(b, j)] # "empty" <=> j < k - 1
    <3>1. j \in 0 .. R /\ j + 1 \in 0 .. R
      BY BoundsAreNat
    <3>2. Slot(b, j) = Slot(bdp, j + 1) /\ Slot(b, j) \in Slots
      BY <1>1, <3>1, SlotNext, SlotCases DEF b
    <3>3. CASE j + 1 \in 0 .. R - 1
      <4>1. Slot(bdp, j + 1) # bdp
        BY <1>1, <1>3, <3>3, SlotInjective
      <4>2. d[Slot(b, j)] = desc[Slot(bdp, j + 1)]
        BY <1>1, <3>2, <4>1
      <4>3. desc[Slot(bdp, j + 1)] # "empty" <=> j + 1 < k
        BY <1>2, <3>3 DEF Filled
      <4> QED
        BY <1>4, <4>2, <4>3, BoundsAreNat
    <3>4. CASE j + 1 \notin 0 .. R - 1
      <4>1. j + 1 = R
        BY <3>1, <3>4, BoundsAreNat
      <4>2. Slot(b, j) = bdp
        <5>1. R \in 0 .. R /\ Slot(b, j) = Slot(bdp, R)
          BY <3>2, <4>1, BoundsAreNat
        <5>2. Slot(bdp, R) = IF bdp + R < R THEN bdp + R ELSE bdp + R - R
          BY <1>1, <5>1, SlotCases
        <5> QED
          BY <1>1, <5>1, <5>2, BoundsAreNat DEF Slots
      <4>3. d[bdp] = "empty"
        BY <1>1
      <4>4. ~(j < k - 1)
        BY <1>4, <4>1, BoundsAreNat
      <4> QED
        BY <4>2, <4>3, <4>4
    <3> QED
      BY <3>3, <3>4
  <2> QED
    BY <2>1, <2>2 DEF Filled
<1>6. /\ q = [i \in 1 .. k |-> desc[Slot(bdp, i - 1)]]
      /\ q \in Seq({"good", "bad"}) /\ Len(q) = k
  BY <1>1, <1>2, FilledQueue
<1>7. /\ Queue(d, b) = [i \in 1 .. k - 1 |-> d[Slot(b, i - 1)]]
      /\ Queue(d, b) \in Seq({"good", "bad"}) /\ Len(Queue(d, b)) = k - 1
  <2> DEFINE n == k - 1
             h == hw
  <2>1. /\ n \in 0 .. R /\ Filled(d, h, b, n) /\ b \in Slots
        /\ d \in [Slots -> {"empty", "good", "bad"}]
    BY <1>1, <1>4, <1>5
  <2> HIDE DEF n, h
  <2>2. /\ Queue(d, b) = [i \in 1 .. n |-> d[Slot(b, i - 1)]]
        /\ Queue(d, b) \in Seq({"good", "bad"}) /\ Len(Queue(d, b)) = n
    BY <2>1, FilledQueue
  <2> QED
    BY <2>2 DEF n
<1>8. q # <<>> /\ Head(q) = desc[bdp]
  <2>1. 1 \in 1 .. k /\ q[1] = desc[Slot(bdp, 0)]
    BY <1>4, <1>6, BoundsAreNat
  <2> HIDE DEF q
  <2> QED
    BY <1>3, <1>4, <1>6, <2>1
<1>9. Queue(d, b) = Tail(q)
  <2>1. /\ Tail(q) \in Seq({"good", "bad"}) /\ Len(Tail(q)) = k - 1
        /\ \A i \in 1 .. k - 1 : Tail(q)[i] = q[i + 1]
    <3> HIDE DEF q
    <3>1. q \in Seq({"good", "bad"}) /\ q # <<>> /\ Len(q) = k
      BY <1>6, <1>8
    <3>2. /\ Tail(q) \in Seq({"good", "bad"}) /\ Len(Tail(q)) = Len(q) - 1
          /\ \A i \in 1 .. Len(Tail(q)) : Tail(q)[i] = q[i + 1]
      BY <3>1, HeadTailProperties
    <3> QED
      BY <3>1, <3>2
  <2>2. ASSUME NEW i \in 1 .. k - 1 PROVE Queue(d, b)[i] = Tail(q)[i]
    <3>1. i \in 0 .. R - 1 /\ i - 1 \in 0 .. R - 1 /\ (i - 1) + 1 = i /\ i + 1 \in 1 .. k
      BY <1>4, BoundsAreNat
    <3>2. (i + 1) - 1 = i /\ i \in 0 .. R
      BY <3>1, BoundsAreNat
    <3>3. Queue(d, b)[i] = d[Slot(b, i - 1)] /\ Slot(b, i - 1) = Slot(bdp, i)
      BY <1>1, <1>7, <3>1, SlotNext DEF b
    <3>4. Slot(bdp, i) \in Slots /\ Slot(bdp, i) # bdp
      <4>1. i # 0
        BY <1>4, BoundsAreNat
      <4> QED
        BY <1>1, <1>3, <3>1, <3>2, <4>1, SlotCases, SlotInjective
    <3>5. d[Slot(bdp, i)] = desc[Slot(bdp, i)]
      BY <1>1, <3>4
    <3>6. q[i + 1] = desc[Slot(bdp, i)]
      BY <1>6, <3>1, <3>2
    <3> QED
      BY <2>1, <3>3, <3>5, <3>6
  <2> HIDE DEF q
  <2> QED
    BY <1>7, <2>1, <2>2, SeqEqual
<1>10. Queue(desc, Cursor)' = Queue(d, b) /\ Queue(desc, Cursor) = q
  BY <1>1 DEF d
<1> QED
  BY <1>1, <1>4, <1>5, <1>8, <1>9, <1>10 DEF Contiguous, d
------------------------------------------------------------------------------
(* The simulation, one lemma per kind of step *)

\* What a step of the driver does to the channel.
Simulates ==
  /\ Contiguous'
  /\ \/ \E kind \in {"good", "bad"} :
          /\ Len(Queue(desc, Cursor)) < R /\ count' = count
          /\ Queue(desc, Cursor)' = Append(Queue(desc, Cursor), kind)
     \/ /\ Queue(desc, Cursor) # <<>> /\ Queue(desc, Cursor)' = Tail(Queue(desc, Cursor))
        /\ \/ count' = count
           \/ Head(Queue(desc, Cursor)) = "good" /\ count' = count + 1
     \/ count > 0 /\ count' = count - 1 /\ Queue(desc, Cursor)' = Queue(desc, Cursor)
     \/ Queue(desc, Cursor)' = <<>> /\ count' = count
     \/ count' = 0 /\ Queue(desc, Cursor)' = Queue(desc, Cursor)
     \/ count' = count /\ Queue(desc, Cursor)' = Queue(desc, Cursor)

LEMMA SimulateReceive ==
  ASSUME TypeOK, Contiguous, NEW kind \in {"good", "bad"}, HwReceive(kind) PROVE Simulates
<1>1. count' = count
  BY DEF HwReceive
<1> QED
  BY <1>1, ReceiveAppends DEF Simulates

LEMMA SimulateHandle ==
  ASSUME TypeOK, Contiguous, HandleFrame PROVE Simulates
<1>1. count' = count \/ (desc[bdp] = "good" /\ count' = count + 1)
  BY DEF HandleFrame, Announced
<1> QED
  BY <1>1, HandleDequeues DEF Simulates

\* A restart of the MAC, by a worker or by fec_enet_open, and fec_stop.
LEMMA SimulateRestart ==
  ASSUME IInv, Contiguous, Alive,
         (\E w \in Workers : NapiDisabled(w)) \/ OpenBegin \/ CloseFinish
  PROVE  Simulates
<1>1. CASE \E w \in Workers : NapiDisabled(w)
  <2>1. PICK w \in Workers : NapiDisabled(w)
    BY <1>1
  <2>2. CASE worker[w] = "stop"
    <3>1. UNCHANGED <<desc, hw>> /\ Cursor' = Cursor /\ count' = count
      BY <2>1, <2>2 DEF NapiDisabled, Stop, Cursor
    <3> QED
      BY <3>1, KeepsQueue DEF Simulates
  <2>3. CASE worker[w] # "stop"
    <3>1. desc' = [i \in Slots |-> "empty"] /\ hw' = 0 /\ Cursor' = 0 /\ count' = count
      BY <2>1, <2>3 DEF NapiDisabled, Restart, Cursor
    <3> QED
      BY <3>1, EmptiesQueue DEF Simulates
  <2> QED
    BY <2>2, <2>3
<1>2. CASE OpenBegin
  <2>1. desc' = [i \in Slots |-> "empty"] /\ hw' = 0 /\ Cursor' = 0 /\ count' = count
    BY <1>2 DEF OpenBegin, Restart, Cursor, Alive, IInv, RingLives, NapiHasRing
  <2> QED
    BY <2>1, EmptiesQueue DEF Simulates
<1>3. CASE CloseFinish
  <2>1. UNCHANGED <<desc, hw>> /\ Cursor' = Cursor /\ count' = count
    BY <1>3 DEF CloseFinish, Stop, Cursor
  <2> QED
    BY <2>1, KeepsQueue DEF Simulates
<1> QED
  BY <1>1, <1>2, <1>3

\* NAPI moves on without touching the ring; the loop's cursor becomes the
\* driver's, and the driver's the loop's.
LEMMA NapiKeepsCursor ==
  ASSUME Interrupt \/ PollStep \/ CompleteInterrupted
  PROVE  UNCHANGED <<desc, hw, count, mac>> /\ Cursor' = Cursor
<1>1. CASE Interrupt
  BY <1>1 DEF Interrupt, Handler, MaySchedule, Cursor
<1>2. CASE PollStart \/ LoopEnd
  BY <1>2 DEF PollStart, LoopEnd, Cursor
<1>3. CASE ClearRx \/ Complete \/ PollAgain
  BY <1>3 DEF ClearRx, Complete, PollAgain, Completed, Cursor
<1>4. CASE CompleteInterrupted
  BY <1>4 DEF CompleteInterrupted, Completed, Handler, Cursor
<1> QED
  BY <1>1, <1>2, <1>3, <1>4 DEF PollStep

LEMMA SimulateNapi ==
  ASSUME IInv, Contiguous, Alive,
         \/ Interrupt \/ PollStep \/ CompleteInterrupted \/ OpenFinish
         \/ \E w \in Workers : NapiEnabled(w)
  PROVE  Simulates
<1>1. UNCHANGED <<desc, hw>> /\ Cursor' = Cursor /\ count' = count
  <2>1. CASE Interrupt \/ PollStep \/ CompleteInterrupted
    BY <2>1, NapiKeepsCursor
  <2>2. CASE OpenFinish
    BY <2>2 DEF OpenFinish, Cursor, Alive, IInv, OpeningAlone
  <2>3. CASE \E w \in Workers : NapiEnabled(w)
    BY <2>3 DEF NapiEnabled, Cursor, IInv, OneOwner
  <2> QED
    BY <2>1, <2>2, <2>3
<1> QED
  BY <1>1, KeepsQueue DEF Simulates

\* Workers that begin, and callers: only the counter may move.
LEMMA SimulateCallers ==
  ASSUME IInv, Contiguous,
         \/ TimeoutWorkBegin \/ PhyStop \/ TxTimeout
         \/ \E op \in {"restart", "stop"} : AdjustLinkBegin(op)
         \/ OpenFails \/ ClocksOff \/ CloseBegin \/ ZcIoctl
         \/ UNCHANGED vars
  PROVE  Simulates
<1>1. UNCHANGED <<desc, hw>> /\ Cursor' = Cursor
  BY DEF TimeoutWorkBegin, PhyStop, TxTimeout, AdjustLinkBegin, OpenFails, ClocksOff,
         CloseBegin, ZcIoctl, SetupZc, SetupMisaligned, SetupOff, WaitBegin, WaitReturn, WaitSignalled, vars, Cursor
<1>2. \/ count' = count \/ count' = 0
      \/ count > 0 /\ count' = count - 1
  BY DEF TimeoutWorkBegin, PhyStop, TxTimeout, AdjustLinkBegin, OpenFails, ClocksOff,
         CloseBegin, ZcIoctl, SetupZc, SetupMisaligned, SetupOff, WaitBegin, WaitReturn, WaitSignalled, vars
<1> QED
  BY <1>1, <1>2, KeepsQueue DEF Simulates

LEMMA NextSimulates ==
  IInv /\ Contiguous /\ [Next]_vars => Simulates
<1> SUFFICES ASSUME IInv, Contiguous, [Next]_vars PROVE Simulates
  OBVIOUS
<1>1. TypeOK
  BY DEF IInv
<1>2. CASE Next
  BY <1>1, <1>2, SimulateReceive, SimulateHandle, SimulateRestart, SimulateNapi,
     SimulateCallers DEF Next, Kernel, Outside, Callers, ZcIoctl
<1>3. CASE UNCHANGED vars
  BY <1>3, SimulateCallers
<1> QED
  BY <1>2, <1>3

LEMMA InitContiguous ==
  Init => Contiguous /\ Queue(desc, Cursor) = <<>>
<1> SUFFICES ASSUME Init PROVE Contiguous /\ Queue(desc, Cursor) = <<>>
  OBVIOUS
<1>1. 0 \in Slots /\ 0 \in 0 .. R /\ Cursor = 0 /\ hw = 0 /\ desc = [i \in Slots |-> "empty"]
  BY BoundsAreNat DEF Init, Cursor, Slots
<1>2. Filled(desc, hw, 0, 0)
  <2>1. Slot(0, 0) = 0
    BY <1>1, SlotCases, BoundsAreNat
  <2>2. \A j \in 0 .. R - 1 : Slot(0, j) \in Slots /\ ~(j < 0)
    BY <1>1, SlotCases, BoundsAreNat
  <2> QED
    BY <1>1, <2>1, <2>2 DEF Filled
<1>3. desc \in [Slots -> {"empty", "good", "bad"}]
  BY <1>1
<1>4. Queue(desc, 0) \in Seq({"good", "bad"}) /\ Len(Queue(desc, 0)) = 0
  BY <1>1, <1>2, <1>3, FilledQueue
<1> QED
  BY <1>1, <1>2, <1>4 DEF Contiguous

\* The frames lie contiguously in the ring between the two cursors, for every ring size:
\* the order of the ring is the order of arrival.
LEMMA AlwaysContiguous ==
  Spec => []Contiguous
<1>1. Init => Contiguous
  BY InitContiguous
<1>2. IInv /\ Contiguous /\ [Next]_vars => Contiguous'
  BY NextSimulates DEF Simulates
<1> QED
  BY <1>1, <1>2, AlwaysIInv, PTL DEF Spec

\* The ring, its two cursors, the restarts and the counter implement the FIFO channel, for
\* every ring size, budget and order of ioctls: frames are handled in the order the MAC
\* completed them and each once, a bad frame is never announced, and an announcement lets
\* one wait return (fec_enet_rx_queue, fec_enet_ioctl).
THEOREM RingImplementsChannel ==
  Spec => ImplementsChannel
<1>1. Init => Channel!ChannelInit
  <2> SUFFICES ASSUME Init PROVE Channel!ChannelInit
    OBVIOUS
  <2>1. Queue(desc, Cursor) = <<>> /\ count = 0
    BY InitContiguous DEF Init
  <2> QED
    BY <2>1, MappedQueue DEF Channel!ChannelInit
<1>2. IInv /\ Contiguous /\ [Next]_vars
        => [Channel!ChannelNext]_<<[i \in 1 .. Waiting |-> desc[(Cursor + i - 1) % R]], count>>
  <2> SUFFICES ASSUME IInv, Contiguous, [Next]_vars
               PROVE  [Channel!ChannelNext]_<<[i \in 1 .. Waiting |-> desc[(Cursor + i - 1) % R]], count>>
    OBVIOUS
  <2>1. Simulates
    BY NextSimulates
  <2> QED
    BY <2>1, MappedQueue DEF Simulates, Channel!ChannelNext, Channel!Receive, Channel!Kinds,
       Channel!Handle, Channel!Take, Channel!Flush, Channel!Reset
<1> QED
  BY <1>1, <1>2, AlwaysIInv, AlwaysContiguous, PTL
     DEF Spec, ImplementsChannel, Channel!ChannelSpec

------------------------------------------------------------------------------
(* The receiver on its driver.                                             *)
\* Who holds RTNL: the sleeping wait call, or the interface going up or down.
LockHeld ==
  /\ rtnl = "wait" <=> pc = "asleep"
  /\ rtnl \in {"closing", "draining"} <=> pc = "closing"
  /\ pc = "closing" => ~up
  /\ rtnl \in {"opening", "unwinding"} => pc \in {"opening", "done"}
  /\ rtnl # "crashed"

\* Before eth0 goes up nothing is announced, and before the ioctl nothing is
\* configured.
NotYetUp ==
  /\ pc \in {"start", "alloc", "setup", "ifup", "opening"} =>
       ~up /\ count = 0 /\ ringIdx = 0
  /\ pc \in {"start", "alloc", "setup"} => ~zc.enabled
  /\ pc = "setup" => allocated
  /\ pc \in {"ifup", "opening"} => zc.enabled

\* Once cleanup took eth0 down it stays down, until somebody sets it up.
StaysDown ==
  pc \in {"free", "done"} /\ atExit = "down"
    => ~up /\ rtnl \notin {"opening", "unwinding"}

\* What the driver was told lasts, and so does the buffer until the exit.
Configured ==
  /\ zc.enabled => zc.ready /\ zc.addr = Buffer /\ (allocated \/ pc = "done")
  /\ ring \in Addrs => zc.enabled
  /\ ring # "none" => zc.enabled \/ pc = "done"

\* The watchdog has exited, or never ran, before main() goes on after the join.
WatchdogOver ==
  /\ pc \in {"ifdown", "closing", "free", "done"} => watchdog # "running"
  /\ pc = "done" => screen

NoFault == napi # "crashed"

SysInv ==
  LockHeld /\ NotYetUp /\ StaysDown /\ Configured /\ WatchdogOver /\ NoFault

SysIInv == IInv /\ AppTypeOK /\ SysInv /\ InStep

------------------------------------------------------------------------------
(* Arithmetic of the ring *)

LEMMA DivFacts ==
  ASSUME NEW a \in Nat
  PROVE  a = R * (a \div R) + (a % R) /\ a % R \in 0 .. R - 1 /\ a \div R \in Nat
  BY BoundsAreNat

LEMMA ModUnique ==
  ASSUME NEW q \in Nat, NEW r \in 0 .. R - 1
  PROVE  (R * q + r) % R = r
  BY BoundsAreNat

LEMMA ModAdd ==
  ASSUME NEW a \in Nat, NEW k \in Nat
  PROVE  ((a % R) + k) % R = (a + k) % R
<1> DEFINE c == a % R
           b == c + k
           p == a \div R
           q == b \div R
           r == b % R
<1>1. a = R * p + c /\ c \in 0 .. R - 1 /\ p \in Nat
  BY DivFacts
<1>2. b \in Nat
  BY <1>1, BoundsAreNat
<1>3. b = R * q + r /\ r \in 0 .. R - 1 /\ q \in Nat
  <2> HIDE DEF b
  <2> QED
    BY <1>2, DivFacts
<1> HIDE DEF c, p, q, r
<1>4. a + k = R * (p + q) + r
  <2>1. R * (p + q) = R * p + R * q /\ R * p \in Nat /\ R * q \in Nat
    BY <1>1, <1>3, BoundsAreNat
  <2> HIDE DEF b
  <2>2. a + k = R * p + b
    BY <1>1, <2>1, BoundsAreNat DEF b
  <2> QED
    BY <1>3, <2>1, <2>2, BoundsAreNat
<1>5. (R * (p + q) + r) % R = r
  <2>1. p + q \in Nat
    BY <1>1, <1>3
  <2> DEFINE s == p + q
  <2> HIDE DEF s
  <2>2. s \in Nat
    BY <2>1 DEF s
  <2>3. (R * s + r) % R = r
    BY <1>3, <2>2, ModUnique
  <2> QED
    BY <2>3 DEF s
<1> QED
  BY <1>4, <1>5 DEF r, c

LEMMA ZeroMod == 0 % R = 0
  BY BoundsAreNat

------------------------------------------------------------------------------
(* The driver under the receiver *)

USE DEF appVars, hwVars, napiVars, ctlVars, zcVars

LEMMA ReceiverFacts ==
  /\ Addrs = {Buffer} /\ Buffer # "none" /\ Buffer # "skb"
  BY ReceiverAssumption, FecAssumption

\* Every step of the system is one of the driver, or leaves its state alone.
LEMMA DriverSteps ==
  ASSUME [SysNext]_sysVars PROVE [Next]_vars
<1>1. CASE \/ AllocBuffer \/ FinishSlot \/ IfDownNothing \/ IfDownFails \/ Join
           \/ LoopStay \/ LoopStop \/ Release \/ SetupSocketFails \/ SockFails
           \/ StartWatchdog \/ WorkspaceFails
  BY <1>1 DEF Goto, AllocBuffer, FinishSlot, IfDownNothing, IfDownFails, Join,
     LoopStay, LoopStop, Release, SetupSocketFails, SockFails, StartWatchdog,
     WorkspaceFails
<1>2. CASE Alive /\ \/ ConfigureZc \/ IfUp \/ IfUpDone \/ IfUpFails
                    \/ SleepForFrame \/ ReadSlot \/ IfDownBegin
  <2>1. ConfigureZc => \E a \in Addrs, large \in BOOLEAN : SetupZc(a, large)
    BY ReceiverFacts DEF ConfigureZc
  <2> QED
    BY <1>2, <2>1 DEF IfUp, IfUpDone, IfUpFails, Goto, SleepForFrame, ReadSlot,
       IfDownBegin, Next, Callers
<1>3. CASE Alive /\ (IfDownEnd \/ Driver)
  <2>1. CASE IfDownEnd
    BY <1>3, <2>1 DEF IfDownEnd, Next, Kernel
  <2>2. CASE Driver
    BY <1>3, <2>2 DEF Driver, DriverHandles, DriverRestarts, DriverElse, Next, Kernel,
       Outside, Workers
  <2> QED
    BY <1>3, <2>1, <2>2
<1>4. CASE WatchdogRound \/ WatchdogExit \/ FiveSecondsPass
  BY <1>4 DEF WatchdogRound, WatchdogExit, FiveSecondsPass
<1>5. ASSUME Alive, NEW kind \in {"good", "bad"}, DmaWrite(kind)
      PROVE  [Next]_vars
  BY <1>5 DEF DmaWrite, Next, Outside
<1>6. CASE Alive /\ (Sigint \/ Reopen)
  BY <1>6 DEF Sigint, Reopen, Next, Callers
<1>7. CASE UNCHANGED sysVars
  BY <1>7 DEF sysVars
<1> QED
  BY <1>1, <1>2, <1>3, <1>4, <1>5, <1>6, <1>7 DEF SysNext, Main

------------------------------------------------------------------------------
(* The steps of the system *)

\* What the main thread relies on while the driver, the watchdog and Ctrl+C run.
LEMMA SysInvNext ==
  ASSUME IInv, SysInv, [SysNext]_sysVars PROVE SysInv'
<1>1. CASE Alive /\ WorkspaceFails
  BY <1>1 DEF WorkspaceFails, Goto, vars, SysInv, LockHeld, NotYetUp, StaysDown, Configured,
     WatchdogOver, NoFault
<1>2. CASE Alive /\ StartWatchdog
  BY <1>2 DEF StartWatchdog, vars, SysInv, LockHeld, NotYetUp, StaysDown, Configured, WatchdogOver, NoFault
<1>3. CASE Alive /\ AllocBuffer
  BY <1>3 DEF AllocBuffer, vars, SysInv, LockHeld, NotYetUp, StaysDown, Configured, WatchdogOver, NoFault
<1>4. CASE Alive /\ ConfigureZc
  BY <1>4 DEF ConfigureZc, SetupZc, SysInv, LockHeld, NotYetUp, StaysDown, Configured, WatchdogOver,
     NoFault
<1>5. CASE Alive /\ SetupSocketFails
  BY <1>5 DEF SetupSocketFails, Goto, vars, SysInv, LockHeld, NotYetUp, StaysDown, Configured,
     WatchdogOver, NoFault
<1>6. CASE Alive /\ IfUp
  BY <1>6 DEF IfUp, OpenBegin, Restart, RingTarget, SysInv, LockHeld, NotYetUp, StaysDown,
     Configured, WatchdogOver, NoFault
<1>7. CASE Alive /\ IfUpFails
  <2>1. CASE Goto("ifup", "loop")
    BY <1>7, <2>1 DEF Goto, vars, SysInv, LockHeld, NotYetUp, StaysDown, Configured,
       WatchdogOver, NoFault
  <2>2. CASE pc = "opening" /\ OpenFails /\ UNCHANGED appVars
    BY <1>7, <2>2, ReceiverFacts DEF OpenFails, SysInv, LockHeld, NotYetUp, StaysDown,
       Configured, WatchdogOver, NoFault
  <2> QED
    BY <1>7, <2>1, <2>2 DEF IfUpFails
<1>8. CASE Alive /\ LoopStop
  BY <1>8 DEF LoopStop, Goto, vars, SysInv, LockHeld, NotYetUp, StaysDown, Configured, WatchdogOver,
     NoFault
<1>9. CASE Alive /\ LoopStay
  BY <1>9 DEF LoopStay, Goto, vars, SysInv, LockHeld, NotYetUp, StaysDown, Configured, WatchdogOver,
     NoFault
<1>10. CASE Alive /\ SockFails
  BY <1>10 DEF SockFails, Goto, vars, SysInv, LockHeld, NotYetUp, StaysDown, Configured, WatchdogOver,
     NoFault
<1>11. CASE Alive /\ SleepForFrame
  BY <1>11 DEF SleepForFrame, WaitBegin, SysInv, LockHeld, NotYetUp, StaysDown, Configured,
     WatchdogOver, NoFault
<1>12. CASE Alive /\ ReadSlot
  BY <1>12 DEF ReadSlot, WaitReturn, SysInv, LockHeld, NotYetUp, StaysDown, Configured, WatchdogOver,
     NoFault
<1>13. CASE Alive /\ FinishSlot
  BY <1>13 DEF FinishSlot, vars, Advance, SysInv, LockHeld, NotYetUp, StaysDown, Configured,
     WatchdogOver, NoFault
<1>14. CASE Alive /\ Join
  BY <1>14 DEF Join, Goto, vars, SysInv, LockHeld, NotYetUp, StaysDown, Configured, WatchdogOver, NoFault
<1>15. CASE Alive /\ IfDownBegin
  BY <1>15 DEF IfDownBegin, CloseBegin, SysInv, LockHeld, NotYetUp, StaysDown, Configured,
     WatchdogOver, NoFault
<1>16. CASE Alive /\ IfDownNothing
  BY <1>16 DEF IfDownNothing, Goto, vars, SysInv, LockHeld, NotYetUp, StaysDown, Configured,
     WatchdogOver, NoFault
<1>17. CASE Alive /\ IfDownEnd
  BY <1>17 DEF IfDownEnd, CloseFinish, Stop, SysInv, LockHeld, NotYetUp, StaysDown, Configured,
     WatchdogOver, NoFault
<1>18. CASE Alive /\ Release
  BY <1>18 DEF Release, vars, SysInv, LockHeld, NotYetUp, StaysDown, Configured, WatchdogOver, NoFault
<1>19. CASE Alive /\ DriverHandles
  <2>1. /\ ring # "none" /\ (up \/ pc = "closing")
        /\ pc \notin {"start", "alloc", "setup", "ifup", "opening"}
    BY <1>19 DEF DriverHandles, HandleFrame, IInv, NapiHasRing, RingLives, OpeningAlone,
       SysInv, LockHeld, NotYetUp
  <2>2. NoFault'
    BY <1>19 DEF DriverHandles, HandleFrame, AfterFrame, SysInv, Configured, NoFault
  <2> QED
    BY <1>19, <2>1, <2>2 DEF DriverHandles, HandleFrame, SysInv, LockHeld, NotYetUp, StaysDown,
       Configured, WatchdogOver
<1>20. CASE Alive /\ DriverRestarts
  BY <1>20 DEF DriverRestarts, NapiDisabled, Restart, Stop, SysInv, LockHeld, NotYetUp, StaysDown,
     Configured, WatchdogOver, NoFault
<1>21. CASE Alive /\ WatchdogRound
  BY <1>21 DEF WatchdogRound, vars, PowerWanted, SysInv, LockHeld, NotYetUp, StaysDown, Configured,
     WatchdogOver, NoFault
<1>22. CASE Alive /\ WatchdogExit
  BY <1>22 DEF WatchdogExit, vars, SysInv, LockHeld, NotYetUp, StaysDown, Configured, WatchdogOver, NoFault
<1>23. CASE Alive /\ Sigint
  BY <1>23 DEF Sigint, vars, WaitSignalled, SysInv, LockHeld, NotYetUp, StaysDown, Configured,
     WatchdogOver, NoFault
<1>24. CASE Alive /\ FiveSecondsPass
  BY <1>24 DEF FiveSecondsPass, vars, SysInv, LockHeld, NotYetUp, StaysDown, Configured, WatchdogOver,
     NoFault
<1>25. CASE Alive /\ Reopen
  BY <1>25, ReceiverFacts DEF Reopen, OpenBegin, OpenFinish, OpenFails, ClocksOff,
     Restart, RingTarget, SysInv, LockHeld, NotYetUp, StaysDown, Configured,
     WatchdogOver, NoFault
<1>26. CASE /\ Alive /\ UNCHANGED appVars
            /\ Interrupt \/ PollStep \/ CompleteInterrupted
  <2>1. NoFault'
    BY <1>26 DEF NoFault, Alive, Interrupt, Handler, PollStep, PollStart, LoopEnd,
       ClearRx, Complete, PollAgain, CompleteInterrupted, Completed
  <2>2. UNCHANGED <<ctlVars, zcVars>>
    BY <1>26 DEF Interrupt, PollStep, PollStart, LoopEnd, ClearRx, Complete,
       PollAgain, CompleteInterrupted
  <2> QED
    BY <1>26, <2>1, <2>2 DEF SysInv, LockHeld, NotYetUp, StaysDown, Configured,
       WatchdogOver
<1>27. CASE Alive /\ IfUpDone
  BY <1>27 DEF IfUpDone, OpenFinish, ClocksOff, SysInv, LockHeld, NotYetUp, StaysDown,
     Configured, WatchdogOver, NoFault
<1>28. CASE Alive /\ IfDownFails
  BY <1>28 DEF IfDownFails, vars, SysInv, LockHeld, NotYetUp, StaysDown, Configured,
     WatchdogOver, NoFault
<1>29. CASE Alive /\ PhyStop /\ UNCHANGED appVars
  BY <1>29 DEF PhyStop, SysInv, LockHeld, NotYetUp, StaysDown, Configured, WatchdogOver, NoFault
<1>30. CASE Alive /\ NapiEnabled("phy") /\ UNCHANGED appVars
  BY <1>30 DEF NapiEnabled, SysInv, LockHeld, NotYetUp, StaysDown, Configured, WatchdogOver, NoFault
<1>31. ASSUME NEW op \in {"restart", "stop"}, AdjustLinkBegin(op), UNCHANGED appVars
      PROVE  SysInv'
  BY <1>31 DEF AdjustLinkBegin, SysInv, LockHeld, NotYetUp, StaysDown, Configured, WatchdogOver, NoFault
<1>32. ASSUME NEW kind \in {"good", "bad"}, DmaWrite(kind)
      PROVE  SysInv'
  BY <1>32 DEF DmaWrite, HwReceive, SysInv, LockHeld, NotYetUp, StaysDown, Configured, WatchdogOver,
     NoFault
<1>33. CASE UNCHANGED sysVars
  BY <1>33 DEF sysVars, vars, SysInv, LockHeld, NotYetUp, StaysDown, Configured, WatchdogOver, NoFault
<1> QED
  BY <1>1, <1>2, <1>3, <1>4, <1>5, <1>6, <1>7, <1>8, <1>9, <1>10, <1>11, <1>12, <1>13,
     <1>14, <1>15, <1>16, <1>17, <1>18, <1>19, <1>20, <1>21, <1>22, <1>23, <1>24, <1>25,
     <1>26, <1>27, <1>28, <1>29, <1>30, <1>31, <1>32, <1>33
  DEF SysNext, Main, Driver, DriverElse

LEMMA AppTypeNext ==
  ASSUME IInv, AppTypeOK, [SysNext]_sysVars PROVE AppTypeOK'
<1>1. CASE Alive /\ WorkspaceFails
  BY <1>1 DEF WorkspaceFails, Goto, vars, AppTypeOK
<1>2. CASE Alive /\ StartWatchdog
  BY <1>2 DEF StartWatchdog, vars, AppTypeOK
<1>3. CASE Alive /\ AllocBuffer
  BY <1>3 DEF AllocBuffer, vars, AppTypeOK
<1>4. CASE Alive /\ ConfigureZc
  BY <1>4 DEF ConfigureZc, SetupZc, AppTypeOK
<1>5. CASE Alive /\ SetupSocketFails
  BY <1>5 DEF SetupSocketFails, Goto, vars, AppTypeOK
<1>6. CASE Alive /\ IfUp
  BY <1>6 DEF IfUp, AppTypeOK
<1>7. CASE Alive /\ IfUpFails
  BY <1>7 DEF IfUpFails, Goto, vars, AppTypeOK
<1>8. CASE Alive /\ LoopStop
  BY <1>8 DEF LoopStop, Goto, vars, AppTypeOK
<1>9. CASE Alive /\ LoopStay
  BY <1>9 DEF LoopStay, Goto, vars, AppTypeOK
<1>10. CASE Alive /\ SockFails
  BY <1>10 DEF SockFails, Goto, vars, AppTypeOK
<1>11. CASE Alive /\ SleepForFrame
  BY <1>11 DEF SleepForFrame, WaitBegin, AppTypeOK
<1>12. CASE Alive /\ ReadSlot
  BY <1>12 DEF ReadSlot, WaitReturn, AppTypeOK
<1>13. CASE Alive /\ FinishSlot
  <2>1. 0 \in 0 .. MaxFrames /\ After(ringIdx) \in Slots
    BY BoundsAreNat, AfterInRing DEF AppTypeOK
  <2>2. slot' \in [Slots -> 0 .. MaxFrames] /\ ringIdx' \in Slots
    BY <1>13, <2>1 DEF FinishSlot, Advance, AppTypeOK
  <2> QED
    BY <1>13, <2>2 DEF FinishSlot, AppTypeOK
<1>14. CASE Alive /\ Join
  BY <1>14 DEF Join, Goto, vars, AppTypeOK
<1>15. CASE Alive /\ IfDownBegin
  BY <1>15 DEF IfDownBegin, CloseBegin, AppTypeOK
<1>16. CASE Alive /\ IfDownNothing
  BY <1>16 DEF IfDownNothing, Goto, vars, AppTypeOK
<1>17. CASE Alive /\ IfDownEnd
  BY <1>17 DEF IfDownEnd, CloseFinish, Stop, AppTypeOK
<1>18. CASE Alive /\ Release
  BY <1>18 DEF Release, vars, AppTypeOK
<1>19. CASE Alive /\ DriverHandles
  BY <1>19 DEF DriverHandles, HandleFrame, AppTypeOK
<1>20. CASE Alive /\ DriverRestarts
  BY <1>20 DEF DriverRestarts, NapiDisabled, Restart, Stop, AppTypeOK
<1>21. CASE Alive /\ WatchdogRound
  BY <1>21 DEF WatchdogRound, vars, PowerWanted, AppTypeOK
<1>22. CASE Alive /\ WatchdogExit
  BY <1>22 DEF WatchdogExit, vars, AppTypeOK
<1>23. CASE Alive /\ Sigint
  BY <1>23 DEF Sigint, vars, WaitSignalled, AppTypeOK
<1>24. CASE Alive /\ FiveSecondsPass
  BY <1>24 DEF FiveSecondsPass, vars, AppTypeOK
<1>25. CASE Alive /\ Reopen
  BY <1>25 DEF Reopen, AppTypeOK
<1>26. CASE /\ Alive /\ UNCHANGED appVars
            /\ Interrupt \/ PollStep \/ CompleteInterrupted
  BY <1>26 DEF AppTypeOK
<1>27. CASE Alive /\ IfUpDone
  <2>1. 0 \in Slots
    BY BoundsAreNat DEF Slots
  <2> QED
    BY <1>27, <2>1 DEF IfUpDone, AppTypeOK
<1>28. CASE Alive /\ IfDownFails
  BY <1>28 DEF IfDownFails, vars, AppTypeOK
<1>29. CASE Alive /\ PhyStop /\ UNCHANGED appVars
  BY <1>29 DEF PhyStop, AppTypeOK
<1>30. CASE Alive /\ NapiEnabled("phy") /\ UNCHANGED appVars
  BY <1>30 DEF NapiEnabled, AppTypeOK
<1>31. ASSUME NEW op \in {"restart", "stop"}, AdjustLinkBegin(op), UNCHANGED appVars
      PROVE  AppTypeOK'
  BY <1>31 DEF AdjustLinkBegin, AppTypeOK
<1>32. ASSUME NEW kind \in {"good", "bad"}, DmaWrite(kind)
      PROVE  AppTypeOK'
  <2>1. frames + 1 \in 0 .. MaxFrames
    BY <1>32, BoundsAreNat DEF DmaWrite, HwReceive, IInv, TypeOK, HwTypeOK
  <2>2. slot' \in [Slots -> 0 .. MaxFrames] /\ overrun' \in BOOLEAN
    BY <1>32, <2>1 DEF DmaWrite, AppTypeOK
  <2> QED
    BY <1>32, <2>2 DEF DmaWrite, AppTypeOK
<1>33. CASE UNCHANGED sysVars
  BY <1>33 DEF sysVars, vars, AppTypeOK
<1> QED
  BY <1>1, <1>2, <1>3, <1>4, <1>5, <1>6, <1>7, <1>8, <1>9, <1>10, <1>11, <1>12, <1>13,
     <1>14, <1>15, <1>16, <1>17, <1>18, <1>19, <1>20, <1>21, <1>22, <1>23, <1>24, <1>25,
     <1>26, <1>27, <1>28, <1>29, <1>30, <1>31, <1>32, <1>33
  DEF SysNext, Main, Driver, DriverElse

\* The index and the cursor move in step, and only by frames announced.
LEMMA InStepNext ==
  ASSUME IInv, AppTypeOK, SysInv, InStep, [SysNext]_sysVars PROVE InStep'
<1>1. CASE Alive /\ WorkspaceFails
  BY <1>1 DEF WorkspaceFails, Goto, vars, InStep, Cursor, Owed
<1>2. CASE Alive /\ StartWatchdog
  BY <1>2 DEF StartWatchdog, vars, InStep, Cursor, Owed
<1>3. CASE Alive /\ AllocBuffer
  BY <1>3 DEF AllocBuffer, vars, InStep, Cursor, Owed
<1>4. CASE Alive /\ ConfigureZc
  <2>1. UNCHANGED <<mac, desync, ringIdx, cur, bdp>> /\ Owed' = Owed /\ Cursor' = Cursor /\ pc # "done"
    BY <1>4 DEF ConfigureZc, SetupZc, SysInv, NotYetUp, StaysDown, Owed, Cursor
  <2> QED
    BY <2>1 DEF InStep
<1>5. CASE Alive /\ SetupSocketFails
  BY <1>5 DEF SetupSocketFails, Goto, vars, InStep, Cursor, Owed
<1>6. CASE Alive /\ IfUp
  <2>1. count' = 0 /\ pc' = "opening" /\ ringIdx' = 0 /\ cur' = 0
    BY <1>6 DEF IfUp, OpenBegin, Restart, SysInv, NotYetUp
  <2>2. Cursor' = 0
    BY <1>6, <2>1 DEF IfUp, OpenBegin, Cursor, Alive, IInv, RingLives, NapiHasRing
  <2>3. (ringIdx' + Owed') % R = 0
    <3>1. ringIdx' + Owed' = 0
      BY <2>1 DEF Owed
    <3> QED
      BY <3>1, ZeroMod
  <2> QED
    BY <2>2, <2>3 DEF InStep
<1>7. CASE Alive /\ IfUpFails
  <2>1. /\ UNCHANGED <<mac, desync, ringIdx, cur, bdp, napi, count>>
        /\ pc # "process" /\ pc' # "process" /\ pc # "done"
    BY <1>7 DEF IfUpFails, Goto, OpenFails, vars
  <2> QED
    BY <2>1 DEF InStep, Cursor, Owed
<1>8. CASE Alive /\ LoopStop
  BY <1>8 DEF LoopStop, Goto, vars, InStep, Cursor, Owed
<1>9. CASE Alive /\ LoopStay
  BY <1>9 DEF LoopStay, Goto, vars, InStep, Cursor, Owed
<1>10. CASE Alive /\ SockFails
  BY <1>10 DEF SockFails, Goto, vars, InStep, Cursor, Owed
<1>11. CASE Alive /\ SleepForFrame
  BY <1>11 DEF SleepForFrame, WaitBegin, InStep, Cursor, Owed
<1>12. CASE Alive /\ ReadSlot
  <2>1. Owed' = Owed
    <3>1. count \in Nat /\ count > 0 /\ count' = count - 1
      BY <1>12 DEF ReadSlot, WaitReturn, IInv, TypeOK, ZcTypeOK
    <3> QED
      BY <1>12, <3>1 DEF ReadSlot, Owed
  <2>2. UNCHANGED <<mac, desync, ringIdx, cur, bdp, napi>> /\ pc # "done"
    BY <1>12 DEF ReadSlot, WaitReturn
  <2> QED
    BY <2>1, <2>2 DEF InStep, Cursor
<1>13. CASE Alive /\ FinishSlot
  <2>0. count \in Nat /\ ringIdx \in Nat /\ ringIdx + 1 \in Nat
    BY BoundsAreNat DEF IInv, TypeOK, ZcTypeOK, AppTypeOK, Slots
  <2>1. /\ count \in Nat /\ ringIdx \in Nat /\ ringIdx + 1 \in Nat
        /\ Owed' = count /\ Owed = count + 1 /\ ringIdx' = (ringIdx + 1) % R
        /\ UNCHANGED <<mac, desync, cur, bdp, napi>> /\ pc # "done"
    <3>1. count' = count /\ pc = "process" /\ pc' = "loop"
      BY <1>13 DEF FinishSlot, vars
    <3>2. Owed' = count /\ Owed = count + 1
      BY <2>0, <3>1 DEF Owed
    <3> QED
      BY <1>13, <2>0, <3>1, <3>2 DEF FinishSlot, vars, Advance, After
  <2> DEFINE i == ringIdx + 1
  <2>2. i \in Nat /\ ((i % R) + count) % R = (i + count) % R /\ i + count = ringIdx + (count + 1)
    <3>1. i \in Nat /\ i + count = ringIdx + (count + 1)
      BY <2>1
    <3> HIDE DEF i
    <3> QED
      BY <2>1, <3>1, ModAdd
  <2>3. (ringIdx' + Owed') % R = (ringIdx + Owed) % R
    BY <2>1, <2>2
  <2> QED
    BY <2>1, <2>3 DEF InStep, Cursor
<1>14. CASE Alive /\ Join
  <2>1. UNCHANGED <<mac, desync, ringIdx, cur, bdp>> /\ Owed' = Owed /\ Cursor' = Cursor /\ pc # "done"
    BY <1>14 DEF Join, Goto, vars, Owed, Cursor
  <2> QED
    BY <2>1 DEF InStep
<1>15. CASE Alive /\ IfDownBegin
  BY <1>15 DEF IfDownBegin, CloseBegin, InStep, Cursor, Owed
<1>16. CASE Alive /\ IfDownNothing
  BY <1>16 DEF IfDownNothing, Goto, vars, InStep, Cursor, Owed
<1>17. CASE Alive /\ IfDownEnd
  BY <1>17 DEF IfDownEnd, CloseFinish, Stop, InStep, Cursor, Owed
<1>18. CASE Alive /\ Release
  BY <1>18 DEF Release, vars, InStep, Cursor, Owed
<1>19. CASE Alive /\ DriverHandles
  <2> SUFFICES ASSUME mac', ~desync', pc' # "done"
               PROVE  (ringIdx' + Owed') % R = Cursor'
    BY DEF InStep
  <2>1. /\ napi = "poll" /\ napi' \in {"poll", "crashed"} /\ UNCHANGED <<pc, ringIdx, mac>>
        /\ ~desync /\ desc[bdp] # "bad" /\ desc[bdp] # "empty" /\ bdp' = After(bdp)
        /\ count' = (IF Announced(desc[bdp]) THEN count + 1 ELSE count)
    BY <1>19 DEF DriverHandles, HandleFrame, AfterFrame
  <2>2. desc[bdp] = "good" /\ zc.enabled
    BY <2>1 DEF IInv, TypeOK, HwTypeOK, NapiTypeOK, NapiHasRing, SysInv, Configured
  <2>3. count' = count + 1
    BY <2>1, <2>2 DEF Announced
  <2>4. /\ Owed \in Nat /\ ringIdx \in Nat /\ Owed' = Owed + 1
    BY <2>1, <2>3, BoundsAreNat DEF Owed, IInv, TypeOK, ZcTypeOK, AppTypeOK, Slots
  <2>5. (ringIdx + Owed) % R = bdp /\ Cursor' = (bdp + 1) % R
    BY <2>1 DEF InStep, Cursor, After
  <2> DEFINE a == ringIdx + Owed
  <2>6. a \in Nat /\ ringIdx' + Owed' = a + 1
    BY <2>1, <2>4
  <2> HIDE DEF a
  <2>7. ((a % R) + 1) % R = (a + 1) % R
    BY <2>6, ModAdd
  <2> QED
    BY <2>5, <2>6, <2>7 DEF a
<1>20. CASE Alive /\ DriverRestarts
  <2>1. CASE worker["phy"] = "stop"
    <3>1. ~mac'
      BY <1>20, <2>1 DEF DriverRestarts, NapiDisabled, Stop
    <3> QED
      BY <3>1 DEF InStep
  <2>2. CASE worker["phy"] = "restart"
    <3> SUFFICES ASSUME ~desync' PROVE (ringIdx' + Owed') % R = Cursor'
      BY DEF InStep
    <3>1. /\ Owed = 0 /\ ringIdx = 0 /\ UNCHANGED <<pc, ringIdx, count>>
          /\ napi' = "off" /\ cur' = 0
      BY <1>20, <2>2 DEF DriverRestarts, NapiDisabled, Restart
    <3>2. ringIdx' + Owed' = 0
      BY <3>1 DEF Owed
    <3> QED
      BY <3>1, <3>2, ZeroMod DEF Cursor
  <2> QED
    BY <1>20, <2>1, <2>2 DEF DriverRestarts, NapiDisabled
<1>21. CASE Alive /\ WatchdogRound
  BY <1>21 DEF WatchdogRound, vars, PowerWanted, InStep, Cursor, Owed
<1>22. CASE Alive /\ WatchdogExit
  BY <1>22 DEF WatchdogExit, vars, InStep, Cursor, Owed
<1>23. CASE Alive /\ Sigint
  BY <1>23 DEF Sigint, vars, WaitSignalled, InStep, Cursor, Owed
<1>24. CASE Alive /\ FiveSecondsPass
  BY <1>24 DEF FiveSecondsPass, vars, InStep, Cursor, Owed
<1>25. CASE Alive /\ Reopen
  BY <1>25 DEF Reopen, InStep
<1>26. CASE /\ Alive /\ UNCHANGED appVars
            /\ Interrupt \/ PollStep \/ CompleteInterrupted
  <2>1. UNCHANGED <<mac, desync, ringIdx, pc>> /\ Owed' = Owed /\ Cursor' = Cursor
    BY <1>26, NapiKeepsCursor DEF Owed
  <2> QED
    BY <2>1 DEF InStep
<1>27. CASE Alive /\ IfUpDone
  <2>1. CASE OpenFinish
    <3>1. UNCHANGED <<mac, desync, cur>> /\ Owed' = Owed /\ pc # "done"
      BY <1>27, <2>1 DEF IfUpDone, OpenFinish, Owed
    <3>2. ringIdx = 0 /\ ringIdx' = 0
      BY <1>27 DEF IfUpDone, SysInv, NotYetUp
    <3>3. Cursor' = Cursor
      BY <2>1, <3>1 DEF OpenFinish, Cursor, IInv, OpeningAlone, SysInv, NoFault
    <3> QED
      BY <3>1, <3>2, <3>3 DEF InStep
  <2>2. CASE ClocksOff
    BY <2>2 DEF ClocksOff, InStep
  <2> QED
    BY <1>27, <2>1, <2>2 DEF IfUpDone
<1>28. CASE Alive /\ IfDownFails
  BY <1>28 DEF IfDownFails, vars, InStep, Cursor, Owed
<1>29. CASE Alive /\ PhyStop /\ UNCHANGED appVars
  BY <1>29 DEF PhyStop, InStep, Cursor, Owed
<1>30. CASE Alive /\ NapiEnabled("phy") /\ UNCHANGED appVars
  <2>1. UNCHANGED <<mac, desync, ringIdx, cur, bdp, pc>> /\ Owed' = Owed /\ Cursor' = Cursor
    BY <1>30 DEF NapiEnabled, IInv, OneOwner, Workers, Owed, Cursor
  <2> QED
    BY <2>1 DEF InStep
<1>31. ASSUME NEW op \in {"restart", "stop"}, AdjustLinkBegin(op), UNCHANGED appVars
      PROVE  InStep'
  BY <1>31 DEF AdjustLinkBegin, InStep, Cursor, Owed
<1>32. ASSUME NEW kind \in {"good", "bad"}, DmaWrite(kind)
      PROVE  InStep'
  BY <1>32 DEF DmaWrite, HwReceive, InStep, Cursor, Owed
<1>33. CASE UNCHANGED sysVars
  BY <1>33 DEF sysVars, vars, InStep, Cursor, Owed
<1> QED
  BY <1>1, <1>2, <1>3, <1>4, <1>5, <1>6, <1>7, <1>8, <1>9, <1>10, <1>11, <1>12, <1>13,
     <1>14, <1>15, <1>16, <1>17, <1>18, <1>19, <1>20, <1>21, <1>22, <1>23, <1>24, <1>25,
     <1>26, <1>27, <1>28, <1>29, <1>30, <1>31, <1>32, <1>33
  DEF SysNext, Main, Driver, DriverElse

LEMMA InitSysIInv == SysInit => SysIInv
<1> SUFFICES ASSUME SysInit PROVE SysIInv
  OBVIOUS
<1>1. IInv
  BY InitIInv DEF SysInit
<1>2. AppTypeOK
  <2>1. 0 \in Slots /\ 0 \in 0 .. MaxFrames
    BY BoundsAreNat DEF Slots
  <2> QED
    BY <2>1 DEF SysInit, AppTypeOK
<1>3. SysInv /\ InStep
  BY ReceiverFacts DEF SysInit, Init, SysInv, LockHeld, NotYetUp, StaysDown,
     Configured, WatchdogOver,
     NoFault, InStep
<1> QED
  BY <1>1, <1>2, <1>3 DEF SysIInv

LEMMA AlwaysSysIInv == SysSpec => []SysIInv
<1>1. SysIInv /\ [SysNext]_sysVars => SysIInv'
  BY DriverSteps, NextIInv, SysInvNext, AppTypeNext, InStepNext DEF SysIInv
<1> QED
  BY <1>1, InitSysIInv, PTL DEF SysSpec

------------------------------------------------------------------------------
(* What the receiver relies on *)

\* The application's variables keep their types: ring_idx never leaves the ring
\* and no slot holds a frame that never arrived.
THEOREM AppTypeCorrect == SysSpec => []AppTypeOK
<1>1. SysIInv => AppTypeOK
  BY DEF SysIInv
<1> QED
  BY <1>1, AlwaysSysIInv, PTL

\* ring_idx and rxq->bd.cur, which nothing connects, stay in step: between them
\* lie exactly the frames announced and not worked off, for every ring size,
\* budget, number of frames and failing system calls, until a frame with an
\* error or a restart at the wrong moment moves the ring alone.
THEOREM IndexStaysInStep == SysSpec => []InStep
<1>1. SysIInv => InStep
  BY DEF SysIInv
<1> QED
  BY <1>1, AlwaysSysIInv, PTL

\* The order in which the receiver configures, raises and lowers the interface
\* never makes the driver fault, whatever fails on the way and whenever Ctrl+C
\* or another process interferes.
THEOREM ReceiverNeverCrashes == SysSpec => []NeverCrashes
<1>1. SysIInv => NeverCrashes
  BY DEF SysIInv, SysInv, NoFault, LockHeld, NeverCrashes, Alive
<1> QED
  BY <1>1, AlwaysSysIInv, PTL

\* The MAC writes into the application's pages only while they are allocated,
\* on every path through main() and its cleanup on which "ifconfig eth0 down"
\* did its work, until somebody sets eth0 up again after the exit.
THEOREM BufferOutlivesTheDma == SysSpec => []BufferOutlivesDma
<1>1. SysIInv => BufferOutlivesDma
  <2> SUFFICES ASSUME SysIInv, mac, ring = Buffer, ~allocated
               PROVE  atExit # "down"
    BY DEF BufferOutlivesDma
  <2>1. pc = "done" /\ ring # "none"
    BY ReceiverFacts DEF SysIInv, SysInv, Configured
  <2>2. up \/ rtnl = "opening"
    BY <2>1 DEF SysIInv, IInv, RingLives, SysInv, LockHeld
  <2> QED
    BY <2>1, <2>2 DEF SysIInv, SysInv, StaysDown
<1> QED
  BY <1>1, AlwaysSysIInv, PTL

\* The last to write the screen's state is main(), after the watchdog thread.
THEOREM ScreenIsOnAtExit == SysSpec => []ScreenOnAtExit
<1>1. SysIInv => ScreenOnAtExit
  BY DEF SysIInv, SysInv, WatchdogOver, ScreenOnAtExit
<1> QED
  BY <1>1, AlwaysSysIInv, PTL
==============================================================================
