----------------------------- MODULE FecTransmit -----------------------------
(***************************************************************************)
(* The transmit path of kd_file/fec_main.c: one transmit ring shared by    *)
(* fec_enet_start_xmit, the MAC and the clean-up in the NAPI poll, its     *)
(* free-descriptor count with the stop and wake thresholds, and the        *)
(* contexts that restart or stop the MAC and empty the ring.               *)
(*                                                                         *)
(* On the single core start_xmit and the poll exclude each other; the MAC  *)
(* runs between any two descriptor writes of either.  A socket buffer is   *)
(* its number in the order of transmission; what it contains is the number *)
(* of descriptors it needs and whether the driver segments it (TSO).       *)
(***************************************************************************)
EXTENDS Integers

CONSTANTS T,             \* descriptors of the transmit ring (512)
          MaxFrags,      \* MAX_SKB_FRAGS
          MaxSkbDescs,   \* FEC_MAX_SKB_DESCS, the most a TSO buffer needs
          MapFailures,   \* "never", "head" or "any": dma_map_single may fail
          Erratum,       \* TRUE: the MAC has the erratum ERR006358
          MaxSkbs,       \* bound: buffers transmitted in a behaviour
          MaxRestarts    \* bound: link changes, timeouts and pause settings

ASSUME TransmitAssumption ==
  /\ T \in Nat /\ MaxFrags \in Nat /\ MaxSkbDescs \in Nat
  /\ 1 <= MaxFrags /\ MaxFrags < MaxSkbDescs /\ MaxSkbDescs < T
  /\ MaxFrags + 1 <= (T - MaxSkbDescs) \div 2
  /\ MapFailures \in {"never", "head", "any"} /\ Erratum \in BOOLEAN
  /\ MaxSkbs \in Nat /\ MaxRestarts \in Nat

VARIABLES
  ready,     \* BD_ENET_TX_READY of every descriptor
  ends,      \* what every descriptor ends: see Marks
  txSkb,     \* txq->tx_skbuff, 0 for NULL
  cur,       \* txq->bd.cur
  dirty,     \* txq->dirty_tx
  xmit,      \* the fec_enet_start_xmit in progress
  stopped,   \* netif_tx_queue_stopped
  hw,        \* the descriptor the MAC looks at
  active,    \* reg_desc_active reads non-zero
  stopping,  \* the MAC will stop although the driver may trigger it again
  mac,       \* the MAC is enabled
  event,     \* the TXF bit of IEVENT
  unmasked,  \* the TXF bit of IMASK
  workTx,    \* fep->work_tx
  napi,      \* "off": a napi_disable owns the SCHED bit
  up, link,  \* netif_running; fep->link
  qdisc,     \* the stack hands its buffers to this driver
  worker,    \* the context that restarts or stops the MAC
  queued,    \* tx_timeout_work is queued
  handed,    \* buffers start_xmit has settled, accepted or dropped
  freed,     \* how often each of them was freed
  restarts   \* progress towards MaxRestarts

ringVars == <<ready, ends, txSkb, cur, dirty>>
hwVars   == <<hw, active, stopping>>
irqVars  == <<event, unmasked, workTx, napi>>
ctlVars  == <<mac, up, link, qdisc, worker, queued, restarts>>
skbVars  == <<handed, freed>>
vars == <<ringVars, xmit, stopped, hwVars, irqVars, ctlVars, skbVars>>

Slots == 0 .. T - 1
Skbs == 1 .. MaxSkbs

\* BD_ENET_TX_LAST ends a frame; with BD_ENET_TX_INT it ends the buffer, which
\* is one frame, or one per segment with TSO.
Marks == {"no", "frame", "buffer"}

NoSkb == 0

Next1(i) == IF i >= T - 1 THEN 0 ELSE i + 1      \* fec_enet_get_nextdesc
PrevOf(i) == IF i <= 0 THEN T - 1 ELSE i - 1     \* fec_enet_get_prevdesc

\* Faulty variant: the wrap at the end of the ring is forgotten.
AheadNoWrap(i, k) == i + k

\* k times fec_enet_get_nextdesc, and how often it leads from i to j.
Ahead(i, k) == IF i + k >= T THEN i + k - T ELSE i + k
Dist(i, j) == IF j >= i THEN j - i ELSE j - i + T

\* fec_enet_get_free_txdesc_num.
Free(d, c) == LET entries == d - c - 1
              IN  IF entries >= 0 THEN entries ELSE entries + T

StopThreshold == MaxSkbDescs

\* Faulty variant: the queue wakes as soon as one descriptor is free.
WakeAtOne == 1

WakeThreshold == (T - StopThreshold) \div 2

\* The descriptors of accepted buffers that were not cleaned yet.
Used == Dist(Next1(dirty), cur)

Idle == [descs |-> 0, tso |-> FALSE, done |-> 0]

Init ==
  /\ ready = [i \in Slots |-> FALSE] /\ ends = [i \in Slots |-> "no"]
  /\ txSkb = [i \in Slots |-> NoSkb]
  /\ cur = 0 /\ dirty = PrevOf(0)
  /\ xmit = Idle /\ stopped = TRUE
  /\ hw = 0 /\ active = FALSE /\ stopping = FALSE
  /\ mac = FALSE /\ event = FALSE /\ unmasked = FALSE /\ workTx = FALSE
  /\ napi = "off"
  /\ up = FALSE /\ link = FALSE /\ qdisc = FALSE
  /\ worker = "idle" /\ queued = FALSE /\ restarts = 0
  /\ handed = 0 /\ freed = [s \in Skbs |-> 0]

------------------------------------------------------------------------------
(* fec_enet_start_xmit.  A scatter-gather buffer needs a head descriptor    *)
(* and one per fragment; a TSO buffer a header and at least one data        *)
(* descriptor per segment.                                                  *)

HasRoom(descs, tso) ==
  IF tso THEN descs < Free(dirty, cur) ELSE Free(dirty, cur) >= MaxFrags + 1

\* Softirqs are off in start_xmit, and the receive part of a poll may call it.
MayTransmit ==
  /\ qdisc /\ ~stopped /\ xmit = Idle
  /\ napi \notin {"clean", "done"} /\ handed < MaxSkbs

XmitBegin(descs, tso) ==
  /\ MayTransmit /\ HasRoom(descs, tso)
  /\ xmit' = [descs |-> descs, tso |-> tso, done |-> 0]
  /\ UNCHANGED <<ringVars, stopped, hwVars, irqVars, ctlVars, skbVars>>

\* "NOT enough BD", or the checksum header cannot be made writable: the buffer
\* is freed, and start_xmit still looks at the threshold.
XmitDrop ==
  /\ MayTransmit
  /\ handed' = handed + 1 /\ freed' = [freed EXCEPT ![handed + 1] = @ + 1]
  /\ stopped' = (Free(dirty, cur) <= StopThreshold)
  /\ UNCHANGED <<ringVars, xmit, hwVars, irqVars, ctlVars>>

\* The descriptor written next: TSO goes front to back; otherwise the head is
\* handed to the MAC after all fragments.
FillOffset ==
  IF xmit.tso THEN xmit.done
  ELSE IF xmit.done = xmit.descs - 1 THEN 0 ELSE xmit.done + 1

\* A TSO segment has a header and data, and so has the one that follows it.
MayEndSegment(k) ==
  xmit.tso /\ k \in 1 .. xmit.descs - 3 /\ ends[Ahead(cur, k - 1)] # "frame"

FillDesc ==
  /\ xmit # Idle /\ xmit.done < xmit.descs
  /\ \E mark \in Marks :
       /\ mark = "buffer" <=> FillOffset = xmit.descs - 1
       /\ mark = "frame" => MayEndSegment(FillOffset)
       /\ LET i == Ahead(cur, FillOffset) IN
          ready' = [ready EXCEPT ![i] = TRUE] /\ ends' = [ends EXCEPT ![i] = mark]
  /\ xmit' = [xmit EXCEPT !.done = @ + 1]
  /\ UNCHANGED <<txSkb, cur, dirty, stopped, hwVars, irqVars, ctlVars, skbVars>>

\* dma_map_single fails.  The buffer is freed; descriptors already handed to
\* the MAC stay ready.  A TSO buffer is reported busy although it is gone: the
\* stack keeps it and transmits it again.  The head is mapped before anything
\* is written.
MapFailure ==
  /\ MapFailures # "never"
  /\ xmit # Idle /\ xmit.done < xmit.descs
  /\ MapFailures = "head" => ~xmit.tso /\ xmit.done = 0
  /\ ~xmit.tso /\ xmit.done = xmit.descs - 1 => xmit.done = 0
  /\ xmit' = Idle
  /\ freed' = [freed EXCEPT ![handed + 1] = @ + 1]
  /\ handed' = IF xmit.tso THEN handed ELSE handed + 1
  /\ stopped' = IF xmit.tso THEN stopped ELSE Free(dirty, cur) <= StopThreshold
  /\ UNCHANGED <<ringVars, hwVars, irqVars, ctlVars>>

\* Faulty variant: the buffer is remembered at its first descriptor.
FirstSlot == cur

LastSlot == Ahead(cur, xmit.descs - 1)

\* tx_skbuff, bd.cur, the trigger, and the stop threshold.
XmitEnd ==
  /\ xmit # Idle /\ xmit.done = xmit.descs
  /\ txSkb' = [txSkb EXCEPT ![LastSlot] = handed + 1]
  /\ cur' = Ahead(cur, xmit.descs)
  /\ active' = mac
  /\ stopped' = (Free(dirty, cur') <= StopThreshold)
  /\ handed' = handed + 1
  /\ xmit' = Idle
  /\ UNCHANGED <<ready, ends, dirty, hw, stopping, irqVars, ctlVars, freed>>

------------------------------------------------------------------------------
(* The MAC.  TXF is raised when the last descriptor of a buffer is done.    *)

\* ERR006358: during a frame the MAC finds the next descriptor not ready and
\* will stop when the frame is over, whatever happens until then.
HwPeek ==
  /\ Erratum /\ mac /\ active /\ ~stopping
  /\ ready[hw] /\ ends[hw] # "no" /\ ~ready[Next1(hw)]
  /\ stopping' = TRUE
  /\ UNCHANGED <<ringVars, xmit, stopped, hw, active, irqVars, ctlVars, skbVars>>

HwTransmit ==
  /\ mac /\ active /\ ready[hw]
  /\ ready' = [ready EXCEPT ![hw] = FALSE]
  /\ event' = (event \/ ends[hw] = "buffer")
  /\ hw' = Next1(hw)
  /\ active' = ~stopping /\ stopping' = FALSE
  /\ UNCHANGED <<ends, txSkb, cur, dirty, xmit, stopped, unmasked, workTx, napi,
                 ctlVars, skbVars>>

HwIdle ==
  /\ mac /\ active /\ ~ready[hw]
  /\ active' = FALSE
  /\ UNCHANGED <<ringVars, xmit, stopped, hw, stopping, irqVars, ctlVars, skbVars>>

------------------------------------------------------------------------------
(* fec_enet_interrupt and the transmit part of fec_enet_rx_napi.            *)

\* napi_disable marks NAPI before it waits for the poll in progress.
Disabling == worker \in {"restart", "stop", "close"}
Schedules == link /\ napi = "idle" /\ ~Disabling

Interrupt ==
  /\ unmasked /\ event
  /\ event' = FALSE /\ workTx' = TRUE
  /\ napi' = IF Schedules THEN "sched" ELSE napi
  /\ unmasked' = ~Schedules
  /\ UNCHANGED <<ringVars, xmit, stopped, hwVars, ctlVars, skbVars>>

\* The same handler for a received frame.
ReceiveInterrupt ==
  /\ mac /\ unmasked /\ ~event /\ Schedules
  /\ napi' = "sched" /\ unmasked' = FALSE
  /\ UNCHANGED <<event, workTx, ringVars, xmit, stopped, hwVars, ctlVars, skbVars>>

\* fec_enet_tx clears the bit before it looks at the ring.
PollStart ==
  /\ napi = "sched" /\ xmit = Idle
  /\ napi' = IF workTx THEN "clean" ELSE "done"
  /\ workTx' = FALSE
  /\ UNCHANGED <<event, unmasked, ringVars, xmit, stopped, hwVars, ctlVars, skbVars>>

Cleanable == napi = "clean" /\ Next1(dirty) # cur /\ ~ready[Next1(dirty)]
Wakes(d) == stopped /\ Free(d, cur) >= WakeThreshold

\* Faulty variants: tx_skbuff keeps the freed pointer; the loop skips every
\* other descriptor; nobody wakes the queue.
CleanKeepSkb ==
  /\ Cleanable
  /\ LET bdp == Next1(dirty) IN
     /\ freed' = [s \in Skbs |-> IF s = txSkb[bdp] THEN freed[s] + 1 ELSE freed[s]]
     /\ dirty' = bdp
     /\ stopped' = (stopped /\ ~Wakes(bdp))
  /\ UNCHANGED <<ready, ends, txSkb, cur, xmit, hwVars, irqVars, ctlVars, handed>>
CleanSkips ==
  /\ Cleanable
  /\ LET bdp == Next1(dirty) IN
     /\ freed' = [s \in Skbs |-> IF s = txSkb[bdp] THEN freed[s] + 1 ELSE freed[s]]
     /\ txSkb' = [txSkb EXCEPT ![bdp] = NoSkb]
     /\ dirty' = IF Next1(bdp) = cur THEN bdp ELSE Next1(bdp)
     /\ stopped' = (stopped /\ ~Wakes(bdp))
  /\ UNCHANGED <<ready, ends, cur, xmit, hwVars, irqVars, ctlVars, handed>>
CleanNoWake ==
  /\ Cleanable
  /\ LET bdp == Next1(dirty) IN
     /\ freed' = [s \in Skbs |-> IF s = txSkb[bdp] THEN freed[s] + 1 ELSE freed[s]]
     /\ txSkb' = [txSkb EXCEPT ![bdp] = NoSkb]
     /\ dirty' = bdp
  /\ UNCHANGED <<ready, ends, cur, xmit, stopped, hwVars, irqVars, ctlVars, handed>>

\* One iteration of fec_enet_tx_queue's loop.
CleanOne ==
  /\ Cleanable
  /\ LET bdp == Next1(dirty) IN
     /\ freed' = [s \in Skbs |-> IF s = txSkb[bdp] THEN freed[s] + 1 ELSE freed[s]]
     /\ txSkb' = [txSkb EXCEPT ![bdp] = NoSkb]
     /\ dirty' = bdp
     /\ stopped' = (stopped /\ ~Wakes(bdp))
  /\ UNCHANGED <<ready, ends, cur, xmit, hwVars, irqVars, ctlVars, handed>>

\* Faulty variant: no second trigger after the loop.
NoRetrigger == FALSE

\* "ERR006358: Keep the transmitter going".
Retrigger == Next1(dirty) # cur /\ ~active /\ mac

CleanEnd ==
  /\ napi = "clean" /\ ~Cleanable
  /\ active' = (active \/ Retrigger)
  /\ napi' = "done"
  /\ UNCHANGED <<event, unmasked, workTx, ringVars, xmit, stopped, hw, stopping,
                 ctlVars, skbVars>>

\* fec_enet_rx stayed below its budget.
PollComplete ==
  /\ napi = "done"
  /\ napi' = "idle" /\ unmasked' = TRUE
  /\ UNCHANGED <<event, workTx, ringVars, xmit, stopped, hwVars, ctlVars, skbVars>>

\* It did not: poll again with the interrupt masked, or stop like that for a
\* napi_disable.
PollAgain ==
  /\ napi = "done"
  /\ napi' = IF Disabling THEN "idle" ELSE "sched"
  /\ UNCHANGED <<event, unmasked, workTx, ringVars, xmit, stopped, hwVars, ctlVars,
                 skbVars>>

------------------------------------------------------------------------------
(* MAC restart and stop.                                                    *)

Held == {txSkb[i] : i \in Slots} \ {NoSkb}
FreeAll == freed' = [s \in Skbs |-> IF s \in Held THEN freed[s] + 1 ELSE freed[s]]

\* fec_restart with fec_enet_bd_init: nothing ready, every buffer freed, the
\* cursors at the two ends, transmit interrupts only with a link.
Restart ==
  /\ ready' = [i \in Slots |-> FALSE]
  /\ txSkb' = [i \in Slots |-> NoSkb] /\ FreeAll
  /\ cur' = 0 /\ dirty' = PrevOf(0)
  /\ hw' = 0 /\ active' = FALSE /\ stopping' = FALSE
  /\ mac' = TRUE /\ event' = FALSE /\ unmasked' = link
  /\ UNCHANGED <<ends, workTx>>

\* fec_stop: the ring stays as it is; whether the reset drops a pending event
\* is the hardware's business.
Stop ==
  /\ mac' = FALSE /\ active' = FALSE /\ stopping' = FALSE
  /\ unmasked' = TRUE /\ event' \in {event, FALSE}
  /\ UNCHANGED <<hw, workTx>>

\* fec_enet_adjust_link up to napi_disable.  With a link the stack's queue is
\* attached to the driver.
LinkUp ==
  /\ up /\ worker = "idle" /\ restarts < MaxRestarts
  /\ restarts' = restarts + 1
  /\ worker' = "restart" /\ link' = TRUE /\ qdisc' = TRUE
  /\ UNCHANGED <<mac, up, queued, ringVars, xmit, stopped, hwVars, irqVars, skbVars>>

LinkDown ==
  /\ up /\ link /\ worker = "idle" /\ restarts < MaxRestarts
  /\ restarts' = restarts + 1
  /\ worker' = "stop"
  /\ UNCHANGED <<mac, up, link, qdisc, queued, ringVars, xmit, stopped, hwVars,
                 irqVars, skbVars>>

\* linkwatch detaches the queue some time after the carrier is gone; a
\* start_xmit in progress is waited for.
Detach ==
  /\ qdisc /\ (~link \/ worker = "stop") /\ xmit = Idle
  /\ qdisc' = FALSE
  /\ UNCHANGED <<mac, up, link, worker, queued, restarts, ringVars, xmit, stopped,
                 hwVars, irqVars, skbVars>>

\* fec_enet_set_pauseparam, when it negotiates, stops the MAC at once, whatever
\* the poll or start_xmit are doing; then it restarts it like everybody else.
PauseParam ==
  /\ up /\ worker = "idle" /\ restarts < MaxRestarts
  /\ restarts' = restarts + 1
  /\ Stop \/ UNCHANGED <<mac, hwVars, event, unmasked, workTx>>
  /\ worker' = "restart"
  /\ UNCHANGED <<up, link, qdisc, queued, napi, ringVars, xmit, stopped, skbVars>>

\* The stack's watchdog finds the queue stopped too long; fec_timeout.
TxTimeout ==
  /\ qdisc /\ link /\ stopped /\ ~queued /\ restarts < MaxRestarts
  /\ restarts' = restarts + 1
  /\ queued' = TRUE
  /\ UNCHANGED <<mac, up, link, qdisc, worker, ringVars, xmit, stopped, hwVars,
                 irqVars, skbVars>>

\* fec_enet_timeout_work, whether the interface is running or not.
TimeoutWork ==
  /\ queued /\ worker = "idle"
  /\ queued' = FALSE /\ worker' = "restart"
  /\ UNCHANGED <<mac, up, link, qdisc, restarts, ringVars, xmit, stopped, hwVars,
                 irqVars, skbVars>>

\* napi_disable returned, and the transmit lock is taken: no poll and no
\* start_xmit is running.  A restart wakes the queue.
DoRestart ==
  /\ worker = "restart" /\ napi = "idle" /\ xmit = Idle
  /\ Restart
  /\ stopped' = FALSE
  /\ napi' = "off" /\ worker' = "leave"
  /\ UNCHANGED <<up, link, qdisc, queued, restarts, xmit, handed>>

DoStop ==
  /\ worker = "stop" /\ napi = "idle" /\ xmit = Idle
  /\ Stop
  /\ napi' = "off" /\ worker' = "leaveDown"
  /\ UNCHANGED <<up, link, qdisc, queued, restarts, ringVars, xmit, stopped, skbVars>>

\* napi_enable; only then does adjust_link record that the link is gone.
NapiEnabled ==
  /\ worker \in {"leave", "leaveDown"}
  /\ napi' = "idle"
  /\ link' = (link /\ worker = "leave")
  /\ worker' = "idle"
  /\ UNCHANGED <<mac, up, qdisc, queued, restarts, event, unmasked, workTx, ringVars,
                 xmit, stopped, hwVars, skbVars>>

\* fec_enet_alloc_txq_buffers, fec_restart, napi_enable and
\* netif_tx_start_all_queues.
Open ==
  /\ ~up /\ worker = "idle"
  /\ Restart
  /\ up' = TRUE /\ napi' = "idle" /\ stopped' = FALSE
  /\ UNCHANGED <<link, qdisc, worker, queued, restarts, xmit, handed>>

\* The stack detaches the queue and waits for start_xmit before it calls
\* fec_enet_close, whose phy_stop marks the link down.
CloseBegin ==
  /\ up /\ worker = "idle" /\ xmit = Idle
  /\ up' = FALSE /\ qdisc' = FALSE /\ link' = FALSE /\ worker' = "close"
  /\ UNCHANGED <<mac, queued, restarts, ringVars, xmit, stopped, hwVars, irqVars,
                 skbVars>>

\* napi_disable returned: netif_tx_disable, fec_stop, fec_enet_free_buffers;
\* the next open clears what is left in the descriptors.
CloseEnd ==
  /\ worker = "close" /\ napi = "idle"
  /\ Stop
  /\ stopped' = TRUE
  /\ txSkb' = [i \in Slots |-> NoSkb] /\ FreeAll
  /\ napi' = "off" /\ worker' = "idle"
  /\ UNCHANGED <<ready, ends, cur, dirty, up, link, qdisc, queued, restarts, xmit,
                 handed>>

------------------------------------------------------------------------------
Stack ==
  \/ \E n \in 1 .. MaxFrags + 1 : XmitBegin(n, FALSE)
  \/ \E n \in 2 .. MaxSkbDescs : XmitBegin(n, TRUE)
  \/ XmitDrop \/ FillDesc \/ MapFailure \/ XmitEnd

Hardware == HwPeek \/ HwTransmit \/ HwIdle

Softirq ==
  \/ Interrupt \/ ReceiveInterrupt \/ PollStart
  \/ CleanOne \/ CleanEnd \/ PollComplete \/ PollAgain

Control ==
  \/ LinkUp \/ LinkDown \/ Detach \/ PauseParam \/ TxTimeout \/ TimeoutWork
  \/ DoRestart \/ DoStop \/ NapiEnabled \/ Open \/ CloseBegin \/ CloseEnd

Next == Stack \/ Hardware \/ Softirq \/ Control

Spec == Init /\ [][Next]_vars

\* start_xmit returns, the MAC works off its descriptors, interrupts and
\* softirqs run, workers finish, and the receive load leaves some polls below
\* their budget.
Fairness ==
  /\ WF_vars(FillDesc) /\ WF_vars(XmitEnd)
  /\ WF_vars(HwTransmit) /\ WF_vars(Interrupt)
  /\ WF_vars(PollStart) /\ WF_vars(CleanOne) /\ WF_vars(CleanEnd)
  /\ SF_vars(PollComplete)
  /\ SF_vars(DoRestart) /\ SF_vars(DoStop)
  /\ WF_vars(NapiEnabled) /\ WF_vars(CloseEnd)

FairSpec == Spec /\ Fairness

------------------------------------------------------------------------------
(* Properties.                                                              *)

BitsTypeOK == ready \in [Slots -> BOOLEAN] /\ ends \in [Slots -> Marks]

RingTypeOK ==
  /\ BitsTypeOK
  /\ txSkb \in [Slots -> 0 .. MaxSkbs]
  /\ cur \in Slots /\ dirty \in Slots
  /\ stopped \in BOOLEAN

XmitTypeOK ==
  xmit \in [descs : 0 .. MaxSkbDescs, tso : BOOLEAN, done : 0 .. MaxSkbDescs]

HwTypeOK == hw \in Slots /\ active \in BOOLEAN /\ stopping \in BOOLEAN

CtlTypeOK ==
  /\ mac \in BOOLEAN /\ event \in BOOLEAN /\ unmasked \in BOOLEAN
  /\ workTx \in BOOLEAN /\ napi \in {"off", "idle", "sched", "clean", "done"}
  /\ up \in BOOLEAN /\ link \in BOOLEAN /\ qdisc \in BOOLEAN /\ queued \in BOOLEAN
  /\ worker \in {"idle", "restart", "stop", "close", "leave", "leaveDown"}
  /\ restarts \in 0 .. MaxRestarts

SkbTypeOK == handed \in 0 .. MaxSkbs /\ freed \in [Skbs -> Nat]

\* The type invariant: the fields hold what their C declarations allow, and
\* the three cursors stay inside the ring.
TypeOK == RingTypeOK /\ XmitTypeOK /\ HwTypeOK /\ CtlTypeOK /\ SkbTypeOK

Ownership == INSTANCE TxOwnership WITH
  held <- Held, returned <- [s \in 1 .. handed |-> freed[s]]

\* start_xmit, the clean-up, restarts and close together give every buffer
\* back exactly once, in the order of acceptance (fec_enet_start_xmit,
\* fec_enet_tx_queue, fec_enet_bd_init, fec_enet_free_buffers).
ImplementsOwnership == Ownership!OwnershipSpec

\* A buffer is in the ring, at one place, exactly while start_xmit accepted it
\* and nobody freed it: no leak, no double free, no freed buffer reachable.
BuffersConserved ==
  \A s \in Skbs :
    /\ freed[s] <= 1
    /\ freed[s] = 0 /\ s <= handed <=> \E i \in Slots : txSkb[i] = s
    /\ \A i, j \in Slots : txSkb[i] = s /\ txSkb[j] = s => i = j

\* Which descriptors start_xmit has written for the buffer in progress.
Filling == {Ahead(cur, k) : k \in 0 .. xmit.descs - 1}

\* Between transmissions the MAC owns only descriptors of accepted buffers
\* (fec_enet_txq_submit_tso's "Release all used data descriptors").
OnlyQueuedReady ==
  mac => \A i \in Slots : ready[i] =>
           Dist(Next1(dirty), i) < Used \/ i \in Filling

\* The MAC goes through the descriptors in the driver's order: it stands
\* between dirty_tx and what start_xmit has written, everything behind it is
\* done and everything before it, up to bd.cur, is still to be sent.
MacInStep ==
  mac =>
    LET first == Next1(dirty)
        at == Dist(first, hw)
    IN  /\ at <= Used + xmit.done
        /\ \A k \in 0 .. Used - 1 : ready[Ahead(first, k)] <=> k >= at

\* The MAC never sends data of a freed buffer: each ready descriptor of an
\* accepted buffer has the buffer remembered at the descriptor that ends it.
MacReadsLiveData ==
  mac => \A k \in 0 .. Used - 1 :
           ready[Ahead(Next1(dirty), k)] =>
             \E l \in k .. Used - 1 :
               LET j == Ahead(Next1(dirty), l)
               IN  /\ ends[j] = "buffer" /\ txSkb[j] # NoSkb
                   /\ \A m \in k .. l - 1 : ends[Ahead(Next1(dirty), m)] # "buffer"

\* A scatter-gather buffer is never on the wire before all of its descriptors
\* are written: the head becomes ready last (fec_enet_txq_submit_skb).
NeverSendsHalfBuffer ==
  mac /\ ~xmit.tso /\ xmit.done < xmit.descs => Dist(Next1(dirty), hw) <= Used

\* The two thresholds and the two cursors guarantee that "NOT enough BD for
\* SG" is never printed: a queue that is awake has room for any such buffer.
AwakeMeansRoom == ~stopped /\ xmit = Idle => HasRoom(MaxFrags + 1, FALSE)

\* No lost wake-up: when NAPI rests, a buffer the MAC finished waits for its
\* clean-up only if its interrupt is still to come, or was taken while NAPI
\* was disabled and left its mark in work_tx.
CompletionAnnounced ==
  napi = "idle" /\ mac /\ link /\ ~Disabling
    => \A i \in Slots :
         txSkb[i] # NoSkb /\ ~ready[i] => (unmasked /\ event) \/ workTx

\* The last interrupt was taken with NAPI disabled, and the MAC rests: nobody
\* looks at the ring before the next transmission or received frame.
Unheard ==
  /\ napi = "idle" /\ workTx /\ ~event
  /\ ~active \/ \A i \in Slots : ~ready[i]

\* A segment of a TSO buffer was written during the segment before it, whose end
\* raises no interrupt, and the MAC has stopped in front of it: the trigger was
\* ignored, and nobody looks at the ring before the next transmission.
StrandedSegment ==
  /\ napi = "idle" /\ xmit = Idle /\ ~event
  /\ ~active /\ ready[hw] /\ ends[PrevOf(hw)] = "frame"

\* A buffer on a working link comes back to the stack, also when the MAC lost
\* the trigger (ERR006358), unless its interrupt found NAPI disabled or the
\* trigger was lost between two segments.
BuffersComeBack ==
  \A s \in Skbs :
    (mac /\ link /\ (\E i \in Slots : txSkb[i] = s))
      ~> (freed[s] > 0 \/ Unheard \/ StrandedSegment \/ ~link \/ ~mac)

\* A stopped queue on a working link wakes up again without the watchdog, with
\* the same two exceptions.
QueueWakesUp ==
  (stopped /\ mac /\ link)
    ~> (~stopped \/ Unheard \/ StrandedSegment \/ ~link \/ ~mac)

\* "ERR006358: Keep the transmitter going" (fec_enet_tx_queue), taken at its
\* word: the check after the clean-up is enough also for segments.
TransmitterKeptGoing ==
  \A s \in Skbs :
    (mac /\ link /\ (\E i \in Slots : txSkb[i] = s))
      ~> (freed[s] > 0 \/ Unheard \/ ~link \/ ~mac)
=============================================================================
