----------------------------- MODULE FecZeroCopy -----------------------------
(***************************************************************************)
(* The receive path of kd_file/fec_main.c with its zero-copy extension:    *)
(* the MAC filling the descriptor ring, the interrupt handler, the NAPI    *)
(* poll, the two zero-copy ioctls, open and close, and the two workers     *)
(* that restart the MAC behind the back of everybody else: the PHY state   *)
(* machine (fec_enet_adjust_link) and fec_enet_timeout_work.               *)
(*                                                                         *)
(* The i.MX6ULL has one core, so the body of the interrupt handler is one  *)
(* action, and so is a stretch of the poll in which an interrupt would     *)
(* change nothing: an interrupt may come between any two frames and around *)
(* the clearing of work_rx.  The MAC, every sleeping context and every     *)
(* wait for NAPI interleave.  Open, close, the timeout worker and the      *)
(* ioctls run under RTNL, which the waiting ioctl keeps while asleep.      *)
(***************************************************************************)
EXTENDS Integers, Sequences, FiniteSets

CONSTANTS R,             \* descriptors of the receive ring (512)
          Budget,        \* frames one poll may handle
          Addrs,         \* DMA buffers a caller can offer, all 64-byte aligned
          MaxFrames,     \* bound: frames that arrive in a behaviour
          MaxLinkEvents, \* bound: PHY changes reported in a behaviour
          MaxTimeouts,   \* bound: transmit timeouts in a behaviour
          AnyCaller      \* TRUE: ioctls in any order, not the receiver's order

ASSUME FecAssumption ==
  /\ R \in Nat \ {0} /\ Budget \in Nat \ {0}
  /\ MaxFrames \in Nat /\ MaxLinkEvents \in Nat /\ MaxTimeouts \in Nat
  /\ AnyCaller \in BOOLEAN
  /\ {"none", "skb"} \cap Addrs = {}

VARIABLES
  up,        \* fec_enet_open succeeded: netif_running() to the workers
  link,      \* fep->link
  mac,       \* the MAC may complete receive descriptors
  ring,      \* where cbd_bufaddr points: "none", "skb" or a DMA buffer
  desc,      \* cbd_sc of every descriptor
  hw,        \* the descriptor the MAC fills next
  cur,       \* rxq->bd.cur
  bdp,       \* fec_enet_rx_queue's cursor, 0 when no loop runs
  pkts,      \* pkt_received of the poll in progress, or 0
  event,     \* the RXF bit of IEVENT
  unmasked,  \* the RXF bit of IMASK
  workRx,    \* fep->work_rx
  napi,      \* "off": a napi_disable owns the SCHED bit; else the poll's stage
  again,     \* NAPIF_STATE_MISSED: an interrupt found NAPI scheduled
  missed,    \* history: an RXF event was acknowledged while NAPI was off, or
             \* between the loop and clear_bit, and no loop ran since
  rtnl,      \* who holds RTNL
  worker,    \* what each worker is doing
  queued,    \* tx_timeout_work is queued
  zc,        \* the zc_ fields of fep
  count,     \* zc_pkt_count
  frames, linkEvents, timeouts   \* progress towards the three bounds

hwVars   == <<mac, desc, hw, event, frames>>
napiVars == <<cur, bdp, pkts, unmasked, workRx, napi, again, missed>>
ctlVars  == <<up, link, ring, rtnl, worker, queued, linkEvents, timeouts>>
zcVars   == <<zc, count>>
vars     == <<hwVars, napiVars, ctlVars, zcVars>>

Slots == 0 .. R - 1
Workers == {"phy", "timeout"}

\* Faulty variant: the wrap at the end of the ring is forgotten.
AfterNoWrap(i) == i + 1

After(i) == (i + 1) % R        \* fec_enet_get_nextdesc

ZcConfig == [enabled : BOOLEAN, addr : Addrs \cup {"none"}, large : BOOLEAN,
             ready : BOOLEAN]  \* large: zc_size covers R slices of 2048
                               \* ready: the wait queue was initialised

Init ==
  /\ up = FALSE /\ link = FALSE /\ mac = FALSE /\ ring = "none"
  /\ desc = [i \in Slots |-> "empty"] /\ hw = 0
  /\ cur = 0 /\ bdp = 0 /\ pkts = 0
  /\ event = FALSE /\ unmasked = FALSE /\ workRx = FALSE
  /\ napi = "off" /\ again = FALSE /\ missed = FALSE
  /\ rtnl = "free" /\ worker = [w \in Workers |-> "idle"] /\ queued = FALSE
  /\ zc = [enabled |-> FALSE, addr |-> "none", large |-> FALSE, ready |-> FALSE]
  /\ count = 0
  /\ frames = 0 /\ linkEvents = 0 /\ timeouts = 0

------------------------------------------------------------------------------
(* The MAC.                                                                 *)

\* One frame is written through the next descriptor the driver left EMPTY;
\* with none left the MAC drops the frame.
HwReceive(kind) ==
  /\ mac /\ frames < MaxFrames
  /\ desc[hw] = "empty"
  /\ desc' = [desc EXCEPT ![hw] = kind]
  /\ hw' = After(hw)
  /\ event' = TRUE
  /\ frames' = frames + 1
  /\ UNCHANGED <<mac, napiVars, ctlVars, zcVars>>

\* napi_disable marks NAPI before it waits for the poll in progress.
Disabling ==
  \/ \E w \in Workers : worker[w] \in {"restart", "stop"}
  \/ rtnl = "draining"

\* napi_schedule_prep.
MaySchedule(n) == n = "idle" /\ ~Disabling

\* What fec_enet_interrupt does when it finds NAPI at n: acknowledge all of
\* IEVENT, remember the receive event, and schedule NAPI if there is work
\* (tx: work_tx is not empty) and a link; a NAPI already scheduled is only
\* told to come again.
Handler(n, kept, tx) ==
  LET rx    == workRx \/ event
      wants == (tx \/ rx) /\ link
      deaf  == n = "off" \/ (n = "exit" /\ pkts < Budget)
  IN /\ event' = FALSE /\ workRx' = rx
     /\ napi' = IF wants /\ MaySchedule(n) THEN "sched" ELSE n
     /\ again' = (kept \/ (wants /\ n # "idle" /\ ~Disabling))
     /\ missed' = (missed \/ (event /\ link /\ deaf))

\* fec_enet_interrupt, raised by RXF or TXF while they are unmasked, or by the
\* MII event of an MDIO transaction, which is never masked.
Interrupt ==
  /\ \E tx \in BOOLEAN : Handler(napi, again, tx)
  /\ unmasked' = (unmasked /\ napi' = napi)
  /\ UNCHANGED <<mac, desc, hw, frames, cur, bdp, pkts, ctlVars, zcVars>>

\* The one that a received frame raises.
RxInterrupt == unmasked /\ event /\ Interrupt

------------------------------------------------------------------------------
(* fec_enet_rx_napi.                                                        *)

\* Without work_rx, after an interrupt for transmission, there is no loop.
PollStart ==
  /\ napi = "sched"
  /\ IF workRx THEN napi' = "poll" /\ bdp' = cur /\ missed' = FALSE
               ELSE napi' = "tx" /\ UNCHANGED <<bdp, missed>>
  /\ UNCHANGED <<cur, pkts, unmasked, workRx, again, hwVars, ctlVars, zcVars>>

\* The zero-copy branch announces the frame and faults on a wait queue nobody
\* initialised; the regular one faults on the NULL skb of a zero-copy ring,
\* unless no replacement skb is available and the frame is dropped before.
Announced(kind) == kind = "good" /\ zc.enabled
AfterFrame(kind) ==
  CASE kind = "good" /\ zc.enabled /\ ~zc.ready       -> {"crashed"}
    [] kind = "good" /\ ~zc.enabled /\ ring \in Addrs -> {"poll", "crashed"}
    [] OTHER                                          -> {"poll"}

\* One iteration of fec_enet_rx_queue's loop.
HandleFrame ==
  /\ napi = "poll" /\ desc[bdp] # "empty" /\ pkts < Budget
  /\ event' = FALSE
  /\ pkts' = pkts + 1
  /\ count' = IF Announced(desc[bdp]) THEN count + 1 ELSE count
  /\ desc' = [desc EXCEPT ![bdp] = "empty"]
  /\ bdp' = After(bdp)
  /\ napi' \in AfterFrame(desc[bdp])
  /\ UNCHANGED <<mac, hw, frames, cur, unmasked, workRx, again, missed, ctlVars,
                 zc>>

LoopEnd ==
  /\ napi = "poll" /\ (desc[bdp] = "empty" \/ pkts = Budget)
  /\ cur' = bdp /\ bdp' = 0 /\ napi' = "exit"
  /\ UNCHANGED <<pkts, unmasked, workRx, again, missed, hwVars, ctlVars, zcVars>>

\* Faulty variant: the receive bit is cleared even when the budget ran out.
ClearRxAlways ==
  /\ napi = "exit" /\ napi' = "tx"
  /\ workRx' = FALSE
  /\ UNCHANGED <<cur, bdp, pkts, unmasked, again, missed, hwVars, ctlVars,
                 zcVars>>

\* clear_bit, unless the budget ran out, whatever the bit stands for by now.
ClearRx ==
  /\ napi = "exit" /\ napi' = "tx"
  /\ workRx' = (workRx /\ pkts = Budget)
  /\ UNCHANGED <<cur, bdp, pkts, unmasked, again, missed, hwVars, ctlVars,
                 zcVars>>

\* What napi_complete_done leaves behind.
Completed == IF again THEN "sched" ELSE "idle"

\* Faulty variant: the interrupt mask is not restored on completion.
CompleteMasked ==
  /\ napi = "tx" /\ pkts < Budget
  /\ napi' = Completed /\ again' = FALSE /\ pkts' = 0
  /\ UNCHANGED <<cur, bdp, unmasked, workRx, missed, hwVars, ctlVars,
                 zcVars>>

\* Below the budget NAPI completes, and the mask is opened in any case.
Complete ==
  /\ napi = "tx" /\ pkts < Budget
  /\ napi' = Completed /\ again' = FALSE /\ pkts' = 0 /\ unmasked' = TRUE
  /\ UNCHANGED <<cur, bdp, workRx, missed, hwVars, ctlVars, zcVars>>

\* The same with an interrupt between napi_complete_done and the write to
\* IMASK, which opens the mask the handler has just closed.
CompleteInterrupted ==
  /\ napi = "tx" /\ pkts < Budget
  /\ \E tx \in BOOLEAN : Handler(Completed, FALSE, tx)
  /\ pkts' = 0 /\ unmasked' = TRUE
  /\ UNCHANGED <<mac, desc, hw, frames, cur, bdp, ctlVars, zcVars>>

\* With the budget used up NAPI polls again, or stops with the interrupt still
\* masked when napi_disable is waiting.
PollAgain ==
  /\ napi = "tx" /\ pkts = Budget /\ pkts' = 0
  /\ IF Disabling THEN napi' = Completed /\ again' = FALSE
                  ELSE napi' = "sched" /\ UNCHANGED again
  /\ UNCHANGED <<cur, bdp, unmasked, workRx, missed, hwVars, ctlVars, zcVars>>

\* The poll but for its loop, one stage after the other.
PollStep == PollStart \/ LoopEnd \/ ClearRx \/ Complete \/ PollAgain

------------------------------------------------------------------------------
(* MAC restart and stop.                                                    *)

\* Faulty variant: bd_init forgets to rewind the driver's cursor.
RestartKeepCur(l) ==
  /\ desc' = [i \in Slots |-> "empty"] /\ hw' = 0 /\ cur' = cur
  /\ event' = FALSE /\ mac' = TRUE /\ unmasked' = l /\ missed' = FALSE

\* fec_restart with fec_enet_bd_init: every descriptor EMPTY, both cursors at
\* the base, receive interrupts only with a link.
Restart(l) ==
  /\ desc' = [i \in Slots |-> "empty"] /\ hw' = 0 /\ cur' = 0
  /\ event' = FALSE /\ mac' = TRUE /\ unmasked' = l /\ missed' = FALSE

\* fec_stop: the reset MAC receives nothing, all interrupts are unmasked;
\* whether the reset drops a pending event is the hardware's business.
Stop ==
  /\ mac' = FALSE /\ unmasked' = TRUE /\ event' \in {event, FALSE}
  /\ UNCHANGED <<desc, hw, cur, missed>>

\* fec_enet_adjust_link, up to napi_disable: a new link, speed or duplex
\* restarts the MAC, a lost link stops it, and on an interface that is down
\* or going down only fep->link changes.
AdjustLinkBegin(op) ==
  /\ worker["phy"] = "idle" /\ rtnl # "draining"
  /\ (up \/ rtnl = "closing")          \* between phy_start and phy_stop
  /\ linkEvents < MaxLinkEvents /\ linkEvents' = linkEvents + 1
  /\ IF up
       THEN /\ op = "stop" => link
            /\ worker' = [worker EXCEPT !["phy"] = op]
            /\ link' = (op = "restart" \/ link)
       ELSE link' = FALSE /\ UNCHANGED worker
  /\ UNCHANGED <<up, ring, rtnl, queued, timeouts, hwVars, napiVars, zcVars>>

\* fec_timeout: the transmit watchdog of a running interface queues the work.
TxTimeout ==
  /\ up /\ ~queued /\ timeouts < MaxTimeouts
  /\ queued' = TRUE /\ timeouts' = timeouts + 1
  /\ UNCHANGED <<up, link, ring, rtnl, worker, linkEvents, hwVars, napiVars,
                 zcVars>>

\* fec_enet_timeout_work takes RTNL; the device is present, running or not.
TimeoutWorkBegin ==
  /\ queued /\ rtnl = "free"
  /\ queued' = FALSE /\ rtnl' = "timeout"
  /\ worker' = [worker EXCEPT !["timeout"] = "restart"]
  /\ UNCHANGED <<up, link, ring, linkEvents, timeouts, hwVars, napiVars, zcVars>>

\* Faulty variant: the worker restarts the MAC without disabling NAPI first.
RestartAnyway(w) ==
  /\ worker[w] \in {"restart", "stop"}
  /\ napi' = "off"
  /\ worker' = [worker EXCEPT ![w] = IF @ = "stop" THEN "stopped" ELSE "restarted"]
  /\ IF worker[w] = "stop" THEN Stop ELSE Restart(link)
  /\ UNCHANGED <<bdp, pkts, workRx, again, up, link, ring, rtnl, queued,
                 linkEvents, timeouts, frames, zcVars>>

\* napi_disable returned: no poll is running and none can start.
NapiDisabled(w) ==
  /\ worker[w] \in {"restart", "stop"} /\ napi = "idle"
  /\ napi' = "off"
  /\ worker' = [worker EXCEPT ![w] = IF @ = "stop" THEN "stopped" ELSE "restarted"]
  /\ IF worker[w] = "stop" THEN Stop ELSE Restart(link)
  /\ UNCHANGED <<bdp, pkts, workRx, again, up, link, ring, rtnl, queued,
                 linkEvents, timeouts, frames, zcVars>>

\* napi_enable; only then does adjust_link record that the link is gone.
NapiEnabled(w) ==
  /\ worker[w] \in {"restarted", "stopped"}
  /\ napi' = "idle"
  /\ worker' = [worker EXCEPT ![w] = "idle"]
  /\ link' = (link /\ worker[w] # "stopped")
  /\ rtnl' = IF w = "timeout" THEN "free" ELSE rtnl
  /\ UNCHANGED <<cur, bdp, pkts, unmasked, workRx, again, missed, up, ring,
                 queued, linkEvents, timeouts, hwVars, zcVars>>

------------------------------------------------------------------------------
(* fec_enet_open and fec_enet_close.                                        *)

\* fec_enet_alloc_rxq_buffers picks the target of the whole ring.
RingTarget == IF zc.enabled THEN zc.addr ELSE "skb"

\* Up to fec_restart, which starts the MAC before there is a PHY; a zero-copy
\* buffer too small for the ring makes the open fail.
OpenBegin ==
  /\ rtnl = "free" /\ ~up
  /\ zc.enabled => zc.large
  /\ ring' = RingTarget /\ rtnl' = "opening"
  /\ Restart(link)
  /\ UNCHANGED <<bdp, pkts, workRx, napi, again, up, link, worker, queued,
                 linkEvents, timeouts, frames, zcVars>>

\* fec_enet_mii_probe found the PHY; the link is down until it reports.
OpenFinish ==
  /\ rtnl = "opening"
  /\ up' = TRUE /\ link' = FALSE /\ napi' = "idle" /\ rtnl' = "free"
  /\ UNCHANGED <<cur, bdp, pkts, unmasked, workRx, again, missed, ring, worker,
                 queued, linkEvents, timeouts, hwVars, zcVars>>

\* It did not: the buffers are freed without fec_stop ...
OpenFails ==
  /\ rtnl = "opening"
  /\ ring' = "none" /\ rtnl' = "unwinding"
  /\ UNCHANGED <<up, link, worker, queued, linkEvents, timeouts, hwVars,
                 napiVars, zcVars>>

\* ... and the MAC runs until fec_enet_clk_enable takes its clocks.
ClocksOff ==
  /\ rtnl = "unwinding"
  /\ mac' = FALSE /\ rtnl' = "free"
  /\ UNCHANGED <<desc, hw, event, frames, up, link, ring, worker, queued,
                 linkEvents, timeouts, napiVars, zcVars>>

CloseBegin ==
  /\ rtnl = "free" /\ up
  /\ up' = FALSE /\ rtnl' = "closing"
  /\ UNCHANGED <<link, ring, worker, queued, linkEvents, timeouts, hwVars,
                 napiVars, zcVars>>

\* phy_stop waits for adjust_link, and its last call marks the link down.
PhyStop ==
  /\ rtnl = "closing" /\ worker["phy"] = "idle"
  /\ link' = FALSE /\ rtnl' = "draining"
  /\ UNCHANGED <<up, ring, worker, queued, linkEvents, timeouts, hwVars,
                 napiVars, zcVars>>

\* napi_disable returned: fec_stop, then fec_enet_free_buffers.
CloseFinish ==
  /\ rtnl = "draining" /\ napi = "idle"
  /\ napi' = "off" /\ Stop
  /\ ring' = "none" /\ rtnl' = "free"
  /\ UNCHANGED <<bdp, pkts, workRx, again, up, link, worker, queued, linkEvents,
                 timeouts, frames, zcVars>>

------------------------------------------------------------------------------
(* fec_enet_ioctl.  The receiver configures a stopped interface, once.      *)

CallerMaySetUp == AnyCaller \/ ~up

\* Faulty variant: init_waitqueue_head is forgotten.
SetupNoQueue(a, large) ==
  /\ rtnl = "free" /\ CallerMaySetUp
  /\ zc' = [zc EXCEPT !.enabled = TRUE, !.addr = a, !.large = large]
  /\ count' = 0
  /\ UNCHANGED <<hwVars, napiVars, ctlVars>>

SetupZc(a, large) ==
  /\ rtnl = "free" /\ CallerMaySetUp
  /\ zc' = [enabled |-> TRUE, addr |-> a, large |-> large, ready |-> TRUE]
  /\ count' = 0
  /\ UNCHANGED <<hwVars, napiVars, ctlVars>>

\* -EINVAL for an address that is not 64-byte aligned, after zc_enabled was
\* already set.
SetupMisaligned ==
  /\ rtnl = "free" /\ AnyCaller
  /\ zc' = [zc EXCEPT !.enabled = TRUE]
  /\ UNCHANGED <<count, hwVars, napiVars, ctlVars>>

SetupOff ==
  /\ rtnl = "free" /\ CallerMaySetUp
  /\ zc' = [zc EXCEPT !.enabled = FALSE]
  /\ UNCHANGED <<count, hwVars, napiVars, ctlVars>>

\* FEC_IOC_WAIT_ZC_DATA; a wait on a queue never initialised faults unless
\* the counter is already positive.
WaitBegin ==
  /\ rtnl = "free" /\ zc.enabled
  /\ rtnl' = IF zc.ready \/ count > 0 THEN "wait" ELSE "crashed"
  /\ UNCHANGED <<up, link, ring, worker, queued, linkEvents, timeouts, hwVars,
                 napiVars, zcVars>>

WaitReturn ==
  /\ rtnl = "wait" /\ count > 0
  /\ count' = count - 1 /\ rtnl' = "free"
  /\ UNCHANGED <<up, link, ring, worker, queued, linkEvents, timeouts, hwVars,
                 napiVars, zc>>

\* A signal ends the sleep with -ERESTARTSYS.
WaitSignalled ==
  /\ rtnl = "wait"
  /\ rtnl' = "free"
  /\ UNCHANGED <<up, link, ring, worker, queued, linkEvents, timeouts, hwVars,
                 napiVars, zcVars>>

------------------------------------------------------------------------------
Kernel ==
  \/ Interrupt \/ HandleFrame \/ PollStep \/ CompleteInterrupted
  \/ TimeoutWorkBegin \/ PhyStop \/ CloseFinish
  \/ \E w \in Workers : NapiDisabled(w) \/ NapiEnabled(w)

Outside ==
  \/ \E kind \in {"good", "bad"} : HwReceive(kind)
  \/ \E op \in {"restart", "stop"} : AdjustLinkBegin(op)
  \/ TxTimeout

Callers ==
  \/ OpenBegin \/ OpenFinish \/ OpenFails \/ ClocksOff \/ CloseBegin
  \/ \E a \in Addrs, large \in BOOLEAN : SetupZc(a, large)
  \/ SetupMisaligned \/ SetupOff
  \/ WaitBegin \/ WaitReturn \/ WaitSignalled

\* A fault in the softirq or in an ioctl takes the machine down.
Alive == napi # "crashed" /\ rtnl # "crashed"

Next == Alive /\ (Kernel \/ Outside \/ Callers)

Spec == Init /\ [][Next]_vars

\* A pending receive interrupt is taken, softirqs and work items run and a
\* woken wait call returns; nobody has to use the MDIO bus.
Fairness ==
  /\ WF_vars(Alive /\ RxInterrupt)
  /\ WF_vars(Alive /\ HandleFrame) /\ WF_vars(Alive /\ PollStep)
  /\ WF_vars(Alive /\ PhyStop) /\ WF_vars(Alive /\ CloseFinish)
  /\ WF_vars(Alive /\ WaitReturn)
  /\ \A w \in Workers : /\ WF_vars(Alive /\ NapiDisabled(w))
                        /\ WF_vars(Alive /\ NapiEnabled(w))

FairSpec == Spec /\ Fairness

------------------------------------------------------------------------------
(* Properties.                                                              *)

HwTypeOK ==
  /\ mac \in BOOLEAN /\ event \in BOOLEAN
  /\ desc \in [Slots -> {"empty", "good", "bad"}] /\ hw \in Slots
  /\ frames \in 0 .. MaxFrames

NapiTypeOK ==
  /\ cur \in Slots /\ bdp \in Slots /\ pkts \in 0 .. Budget
  /\ unmasked \in BOOLEAN /\ workRx \in BOOLEAN
  /\ again \in BOOLEAN /\ missed \in BOOLEAN
  /\ napi \in {"off", "idle", "sched", "poll", "exit", "tx", "crashed"}

CtlTypeOK ==
  /\ up \in BOOLEAN /\ link \in BOOLEAN /\ ring \in {"none", "skb"} \cup Addrs
  /\ rtnl \in {"free", "wait", "timeout", "opening", "unwinding", "closing",
              "draining", "crashed"}
  /\ worker \in [Workers ->
                 {"idle", "restart", "stop", "restarted", "stopped"}]
  /\ queued \in BOOLEAN
  /\ linkEvents \in 0 .. MaxLinkEvents /\ timeouts \in 0 .. MaxTimeouts

ZcTypeOK == zc \in ZcConfig /\ count \in Nat

\* The type invariant: every field holds what its C declaration and the
\* handlers above allow, and every cursor stays inside the ring.
TypeOK == HwTypeOK /\ NapiTypeOK /\ CtlTypeOK /\ ZcTypeOK

\* Where the driver will look next: the loop's cursor while it polls.
Cursor == IF napi \in {"poll", "crashed"} THEN bdp ELSE cur

\* No lost wake-up but two: when the driver rests with the link up, a frame
\* waits in the ring only if its interrupt is still to come, or if its event
\* was acknowledged while napi_disable held NAPI, or by an MII interrupt after
\* the receive loop had ended and before clear_bit wiped work_rx.  The handler
\* acknowledges RXF before NAPI runs and the loop acknowledges it again per
\* frame, so a wrong order anywhere else leaves a frame behind as well
\* (fec_enet_interrupt, fec_enet_rx, fec_enet_rx_queue).
NoLostWakeup ==
  (napi = "idle" /\ mac /\ link /\ ~Disabling /\ desc[cur] # "empty")
    => (unmasked /\ event) \/ missed

\* The MAC never writes through descriptors whose buffers were freed, even
\* when a link change or a transmit timeout races with fec_enet_close; only
\* an open whose PHY probe failed frees them under a running MAC.
NoDmaAfterFree == mac => ring # "none" \/ rtnl = "unwinding"

\* As long as the ioctls come in the receiver's order, the loop never touches
\* the NULL skbs of a zero-copy ring nor a wait queue not initialised
\* (fec_enet_rx_queue, fec_enet_alloc_rxq_buffers).
NeverCrashes == Alive

\* The comment of fec_enet_alloc_rxq_buffers says rx_skbuff is NULL so that
\* later code cannot operate on it by mistake: the receive loop then must not
\* reach the regular path on such a ring.
NullSkbUntouched ==
  napi = "poll" /\ desc[bdp] = "good" /\ ring \in Addrs => zc.enabled

\* The frames waiting, oldest first, seen from the driver's cursor.
Waiting == Cardinality({i \in Slots : desc[i] # "empty"})
Channel == INSTANCE ZcChannel WITH
  queue <- [i \in 1 .. Waiting |-> desc[(Cursor + i - 1) % R]]

\* The ring with its two cursors, the restarts and the counter implement a
\* FIFO channel: frames handled in order and once, bad frames never announced,
\* one return per announcement (fec_enet_rx_queue, fec_enet_ioctl).
ImplementsChannel == Channel!ChannelSpec

\* A good frame in the ring ends the sleep of the process waiting for it,
\* through the interrupt, the poll, the counter and the wake-up, unless a
\* restart drops the frame, its event is lost in one of the two ways that
\* NoLostWakeup names, or an ioctl out of order brought the machine down.
FrameWakesReceiver ==
  (rtnl = "wait" /\ link /\ mac /\ \E i \in Slots : desc[i] = "good")
    ~> (rtnl # "wait" \/ missed \/ ~link \/ worker["phy"] = "restarted" \/ ~Alive)
=============================================================================
