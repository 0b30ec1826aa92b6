------------------------------ MODULE FecPower ------------------------------
(* Power of the first FEC and the MDIO bus behind its registers, from        *)
(* kd_file/fec_main.c: probe and remove, open and close, system sleep,       *)
(* runtime PM with its autosuspend, and the MDIO transactions of its own PHY *)
(* and, on a board with one bus (FEC_QUIRK_SINGLE_MDIO), of the second FEC's *)
(* PHY, whose driver knows nothing of this interface's state.  RTNL          *)
(* serialises open, close and suspend; the bus lock admits one transaction;  *)
(* the interrupt and MAC restarts run between any two steps of it.           *)
EXTENDS Integers, FiniteSets

CONSTANTS
    Failures,      \* steps that may fail: see Steps and the uses below
    MaxTimeouts,   \* bound: waits that run into FEC_MII_TIMEOUT
    MaxRestarts,   \* bound: restarts of an open interface
    MaxLeaks       \* bound: runtime resumes that fail

Steps == {"clk", "ipg", "ahb", "regulator", "reset", "init", "mii", "register"}
ASSUME FailuresAssumption ==
    Failures \subseteq Steps \union {"get", "open_clk", "buffers", "phy",
                              "resume_reg", "resume_clk", "resume_force"}

VARIABLES
    net,       \* "unbound", "down", "opening" (probing the PHY), "up" or "lost"
    asleep,    \* between fec_suspend and fec_resume
    peer,      \* second FEC: "none", "up" or "asleep"
    share,     \* fep->mii_bus_share
    pins,      \* pinctrl state "default" (TRUE) or "sleep" (FALSE)
    power,     \* counts of [usage, active, ipg, ahb, clk, reg]
    imask,     \* FEC_ENET_MII is set in IMASK
    event,     \* FEC_ENET_MII is set in IEVENT
    irq,       \* the handler has acknowledged the event, not yet completed
    done,      \* count of mdio_done
    wire,      \* the frame on the bus: "none", "old", "addr" or "data"
    mmfr,      \* FEC_MII_DATA holds what the PHY answered to this call
    op,        \* the transaction that holds the bus lock
    leaks,     \* runtime references taken by a resume that failed
    restarts, timeouts,   \* progress towards the bounds
    hist       \* what the properties must not forget

macVars == <<imask, event, irq, wire, mmfr>>
bound == <<restarts, timeouts, leaks>>
vars == <<net, asleep, peer, share, pins, power, macVars, done, op, bound, hist>>

Idle == [by |-> "nobody", phase |-> "idle", write |-> FALSE, excused |-> FALSE]
None == [usage |-> 0, active |-> FALSE, ipg |-> 0, ahb |-> 0, clk |-> 0, reg |-> 0]

Add(p, fields, n) == [f \in DOMAIN p |-> IF f \in fields THEN p[f] + n ELSE p[f]]

(* pm_runtime_get_sync and pm_runtime_put_autosuspend *)
Get(p) == LET q == Add(p, {"usage"}, 1)
          IN  IF p.active THEN q ELSE [Add(q, {"ipg", "ahb"}, 1) EXCEPT !.active = TRUE]
Put(p) == Add(p, {"usage"}, -1)

(* fec_runtime_resume failed: the reference is taken all the same, and none *)
(* of the callers that return the error puts it back.                       *)
GetFails ==
    /\ "get" \in Failures /\ ~power.active /\ leaks < MaxLeaks
    /\ leaks' = leaks + 1
    /\ power' = Add(power, {"usage"}, 1)
    /\ UNCHANGED <<restarts, timeouts>>

(* What an open interface holds, given back.                                *)
ReleaseKeepsClocks(p) == Put(p)
Release(p) == Put(Add(p, {"clk"}, -1))

(* Registers answer while both bus clocks run.                              *)
Touch(p) == IF p.ipg > 0 /\ p.ahb > 0 THEN {} ELSE {"hung"}

(* The MAC reset of fec_restart and fec_stop, and their write of IMASK; a   *)
(* frame on the bus and the answer it brings are lost.                      *)
ResetMac ==
    /\ imask' = TRUE /\ event' = FALSE /\ wire' = "none" /\ mmfr' = FALSE
    /\ UNCHANGED irq
Excuse == op' = [op EXCEPT !.excused = @ \/ op # Idle]

-----------------------------------------------------------------------------
(* Probe and remove *)

(* What fec_probe has taken when a step fails, and what the labels it jumps *)
(* to give back; the optional clocks are off again when the device registers. *)
Held(step) ==
    CASE step = "clk" -> {}
      [] step = "ipg" -> {"clk"}
      [] step = "ahb" -> {"clk", "ipg"}
      [] step = "regulator" -> {"clk", "ipg", "ahb"}
      [] step = "register" -> {"ipg", "ahb", "reg"}
      [] OTHER -> {"clk", "ipg", "ahb", "reg"}
GivenBack(step) ==
    CASE step = "clk" -> {}
      [] step = "ipg" -> {"clk"}
      [] step = "ahb" -> {"clk", "ipg"}
      [] step \in {"regulator", "reset"} -> {"clk", "ipg", "ahb"}
      [] OTHER -> {"clk", "ipg", "ahb", "reg"}

(* References that leaked outlive the driver.                               *)
Unbound == [None EXCEPT !.usage = leaks]

ProbeFails(step) ==
    /\ net = "unbound" /\ step \in Steps
    /\ power' = Add(Add(Unbound, Held(step), 1), GivenBack(step), -1)
    /\ UNCHANGED <<net, asleep, peer, share, pins, macVars, done, op, bound, hist>>

(* fec_enet_init ends in fec_restart; the bus is registered, the optional   *)
(* clocks go off, the pins to sleep, and the device is left to autosuspend. *)
Probe ==
    /\ net = "unbound" /\ net' = "down"
    /\ power' = [Add(Unbound, {"ipg", "ahb", "reg"}, 1) EXCEPT !.active = TRUE]
    /\ ResetMac /\ done' = 0
    /\ pins' = FALSE /\ share' = FALSE
    /\ UNCHANGED <<asleep, peer, op, bound, hist>>

Remove ==
    /\ net \in {"down", "up"} /\ ~asleep /\ peer = "none" /\ op = Idle
    /\ net' = "unbound"
    /\ LET closed == IF net = "up" THEN Release(power) ELSE power
       IN  power' = [Add(Put(Get(closed)), {"ahb", "ipg", "reg"}, -1) EXCEPT !.active = FALSE]
    /\ imask' = FALSE /\ event' = FALSE /\ irq' = FALSE /\ wire' = "none" /\ mmfr' = FALSE
    /\ UNCHANGED <<asleep, peer, share, pins, done, op, bound, hist>>

(* fec_drv_remove returns before it has undone anything.                    *)
RemoveFails ==
    /\ net = "down" /\ ~asleep /\ peer = "none" /\ op = Idle /\ GetFails
    /\ net' = "lost"
    /\ UNCHANGED <<asleep, peer, share, pins, macVars, done, op, hist>>

(* The second FEC takes over the bus; it is removed before the first.       *)
PeerProbe ==
    /\ peer = "none" /\ net \in {"down", "opening", "up"} /\ ~asleep
    /\ peer' = "up" /\ share' = TRUE
    /\ hist' = IF pins /\ imask THEN hist ELSE hist \union {"dormant_bus"}
    /\ UNCHANGED <<net, asleep, pins, power, macVars, done, op, bound>>

PeerRemove ==
    /\ peer = "up" /\ op.by # "peer" /\ peer' = "none"
    /\ UNCHANGED <<net, asleep, share, pins, power, macVars, done, op, bound, hist>>

-----------------------------------------------------------------------------
(* Open and close *)
CanOpen == net = "down" /\ ~asleep

OpenFails(step) ==
    /\ CanOpen
    /\ \/ step = "get" /\ GetFails /\ UNCHANGED pins
       \/ step \in {"open_clk", "buffers"} /\ power' = Put(Get(power)) /\ pins' = share
                                        /\ UNCHANGED bound
    /\ UNCHANGED <<net, asleep, peer, share, macVars, done, op, hist>>

Open ==
    /\ CanOpen
    /\ net' = "opening"
    /\ power' = Add(Get(power), {"clk"}, 1)
    /\ pins' = TRUE
    /\ hist' = (hist \union Touch(power')) \ {"dormant_bus"}
    /\ ResetMac /\ Excuse
    /\ UNCHANGED <<asleep, peer, share, done, bound>>

(* fec_enet_mii_probe found the PHY, or did not.                            *)
Opened ==
    /\ net = "opening" /\ op.by # "own" /\ net' = "up"
    /\ UNCHANGED <<asleep, peer, share, pins, power, macVars, done, op, bound, hist>>

PhyMissing ==
    /\ net = "opening" /\ op.by # "own" /\ "phy" \in Failures
    /\ net' = "down" /\ power' = Release(power) /\ pins' = share
    /\ UNCHANGED <<asleep, peer, share, macVars, done, op, bound, hist>>

(* phy_stop and phy_disconnect wait for the PHY's own transaction.          *)
Close ==
    /\ net = "up" /\ ~asleep /\ op.by # "own"
    /\ net' = "down" /\ power' = Release(power) /\ pins' = share
    /\ ResetMac /\ Excuse
    /\ hist' = hist \union Touch(power)
    /\ UNCHANGED <<asleep, peer, share, done, bound>>

(* A link change or a transmit timeout restarts or stops the MAC.           *)
Restart ==
    /\ net = "up" /\ ~asleep /\ restarts < MaxRestarts
    /\ ResetMac /\ Excuse
    /\ restarts' = restarts + 1
    /\ hist' = hist \union Touch(power)
    /\ UNCHANGED <<net, asleep, peer, share, pins, power, done, timeouts, leaks>>

-----------------------------------------------------------------------------
(* System sleep: the second FEC, probed later, suspends first and resumes   *)
(* last.  Sleep loses the registers.                                        *)
PeerSleeps ==
    /\ peer = "up" /\ op.by # "peer" /\ ~asleep /\ net # "opening" /\ peer' = "asleep"
    /\ UNCHANGED <<net, asleep, share, pins, power, macVars, done, op, bound, hist>>

Suspend ==
    /\ net \in {"down", "up"} /\ ~asleep /\ peer # "up" /\ op = Idle
    /\ asleep' = TRUE
    /\ power' = LET off == [Add(power, {"clk", "ipg", "ahb"}, -1) EXCEPT !.active = FALSE]
                IN  Add(IF net = "up" THEN off ELSE power, {"reg"}, -1)
    /\ pins' = (pins /\ net = "down" /\ ~share)
    /\ hist' = IF net = "up" THEN hist \union Touch(power) ELSE hist
    /\ imask' = FALSE /\ event' = FALSE /\ irq' = FALSE /\ wire' = "none" /\ mmfr' = FALSE
    /\ UNCHANGED <<net, peer, share, done, op, bound>>

(* An open interface restarts its MAC; a closed one restores the bus for    *)
(* whoever shares it.                                                       *)
RestoresOwnBus == net = "up"
RestoresBus == net = "up" \/ share
Resume ==
    /\ asleep /\ asleep' = FALSE
    /\ power' = LET on == [Add(power, {"clk", "ipg", "ahb"}, 1) EXCEPT !.active = TRUE]
                IN  Add(IF net = "up" THEN on ELSE IF share THEN Put(Get(power)) ELSE power, {"reg"}, 1)
    /\ IF RestoresBus
       THEN ResetMac /\ pins' = TRUE /\ hist' = (hist \union Touch(power')) \ {"dormant_bus"}
       ELSE UNCHANGED <<macVars, pins, hist>>
    /\ UNCHANGED <<net, peer, share, done, op, bound>>

(* fec_restore_mii_bus of a closed interface returns without restoring      *)
(* anything, and the resume ends there.                                     *)
RestoreFails ==
    /\ asleep /\ net = "down" /\ share
    /\ "get" \in Failures /\ ~power.active /\ leaks < MaxLeaks
    /\ asleep' = FALSE /\ leaks' = leaks + 1
    /\ power' = Add(power, {"usage", "reg"}, 1)
    /\ pins' = TRUE /\ hist' = hist \union {"dormant_bus"}
    /\ UNCHANGED <<net, peer, share, macVars, done, op, restarts, timeouts>>

(* The device is left with its clocks or its regulator off and nobody to    *)
(* turn them on: what its driver does from here on is not modelled.  A      *)
(* failing pm_runtime_force_resume goes unnoticed: the optional clocks are  *)
(* turned on, or not, and then the MAC is restarted without its bus clocks. *)
ResumeFails(step) ==
    /\ asleep /\ step \in {"resume_reg", "resume_clk", "resume_force"}
    /\ step # "resume_reg" => net = "up"
    /\ asleep' = FALSE
    /\ CASE step = "resume_reg" -> power' = power
         [] step = "resume_clk" -> \/ power' = [Add(power, {"ipg", "ahb"}, 1) EXCEPT !.active = TRUE]
                                   \/ "resume_force" \in Failures /\ power' = power
         [] step = "resume_force" -> power' = Add(power, {"clk", "reg"}, 1)
    /\ net' = "lost"
    /\ hist' = IF step = "resume_force" THEN hist \union Touch(power') ELSE hist
    /\ UNCHANGED <<peer, share, pins, macVars, done, op, bound>>

PeerWakes ==
    /\ peer = "asleep" /\ ~asleep /\ peer' = "up"
    /\ UNCHANGED <<net, asleep, share, pins, power, macVars, done, op, bound, hist>>

(* Nothing has used the device for FEC_MDIO_PM_TIMEOUT, longer than an      *)
(* interrupt is ever delayed or a frame takes.                              *)
Autosuspend ==
    /\ power.usage = 0 /\ power.active /\ net # "unbound" /\ ~asleep
    /\ ~irq /\ ~event /\ wire = "none"
    /\ power' = [Add(power, {"ipg", "ahb"}, -1) EXCEPT !.active = FALSE]
    /\ UNCHANGED <<net, asleep, peer, share, pins, macVars, done, op, bound, hist>>

-----------------------------------------------------------------------------
(* MDIO *)
MayCall(by) ==
    /\ ~asleep
    /\ by = "own" => net \in {"opening", "up"}
    /\ by = "peer" => peer = "up"

(* Writing FEC_MII_DATA over a frame still on the bus: either one survives. *)
Send(frame) ==
    /\ wire' \in {frame} \union (IF wire = "none" THEN {} ELSE {"old"})
    /\ mmfr' = FALSE

KeepDone(d) == d
Reinit(d) == 0

Begin(by, write, c45) ==
    /\ op = Idle /\ MayCall(by)
    /\ power' = Get(power)
    /\ done' = Reinit(done)
    /\ Send(IF c45 THEN "addr" ELSE "data")
    /\ op' = [by |-> by, phase |-> IF c45 THEN "addr" ELSE "data", write |-> write,
              excused |-> event \/ irq \/ wire # "none"]
    /\ hist' = hist \union Touch(power')
    /\ UNCHANGED <<net, asleep, peer, share, pins, imask, event, irq, bound>>

(* The call returns without a transaction.                                  *)
CallFails(by) ==
    /\ op = Idle /\ MayCall(by) /\ GetFails
    /\ UNCHANGED <<net, asleep, peer, share, pins, macVars, done, op, hist>>

AddressSent ==
    /\ op.phase = "addr" /\ done > 0 /\ done' = done - 1
    /\ op' = [op EXCEPT !.phase = "data"]
    /\ Send("data")
    /\ UNCHANGED <<net, asleep, peer, share, pins, power, imask, event, irq, bound, hist>>

Finish(ok) ==
    /\ op' = Idle /\ power' = Put(power)
    /\ hist' = hist \union Touch(power)
                 \union (IF ok /\ ~mmfr /\ ~op.excused /\ net # "lost" /\ "dormant_bus" \notin hist
                         THEN {"wrong"} ELSE {})
    /\ UNCHANGED <<net, asleep, peer, share, pins, macVars, restarts, leaks>>

Answered == op.phase = "data" /\ done > 0 /\ done' = done - 1 /\ Finish(TRUE) /\ UNCHANGED timeouts

(* A read that timed out looks at IEVENT itself; it leaves the event there. *)
TimeOut ==
    /\ op.phase # "idle" /\ done = 0 /\ timeouts < MaxTimeouts
    /\ timeouts' = timeouts + 1
    /\ Finish(op.phase = "data" /\ ~op.write /\ event)
    /\ UNCHANGED done

FrameEnds ==
    /\ wire # "none" /\ power.ipg > 0
    /\ wire' = "none" /\ event' = TRUE /\ mmfr' = (wire = "data" /\ pins)
    /\ UNCHANGED <<net, asleep, peer, share, pins, power, imask, irq, done, op, bound, hist>>

IrqReads ==
    /\ event /\ imask /\ ~irq /\ event' = FALSE /\ irq' = TRUE
    /\ hist' = hist \union Touch(power)
    /\ UNCHANGED <<net, asleep, peer, share, pins, power, imask, wire, mmfr, done, op, bound>>

IrqCompletes ==
    /\ irq /\ irq' = FALSE /\ done' = done + 1
    /\ UNCHANGED <<net, asleep, peer, share, pins, power, imask, event, wire, mmfr, op, bound, hist>>

-----------------------------------------------------------------------------
Init ==
    /\ net = "unbound" /\ asleep = FALSE /\ peer = "none" /\ share = FALSE /\ pins = FALSE
    /\ power = None /\ imask = FALSE /\ event = FALSE /\ irq = FALSE /\ done = 0
    /\ wire = "none" /\ mmfr = FALSE /\ op = Idle
    /\ restarts = 0 /\ timeouts = 0 /\ leaks = 0 /\ hist = {}

Next ==
    \/ Probe \/ Remove \/ RemoveFails \/ PeerProbe \/ PeerRemove
    \/ Open \/ Opened \/ PhyMissing \/ Close \/ Restart
    \/ PeerSleeps \/ Suspend \/ Resume \/ RestoreFails \/ PeerWakes \/ Autosuspend
    \/ \E step \in Failures : ProbeFails(step) \/ OpenFails(step) \/ ResumeFails(step)
    \/ \E by \in {"own", "peer"}, write, c45 \in BOOLEAN : Begin(by, write, c45)
    \/ \E by \in {"own", "peer"} : CallFails(by)
    \/ AddressSent \/ Answered \/ TimeOut \/ FrameEnds \/ IrqReads \/ IrqCompletes

Spec == Init /\ [][Next]_vars

-----------------------------------------------------------------------------
(* Properties *)

(* What is counted on always equals what is in use: the optional clocks for *)
(* an open, awake interface; a runtime PM reference for it and for the      *)
(* transaction in progress, and one more for each runtime resume that       *)
(* failed, which the driver never gives back; the bus clocks while the      *)
(* device is active, and active while in use; the regulator while bound and *)
(* awake.  After a failed probe or open nothing else is left over.  No      *)
(* register is touched with its clocks off.  All of it up to a system       *)
(* resume that loses clocks or regulator, or a remove that gives up.        *)
PowerBalanced == net # "lost" =>
    LET one(b) == IF b THEN 1 ELSE 0
        open == net \in {"opening", "up"}
    IN  /\ power.clk = one(open /\ ~asleep)
        /\ power.usage = one(open) + one(op # Idle) + leaks
        /\ power.ipg = one(power.active) /\ power.ahb = one(power.active)
        /\ (open \/ op # Idle) /\ ~asleep => power.active
        /\ net = "unbound" => ~power.active
        /\ power.reg = one(net # "unbound" /\ ~asleep)
        /\ "hung" \notin hist

(* A call that reports success has had its frame on the bus, and a read     *)
(* returns what the PHY answered to this call and not to an earlier one:    *)
(* a completion that comes after its call gave up is never taken by a later *)
(* call.  Excused: the MAC was reset during the call, or the late frame or  *)
(* interrupt was still under way when it began; and a dormant bus, until the *)
(* first FEC opens or resumes: the second bound while the first was closed, *)
(* its pins asleep or the interrupt lost in a system sleep before anybody   *)
(* shared the bus, or the resume of the first could not restore the bus.    *)
MdioHonest == "wrong" \notin hist

(* While a call waits, the frame, its interrupt or its completion is on the *)
(* way, and the interrupt is not masked nor its clocks off, whatever state  *)
(* the interface that owns the bus is in: a call times out only because the *)
(* bus is slow, or with the excuses above.                                  *)
WaitIsServed ==
    op # Idle /\ ~op.excused /\ net # "lost" /\ "dormant_bus" \notin hist =>
        /\ wire # "none" \/ event \/ irq \/ done > 0
        /\ imask /\ power.ipg > 0 /\ power.ahb > 0
=============================================================================
