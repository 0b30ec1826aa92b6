---------------------------- MODULE MxsfbDisplay ----------------------------
(***************************************************************************)
(* The LCD controller driver kd_file/mxsfb.c with its overlay plane: mode  *)
(* setting, blanking with the clocks, the regulator and the runtime PM     *)
(* reference, panning and the wait for vertical sync on their completions, *)
(* the interrupt handler, system suspend and resume.                       *)
(*                                                                         *)
(* The driver state and the registers are one record, dev; the functions   *)
(* of the driver are operators from a record to a record, and the actions  *)
(* are the system calls that run them under the locks the framebuffer core *)
(* takes: console_lock for every call that changes a mode, blanks or pans, *)
(* the lock of the primary framebuffer as well when a user calls, and that *)
(* lock alone for the private ioctl.  The console and the suspend path     *)
(* hold console_lock alone (mxsfb.c:2336, 2450, 2470).                     *)
(***************************************************************************)
EXTENDS Integers

CONSTANTS
    Modes,       \* the screen modes a user asks for, [line, yres, virt]
    BootMode,    \* the mode of the device tree
    MemLen,      \* fix.smem_len
    Failures,    \* how mxsfb_enable_controller may fail: "regulator", "rate"
    WarmBoot,    \* does the boot loader leave the controller running
    MaxOpen      \* bound: how often the overlay is held open at once

ASSUME DisplayAssumption ==
    /\ MemLen \in Nat \ {0}
    /\ Modes \subseteq [line : Nat \ {0}, yres : Nat \ {0}, virt : Nat]
    /\ BootMode \in Modes
    /\ BootMode.virt >= BootMode.yres /\ BootMode.line * BootMode.virt <= MemLen
    /\ Failures \subseteq {"regulator", "rate"}
    /\ WarmBoot \in BOOLEAN
    /\ MaxOpen \in Nat \ {0}

VARIABLES
    dev,     \* the registers and struct mxsfb_info
    wait0,   \* what the call in progress on the primary framebuffer sleeps in
    wait1,   \* the same of the overlay; each has a lock that admits one call
    goal,    \* the line the pan in progress on the primary was asked to show
    irq      \* the interrupt status the running handler has read

vars == <<dev, wait0, wait1, goal, irq>>
waits == <<wait0, wait1, goal>>

Events == {"vsync", "flip"}
NoMode == [line |-> 1, yres |-> 0, virt |-> 0]
\* Bound: enabling the controller fails once.
Outcomes == {"ok"} \cup (IF "failed" \in dev.hist THEN {} ELSE Failures)

(***************************************************************************)
(* The driver functions.                                                   *)
(***************************************************************************)
\* A register access with the pixel clock off hangs the bus (mxsfb.c:1211-1214):
\* nothing moves any more, and who did it is recorded.
Touch(d, who) == IF d.clk \/ d.hung # "no" THEN d ELSE [d EXCEPT !.hung = who]

\* What happened so far that a property allows for.
Note(d, what) == [d EXCEPT !.hist = @ \cup {what}]

CheckVar(m) == [m EXCEPT !.virt = IF m.virt < m.yres THEN m.yres ELSE m.virt]

EnableController(d, out) ==
    CASE out = "regulator" -> Note(d, "failed")
      [] out = "rate" -> [Note(d, "failed") EXCEPT !.clk = FALSE]
      [] OTHER -> [d EXCEPT !.clk = TRUE, !.run = TRUE, !.enabled = 1, !.reg = @ + 1]

DisableController(d) ==
    [Touch(d, "driver") EXCEPT !.run = FALSE, !.enabled = 0, !.reg = @ - 1]

ParEqual(d) == ~d.force /\ d.mode = d.oldmode

\* The registers of a mode; the whole-register write to CTRL1 drops every
\* interrupt enable and status bit.
Program(d) ==
    [Touch(d, "driver") EXCEPT !.hw = d.mode, !.next = d.line * d.yoff,
                               !.en = {}, !.st = {}, !.hist = @ \cap {"failed"}]

\* Mutant of Bypass: every reprogramming is counted.
BypassUncapped(d) == [d EXCEPT !.bypass = @ + 1]

\* The first two calls are not compared with the mode before.
Bypass(d) == [d EXCEPT !.bypass = IF @ > 1 THEN @ ELSE @ + 1]

SetPar(d, out) ==
    LET same == d.bypass > 1 /\ ParEqual(d)
        fits == d.mode.line * d.mode.virt <= MemLen
        d1 == Bypass(d)
        d2 == [d1 EXCEPT !.line = d.mode.line]
        d3 == IF d.enabled = 1
              THEN EnableController(Program(DisableController(d2)), out)
              ELSE Program(d2)
    IN  CASE same -> [dev |-> d, err |-> FALSE]
          [] ~same /\ d.blanked -> [dev |-> d1, err |-> FALSE]
          [] ~same /\ ~d.blanked /\ ~fits -> [dev |-> Note(d2, "badline"), err |-> TRUE]
          [] ~same /\ ~d.blanked /\ fits ->
                 [dev |-> [d3 EXCEPT !.force = FALSE, !.oldmode = d.mode], err |-> FALSE]

\* Mutant of Powerdown: the runtime PM reference is put on every blank.
PowerdownAlwaysPuts(d) ==
    LET d1 == [d EXCEPT !.blanked = TRUE]
        d2 == IF d.enabled = 1 THEN DisableController(d1) ELSE d1
    IN  [d2 EXCEPT !.clk = FALSE, !.pm = @ - 1]

Powerdown(d) ==
    LET d1 == [d EXCEPT !.blanked = TRUE]
        d2 == IF d.enabled = 1 THEN [DisableController(d1) EXCEPT !.pm = @ - 1] ELSE d1
    IN  [d2 EXCEPT !.clk = FALSE]

\* Mutant of Unblank: the parameters delayed by the blank state are not forced.
UnblankUnforced(d, out) ==
    LET d1 == [d EXCEPT !.blanked = FALSE, !.clk = TRUE]
        r == SetPar([d1 EXCEPT !.pm = @ + 1, !.hw = NoMode], "ok")
    IN  IF d.enabled = 1 THEN d1 ELSE EnableController(r.dev, out)

Unblank(d, out) ==
    LET d1 == [d EXCEPT !.blanked = FALSE, !.force = TRUE, !.clk = TRUE]
        r == SetPar([d1 EXCEPT !.pm = @ + 1, !.hw = NoMode], "ok")
        d2 == IF r.err THEN Note(r.dev, "lost") ELSE r.dev
    IN  IF d.enabled = 1 THEN d1 ELSE EnableController(d2, out)

Blank(d, on, out) == IF on THEN Powerdown(d) ELSE Unblank(d, out)

(***************************************************************************)
(* The overlay: its operations bracket their register accesses with the    *)
(* clocks when the primary plane is blanked.                               *)
(***************************************************************************)
\* Mutant of ClocksOn: the overlay relies on the clocks of the primary plane.
ClocksAsTheyAre(d) == d

ClocksOn(d) == IF d.blanked THEN [d EXCEPT !.clk = TRUE] ELSE d
ClocksOff(d) == IF d.blanked THEN [d EXCEPT !.clk = FALSE] ELSE d

OverlayEnable(d, out) ==
    IF d.blanked THEN [Touch(d, "driver") EXCEPT !.as = TRUE]
    ELSE EnableController([DisableController(d) EXCEPT !.as = TRUE], out)

OverlayDisable(d, who) == [Touch(d, who) EXCEPT !.as = FALSE]

\* overlayfb_setup rewrites AS_CTRL without its enable bit.
OverlaySetup(d) == [Touch(d, "driver") EXCEPT !.as = FALSE]

OverlaySetPar(d, out) ==
    LET d1 == ClocksOn(d)
        d2 == IF d.ovon THEN OverlayDisable(d1, "driver") ELSE d1
        d3 == OverlaySetup(d2)
    IN  ClocksOff(IF d.ovon THEN OverlayEnable(d3, out) ELSE d3)

OverlayBlank(d, to, out) ==
    LET d1 == ClocksOn(d)
        d2 == IF to THEN OverlayEnable(d1, out)
              ELSE OverlayDisable(d1, "driver")
    IN  IF d.ovon = to THEN d ELSE [ClocksOff(d2) EXCEPT !.ovon = to]

OverlayOpen(d) == [d EXCEPT !.usage = @ + 1]

OverlayRelease(d) ==
    LET d1 == IF d.ovon THEN OverlayDisable(d, "release") ELSE d
    IN  IF d.usage = 1 THEN [d1 EXCEPT !.usage = 0, !.ovon = FALSE]
        ELSE [d EXCEPT !.usage = @ - 1]

\* System sleep loses the registers; the overlay's are saved and written back.
SaveOverlay(d) == [ClocksOff(Touch(ClocksOn(d), "driver")) EXCEPT !.savedAs = d.as]

RestoreOverlay(d) ==
    ClocksOff([Touch(ClocksOn(d), "driver") EXCEPT !.as = d.savedAs, !.savedAs = FALSE])

SuspendDevice(d) ==
    [Powerdown(SaveOverlay(d)) EXCEPT !.restore = d.blanked, !.asleep = TRUE,
        !.hw = NoMode, !.next = 0, !.as = FALSE, !.en = {}, !.st = {}]

\* Mutant of ResumeDevice: the overlay registers are not written back.
ResumeWithoutOverlay(d, out) ==
    [Blank(d, d.restore, out) EXCEPT !.asleep = FALSE, !.restore = FALSE]

ResumeDevice(d, out) ==
    [Blank(RestoreOverlay(d), d.restore, out) EXCEPT !.asleep = FALSE, !.restore = FALSE]

(***************************************************************************)
(* The initial states: after mxsfb_probe.                                  *)
(***************************************************************************)
\* What struct mxsfb_info and the registers hold when mxsfb_init_fbinfo has
\* run: mxsfb_restore_mode adopts a running controller without the regulator
\* or the runtime PM reference.
Fresh(warm) ==
    [clk |-> TRUE, run |-> warm, enabled |-> IF warm THEN 1 ELSE 0, reg |-> 0, pm |-> 0,
     blanked |-> FALSE, restore |-> FALSE, asleep |-> FALSE, force |-> FALSE,
     mode |-> CheckVar(BootMode), oldmode |-> NoMode, yoff |-> 0,
     line |-> BootMode.line, bypass |-> 0,
     hw |-> IF warm THEN BootMode ELSE NoMode, next |-> 0, en |-> {}, st |-> {},
     wait4 |-> FALSE, vdone |-> FALSE, fdone |-> FALSE,
     as |-> FALSE, ovon |-> FALSE,
     usage |-> 0, savedAs |-> FALSE, hung |-> "no", hist |-> {}]

Probe(warm) ==
    LET d == Fresh(warm)
        d1 == IF warm THEN d
              ELSE [EnableController(SetPar(d, "ok").dev, "ok") EXCEPT !.pm = @ + 1]
    IN  Unblank(OverlaySetPar(d1, "ok"), "ok")

Init ==
    /\ dev = Probe(WarmBoot)
    /\ wait0 = "no" /\ wait1 = "no" /\ goal = 0
    /\ irq = {}

(***************************************************************************)
(* Locks: a sleeping call keeps the locks it was entered with, so that at  *)
(* most one call is in progress on each framebuffer.                       *)
(***************************************************************************)
Alive == dev.hung = "no"
ConsoleFree == wait0 # "pan" /\ wait1 = "no"
PrimaryFree == wait0 = "no"
MayCall == Alive /\ ~dev.asleep /\ ConsoleFree /\ PrimaryFree

Sleep0(f, y) == wait0' = f /\ goal' = y /\ UNCHANGED wait1
Return0 == Sleep0("no", 0)
Sleep1(f) == wait1' = f /\ UNCHANGED <<wait0, goal>>

(***************************************************************************)
(* Calls on the primary framebuffer.                                       *)
(***************************************************************************)
\* mxsfb_pan_display up to its wait.
StartPan(d, y) == [Touch(d, "driver") EXCEPT !.next = d.line * y, !.fdone = FALSE,
                                             !.en = @ \cup {"flip"}]

\* FBIOPUT_VSCREENINFO: fb_set_var takes the old mode back when set_par fails,
\* and otherwise pans to the offset of the new one, ignoring the result.
PutVar(m, y, out) ==
    LET v == CheckVar(m)
        r == SetPar([dev EXCEPT !.mode = v, !.yoff = y, !.force = FALSE], out)
    IN  /\ MayCall
        /\ y + v.yres <= v.virt
        /\ \/ /\ r.err
              /\ dev' = [r.dev EXCEPT !.mode = dev.mode, !.yoff = dev.yoff,
                                      !.force = dev.force]
              /\ UNCHANGED waits
           \/ /\ ~r.err /\ dev.blanked
              /\ dev' = r.dev
              /\ UNCHANGED waits
           \/ /\ ~r.err /\ ~dev.blanked
              /\ dev' = StartPan(r.dev, y)
              /\ Sleep0("pan", y)
        /\ UNCHANGED irq

\* FBIOPAN_DISPLAY
Pan(y) ==
    /\ MayCall
    /\ ~dev.blanked
    /\ y + dev.mode.yres <= dev.mode.virt
    /\ dev' = StartPan(dev, y)
    /\ Sleep0("pan", y)
    /\ UNCHANGED irq

PanDone ==
    /\ Alive /\ wait0 = "pan" /\ dev.fdone
    /\ dev' = [dev EXCEPT !.yoff = goal, !.fdone = FALSE]
    /\ Return0 /\ UNCHANGED irq

PanTimeout ==
    /\ Alive /\ wait0 = "pan" /\ ~dev.fdone
    /\ dev' = Note(dev, "panlate")
    /\ Return0 /\ UNCHANGED irq

\* MXCFB_WAIT_FOR_VSYNC: the blank state is read before the interrupt is armed,
\* and only the lock of the primary framebuffer is held.
CheckVsync ==
    /\ Alive /\ ~dev.asleep /\ PrimaryFree
    /\ ~dev.blanked
    /\ Sleep0("checked", 0)
    /\ UNCHANGED <<dev, irq>>

ArmVsync ==
    /\ Alive /\ wait0 = "checked"
    /\ dev' = [Touch(dev, "vsync") EXCEPT !.vdone = FALSE, !.wait4 = TRUE,
                                          !.en = @ \cup {"vsync"}]
    /\ Sleep0("vsync", 0)
    /\ UNCHANGED irq

VsyncDone ==
    /\ Alive /\ wait0 = "vsync" /\ dev.vdone
    /\ dev' = [dev EXCEPT !.vdone = FALSE]
    /\ Return0 /\ UNCHANGED irq

VsyncTimeout ==
    /\ Alive /\ wait0 = "vsync" /\ ~dev.vdone
    /\ dev' = [Note(dev, "vsynclate") EXCEPT !.wait4 = FALSE]
    /\ Return0 /\ UNCHANGED irq

VsyncInterrupted ==
    /\ Alive /\ wait0 = "vsync" /\ ~dev.vdone
    /\ Return0 /\ UNCHANGED <<dev, irq>>

\* FBIOBLANK and the blanking of the console.
BlankCall(on, out) ==
    /\ Alive /\ ConsoleFree /\ ~dev.asleep
    /\ dev' = Blank(dev, on, out)
    /\ UNCHANGED <<waits, irq>>

(***************************************************************************)
(* Calls on the overlay framebuffer.                                       *)
(***************************************************************************)
\* overlayfb_pan_display up to its wait; where the overlay scans is left out.
StartOverlayPan(d) == [Touch(d, "driver") EXCEPT !.fdone = FALSE,
                                                 !.en = @ \cup {"flip"}]

OverlayPutVar(out) ==
    /\ MayCall /\ dev.usage > 0
    /\ LET d == OverlaySetPar(dev, out)
       IN  \/ dev.blanked /\ dev' = d /\ UNCHANGED waits
           \/ ~dev.blanked /\ dev' = StartOverlayPan(d) /\ Sleep1("pan")
    /\ UNCHANGED irq

OverlayBlankCall(to, out) ==
    /\ MayCall /\ dev.usage > 0
    /\ dev' = OverlayBlank(dev, to, out)
    /\ UNCHANGED <<waits, irq>>

OverlayPan ==
    /\ MayCall /\ dev.usage > 0
    /\ ~dev.blanked
    /\ dev' = StartOverlayPan(dev)
    /\ Sleep1("pan")
    /\ UNCHANGED irq

OverlayPanDone ==
    /\ Alive /\ wait1 = "pan" /\ dev.fdone
    /\ dev' = [dev EXCEPT !.fdone = FALSE]
    /\ Sleep1("no") /\ UNCHANGED irq

OverlayPanTimeout ==
    /\ Alive /\ wait1 = "pan" /\ ~dev.fdone
    /\ Sleep1("no") /\ UNCHANGED <<dev, irq>>

Open ==
    /\ Alive /\ ~dev.asleep /\ wait1 = "no" /\ dev.usage < MaxOpen
    /\ dev' = OverlayOpen(dev)
    /\ UNCHANGED <<waits, irq>>

Release ==
    /\ Alive /\ ~dev.asleep /\ wait1 = "no" /\ dev.usage > 0
    /\ dev' = OverlayRelease(dev)
    /\ UNCHANGED <<waits, irq>>

(***************************************************************************)
(* The controller, its interrupt, and system sleep.                        *)
(***************************************************************************)
\* The status bits latch whether or not the interrupt is enabled: the handler
\* masks them (mxsfb.c:562-565).
Frame ==
    /\ Alive /\ dev.run /\ dev.clk
    /\ dev' = [dev EXCEPT !.st = Events]
    /\ UNCHANGED <<waits, irq>>

IrqRead ==
    /\ Alive /\ irq = {} /\ dev.en \cap dev.st # {}
    /\ irq' = dev.en \cap dev.st
    /\ dev' = Touch(dev, "irq")
    /\ UNCHANGED waits

Acked == irq \ (IF dev.wait4 THEN {} ELSE {"vsync"})

\* Mutant of IrqAct: any interrupt ends the vsync wait in the flag.
IrqActClearsWait ==
    /\ Alive /\ irq # {}
    /\ dev' = [Touch(dev, "irq") EXCEPT !.st = @ \ Acked, !.en = @ \ Acked,
                   !.wait4 = FALSE,
                   !.vdone = @ \/ "vsync" \in Acked,
                   !.fdone = @ \/ "flip" \in Acked]
    /\ irq' = {}
    /\ UNCHANGED waits

\* Mutant of IrqAct: a vsync that comes with the frame end hides its completion.
IrqActOneCompletion ==
    /\ Alive /\ irq # {}
    /\ dev' = [Touch(dev, "irq") EXCEPT !.st = @ \ Acked, !.en = @ \ Acked,
                   !.wait4 = @ /\ "vsync" \notin Acked,
                   !.vdone = @ \/ "vsync" \in Acked,
                   !.fdone = @ \/ (Acked = {"flip"})]
    /\ irq' = {}
    /\ UNCHANGED waits

IrqAct ==
    /\ Alive /\ irq # {}
    /\ dev' = [Touch(dev, "irq") EXCEPT !.st = @ \ Acked, !.en = @ \ Acked,
                   !.wait4 = @ /\ "vsync" \notin Acked,
                   !.vdone = @ \/ "vsync" \in Acked,
                   !.fdone = @ \/ "flip" \in Acked]
    /\ irq' = {}
    /\ UNCHANGED waits

\* Tasks are frozen before the devices are suspended.
Suspend ==
    /\ Alive /\ ~dev.asleep /\ irq = {}
    /\ wait0 = "no" /\ wait1 = "no"
    /\ dev' = SuspendDevice(dev)
    /\ UNCHANGED <<waits, irq>>

Resume(out) ==
    /\ Alive /\ dev.asleep
    /\ dev' = ResumeDevice(dev, out)
    /\ UNCHANGED <<waits, irq>>

Lines == 0 .. MemLen - 1

UserCall ==
    \/ \E m \in Modes, y \in Lines, out \in Outcomes : PutVar(m, y, out)
    \/ \E y \in Lines : Pan(y)
    \/ PanDone \/ PanTimeout
    \/ CheckVsync \/ ArmVsync
    \/ VsyncDone \/ VsyncTimeout \/ VsyncInterrupted
    \/ \E out \in Outcomes : OverlayPutVar(out)
    \/ \E to \in BOOLEAN, out \in Outcomes : OverlayBlankCall(to, out)
    \/ OverlayPan \/ OverlayPanDone \/ OverlayPanTimeout \/ Open \/ Release

Next ==
    \/ UserCall
    \/ \E on \in BOOLEAN, out \in Outcomes : BlankCall(on, out)
    \/ Frame
    \/ IrqRead
    \/ IrqAct
    \/ Suspend
    \/ \E out \in Outcomes : Resume(out)

Spec == Init /\ [][Next]_vars

\* A running controller goes on scanning frames, the interrupt is taken, and a
\* woken thread is scheduled; no timer has to expire.
Fairness ==
    /\ WF_vars(Frame)
    /\ WF_vars(IrqRead) /\ WF_vars(IrqAct)
    /\ WF_vars(PanDone) /\ WF_vars(OverlayPanDone)

FairSpec == Spec /\ Fairness

(***************************************************************************)
(* Properties.                                                             *)
(***************************************************************************)
\* Type invariant.
TypeOK ==
    /\ wait0 \in {"no", "pan", "checked", "vsync"} /\ wait1 \in {"no", "pan"}
    /\ goal \in Lines
    /\ irq \subseteq Events
    /\ dev.en \subseteq Events /\ dev.st \subseteq Events
    /\ dev.enabled \in {0, 1} /\ dev.bypass \in 0 .. 2
    /\ dev.usage \in 0 .. MaxOpen
    /\ dev.hist \subseteq {"failed", "lost", "badline", "panlate", "vsynclate"}
    /\ dev.ovon \in BOOLEAN

\* A controller that runs shows the mode and the offset the framebuffer reports,
\* whatever was set while the screen was blank or the machine asleep. A pan that
\* timed out has already moved the picture, a refused mode leaves its line length
\* behind, and an unblank that dropped the error of its set_par is the last
\* exception (UnblankProgramsMode).
ModeInSync ==
    dev.enabled = 1 /\ ConsoleFree /\ "lost" \notin dev.hist =>
        /\ dev.hw = dev.mode
        /\ dev.hist \cap {"badline", "panlate"} = {} =>
               dev.line = dev.mode.line /\ dev.next = dev.line * dev.yoff

\* After a cold boot, and while enabling the controller never failed, it runs
\* exactly while the screen is not blank, and then holds one regulator reference,
\* one runtime PM reference and the clocks; blanked, it holds none of them.
PowerInStep ==
    ~WarmBoot /\ "failed" \notin dev.hist =>
        /\ dev.enabled = (IF dev.blanked THEN 0 ELSE 1)
        /\ dev.reg = dev.enabled /\ dev.pm = dev.enabled
        /\ dev.clk = (dev.enabled = 1) /\ dev.run = (dev.enabled = 1)

\* Only three places touch the registers of a blanked controller: closing the
\* overlay, a vsync wait that read the blank state too early, and the interrupt
\* handler. Every other path brackets its accesses with the clocks.
ClocksGuarded == "failed" \notin dev.hist => dev.hung \in {"no", "release", "vsync", "irq"}

\* The overlay is blended exactly while its framebuffer is unblanked, through mode
\* changes of either plane, release, blanking of the primary and system sleep.
OverlayInStep == ~dev.asleep => dev.as = dev.ovon

\* The vsync interrupt is left enabled with nobody for the handler to wake, so
\* that the handler never acknowledges it, only after a vsync wait timed out and
\* until CTRL1 is written anew.
StormNeedsTimeout ==
    "vsync" \in dev.en /\ ~dev.wait4 => "vsynclate" \in dev.hist

\* A pan of either plane on a running controller returns because the completion
\* they share arrives, without the help of the timeout, also while another user
\* waits for vsync and an earlier pan that gave up left its interrupt behind.
PanServed == (~ConsoleFree /\ dev.run) ~> (ConsoleFree \/ ~Alive)

\* mxsfb.c:1211-1214: "the lcdif registers should be accessed when the pixel clock
\* is enabled, otherwise the bus will be hang". The close of the overlay, which
\* disables an enabled overlay (:1750), obeys this too.
OverlayClosesClocked == dev.hung # "release"

\* mxsfb.c:847-850: setting the parameters of a blanked screen can be delayed until
\* it is unblanked: an unblanked controller then has them.
UnblankProgramsMode == dev.enabled = 1 /\ ConsoleFree => dev.hw = dev.mode

=============================================================================
