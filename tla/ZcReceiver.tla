----------------------------- MODULE ZcReceiver ------------------------------
(***************************************************************************)
(* drv_mlir/app/main_fec_prealloc.c running on the driver of FecZeroCopy:  *)
(* the main thread, the power watchdog thread, Ctrl+C, and the DMA buffer  *)
(* of dmabuf_exp.c that the MAC writes and the main thread reads.          *)
(*                                                                         *)
(* Frames are numbered in order of arrival; a slot of the shared buffer    *)
(* holds the number of the frame last written there, or 0 once memset.     *)
(* The application never learns which descriptor completed: it relies on   *)
(* its own ring_idx walking in step with rxq->bd.cur.                      *)
(***************************************************************************)
EXTENDS FecZeroCopy

CONSTANTS Buffer,       \* the one DMA buffer the application allocates
          Failures,     \* TRUE: system calls of the application may fail
          AdminReopens  \* TRUE: somebody sets eth0 up after the application

ASSUME ReceiverAssumption ==
  /\ Addrs = {Buffer}
  /\ Failures \in BOOLEAN /\ AdminReopens \in BOOLEAN

VARIABLES
  pc,         \* what main() does next
  keep,       \* keep_running
  ringIdx,    \* ring_idx
  slot,       \* shared_mem, one frame number per 2048-byte slot
  got,        \* the frame the loop body works on
  last,       \* history: the frame before it
  allocated,  \* the pages behind the dma-buf are not freed
  watchdog,   \* the power_manager_thread
  screen,     \* the display is powered, and so screen_is_on
  idle,       \* last_rx_timestamp is five seconds old or older
  desync,     \* history: a bad frame or a restart moved the ring alone
  overrun,    \* history: a slot was overwritten before it was read
  atExit      \* history: "leftUp" once "ifconfig eth0 down" failed,
              \* "reopened" once somebody set eth0 up after the exit

appVars == <<pc, keep, ringIdx, slot, got, last, allocated, watchdog, screen,
             idle, desync, overrun, atExit>>
sysVars == <<vars, appVars>>

SysInit ==
  /\ Init
  /\ pc = "start" /\ keep = TRUE /\ ringIdx = 0
  /\ slot = [i \in Slots |-> 0] /\ got = 0 /\ last = 0
  /\ allocated = FALSE /\ watchdog = "none"
  /\ screen = TRUE /\ idle = FALSE
  /\ desync = FALSE /\ overrun = FALSE /\ atExit = "down"

\* A main-thread step that leaves the driver and the rest of the program alone.
Goto(from, to) ==
  /\ pc = from /\ pc' = to
  /\ UNCHANGED <<vars, keep, ringIdx, slot, got, last, allocated, watchdog,
                 screen, idle, desync, overrun, atExit>>

------------------------------------------------------------------------------
(* Start-up.  Every failure jumps to the label cleanup, here pc "join".     *)

\* malloc of the workspace fails before the thread id is initialised.
WorkspaceFails == Failures /\ Goto("start", "join")

\* pthread_create; its failure is only reported.
StartWatchdog ==
  /\ pc = "start" /\ pc' = "alloc"
  /\ watchdog' \in {"running"} \cup IF Failures THEN {"none"} ELSE {}
  /\ UNCHANGED <<vars, keep, ringIdx, slot, got, last, allocated, screen, idle,
                 desync, overrun, atExit>>

\* open, DMABUF_IOCTL_ALLOC, GET_PHY and mmap; the last two may fail with the
\* buffer already allocated.
AllocBuffer ==
  /\ pc = "alloc"
  /\ \/ allocated' = TRUE /\ pc' = "setup"
     \/ Failures /\ allocated' \in BOOLEAN /\ pc' = "join"
  /\ UNCHANGED <<vars, keep, ringIdx, slot, got, last, watchdog, screen, idle,
                 desync, overrun, atExit>>

\* FEC_IOC_SETUP_ZC with the 512 * 2048 bytes of the buffer.
ConfigureZc ==
  /\ pc = "setup" /\ SetupZc(Buffer, TRUE) /\ pc' = "ifup"
  /\ UNCHANGED <<keep, ringIdx, slot, got, last, allocated, watchdog, screen,
                 idle, desync, overrun, atExit>>

SetupSocketFails == Failures /\ Goto("setup", "join")

\* system("ifconfig eth0 up"), whose result is ignored, then ring_idx = 0; it
\* may fail before the driver is asked, or by the driver's failing open.
IfUp ==
  /\ pc = "ifup" /\ OpenBegin /\ pc' = "opening"
  /\ UNCHANGED <<keep, ringIdx, slot, got, last, allocated, watchdog, screen,
                 idle, desync, overrun, atExit>>
IfUpDone ==
  /\ pc = "opening" /\ pc' = "loop" /\ ringIdx' = 0
  /\ OpenFinish \/ ClocksOff
  /\ UNCHANGED <<keep, slot, got, last, allocated, watchdog, screen, idle,
                 desync, overrun, atExit>>
IfUpFails ==
  /\ Failures
  /\ \/ Goto("ifup", "loop")
     \/ pc = "opening" /\ OpenFails /\ UNCHANGED appVars

------------------------------------------------------------------------------
(* The main loop.                                                           *)

LoopStop  == ~keep /\ Goto("loop", "join")
LoopStay  == keep /\ Goto("loop", "wait")
SockFails == Failures /\ Goto("wait", "join")

SleepForFrame ==
  /\ pc = "wait" /\ WaitBegin /\ pc' = "asleep"
  /\ UNCHANGED <<keep, ringIdx, slot, got, last, allocated, watchdog, screen,
                 idle, desync, overrun, atExit>>

\* The ioctl returns; the loop looks at the slot ring_idx points to.
ReadSlot ==
  /\ pc = "asleep" /\ WaitReturn
  /\ pc' = "process"
  /\ got' = slot[ringIdx] /\ last' = got
  /\ UNCHANGED <<keep, ringIdx, slot, allocated, watchdog, screen, idle,
                 desync, overrun, atExit>>

\* Faulty variant: the index moves by two slots.
AdvanceTwo(i, frame) == After(After(i))

\* ring_idx = (ring_idx + 1) % 512, frame or not.
Advance(i, frame) == After(i)

\* The rest of the body: a tensor for port 8888 refreshes the timestamp and is
\* processed; whatever the slot held is erased.
FinishSlot ==
  /\ pc = "process" /\ pc' = "loop"
  /\ idle' \in (IF got # 0 THEN {FALSE, idle} ELSE {idle})
  /\ slot' = IF got # 0 THEN [slot EXCEPT ![ringIdx] = 0] ELSE slot
  /\ ringIdx' = Advance(ringIdx, got)
  /\ UNCHANGED <<vars, keep, got, last, allocated, watchdog, screen, desync,
                 overrun, atExit>>

\* sigint_handler.  signal() installs it with SA_RESTART, so an interrupted
\* wait ioctl is issued again and main() does not look at keep_running.
Sigint ==
  /\ keep /\ keep' = FALSE
  /\ IF pc = "asleep" THEN WaitSignalled /\ pc' = "wait"
                      ELSE UNCHANGED <<vars, pc>>
  /\ UNCHANGED <<ringIdx, slot, got, last, allocated, watchdog, screen, idle,
                 desync, overrun, atExit>>

------------------------------------------------------------------------------
(* cleanup:                                                                 *)

\* Faulty variant: main() does not wait for the watchdog.
NoJoin == Goto("join", "ifdown")

\* pthread_join; on an uninitialised thread id it may also crash.
Join ==
  /\ watchdog # "running"
  /\ \/ Goto("join", "ifdown")
     \/ watchdog = "none" /\ Goto("join", "dead")

\* Faulty variant: the buffer is released while the interface goes down.
IfDownEarlyFree ==
  /\ pc = "ifdown" /\ CloseBegin /\ pc' = "closing"
  /\ allocated' = FALSE
  /\ UNCHANGED <<keep, ringIdx, slot, got, last, watchdog, screen, idle,
                 desync, overrun, atExit>>

\* system("ifconfig eth0 down") on an interface that is up, or is not.
IfDownBegin ==
  /\ pc = "ifdown" /\ CloseBegin /\ pc' = "closing"
  /\ UNCHANGED <<keep, ringIdx, slot, got, last, allocated, watchdog, screen,
                 idle, desync, overrun, atExit>>
IfDownNothing == ~up /\ Goto("ifdown", "free")

\* system() or ifconfig fails, and nobody looks at the result.
IfDownFails ==
  /\ Failures /\ up /\ pc = "ifdown" /\ pc' = "free"
  /\ atExit' = "leftUp"
  /\ UNCHANGED <<vars, keep, ringIdx, slot, got, last, allocated, watchdog,
                 screen, idle, desync, overrun>>

IfDownEnd ==
  /\ pc = "closing" /\ CloseFinish /\ pc' = "free"
  /\ UNCHANGED <<keep, ringIdx, slot, got, last, allocated, watchdog, screen,
                 idle, desync, overrun, atExit>>

\* munmap and close: my_dmabuf_release frees the pages; the screen is forced
\* on.  FEC_IOC_SETUP_ZC is never called again.
Release ==
  /\ pc = "free" /\ pc' = "done"
  /\ allocated' = FALSE /\ screen' = TRUE
  /\ UNCHANGED <<vars, keep, ringIdx, slot, got, last, watchdog, idle, desync,
                 overrun, atExit>>

------------------------------------------------------------------------------
(* The watchdog thread, time, and the driver underneath.                    *)

\* Faulty variant: the screen is never powered down.
WatchdogOnly == IF idle THEN screen ELSE TRUE

PowerWanted == ~idle

WatchdogRound ==
  /\ watchdog = "running" /\ keep
  /\ screen' = PowerWanted
  /\ UNCHANGED <<vars, pc, keep, ringIdx, slot, got, last, allocated, watchdog,
                 idle, desync, overrun, atExit>>

\* Faulty variant: the watchdog does not look at keep_running.
WatchdogForever ==
  /\ watchdog = "running" /\ ~keep
  /\ screen' = ~idle
  /\ UNCHANGED <<vars, pc, keep, ringIdx, slot, got, last, allocated, watchdog,
                 idle, desync, overrun, atExit>>

\* A round that tested keep_running before Ctrl+C completes after it.
WatchdogExit ==
  /\ watchdog = "running" /\ ~keep
  /\ watchdog' = "exited" /\ screen' \in {screen, ~idle}
  /\ UNCHANGED <<vars, pc, keep, ringIdx, slot, got, last, allocated, idle,
                 desync, overrun, atExit>>

FiveSecondsPass ==
  /\ ~idle /\ pc # "done" /\ idle' = TRUE
  /\ UNCHANGED <<vars, pc, keep, ringIdx, slot, got, last, allocated, watchdog,
                 screen, desync, overrun, atExit>>

\* The MAC writes frame number frames + 1 into the slot of descriptor hw.
DmaWrite(kind) ==
  /\ HwReceive(kind)
  /\ slot' = IF ring = Buffer THEN [slot EXCEPT ![hw] = frames + 1] ELSE slot
  /\ overrun' = (overrun \/ slot[hw] # 0)
  /\ UNCHANGED <<pc, keep, ringIdx, got, last, allocated, watchdog, screen,
                 idle, desync, atExit>>

\* Frames announced and not yet worked off by the loop.
Owed == count + (IF pc = "process" THEN 1 ELSE 0)

DriverHandles ==
  /\ HandleFrame
  /\ desync' = (desync \/ desc[bdp] = "bad")
  /\ UNCHANGED <<pc, keep, ringIdx, slot, got, last, allocated, watchdog,
                 screen, idle, overrun, atExit>>

\* A restart rewinds the driver; it is harmless only while nothing happened.
DriverRestarts ==
  /\ NapiDisabled("phy")
  /\ desync' = \/ desync
               \/ /\ worker["phy"] = "restart"
                  /\ Cursor # 0 \/ Owed # 0 \/ ringIdx # 0
  /\ UNCHANGED <<pc, keep, ringIdx, slot, got, last, allocated, watchdog,
                 screen, idle, overrun, atExit>>

DriverElse ==
  /\ \/ Interrupt \/ PollStep \/ CompleteInterrupted
     \/ PhyStop \/ NapiEnabled("phy")
     \/ \E op \in {"restart", "stop"} : AdjustLinkBegin(op)
  /\ UNCHANGED appVars

\* Another process: ifconfig eth0 up, after the application is gone.
Reopen ==
  /\ AdminReopens /\ pc = "done"
  /\ OpenBegin \/ OpenFinish \/ OpenFails \/ ClocksOff
  /\ atExit' = "reopened"
  /\ UNCHANGED <<pc, keep, ringIdx, slot, got, last, allocated, watchdog, screen,
                 idle, desync, overrun>>

------------------------------------------------------------------------------
Main ==
  \/ WorkspaceFails \/ StartWatchdog \/ AllocBuffer
  \/ ConfigureZc \/ SetupSocketFails \/ IfUp \/ IfUpDone \/ IfUpFails
  \/ LoopStop \/ LoopStay \/ SockFails \/ SleepForFrame \/ ReadSlot \/ FinishSlot
  \/ Join \/ IfDownBegin \/ IfDownNothing \/ IfDownFails \/ IfDownEnd
  \/ Release

Driver == DriverHandles \/ DriverRestarts \/ DriverElse

SysNext ==
  /\ Alive
  /\ \/ Main \/ Driver \/ WatchdogRound \/ WatchdogExit
     \/ \E kind \in {"good", "bad"} : DmaWrite(kind)
     \/ Sigint \/ FiveSecondsPass \/ Reopen

SysSpec == SysInit /\ [][SysNext]_sysVars

\* Both threads are scheduled, softirqs and workers run; nobody has to press
\* Ctrl+C and no frame has to arrive.
SysFairness ==
  /\ WF_sysVars(Alive /\ Main)
  /\ WF_sysVars(Alive /\ RxInterrupt /\ UNCHANGED appVars)
  /\ WF_sysVars(Alive /\ PollStep /\ UNCHANGED appVars)
  /\ WF_sysVars(Alive /\ PhyStop /\ UNCHANGED appVars)
  /\ WF_sysVars(Alive /\ NapiEnabled("phy") /\ UNCHANGED appVars)
  /\ WF_sysVars(Alive /\ DriverHandles)
  /\ WF_sysVars(Alive /\ DriverRestarts)
  /\ WF_sysVars(Alive /\ WatchdogRound)
  /\ WF_sysVars(Alive /\ WatchdogExit)

FairSysSpec == SysSpec /\ SysFairness

------------------------------------------------------------------------------
(* Properties.                                                              *)

\* The type invariant of the application's variables.
AppTypeOK ==
  /\ pc \in {"start", "alloc", "setup", "ifup", "opening", "loop", "wait",
             "asleep", "process", "join", "ifdown", "closing", "free", "done",
             "dead"}
  /\ keep \in BOOLEAN /\ ringIdx \in Slots
  /\ slot \in [Slots -> 0 .. MaxFrames]
  /\ got \in 0 .. MaxFrames /\ last \in 0 .. MaxFrames
  /\ allocated \in BOOLEAN /\ watchdog \in {"none", "running", "exited"}
  /\ screen \in BOOLEAN /\ idle \in BOOLEAN
  /\ desync \in BOOLEAN /\ overrun \in BOOLEAN
  /\ atExit \in {"down", "leftUp", "reopened"}

\* The application's index and the driver's cursor, which nothing connects,
\* stay in step: the frames announced and not worked off are exactly the
\* slots from ring_idx to the cursor, as long as every frame handled was
\* announced and no restart rewound the driver alone, and while the application
\* is there.
InStep == mac /\ ~desync /\ pc # "done" => (ringIdx + Owed) % R = Cursor

\* Each wait call that returns finds a frame, and a later one than the call
\* before, as long as the ring is in step and no frame was overwritten.
FramesInOrder ==
  pc = "process" /\ ~desync /\ ~overrun => got > last

\* The MAC never writes into pages the application's exit already freed
\* (cleanup takes eth0 down before it closes the dma-buf; my_dmabuf_release).
DmaTargetAllocated == mac /\ ring = Buffer => allocated

\* The same on every way through main(), unless the exit could not take eth0
\* down and freed the pages all the same, or somebody set eth0 up after it.
BufferOutlivesDma == mac /\ ring = Buffer => allocated \/ atExit # "down"

\* What cleanup prints before it frees the buffer: eth0 is closed.
ClosedBeforeFree == pc = "free" => ~up

\* Whatever the watchdog was about to do, the screen is on after the exit.
ScreenOnAtExit == pc = "done" => screen

\* After Ctrl+C the program exits, or sleeps until a frame arrives; a join on
\* a thread never created may crash instead.
StopsOrSleeps ==
  ~keep ~> (pc \in {"done", "dead"} \/ (pc = "asleep" /\ count = 0))

\* Five seconds without a tensor and the screen goes dark, unless a tensor
\* arrives, the program ends or there is no watchdog.
ScreenGoesDark ==
  (idle /\ watchdog = "running") ~> (~screen \/ ~idle \/ ~keep)

\* What sigint_handler prints: it is preparing a safe exit.
SafeExit == ~keep ~> pc = "done"

\* What cleanup says it does before anything else: wait for the watchdog
\* thread to exit.
CleanupCompletes == (pc = "join" /\ watchdog = "running") ~> pc = "done"
=============================================================================
