# TLA+ project for the embedded tracking system

This directory models and verifies the program in `src/`: a compiler that turns
a tracking network into ARM code with a static workspace, the Linux drivers of
the i.MX6ULL board it runs on, and the application that feeds it with UDP
frames received without copies.  It contains TLA+ modules, TLC configurations
and TLAPS proofs.  Read sections 1 and 2 for the system and the map from code
to modules, 3 for the runs, 4 for the proofs, 5 for where the code disagrees
with its own words, 6 for the limits and 7 for the plan.

## 1. The system

### 1.1 Components

| Component | Source | State it keeps | Operations | Here |
|---|---|---|---|---|
| Static workspace planner | `lib/Transforms/Eot/PlanStaticWorkspace.cpp` | objects with size, alignment, lifetime, offset; scan line, free list, workspace size | lifetime analysis, sequential plan, Best-Fit plan, verify, fall back, publish | `ObjectLifetime`, `BestFitPlan`, `WorkspaceLayout` |
| Exporter and torch-mlir patch | `python/eot_export_ops.py`, `torch-mlir-patches/` | none | eager reference of seven operators; torch operator to `tosa.custom` with JSON attributes | `EotSemantics`, `EotLowering` |
| EOT dialect and conversions | `lib/Dialect/Eot`, `lib/Conversion/*` | the operation between passes | verifiers, `tosa.custom` to `eot`, `eot` to loops | `EotLowering` |
| NPU dialect and lowering | `lib/Transforms/Convert*.cpp` | symbols, the function between passes | TOSA to `npu`, `npu` to parallel loops over memrefs | `NpuLowering` |
| FEC network driver | `kd_file/fec_main.c`, `fec.h` | descriptor rings with cursors, interrupt mask, NAPI state, link, zero-copy configuration and counter; clocks, references, the MDIO bus | interrupt, poll, open, close, ioctls, link change, transmit timeout, transmit; probe, remove, suspend, resume, MDIO read and write | `FecZeroCopy`, `ZcChannel` (receive), `FecTransmit`, `TxOwnership` (transmit), `FecPower` (power, MDIO) |
| LCD framebuffer driver | `kd_file/mxsfb.c` | mode, blank state, runtime-PM references, clocks, two completions, overlay | set_par, blank, pan, wait for vsync, overlay, suspend | `MxsfbDisplay` |
| DMA-buf exporter | `drv_mlir/drv/dmabuf_exp.c` | pages per buffer, the last physical address | ALLOC, GET_PHY, mmap, release | its buffer in `ZcReceiver` |
| Receiver application | `drv_mlir/app/main_fec_prealloc.c` | `keep_running`, `ring_idx`, shared buffer, time stamp, screen state | start-up, loop, watchdog thread, SIGINT, cleanup | `ZcReceiver` |
| LED and beeper drivers | `drv_mlir/drv/led_drv.c`, `gpio.c` | registered operations, device table | probe, remove, open, write | no |
| Other applications, scripts, network definition | `drv_mlir/app/main*.c`, `scripts/`, `pt_model/` | files between stages; the CPU governor | variants of the loop; lowering stage by stage with grep gates | no |

### 1.2 How they interact

The exporter replaces the parts of the network torch-mlir cannot compile by
seven custom operators.  Each travels as an operation of three dialects, its
scalars once by position, then by name in a JSON object, then as attributes,
and ends as loops that must compute what eager torch computes.

The planner rewrites the compiled function so that all its buffers are views of
one `workspace` argument; the application allocates that workspace once and
calls the function for every tensor.  Its correctness is a chain: lifetimes
must cover every moment at which the running function depends on a buffer, the
layout must keep buffers with meeting lifetimes apart, and then sharing bytes
is invisible.

At run time the application asks the exporter for 1 MB of contiguous pages,
gives their address to the FEC driver (`FEC_IOC_SETUP_ZC`) and brings the
interface up; `fec_enet_open` fills the 512 receive descriptors with the 512
slices.  From then on MAC, driver and application share the pages:

    MAC --DMA--> descriptor i / slice i
     |  RXF event
     v
    fec_enet_interrupt -> NAPI -> fec_enet_rx_queue: zc_pkt_count++, wake up
                                        |
    application: FEC_IOC_WAIT_ZC_DATA (zc_pkt_count--) -> reads slice ring_idx

Nothing but counting connects the application's `ring_idx` with the driver's
`rxq->bd.cur`.  The PHY state machine (`fec_enet_adjust_link`) and the
transmit-timeout worker restart or stop the MAC behind everybody's back.  The
PHYs of both Ethernet controllers hang on the MDIO bus of the first, so the
second driver uses the first one's registers whatever state that one is in.  A
watchdog thread of the application powers the display down after five seconds
without a tensor (`FBIOBLANK`, which reaches `mxsfb_blank`), and Ctrl+C clears
`keep_running`.

### 1.3 What is hard here, and the properties that answer it

* Interleaving and ordering on the receive path: acknowledge, mask, complete,
  re-enable, with a budget in between (`NoLostWakeup`, `FrameWakesReceiver`,
  `ImplementsChannel`).
* Restarts racing with close and with the poll (`NoDmaAfterFree`, and the
  history variable `missed`, below).
* A ring shared by `start_xmit`, the MAC and the clean-up, each with its own
  cursor, and emptied by restarts and close (`BuffersConserved`,
  `MacReadsLiveData`, `ImplementsOwnership`), a queue that stops and wakes at
  two thresholds (`AwakeMeansRoom`, `QueueWakesUp`), triggers that may be lost
  (`BuffersComeBack`).
* Two cursors nobody synchronises (`InStep`).
* Life time of pages that the MAC writes (`NoDmaAfterFree`,
  `BufferOutlivesDma`, `DmaTargetAllocated`).
* Two threads, a signal and failing system calls (`NeverCrashes`,
  `StopsOrSleeps`, `ScreenGoesDark`, `ScreenOnAtExit`).
* Power: clocks, runtime references and a regulator taken and given back on a
  dozen paths, with failures (`PowerBalanced` for the FEC, `PowerInStep` for the
  display), registers behind a clock (`PowerBalanced`, `ClocksGuarded`,
  `OverlayClosesClocked`).
* One completion for successive transactions or for two waiters, with timeouts
  and late interrupts (`MdioHonest`, `WaitIsServed`, `PanServed`,
  `StormNeedsTimeout`).
* State kept twice, in registers and in memory, through blanking and sleep
  (`ModeInSync`, `OverlayInStep`).
* Interval and free-list bookkeeping at the limits of `int64_t`
  (`NoLiveOverlap`, `ArithmeticInRange`, `PlacedAligned`, `ImplementsLayout`).
* Loops and aliases in the lifetime analysis (`ReadsOwnData`).
* Index arithmetic, attributes by position and dynamic extents in three
  conversions (`LowersToReference`, `ExportCompiles`, `StaticTensorsFit`,
  `AccessesSafe`, `LoopsMatchTosa`).

`PROJECT.json` lists every hazard at its line, with the properties that would
catch it or the reason why none does.

## 2. The modules and the code

### 2.1 WorkspaceLayout, BestFitPlan: the layout of the workspace

`WorkspaceLayout` is what `-eot-plan-static-workspace` promises, with no
commitment to how offsets are found: objects receive byte ranges one at a time,
never one that meets the range of an object alive at the same time; everything
may be thrown away and started again; only a complete layout is published.

`BestFitPlan` is the code: one action per iteration of each loop of
`buildSequentialPlan`, `buildBestFitPlan` and of the decisions in
`runOnOperation`.  `phase` says which loop runs: `baseline`, `bestFit`,
`verify`, `fallback`, then `planned` or `failed`.  The input array of objects
is a variable chosen in the initial state from the constant `Programs` and
never changed.  The free list is a set: `addFreeBlock` sorts and coalesces, so
the set determines the vector.  `int64_t` is kept by `MaxInt64`, against which
`checkedAdd` and `checkedAlignTo` compare before they compute; unchecked
additions of the code are what `ArithmeticInRange` is about.

### 2.2 ObjectLifetime: is the lifetime long enough?

A program is a small pre-order list of operations with nested regions, CFG
jumps, views and escapes.  The module runs `analyzeObjectLifetime` on it (the
worklist over aliases, one action per popped value) and then executes the
program.  Execution is not code of the repository but the meaning of the
functions it compiles: a write to an object destroys the contents of every
object it *may* share bytes with, i.e. every object with a disjoint lifetime.
By `LiveObjectsNeverOverlap` these are the only ones a layout lets share, so
this is the worst layout the planner can choose and `ReadsOwnData` is what
makes sharing invisible.  `WellFormed` is what the analysis may take for granted
of a function, from the MLIR verifier and from what a memref is: a value in use
has its name from the alloc through renamings (`Renames`).  Of these the code
follows the kind "alias" and pins at the kind "forward"; "yield", which is
`affine.yield` of an `affine.if` and `memref.alloca_scope.return`, it takes for a
use like any other.  The run `object_lifetime` and the theorem have the first two
kinds, `MCObjectLifetimeYield.cfg` the third.

### 2.3 ZcChannel, FecZeroCopy: the receive path of the driver

`ZcChannel` is the promise: frames are handled in the order of arrival, once;
a frame with a receive error is never announced; each announcement lets one
wait call return; a restart may drop what is waiting.

`FecZeroCopy` has the descriptor ring (`desc`, the MAC's position `hw`, the
driver's `cur` and the loop's `bdp`), the RXF bit of `IEVENT` (`event`) and of
`IMASK` (`unmasked`), the NAPI state, `fep->link`, the `zc_` fields, and who
holds RTNL.

| Actions | Code |
|---|---|
| `HwReceive` | the MAC (external) |
| `Interrupt`, `Handler` | `fec_enet_interrupt`, `fec_enet_collect_events`, for reception, transmission or MII |
| `PollStart`, `HandleFrame`, `LoopEnd` | `fec_enet_rx_napi`, `fec_enet_rx`, one iteration of the loop of `fec_enet_rx_queue`, its exit |
| `ClearRx`, `Complete`, `CompleteInterrupted`, `PollAgain` | `clear_bit` of `fec_enet_rx`; `napi_complete_done` and the write to `IMASK`, also with an interrupt between them; the poll that used its budget |
| `AdjustLinkBegin`, `NapiDisabled`, `NapiEnabled` | `fec_enet_adjust_link`, cut where `napi_disable` sleeps and before `napi_enable` |
| `TxTimeout`, `TimeoutWorkBegin` | `fec_timeout`, `fec_enet_timeout_work` |
| `OpenBegin`, `OpenFinish`, `OpenFails`, `ClocksOff` | `fec_enet_open` up to `fec_restart`, with a PHY, without one up to the freeing of the buffers, and from there to the clocks |
| `CloseBegin`, `PhyStop`, `CloseFinish` | `__dev_close_many`, `fec_enet_close` up to and after its waits |
| `SetupZc`, `SetupMisaligned`, `SetupOff` | the outcomes of `FEC_IOC_SETUP_ZC` |
| `WaitBegin`, `WaitReturn`, `WaitSignalled` | `FEC_IOC_WAIT_ZC_DATA` |

Atomicity.  The i.MX6ULL has one core: the body of the interrupt handler runs
to its end, and a softirq is interrupted only by it.  That can happen at any
point of a poll: RXF and TXF are masked then, the MII event of an MDIO
transaction is not (`FEC_NAPI_IMASK`, `fec.h:388`), and the handler acknowledges
all of `IEVENT` whoever raised it.  The poll is therefore cut between any two
frames, before the loop and after it, and on both sides of `clear_bit` and of
`napi_complete_done`.  Within an iteration of the loop an interrupt changes
nothing more: `work_rx` is set, the loop tests the descriptor before it
acknowledges RXF, and the descriptor it tested stays full until the same
iteration empties it.  Sleeping contexts are cut at every wait.  Open, close,
the timeout worker and the ioctls exclude each other through RTNL, which
`dev_ioctl` keeps while the wait ioctl sleeps.

`missed` is a history variable: since the last loop or restart an RXF event was
acknowledged with the link up and comes to nothing.  The code does so in two
places.  `fec_restart` unmasks the interrupt before `napi_enable`, and a handler
in between finds NAPI held by `napi_disable`.  And an MII interrupt after the
loop has ended (`fec_main.c:1704`) sets `work_rx`, which `clear_bit` (`:1890`)
then wipes.  The frame waits for the next interrupt that is worth a loop.
Properties therefore except `missed`, and mention it.  With `AnyCaller` the
ioctls come in any order, also misaligned or on a running interface, and a fault
of the kernel (`napi = "crashed"`) ends the behaviour; without it they come as
the receiver issues them.

### 2.4 ZcReceiver: the application on the driver

`ZcReceiver` extends `FecZeroCopy` and adds the main thread (`pc`), the
watchdog thread, SIGINT, the shared pages and a five-second clock.  With
`Failures` any system call may fail: those of the start-up, the `ifconfig eth0 up`
(`IfUpFails`, before the driver is asked or in its PHY probe), the socket of the
wait, and the `ifconfig eth0 down` of the exit (`IfDownFails`), after which
main() goes on as if eth0 were down.  With `AdminReopens` the interface comes up
again after the program has ended.  The history variable `atExit` remembers
either ("leftUp", "reopened").  Frames are
numbered by arrival; a slot holds the number of the frame last written there
and 0 after `memset`, so the order of reading and overwriting can be stated.
Steps of the driver occur as such, with the DMA write and the restart extended
by what they do to the shared buffer and to two history variables: `desync` (a
frame with an error, or a restart at a moment when that matters, moved the
driver's cursor alone) and `overrun` (a slot was overwritten before it was
read).  The transmit-timeout worker does not appear here (`MaxTimeouts = 0` and
no such disjunct); `fec_receive` has it.

### 2.5 TxOwnership, FecTransmit: the transmit path of the driver

`TxOwnership` is the promise to the network stack: each buffer handed over is
given back exactly once, accepted ones in the order of acceptance, except that
a restart or close gives all of them back together.  Buffers are numbered as they
come, so the oldest one held is the one with the least number.

`FecTransmit` has the ring (`ready`, `ends`, `txSkb` per descriptor; `cur`,
`dirty` and the MAC's `hw`), the transmission in progress (`xmit`), the queue
state, the TDAR register (`active`), the TXF bits of `IEVENT` and `IMASK`, the
NAPI state and the context that restarts or stops the MAC (`worker`).  A buffer
is its number; what it needs is a number of descriptors, and whether the driver
segments it.

| Actions | Code |
|---|---|
| `XmitBegin`, `XmitDrop`, `FillDesc`, `MapFailure`, `XmitEnd` | `fec_enet_start_xmit` with `fec_enet_txq_submit_skb`, `_frag_skb`, `_tso` and `_put_hdr_tso`/`_put_data_tso`: the checks at the start, one step per descriptor, the failure of `dma_map_single`, and the end with trigger and stop threshold |
| `HwPeek`, `HwTransmit`, `HwIdle` | the MAC (external); `HwPeek` is ERR006358 |
| `Interrupt`, `ReceiveInterrupt` | `fec_enet_interrupt` |
| `PollStart`, `CleanOne`, `CleanEnd` | `fec_enet_tx`, one iteration of the loop of `fec_enet_tx_queue`, its exit with the second trigger |
| `PollComplete`, `PollAgain` | the end of `fec_enet_rx_napi`, below its receive budget or not |
| `LinkUp`, `LinkDown`, `PauseParam`, `TxTimeout`, `TimeoutWork`, `DoRestart`, `DoStop`, `NapiEnabled` | `fec_enet_adjust_link`, `fec_enet_set_pauseparam`, `fec_timeout`, `fec_enet_timeout_work`, cut where `napi_disable` and `netif_tx_lock_bh` wait |
| `Open`, `Detach`, `CloseBegin`, `CloseEnd` | `fec_enet_open`, the stack's detaching of the queue (external), `fec_enet_close` |

Atomicity.  `start_xmit` and the poll both run with softirqs off on the one
core, so they exclude each other; the receive part of a poll may call
`start_xmit`, the transmit part may not.  The MAC and the interrupt handler run
between any two descriptor writes.  A restart holds the transmit lock, a close
takes it once in `netif_tx_disable`.

What the MAC does is read from how the driver uses it and from the comments of
`fec.h`.  TXF comes with the last descriptor of a buffer: the others of a TSO
buffer have `BD_ENET_TX_INT` only in the last segment and `BD_ENET_TX_LAST`
only at the end of one.  ERR006358 (`fec.h:420`): if the MAC found the next
descriptor not ready during a frame, TDAR is cleared when that frame is over,
even if the driver wrote it again; `Erratum` says whether the MAC has it.

### 2.6 MxsfbDisplay: the LCD driver

The registers and `struct mxsfb_info` are one record `dev`; the functions of
the driver are operators from a record to a record (`SetPar`, `Powerdown`,
`Unblank`, `OverlaySetPar`, ...), and the actions are the calls that run them
under their locks.  A call that sleeps is cut there: `wait0` and `wait1` say in
what the call in progress on each framebuffer sleeps.

| Actions | Code |
|---|---|
| `PutVar`, `Pan`, `PanDone`, `PanTimeout` | `FBIOPUT_VSCREENINFO` with `mxsfb_check_var` and `mxsfb_set_par`; `mxsfb_pan_display` |
| `CheckVsync`, `ArmVsync`, `VsyncDone`, `VsyncTimeout`, `VsyncInterrupted` | `mxsfb_wait_for_vsync`, cut between its test of the blank state and the write that arms the interrupt |
| `BlankCall` | `mxsfb_blank`, from a user or the console |
| `OverlayPutVar`, `OverlayBlankCall`, `OverlayPan`, `OverlayPanDone`, `OverlayPanTimeout`, `Open`, `Release` | the `overlayfb_` operations |
| `Frame`, `IrqRead`, `IrqAct` | the controller (external); `mxsfb_irq_handler`, which reads the status first and acts on it later |
| `Suspend`, `Resume` | `mxsfb_suspend`, `mxsfb_resume` with the overlay's save and restore |
| `Init` | the end of `mxsfb_probe`, from a controller that is off or one the boot loader left running |

Locks.  `console_lock` serialises every call that changes a mode, blanks or
pans, of both planes; a user call also holds the lock of its framebuffer.  The
private vsync ioctl holds the lock of the primary framebuffer only, the console
and the suspend path `console_lock` only: that is why a blank can fall between
`CheckVsync` and `ArmVsync`.  `hung` records who first touched a register with
the pixel clock off, after which nothing moves.

### 2.7 EotSemantics, EotLowering: from torch to loops

`EotSemantics` is the reference: the seven functions of
`python/eot_export_ops.py` over nested sequences.  `EotLowering` takes one call
through `FromTorch` (the torch-mlir patch: attributes into JSON by name),
`FromTosa` (`convert-tosa-custom-to-eot`: parsing, checks, strict mode),
`Verify`, `Lower` (`convert-eot-to-standard`) and `Run`, which executes the
loops.  `Lower` fails where the code does (`CannotLower`): on a GRU of dynamic
hidden width, and on a `gm_parameterize` whose `tau` is declared with a dynamic
last extent.  A behaviour may start at each of the three dialects, as the
repository's test inputs do.  Each operand and result has a declared type, whose extents may
be static or dynamic; the tensors of the call have extents of their own, and every
type that a run fits them to is `Dyn` or equal there (`HasType`).  A reduction over no
point at all is left out: torch has no maximum of none, and the nested sequences
that stand for tensors no channels then.

Numbers are the integers modulo the prime 101.  Addition, multiplication and
division are exact there, so two formulas of the same algebra agree for every
input and two different ones differ for most (the proofs hold for every odd
prime); rounding, and with it the order of additions, is abstracted.  `exp`,
`log1p`, `tanh`, `sqrt` and `atan2` are fixed polynomials, of which nothing but
being the same function is used.

### 2.8 NpuLowering: from TOSA to loops

`ToNpu` converts one operation of `ConvertTosaToNpu.cpp` and fails on one
without a pattern; `ConstantToGlobal` and `OpToLoops` do the same for
`ConvertNpuToVecScf.cpp`, constants becoming globals under fresh symbols.
`NpuDone` and `LoopsDone` end a conversion.  Then the function runs (`Bind`,
`Reshape`, `Alloc`, `Iterate`, `Leave`, `Return`): a `Memref` is a buffer seen
through a shape and strides, which the lowering accumulates from the innermost
extent outwards (`Strides`; `reshape` is a second view), and the iterations of
an `scf.parallel` run in every order, one action each, so a loop that reads
what another iteration writes would show.  `Undef` is what a cell holds before it is
written and what an access outside a buffer finds.  The reference is the TOSA
definition of each operation (`TosaConv`, `TosaMaxPool`, ...), stated over
tensors as functions from indices; `LoopsMatchTosa` asks that every cell of every
returned or intermediate memref holds its element.

Programs are `WellFormed`: a value is defined before it is used, extents are
static and positive, and each operation passes what the TOSA verifiers and the
TOSA specification ask (`Verified`): shapes that go with the attributes, a
padding smaller than the kernel, a clamp whose minimum is not above its maximum,
one bias element per output channel.

### 2.9 FecPower: power and the MDIO bus of the FEC driver

| Actions | Code |
|---|---|
| `Probe`, `ProbeFails`, `Remove`, `RemoveFails` | `fec_probe` with its error labels, `fec_drv_remove` |
| `Open`, `OpenFails`, `Opened`, `PhyMissing`, `Close`, `Restart` | `fec_enet_open` up to the PHY probe, its failures and its end, `fec_enet_close`, the restarts of section 2.3 |
| `Suspend`, `Resume`, `ResumeFails`, `RestoreFails`, `Autosuspend` | `fec_suspend`, `fec_resume` with its failures, `fec_restore_mii_bus`, `fec_runtime_suspend` |
| `Begin`, `CallFails`, `AddressSent`, `Answered`, `TimeOut` | `fec_enet_mdio_read` and `_write`, cut where they wait; clause 45 waits twice |
| `FrameEnds`, `IrqReads`, `IrqCompletes` | the bus (external); the MII part of `fec_enet_interrupt`: acknowledge, then complete |
| `PeerProbe`, `PeerRemove`, `PeerSleeps`, `PeerWakes` | the second FEC, which shares the bus (`FEC_QUIRK_SINGLE_MDIO`, `mii_bus_share`) |

`power` counts what the driver counts: runtime references, each clock, the
regulator.  `pm_runtime_get_sync` takes its reference even when the resume behind
it fails, and none of its callers gives it back then (`GetFails`, in `OpenFails`,
`RemoveFails`, `CallFails` and `RestoreFails`); `leaks` counts these.  `net` becomes
`"lost"` where a system resume loses clocks or the regulator, or fails unnoticed
(`pm_runtime_force_resume`, `:4368`), and where a remove gives up: what the driver
does from there on is not modelled.  `mmfr` says whether the data register holds the PHY's answer to the
call in progress.  A call is `excused` if the MAC was reset during it or an
earlier frame or interrupt was still under way when it began.

## 3. The runs

TLC: `tlc -config X.cfg M` with the module and cfg below.  Each property has a
faulty variant of a definition in its module (comments "Faulty variant" or
"Mutant") that stands for a plausible mistake in the code and makes the run
fail; `PROJECT.json` pairs them.

| Run | Module, cfg | Question | Bounds |
|---|---|---|---|
| `bestfit_plan` | `MCBestFitPlan` | Does the planner keep live objects apart, aligned and in range, and implement `WorkspaceLayout`? | 4 objects, seven size tables, two alignment tables, every assignment of lifetimes over three points, `MaxInt64` of 207 so that some layouts overflow |
| `object_lifetime` | `MCObjectLifetime` | Is a lifetime always long enough (jumps forward, no yields of a memref)? | two hoisted allocations and four operations: reads, writes, copies, views of views, forwards, escapes, under any placement of one loop or conditional; a forward branch, conditional or not, over some of them |
| `fec_receive` | `MCFecZeroCopy` | Receive path with ioctls in any order: no lost wake-up but `missed`, no DMA after free but in a failed open, `ZcChannel`, a frame wakes its waiter | ring 2, budget 1, 2 frames, 2 link events, 1 timeout |
| `receiver` | `MCZcReceiver` | The application on the driver: index and cursor in step, no fault, buffer outlives DMA, screen on at exit, stops or sleeps, idle screen goes dark | ring 2, budget 1, 2 frames, 1 link event, failing system calls, an `ifconfig up` after the exit |
| `receiver_reopen` | `MCZcReceiver`, `MCZcReceiverReopen.cfg` | freed pages are never a DMA target: **violated**, finding 1 | 2 frames, 1 link event, no failure, an `ifconfig up` after the exit |
| `fec_transmit` | `MCFecTransmit` | buffers conserved and returned in order, no freed data sent, thresholds | ring 7, one fragment, TSO buffers of 2 or 3 descriptors, 4 buffers, 2 restarts, the head's mapping may fail |
| `fec_transmit_live` | `MCFecTransmit`, `MCFecTransmitLive.cfg` | does every buffer come back, does the queue wake by itself, with ERR006358 | ring 8, TSO buffers up to 4 descriptors (two segments), 3 buffers, 1 link change, no mapping failure |
| `display` | `MCMxsfbDisplay` | mode, power and overlay in step, clocks around register accesses, a pan is served, no interrupt storm without a timeout | three modes: one that can pan, one with longer lines, one too large for the memory; the overlay open once |
| `display_clocks` | `MCMxsfbDisplay`, `MCMxsfbDisplayClocks.cfg` | closing the overlay accesses its registers with the clock on: **violated**, finding 2 | as above |
| `eot_lowering` | `MCEotLowering` | what compiles computes what eager does, a valid export compiles unless an extent that must be static is dynamic, verified static operations have fitting tensors | batch 2, 3 points, 4 channels, hidden width 3; every mask, two data sets, two sets of scalars; every declared type that differs in up to two extents from the true one or is dynamic there; wrong element types and ranks; every set of written attributes, malformed ones |
| `npu_lowering` | `MCNpuLowering` | no access leaves a memref or reads an unwritten cell; results are TOSA's | the network of `mlir_file/simple_cnn_tosa.mlir` on shrunk extents; single operations over five paddings, two strides, dilations and kernels, all permutations of three axes, four broadcasts, the iterations in every order |
| `fec_power` | `MCFecPower` | clocks and references balance but for one reference per failed runtime resume, no call takes another's answer, a waiting call can be answered | thirteen failing steps, 2 timeouts, 2 restarts, 2 failed runtime resumes |

More configurations check detail, or produce on demand the counterexamples that
section 5 calls known limits.  They are run by hand, and are no runs of
`PROJECT.json`.

| Configuration (with module) | Checks | Outcome |
|---|---|---|
| `MCBestFitPlanBookkeeping.cfg` (`MCBestFitPlan`) | `BytesAccounted`, `FreeListCoalesced`, `VerifierNeverRefuses`, `PublishedSizeBounds`, `EventuallyDecided` | hold |
| `MCFecTransmitDetail.cfg` (`MCFecTransmit`) | `OnlyQueuedReady`, `MacInStep`, `NeverSendsHalfBuffer`, `CompletionAnnounced` | hold |
| `MCZcReceiverFrames.cfg` (`MCZcReceiver`) | `FramesInOrder` with three frames and 2 link events, `AppTypeOK`, `InStep`, `BufferOutlivesDma` | hold |
| `MCMxsfbDisplayFailure.cfg` (`MCMxsfbDisplay`) | the invariants of `display` when the regulator or the clock rate may fail | hold |
| `MCFecNullSkb.cfg` (`MCFecZeroCopy`), `MCZcReceiverCtrlC.cfg`, `MCZcReceiverCleanup.cfg`, `MCZcReceiverLeftUp.cfg` (`MCZcReceiver`), `MCObjectLifetimeCfg.cfg`, `MCObjectLifetimeYield.cfg` (`MCObjectLifetime`), `MCFecTxMapFailure.cfg`, `MCFecTxStranded.cfg` (`MCFecTransmit`), `MCMxsfbDisplayTall.cfg` (`MCMxsfbDisplay`), `MCEotDynamic.cfg`, `MCEotExtrema.cfg` (`MCEotLowering`), `MCFecPowerMishandled.cfg` (`MCFecPower`) | see section 5 | violated |

Why the bounds are enough.  Four objects are what a wrong expiry, a wrong merge
or a wrong block choice needs: two neighbours that expire, one that takes their
bytes, one still alive.  Three program points give lifetimes that nest, meet,
cross and touch.  A loop hazard needs two buffers, a view and a back edge.  A
receive ring of two is filled and wrapped by two frames; with a budget of one a poll
that handles a frame ends by its budget and the next one below it, with or without
a second frame.  Two link events make a stop followed by a restart, or two restarts; one
timeout is enough to queue the work and run it after a close.  With three frames
and a budget of two, so that several frames go through one loop, and in `receiver`
with two link events, the same properties hold as well; each run then takes about
three minutes.  The transmit ring of seven stops with
three free descriptors and wakes with two; four buffers fill it, wrap it and
leave it partly cleaned, which is what a wrong free count needs to overwrite a
descriptor.  In the application two slots and two frames wrap the index; an
overwrite needs the third frame of `MCZcReceiverFrames.cfg`, where the link also
goes down and comes back while the application runs.  The display has
no bound on the number of calls: only the modes, the frame memory and the open
count are small.  In `fec_power` a late interrupt needs one timeout, and meeting
it twice needs two; two failed runtime resumes leave references of two different
callers.  The extents of a call are pairwise different where the
loops could confuse them; two altered extents are what it takes to make one
declared type contradict another.  In the windows every padding side appears
alone.  The proofs remove the bounds for the properties they cover.

`CHECK_DEADLOCK FALSE` where the system may stop: the planner when it has
decided, a program that has run or a compilation that has ended, the driver once
the bounds on outside events are spent or after a fault, the timeout worker that
waits for ever (section 6), the display on a hung bus, and the MDIO bus when the
bound on timeouts is used up on a bus nobody keeps awake, or after a failed
resume.

Fairness.  In the receive path weak fairness is on the interrupt a received frame
raises, the poll, the workers after they began, and a wait call whose condition
holds: a level-triggered interrupt line, softirqs and work items run, a woken
process is scheduled.  Nobody has to transmit or to use the MDIO bus, so no
interrupt of theirs is ever counted on.  No frame, link event, timeout, signal or
ioctl is ever required to happen.  On the transmit side `start_xmit` finishes what it began and the MAC
works off what is ready.  Strong fairness is on `PollComplete` (again and again
some poll receives less than its budget; under a receive load that never lets up
the transmit ring is indeed not cleaned) and on `DoRestart` and `DoStop` (a
worker sleeping in `napi_disable` gets NAPI, and then the transmit lock,
although polls and transmissions go on).  In the application both threads and
the driver are fair; Ctrl+C, frames and time are not.  In the display a running
controller goes on scanning, its interrupt is taken and a woken pan returns; no
timer has to expire.  `MCBestFitPlanBookkeeping.cfg` uses weak fairness of the
planner, a loop nothing can block.

## 4. The proofs

`tlapm` on the eight `*_proofs.tla` modules checks every leaf.  A theorem holds
for every value of the constants that satisfies the assumptions of the module;
where one needs more, the table says so.

| Theorem | Statement | Further hypothesis |
|---|---|---|
| `BestFitPlan_proofs!TypeCorrect` | `Spec => []TypeOK` | |
| `LiveObjectsNeverOverlap` | `Spec => []NoLiveOverlap` | |
| `PlannerNeverWraps` | `Spec => []ArithmeticInRange` | |
| `OffsetsAligned` | `Spec => []PlacedAligned` | |
| `FreeListStaysCoalesced` | `Spec => []FreeListCoalesced` | |
| `VerifierRefusesNothing` | `Spec => []VerifierNeverRefuses` | |
| `NeverWorseThanBaseline` | a published layout is no larger than the baseline | |
| `PlannerImplementsLayout` | `Spec => ImplementsLayout` | |
| `ObjectLifetime_proofs!LifetimeInvariance` | `Spec => []IInv` | `ForwardJumps`, `RenamingsHandled` |
| `SharingIsInvisible` | `Spec => []ReadsOwnData` | the same |
| `ZcReceiver_proofs!TypeCorrect` (receive path) | `Spec => []TypeOK` | |
| `WakeupsAreNotLost` | `Spec => []NoLostWakeup` | |
| `DmaStopsBeforeFree` | `Spec => []NoDmaAfterFree` | |
| `DisciplinedNeverCrashes` | `Spec => []NeverCrashes` | `~AnyCaller` |
| `RingImplementsChannel` | `Spec => ImplementsChannel` | |
| `IndexStaysInStep` (receiver) | `SysSpec => []InStep` | |
| `ReceiverNeverCrashes` | `SysSpec => []NeverCrashes` | |
| `BufferOutlivesTheDma` | `SysSpec => []BufferOutlivesDma` | |
| `ScreenIsOnAtExit` | `SysSpec => []ScreenOnAtExit` | |
| `FecTransmit_proofs!TypeCorrect` | `Spec => []TypeOK` | |
| `AwakeQueueHasRoom` | `Spec => []AwakeMeansRoom` | |
| `CursorsNeverMeet` | `Spec => [](cur # dirty)` | |
| `RingInvariance` | `Spec => [](IInv /\ RInv)` | `MapFailures # "any"` |
| `BuffersAreConserved` | `Spec => []BuffersConserved` | the same |
| `MacOnlyReadsLiveData` | `Spec => []MacReadsLiveData` | the same |
| `OnlyQueuedIsReady`, `MacStaysInStep`, `HalfBufferNeverSent`, `CompletionIsAnnounced` | the four invariants of `MCFecTransmitDetail.cfg` | the same |
| `RingImplementsOwnership` | `Spec => ImplementsOwnership` | the same |
| `EotLowering_proofs!LoweringInvariance` | `Spec => []IInv` | |
| `AttributesSurvive` | in the `eot` dialect each scalar of the call is under its own name | |
| `VerifierSound` | `Spec => []StaticTensorsFit` | |
| `LegalCallsCompile` | `Spec => []ExportCompiles` | |
| `LoopsAreEager` | `Spec => []LowersToReference` | |
| `NpuLowering_proofs!InvAlways` | `Spec => []Inv` | |
| `NpuTypeCorrect` | `Spec => []TypeOK` | |
| `NpuAccessesSafe` | `Spec => []AccessesSafe` | |
| `NpuLoopsMatchTosa` | `Spec => []LoopsMatchTosa` | |
| `FecPower_proofs!FecPowerTypes` | `Spec => []Types` | |
| `CallsAreHonest` | `Spec => []MdioHonest` | |
| `CallsAreServed` | `Spec => []WaitIsServed` | |
| `PowerIsBalanced` | `Spec => []PowerBalanced` | neither of the steps `"reset"`, `"register"` fails |
| `MxsfbDisplay_proofs!DisplayTypes` | `Spec => []TypeOK` | |
| `ScreenShowsMode` | `Spec => []ModeInSync` | |
| `PowerFollowsBlank` | `Spec => []PowerInStep` | |
| `RegistersAreClocked` | `Spec => []ClocksGuarded` | |
| `OverlayIsBlended` | `Spec => []OverlayInStep` | |
| `StormIsAfterTimeout` | `Spec => []StormNeedsTimeout` | |

### 4.1 Assumptions and hypotheses

* `PlannerAssumption`: at least one object, each object's size representable
  and its lifetime not empty; both are what `computeObjectSizeAndAlignment` and
  `analyzeObjectLifetime` establish.
* `ObjectsAssumption`: every function is `WellFormed`, which is what the MLIR
  verifier and the meaning of a memref give: structured operations nest, every
  object has its alloc, a view accesses nothing, and a value that is used
  denotes an object only because renamings (views, forwards, yields) lead to it
  from the alloc.  `ForwardJumps` says that `cf` branches go forward, as in a
  function whose loops are still `scf`; `RenamingsHandled`, that every renaming is
  one the analysis follows or pins, so that no memref leaves an `affine.if` or a
  `memref.alloca_scope` as its result.  No pass of the repository makes such a
  result, but the input may have one: without either hypothesis `ReadsOwnData` is
  false (section 5).
* `FecAssumption`: a ring and a budget that are not zero, natural bounds, and
  buffer names distinct from "none" and "skb".  `ReceiverAssumption` adds that
  the application has one buffer.
* `TransmitAssumption`: at least one fragment, fewer than the TSO limit, which
  is below the ring size, and a wake threshold that covers one scatter-gather
  buffer.  With 512 descriptors, at most 17 fragments and a limit of 217 all of
  this holds.  `MapFailures # "any"` lets `dma_map_single` fail before the first
  descriptor of a buffer: a later failure leaves ready descriptors behind
  (section 5), and with it the conclusions are false.
* `FailuresAssumption` names the steps that may fail.  `PowerIsBalanced` leaves
  out the two of probe that the driver mishandles, for which `PowerBalanced` is false
  (`MCFecPowerMishandled.cfg`); the other theorems of the module do not.
* `ScenariosAssumption`: what is compiled is a call of one of the seven
  signatures, with as many scalars as its signature has, and the operation it
  enters as is that call or one of an unknown name; its operands and results have
  any declared types at all, except that an operation entering in the `eot`
  dialect has as many of each as `EotOps.td` declares, and its attributes.  The
  tensors of the call have the shapes of its sizes and hold numbers or booleans; a
  reduction is over at least one point.  The dynamic extent is negative, as in
  MLIR, and the schema version 1 is a finite number.
* `PrimeAssumption`: the modulus of the numbers is an odd prime.
* `ProgramsAssumption`: every function is `WellFormed` (section 2.8), which is
  what an MLIR module of TOSA with static shapes is.  `TakenAssumption`: the
  module has finitely many symbols before the conversion.  `UndefAssumption`:
  the content of an unwritten cell is not taken for a number.
* `DisplayAssumption`: the memory and the modes have a size, and the mode of the
  boot fits.  Which steps fail and whether the boot loader left the controller
  running is arbitrary.

### 4.2 The inductive invariants

Planner.  `NoLiveOverlap` is not inductive: that a block of the free list is
safe to use depends on why it is free.  `IInv` adds that free blocks are
pairwise disjoint, inside the workspace and clear of every *active* object; that
active objects are pairwise disjoint; and that every placed object no longer
active ended before the scan line, so that it cannot meet any object introduced
later (the scan visits objects by start).  Free-list lemmas state what
`AddFreeBlock` preserves.  The same invariant gives `ArithmeticInRange`, and
each action maps to `Place`, `Discard`, `Publish` or a stutter, which gives the
refinement.  That the fall-back cannot fail needs the past: `Repeats` says that
there is a sequence of sizes the baseline went through, one per object, and that
a fall-back in progress stands at one of them (`Reaches`, `InOrder`), so the next
object fits because it fitted before, and the end is the size of the baseline.

Lifetimes.  `ReadsOwnData` speaks of the run, and why it holds lies in the
analysis before it.  The link is a notion of position: `Unspanned(p, x)` says
that no loop starts before `x` and reaches it, so execution that has come to `x`
does not fall behind `x` again (`StepOver`; this is where jumps must go
forward).  The first use the analysis records is unspanned, because it is the
least of the uses and of the heads of the loops around them, and loops nest
(`HeadUnspanned`); the last one likewise (`TailUnspanned`).  `RootInv` says this
of the object under analysis in every turn of the worklist, and that each alias
already popped is `Recorded`.  When the worklist is empty the aliases are closed
under renaming if every renaming is a view (`RenamingsHandled`: the other ones
have pinned the object), so by `WellFormed` they are all the names the object is
used under (`EveryAliasFollowed`), and the lifetime is `LongEnough`.  In the run,
`Undisturbed` says of an object that if it was ever written, execution is past
its start for good, and if it was overwritten, past its end for good.  A pinned
object overlaps every lifetime, so it shares with nobody and an agent that holds
it disturbs nothing.

Receive path.  `NoLostWakeup` needs to know, when NAPI is idle, why the ring is
empty or the event pending: `QuietUnmasked` (idle with the link up means RXF is
unmasked) and `Heard` (a frame at the cursor, outside the loop, means event,
missed, or a loop to come).  A loop is to come (`LoopComes`) when `work_rx` is
set and NAPI is scheduled, or will be because an interrupt asked for it or the
budget ran out; `LoopHasWork` keeps `work_rx` set in the latter case.
`NoDmaAfterFree` needs who may touch the MAC: `OneOwner` (one context at a time
owns NAPI between disable and enable), `NapiHasRing` and `RingLives` (NAPI on, or
a PHY restart in progress, only with buffers in the ring), `OpeningAlone` (nobody
else in an open).  It excepts an open that unwinds, as the code does free the
buffers under the MAC there (section 5).  `DisciplinedNeverCrashes` adds that a ring filled
in zero-copy mode implies zero-copy is still on and its wait queue initialised.

The channel.  The queue of the refinement mapping is what lies in the ring
between two cursors, and it is one only if the frames lie there without a gap:
`Contiguous`, that the full slots are the first `k` from the driver's cursor and
that the MAC stands right after them.  A frame received is then appended, one
handled is the head of the queue, and a restart is a flush.

Application.  Every step of the system is a step of the driver or leaves it
alone, so the driver's invariant holds here as well.  `SysInv` adds what the main
thread has established at each point: who holds RTNL (`LockHeld`), that nothing
is announced before the interface goes up (`NotYetUp`), that what the driver was
told lasts until the exit (`Configured`), that eth0 stays down once the exit took
it down (`StaysDown`, from which `BufferOutlivesDma` follows), and that the watchdog is over before
the code behind the join (`WatchdogOver`).  `InStep` is inductive with these: the
index, the counter and the driver's cursor move together through the wrap.

Transmit ring, space.  A queue wakes in the clean-up and stops in `start_xmit`,
so room while awake is an invariant of both only if the free count never lies.
It would for equal cursors, where a full ring counts as empty.  `IInv` therefore
adds `XmitHasRoom` (a transmission in progress fits into what is free, and
`cur # dirty`), `AwakeHasRoom` (the room also while a buffer is being written)
and `XmitSane`.  The lemmas are modular arithmetic: cleaning frees exactly one
descriptor (`CleaningFrees`), taking what is free does not reach `dirty`
(`TakingStaysApart`).  This invariant holds with and without mapping failures
and with and without the erratum.

Transmit ring, contents.  `RInv` measures every descriptor by its distance
`Off(i)` from the one after `dirty_tx`, so that "in use", "being written" and
"behind the MAC" are intervals of one line and nothing wraps.  `MacFollows` says
which descriptors are ready, exactly: those ahead of the MAC that are accepted
or already `Written`; a scatter-gather buffer is written with its head last, so
the MAC cannot enter it early.  `Ended` ties the descriptors that end a buffer to
the pointers the driver remembers, `Sorted` keeps these in the order of
acceptance, `Conserved` counts each buffer once, and `Announced` says that the
end of a sent buffer has its interrupt, its mark in `work_tx` or its clean-up.
The refinement maps the ring to the set of remembered buffers; `Complete`
returns the least of them because of `Sorted`.

Power.  `IInv` relates each count to who uses the device: `Callers` (who may
call when), `Referenced` (bus clocks run once while the device is active, and it
is active for whoever uses it), `BusAwake` (pins and interrupt for whoever may
call).  `Undisturbed` is the heart of the MDIO part: a call that nothing excuses
has exactly one of its frame on the wire, the event, the interrupt and the
completion, and once the data frame has ended the answer is its own.  After a
failed resume (`net = "lost"`) only the types and the absence of a wrong answer
are kept.  `PowerBalanced` follows from `IInv` and a further part, `Balance`,
which is inductive on top of it only with the two failures of probe excluded;
`leaks` stands beside the references of open and of the call in its equation for
the usage count.

Display.  The functions of the driver map the record `dev` to a record.  Each has
a lemma that says what it leaves alone (`KeepsPicture`, `KeepsOverlay`,
`KeepsPlane`, `KeepsPower`) and what it establishes, and a step composes the
lemmas of the functions it calls.  `IInv` has one part per concern: `Powered`,
`Shown` (of the line a sleeping pan will leave, not only the present one),
`Blended` (of the saved register while asleep) and `Waited`.

Way down to the loops.  `IInv` says of the operation that its operands, results
and name are those it entered with (`Shaped`), what form the scalars have in each
dialect (`CarriesScalars`), and that the mark of the verifier is earned
(`Checked`).  The lemmas about names do the rest: the JSON encoder writes each
scalar of a signature under its own key and no other (`Encoded`,
`EncodedDomain`), no fixed attribute hides a field (`FixedFacts`).
`VerifierSound` names the tensors that fit, by their extents: for each verifier a
lemma reads batch, points, channels, input width and hidden width off the declared
types and shows that every other extent agrees (`MaskedFits`, `PointFits`,
`GruFits`, `GmFits`).  `LegalCallsCompile` goes the other way: each of the four
stages accepts what fits (`TorchAccepts`, `TosaAccepts`, `VerifierAccepts`), and
the last needs the static hidden width and the static last extent of `tau`, which
are among the premises of `ExportCompiles`.

`LoopsAreEager` adds `Ran`: a finished run has computed the loops of the operation
as it arrived, on the tensors of the call.  What remains is that loops and eager
torch agree.  A buffer has the extents of the contract whether its type declares
them or leaves them to the operands (`BufferOf`, `CubeBufferOf`); and the cells
agree, operator by operator (`PointFeaturesAgree`, `ReductionsAgree`, `GruAgrees`,
`GmAgrees`).  Selecting by a mask is multiplying by its weight (`TermsAgree`).  A
sum folded row by row, reduced after each addition, is the sum of the set of
terms (`FoldAdds`), and a maximum folded from below is the maximum of the row
(`RowMaxIs`), or of the column that holds `empty_value` at the invalid points,
when no number lies beyond `empty_value` (`ExtremaAgree`; without that it is false,
section 5).  A gate sliced from a projection is the column of the linear layer
(`GateIsLinear`), and products may be regrouped (`MulRegroups`).  That division
returns a number needs the inverse modulo a prime (`InverseExists`).

Loops.  `Inv` of `NpuLowering` has five parts.  `CodeInv`: a conversion changes
the dialect of an operation and nothing else of it.  `GlobalsInv`: a constant that
became a global is found under its own symbol, because `FreshId` never returns
one in use (among one more numbers than symbols one is free).  `EnvInv`: a value that
was executed has a row-major view of its own shape on an existing buffer.
`ValuesInv`: its cells are `Computed`, what the body of its loop yields for the
index stored there.  `WriteInv`: of the operation that runs, the cells of the
iterations already done are `Filled`, and no other value lies in its buffer.

Index arithmetic carries this.  The offsets of a row-major view number its cells:
each index has its own (`OffsetInjective`), inside the buffer (`OffsetInRange`),
and each cell is some index's (`OffsetOnto`); a reshape keeps the rank of a cell
(`RankIsOffset`).  `ReadsInside` shows per operation that a load passes the guards of
its loop or stays inside, `StoresCoverResult` that the iterations store each cell
once, `PoolReaches` that a pooling window meets the image, so its maximum is of
something.  Then `AccessesSafe` follows, and for each operation a lemma
(`ConvIsTosa`, `PoolIsTosa`, ...) turns what the body yields into the TOSA
definition; for sums this reindexes the taps (`SumReindexed`).  All recursion is
over functions whose defining equations are proved from the least natural number,
or the smallest finite set, on which they would fail.

### 4.3 Only model-checked

* Liveness under fairness is out of the prover's reach: `FrameWakesReceiver`,
  `StopsOrSleeps`, `ScreenGoesDark`, `BuffersComeBack`, `QueueWakesUp`,
  `PanServed`, `EventuallyDecided`.
* The sums of `BytesAccounted` and the peak-live bound of `PublishedSizeBounds`
  are not proved.
* `DmaTargetAllocated`, `ClosedBeforeFree` and `OverlayClosesClocked` are false of the
  code, `ReadsOwnData` without the hypotheses of its theorem (section 5).

## 5. Where the code disagrees with its own words

1. `receiver_reopen`: "all resources released" (`main_fec_prealloc.c:555`), but
   the driver keeps the address of the freed pages and uses it at the next
   `ifconfig eth0 up`.
2. `display_clocks`: "the lcdif registers should be accessed when the pixel clock
   is enabled, otherwise the bus will be hang" (`mxsfb.c:1211-1214`).  The close
   of the overlay (`:1750`) disables it without turning the clock on, so closing
   an enabled overlay on a blank screen hangs the bus.  `ClocksGuarded` shows
   that the only other places are the vsync wait, which tests the blank state
   before and without `console_lock`, and an interrupt taken while the screen
   blanks.

Known limits, most with a configuration that shows it:

* `MCFecNullSkb.cfg` (`NullSkbUntouched`): `rx_skbuff[i]` is NULL in zero-copy mode
  "to keep later code from operating on it" (`fec_main.c:3310`), but
  `FEC_IOC_SETUP_ZC` with `enable = 0` on a running interface sends the next
  frame down the branch that dereferences it (`:1769`).  The receiver never does
  that.
* `MCZcReceiverCtrlC.cfg` (`SafeExit`): "preparing a safe exit"
  (`main_fec_prealloc.c:54`); with `signal()`'s SA_RESTART and the driver's
  `-ERESTARTSYS` the wait is restarted, the `EINTR` branch is dead, and without
  traffic the program never exits.
* `MCZcReceiverCleanup.cfg` (`CleanupCompletes`): "wait for the watchdog thread
  to exit" (`:524`) waits for ever when cleanup was entered by an error, because
  `keep_running` is still 1.
* No configuration: a frame whose event an MII interrupt acknowledges between the
  end of the receive loop (`fec_main.c:1704`) and `clear_bit` (`:1890`) rests in
  the ring until the next interrupt that leads to a loop (`missed`, section 2.3).
  `NoLostWakeup` and `FrameWakesReceiver` except it.
* No configuration: `fec_enet_open` starts the MAC (`fec_main.c:3441`) before it
  looks for the PHY; without one it frees the ring's buffers (`:3444-3446`, `:3471`)
  with the MAC running, until its clocks are taken.  `NoDmaAfterFree` excepts it.
* `MCZcReceiverLeftUp.cfg` (`ClosedBeforeFree`): "interface eth0 is closed"
  (`main_fec_prealloc.c:529`), but the result of `system("ifconfig eth0 down")`
  (`:528`) is ignored: when it fails the buffer is unmapped and freed (`:531-533`)
  while the MAC receives into it.  `BufferOutlivesDma` excepts an interface left up.
* `MCObjectLifetimeYield.cfg` (`ReadsOwnData`): "region forwarding ... uses pin the
  object for the full function instead of risking an invalid reuse"
  (`PlanStaticWorkspace.cpp:256-257`), but of the operations that end a region only
  `scf.yield`, `scf.condition` and those with successors do (`:303-327`).
  `affine` and `memref` are accepted (`:122`), and a memref handed out of an
  `affine.if` or a `memref.alloca_scope` is read under a name the analysis never
  sees.  The passes of the repository do not make such a result.
* `MCObjectLifetimeCfg.cfg` (`ReadsOwnData`): the analysis promises to pin an
  object whenever reuse is not provably safe (`PlanStaticWorkspace.cpp:31`), but
  a loop made of `cf` branches, a dialect it accepts (`:122`), does not extend
  lifetimes.  The shipped pipeline plans while loops are still `scf`
  (`scripts/lower_eot_frontend.sh:94`, `:114`), so this is latent.
* `MCFecTxMapFailure.cfg` (`OnlyQueuedReady`): "TODO: Release all used data
  descriptors for TSO" (`fec_main.c:807`).  A mapping that fails after the first
  descriptor leaves ready descriptors of a freed buffer behind `bd.cur`; with
  TSO the freed buffer is also reported `NETDEV_TX_BUSY`, so the stack transmits
  it again.  The path for fragments (`:475`) leaves them ready too.
* `MCFecTxStranded.cfg` (`TransmitterKeptGoing`): "ERR006358: Keep the
  transmitter going" (`:1413`).  The trigger is repeated after a clean-up only,
  and the end of a TSO segment that is not the last raises no interrupt: a
  trigger lost there leaves the rest of the buffer to the next transmission.
  This concerns the i.MX6Q (`:113`); the i.MX6UL of the board is not marked as
  having the erratum.
* `MCMxsfbDisplayTall.cfg` (`UnblankProgramsMode`): parameters set on a blank
  screen "can be delayed" until it is unblanked (`mxsfb.c:847-850`).  A mode that
  does not fit the memory is accepted then, and the unblank drops the error of
  its `mxsfb_set_par`: the controller runs with registers no mode has programmed.
* `MCEotDynamic.cfg` (`SomeTensorsFit`): the verifiers compare shapes pair by
  pair and a dynamic extent is compatible with everything, so two operands that
  contradict each other both agree with a "?" between them.  For static types
  `StaticTensorsFit` holds.
* No configuration: the verifier accepts a `gm_parameterize` whose `tau` is
  declared `?x?` or `Bx?` (`EotOps.cpp:133-135`), but `reduceRows` makes its column
  of that type with the size of the batch only (`ConvertEotToStandard.cpp:460-464`),
  a `tensor.empty` that does not verify: the last pass fails.  The exporter always
  declares that extent 1 (`eot_export_ops.py:173`), so only IR written by hand
  meets this; `ExportCompiles` leaves it out by name.
* `MCEotExtrema.cfg` (`AgreesOnAnyData`): eager torch takes the maximum of a row
  in which only the invalid points read `empty_value` (`eot_export_ops.py:86-87`);
  the compiled accumulator starts at it.  They differ when every point is valid
  and all lie below it, which the -1e9 the exporter passes excludes in practice (`EmptyIsNeutral`).
* `MCFecPowerMishandled.cfg` (`PowerBalanced`): a failed PHY reset in probe
  leaves the regulator enabled, and a failed `register_netdev` disables the optional
  clocks twice.
* No configuration: each `pm_runtime_get_sync` that fails in open, remove, an MDIO
  call or the restoring of the bus keeps its usage count
  (`fec_main.c:2108`, `:2177`, `:2293`, `:3412`, `:4278`), which `PowerBalanced`
  counts in `leaks`; and `fec_resume` ignores the result of
  `pm_runtime_force_resume` (`:4368`) and restarts the MAC with its bus clocks off.
  In the model this sets `net = "lost"`, and the three properties say nothing more.
  A failed `fec_restore_mii_bus` leaves the second FEC's calls on a masked bus, which
  `WaitIsServed` and `MdioHonest` excuse until the first FEC opens or resumes.
* No configuration: an MDIO read that timed out takes its answer although the event
  is not consumed (`:2151`), and the interrupt that follows completes the next call.
  `MdioHonest` and `WaitIsServed` excuse a call that begins in that state.

`fec.h:520` says that the transmit cursors "are equal under both completely
empty and completely full conditions".  `CursorsNeverMeet` proves that they are
never equal: `fec_enet_bd_init` leaves `dirty_tx` one behind `bd.cur`, and the
free count keeps one descriptor between them.  `gpio.c` says that the LED is off
by default while it requests the pin with value 1; that module is not modelled.

## 6. What is left out

* Receive path: the network-stack part of the regular branch (VLAN, checksum,
  time stamps, copybreak) is one step that either delivers or drops; the
  failures of `fec_enet_open` before the MAC starts leave the state as before;
  what a transmit or MII interrupt and the transmit half of a poll do besides is
  in `FecTransmit` and `FecPower`; the board has one receive queue.
* Transmit path: DMA mappings and bounce buffers, so also the buffers that close
  frees without unmapping them; the statistics and time stamps; the other two
  queues of AVB controllers; MII interrupts; restarts by other ethtool calls.
  One context restarts the MAC at a time: two that meet in `napi_disable` are
  in `FecZeroCopy`.  A completion whose interrupt was taken while NAPI was
  disabled waits for the next interrupt (`Unheard`): the liveness properties
  except it.  After `fec_stop` the code leaves ETHEREN set (`:1262`); the model
  ignores a trigger written then.  A queue that is awake may still drop a TSO
  buffer (`:741`), as the wake threshold covers scatter-gather only.
* Not checked as they need what is left out: pointers taken out of a memref
  (`PlanStaticWorkspace.cpp:124`, emitted only after planning), a UDP length
  below 8 (`main_fec_prealloc.c:491`), a failing `copy_to_user` in ALLOC
  (`dmabuf_exp.c:133`), a TSO header that is ready before its data
  (`fec_main.c:721`).
* `fec_enet_timeout_work` tests `netif_device_present() || netif_running()`:
  queued before a close and run after it, it waits in `napi_disable` for a NAPI
  that close disabled, holding RTNL.  The model contains this state; no
  property denies it and no comment of the repository does.
* The MAC writes two padding bytes in front of each frame; the application
  takes a slot as empty when both are zero.  The model assumes they are not.
* The inference call, the contents of frames and the LED are abstracted away;
  one application process, one buffer.
* `main_fec.c` is the same loop without the preallocated workspace;
  `main_power.c` adds the governor.
* Display: remove, shutdown, external display chips and the parsing of modes.
  The status bits latch whether or not they are enabled, as the handler's mask
  suggests, so a pan may return one frame early and no property denies it.  A
  user's offset fits the mode.  A controller the boot loader left running is
  adopted without the regulator and the runtime reference, which stay one behind
  (`PowerInStep` is about a cold boot).
* EOT: rounding and the conversion of scalars from f64 to f32 are abstracted
  (section 2.7); the erasure of scalar constants shared by two operators, and
  unranked types beyond their rejection, are not modelled.
* NPU: f32 and static shapes only.  Integer element types reach an
  `llvm_unreachable` in clamp, always get `arith.addf` in add, and start a
  maximum at `INT64_MIN`; zero points are ignored by the code; a bias of one
  element for several channels would be read out of bounds
  (`ConvertNpuToVecScf.cpp:117`); strides are accumulated in 32 bits (`:376`);
  memrefs are never freed.  A pooling window lies at least partly on the image,
  which TOSA requires.  Tensors of rank 0 and functions without a tensor argument
  do not convert in the code and run in the model.
* FEC power: Wake-on-LAN, ethtool tables, PTP.  The steps of
  `MCFecPowerMishandled.cfg` are left out of the run, as they do break it.  A
  failed resume leaves the device with clocks or regulator off (`net = "lost"`),
  about which no property says anything; a failing `pm_runtime_force_suspend` returns
  holding RTNL; remove does not release the bus frequency and cancels the
  timeout work before it unregisters the device: none of these is modelled.  The
  autosuspend delay of 100 ms is taken to be longer than any interrupt delay.
  The second FEC is removed before the first, suspends first and resumes last;
  if it binds while the first's pins sleep or its MII interrupt is masked, its
  calls are excused until the first opens or resumes.
* `PlanFunctionAbi` (the entry checks, element types, alignment rules and the
  rewriting of returns): one pass over one function without state between
  functions.
* LED and beeper drivers: one unlocked pointer (`led_drv.c:61`) and a table of
  ten devices under a character device of four minors (`gpio.c:68`).
* Build and lowering scripts: a straight line with a grep after each stage.
* Driver code that none of these paths touches, the part of the exporter that
  drives torch and greps its results, and the network itself (`PROJECT.json`,
  components).

## 7. Plan

The models cover what carries the system.  Every safety invariant and every
refinement the runs check is proved; the rest is in section 4.3.  What is planned:

1. Action properties of the driver and display models: who may change
   `zc_enabled` while the ring is filled, that the wait counter only moves by one
   or to zero.
2. Modules: `LedRegistry` (the registered operations between two kernel modules
   and several callers), the frame parser of the application with its 16-bit
   lengths, the governor of `main_power.c`.
