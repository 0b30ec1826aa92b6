----------------------------- MODULE BestFitPlan -----------------------------
(***************************************************************************)
(* The layout step of lib/Transforms/Eot/PlanStaticWorkspace.cpp: the      *)
(* sequential baseline, the scan-line Best-Fit planner with its coalesced  *)
(* free list, the verifier, and the fall-back to the sequential layout.    *)
(*                                                                         *)
(* A planner run handles one function.  Its objects, with the lifetimes    *)
(* that analyzeObjectLifetime computed, are chosen in the initial state    *)
(* and never change.  Every loop of the C++ code is unrolled into one      *)
(* action per iteration.  Free blocks are a set of records: addFreeBlock   *)
(* sorts and coalesces, so the set determines the code's vector.           *)
(***************************************************************************)
EXTENDS Integers, FiniteSets, FiniteSetsExt

CONSTANTS N,         \* how many memref.alloc operations the function has
          Programs,  \* the object arrays lifetime analysis may deliver
          MaxInt64   \* std::numeric_limits<int64_t>::max(), scaled down

Ids == 1 .. N
NoObject == 0

MemoryObject == [size: Nat, alignment: Nat \ {0}, start: Nat, end: Nat]

\* computeObjectSizeAndAlignment rejects an alloc that does not fit an int64_t
\* and analyzeObjectLifetime always returns a non-empty lifetime.
ASSUME PlannerAssumption ==
  /\ N \in Nat \ {0}
  /\ MaxInt64 \in Nat
  /\ \A p \in Programs :
       /\ p \in [Ids -> MemoryObject]
       /\ \A i \in Ids : p[i].size <= MaxInt64 /\ p[i].start < p[i].end

VARIABLES object,          \* [Ids -> MemoryObject], the constant input
          phase,           \* which loop of runOnOperation is executing
          placed,          \* the objects this loop has already visited
          current,         \* the object the scan line is introducing
          offset,          \* object.offset
          active,          \* the placed objects not yet expired
          freeBlocks,      \* the coalesced free list
          workspaceBytes,  \* running size of the layout being built
          sequentialBytes, \* size of the sequential baseline
          rejection        \* why Best-Fit was rejected

vars == <<object, phase, placed, current, offset, active, freeBlocks,
          workspaceBytes, sequentialBytes, rejection>>

scan == <<current, active, freeBlocks>>

Phases == {"baseline", "bestFit", "verify", "fallback", "planned", "failed"}
Rejections == {"none", "overflow", "size", "invalid"}

FreeBlock == [offset: Nat, size: Nat]

------------------------------------------------------------------------------
(* Arithmetic and interval helpers.                                         *)

\* Faulty variant: the default alignment, whatever the alloc's attribute says.
AlignToDefault(v, a) == ((v + 15) \div 16) * 16

\* llvm::alignTo: the least multiple of a that is not below v.
AlignTo(v, a) == ((v + a - 1) \div a) * a

\* Faulty variant: an unchecked addition.
UncheckedAdd(v, s) == TRUE

\* checkedAlignTo and checkedAdd return false instead of wrapping around.
CanAlign(v, a) == v <= MaxInt64 - (a - 1)
CanAdd(v, s) == v <= MaxInt64 - s

BlockEnd(b) == b.offset + b.size

LifetimesOverlap(i, j) ==
  object[i].start < object[j].end /\ object[j].start < object[i].end

RangesOverlap(offA, sizeA, offB, sizeB) ==
  /\ sizeA > 0 /\ sizeB > 0
  /\ offA < offB + sizeB
  /\ offB < offA + sizeA

ObjectsShareBytes(i, j) ==
  RangesOverlap(offset[i], object[i].size, offset[j], object[j].size)

------------------------------------------------------------------------------
(* addFreeBlock: sort by offset, then merge every block that meets or       *)
(* touches its predecessor.  The list was coalesced before, so only blocks  *)
(* that touch the new one can merge.                                        *)

AddFreeBlock(blocks, off, size) ==
  LET touching == {b \in blocks : b.offset <= off + size /\ off <= BlockEnd(b)}
      first    == Min({off} \cup {b.offset : b \in touching})
      last     == Max({off + size} \cup {BlockEnd(b) : b \in touching})
  IN  IF size <= 0 THEN blocks
      ELSE (blocks \ touching) \cup {[offset |-> first, size |-> last - first]}

------------------------------------------------------------------------------
(* The Best-Fit choice among the free blocks.                               *)

Fits(b, i) ==
  /\ CanAlign(b.offset, object[i].alignment)
  /\ AlignTo(b.offset, object[i].alignment) + object[i].size <= BlockEnd(b)

\* Smaller waste first, then the lower aligned offset, then the earlier block.
BetterBlock(b, c, i) ==
  LET at(d) == AlignTo(d.offset, object[i].alignment)
  IN  \/ b.size < c.size
      \/ b.size = c.size /\ at(b) < at(c)
      \/ b.size = c.size /\ at(b) = at(c) /\ b.offset <= c.offset

\* Faulty variant: large objects first, whenever they start.
LargestFirst(i, j) ==
  \/ object[i].size > object[j].size
  \/ object[i].size = object[j].size /\ i <= j

\* The order std::sort establishes: start, then larger size, then id.
IntroducedBefore(i, j) ==
  LET a == object[i]
      b == object[j]
  IN  \/ a.start < b.start
      \/ a.start = b.start /\ a.size > b.size
      \/ a.start = b.start /\ a.size = b.size /\ i <= j

\* Faulty variant: lifetimes taken as if their last point were free.
ExpiredEarly(i) == object[i].end <= object[current].start + 1

Expired(i) == object[i].end <= object[current].start

------------------------------------------------------------------------------
(* verifyPlan.                                                              *)

PlanIsValid ==
  /\ \A i \in Ids : /\ offset[i] % object[i].alignment = 0
                    /\ offset[i] <= workspaceBytes
                    /\ object[i].size <= workspaceBytes - offset[i]
  /\ \A i, j \in Ids : i < j /\ LifetimesOverlap(i, j) => ~ObjectsShareBytes(i, j)

------------------------------------------------------------------------------

(* computePeakLiveBytes: the sweep over start and end events reaches, at    *)
(* every start event, the bytes of all objects live at that point.          *)
LiveBytesAt(t) ==
  MapThenSumSet(LAMBDA i : object[i].size,
                {i \in Ids : object[i].start <= t /\ t < object[i].end})

PeakLiveBytes == Max({LiveBytesAt(object[i].start) : i \in Ids})

------------------------------------------------------------------------------

Init ==
  /\ object \in Programs
  /\ phase = "baseline"
  /\ placed = {} /\ current = NoObject /\ active = {} /\ freeBlocks = {}
  /\ offset = [i \in Ids |-> 0]
  /\ workspaceBytes = 0 /\ sequentialBytes = 0
  /\ rejection = "none"

(* buildSequentialPlan, run once for the baseline and again as the          *)
(* fall-back: one iteration places the next object after everything before. *)
IsNext(i) == i \notin placed /\ \A j \in Ids \ placed : i <= j

PlaceSequentially(i) ==
  LET at == AlignTo(workspaceBytes, object[i].alignment)
  IN  /\ phase \in {"baseline", "fallback"}
      /\ IsNext(i)
      /\ CanAlign(workspaceBytes, object[i].alignment) /\ CanAdd(at, object[i].size)
      /\ offset' = [offset EXCEPT ![i] = at]
      /\ workspaceBytes' = at + object[i].size
      /\ placed' = placed \cup {i}
      /\ UNCHANGED <<object, phase, scan, sequentialBytes, rejection>>

SequentialOverflow(i) ==
  LET at == AlignTo(workspaceBytes, object[i].alignment)
  IN  /\ phase \in {"baseline", "fallback"}
      /\ IsNext(i)
      /\ ~(CanAlign(workspaceBytes, object[i].alignment) /\ CanAdd(at, object[i].size))
      /\ phase' = "failed"
      /\ UNCHANGED <<object, placed, scan, offset, workspaceBytes, sequentialBytes,
                     rejection>>

(* runOnOperation keeps the baseline's size; buildBestFitPlan starts by     *)
(* clearing every offset.                                                   *)
StartBestFit ==
  /\ phase = "baseline"
  /\ placed = Ids
  /\ phase' = "bestFit"
  /\ sequentialBytes' = workspaceBytes
  /\ offset' = [i \in Ids |-> 0]
  /\ placed' = {} /\ workspaceBytes' = 0
  /\ UNCHANGED <<object, scan, rejection>>

(* The scan line reaches the first unplaced object of the sorted order.     *)
Introduce(i) ==
  /\ phase = "bestFit"
  /\ current = NoObject
  /\ i \notin placed
  /\ \A j \in Ids \ placed : IntroducedBefore(i, j)
  /\ current' = i
  /\ UNCHANGED <<object, phase, placed, offset, active, freeBlocks, workspaceBytes,
                 sequentialBytes, rejection>>

(* An object whose lifetime ended gives its bytes back.                     *)
Expire(i) ==
  /\ phase = "bestFit"
  /\ current # NoObject
  /\ i \in active
  /\ Expired(i)
  /\ active' = active \ {i}
  /\ freeBlocks' = AddFreeBlock(freeBlocks, offset[i], object[i].size)
  /\ UNCHANGED <<object, phase, placed, current, offset, workspaceBytes,
                 sequentialBytes, rejection>>

AllExpired == \A i \in active : ~Expired(i)

(* The best block is taken out of the list, its front and back remainders   *)
(* go back.                                                                 *)
PlaceInBlock(b) ==
  LET i     == current
      at    == AlignTo(b.offset, object[i].alignment)
      front == AddFreeBlock(freeBlocks \ {b}, b.offset, at - b.offset)
      end   == at + object[i].size
  IN  /\ phase = "bestFit"
      /\ current # NoObject
      /\ AllExpired
      /\ Fits(b, i)
      /\ \A c \in freeBlocks : Fits(c, i) => BetterBlock(b, c, i)
      /\ offset' = [offset EXCEPT ![i] = at]
      /\ freeBlocks' = AddFreeBlock(front, end, BlockEnd(b) - end)
      /\ active' = active \cup {i}
      /\ placed' = placed \cup {i}
      /\ current' = NoObject
      /\ UNCHANGED <<object, phase, workspaceBytes, sequentialBytes, rejection>>

(* No block fits: the workspace grows, the alignment gap becomes free.      *)
PlaceAtEnd ==
  LET i  == current
      at == AlignTo(workspaceBytes, object[i].alignment)
  IN  /\ phase = "bestFit"
      /\ current # NoObject
      /\ AllExpired
      /\ \A b \in freeBlocks : ~Fits(b, i)
      /\ CanAlign(workspaceBytes, object[i].alignment) /\ CanAdd(at, object[i].size)
      /\ offset' = [offset EXCEPT ![i] = at]
      /\ freeBlocks' = AddFreeBlock(freeBlocks, workspaceBytes, at - workspaceBytes)
      /\ workspaceBytes' = at + object[i].size
      /\ active' = active \cup {i}
      /\ placed' = placed \cup {i}
      /\ current' = NoObject
      /\ UNCHANGED <<object, phase, sequentialBytes, rejection>>

\* Faulty variant: the scan's state survives the scan.
KeepScan == UNCHANGED scan

\* order, active and freeBlocks are locals of buildBestFitPlan.
LeaveBestFit == current' = NoObject /\ active' = {} /\ freeBlocks' = {}

\* The fall-back starts buildSequentialPlan from an empty workspace.
FallBack(why) ==
  /\ phase' = "fallback"
  /\ rejection' = why
  /\ placed' = {} /\ workspaceBytes' = 0
  /\ UNCHANGED <<object, offset, sequentialBytes>>

BestFitOverflow ==
  LET i  == current
      at == AlignTo(workspaceBytes, object[i].alignment)
  IN  /\ phase = "bestFit"
      /\ current # NoObject
      /\ AllExpired
      /\ \A b \in freeBlocks : ~Fits(b, i)
      /\ ~(CanAlign(workspaceBytes, object[i].alignment) /\ CanAdd(at, object[i].size))
      /\ LeaveBestFit
      /\ FallBack("overflow")

FinishBestFit ==
  /\ phase = "bestFit"
  /\ current = NoObject
  /\ placed = Ids
  /\ phase' = "verify"
  /\ LeaveBestFit
  /\ UNCHANGED <<object, placed, offset, workspaceBytes, sequentialBytes, rejection>>

(* The plan is accepted when verifyPlan agrees and it is no larger than the *)
(* sequential baseline.                                                     *)
Accept ==
  /\ phase = "verify"
  /\ PlanIsValid
  /\ workspaceBytes <= sequentialBytes
  /\ phase' = "planned"
  /\ UNCHANGED <<object, placed, scan, offset, workspaceBytes, sequentialBytes, rejection>>

Reject ==
  /\ phase = "verify"
  /\ ~(PlanIsValid /\ workspaceBytes <= sequentialBytes)
  /\ FallBack(IF PlanIsValid THEN "size" ELSE "invalid")
  /\ UNCHANGED scan

FinishFallback ==
  /\ phase = "fallback"
  /\ placed = Ids
  /\ phase' = IF PlanIsValid THEN "planned" ELSE "failed"
  /\ UNCHANGED <<object, placed, scan, offset, workspaceBytes, sequentialBytes, rejection>>

Next ==
  \/ \E i \in Ids : \/ PlaceSequentially(i) \/ SequentialOverflow(i)
                    \/ Introduce(i) \/ Expire(i)
  \/ StartBestFit
  \/ \E b \in freeBlocks : PlaceInBlock(b)
  \/ PlaceAtEnd \/ BestFitOverflow \/ FinishBestFit
  \/ Accept \/ Reject \/ FinishFallback

Spec == Init /\ [][Next]_vars

\* The pass is a loop that nothing can block, so it keeps taking steps.
FairSpec == Spec /\ WF_vars(Next)

------------------------------------------------------------------------------
(* Correctness.                                                             *)

TypeOK ==
  /\ object \in [Ids -> MemoryObject]
  /\ phase \in Phases
  /\ placed \subseteq Ids
  /\ current \in Ids \cup {NoObject}
  /\ offset \in [Ids -> Nat]
  /\ active \subseteq placed
  /\ freeBlocks \subseteq FreeBlock
  /\ workspaceBytes \in Nat /\ sequentialBytes \in Nat
  /\ rejection \in Rejections

\* Two objects that are alive together never share a byte, in any of the three
\* layouts the pass builds and after every single placement: the promise the
\* generated memref.view operations rest on.
NoLiveOverlap ==
  \A i, j \in placed : i # j /\ LifetimesOverlap(i, j) => ~ObjectsShareBytes(i, j)

\* Every placed object and every free block ends inside the workspace, and the
\* workspace inside an int64_t, so the additions the planner does not check
\* (block.offset + block.size, offset + sizeBytes) cannot wrap.
ArithmeticInRange ==
  /\ workspaceBytes <= MaxInt64
  /\ \A i \in placed : offset[i] + object[i].size <= workspaceBytes
  /\ \A b \in freeBlocks : BlockEnd(b) <= workspaceBytes

\* An offset handed to memref.view is a multiple of the object's alignment.
PlacedAligned == \A i \in placed : offset[i] % object[i].alignment = 0

\* While the scan runs no byte is lost and none is handed out twice: the free
\* blocks and the active objects add up to the workspace.
BytesAccounted ==
  phase = "bestFit" =>
    MapThenSumSet(LAMBDA b : b.size, freeBlocks)
      + MapThenSumSet(LAMBDA i : object[i].size, active) = workspaceBytes

\* The free list stays coalesced: no block is empty and no two blocks touch, so
\* a request that two neighbouring holes could serve together is served.
FreeListCoalesced ==
  \A b \in freeBlocks :
    /\ b.size > 0
    /\ \A c \in freeBlocks \ {b} : BlockEnd(b) < c.offset \/ BlockEnd(c) < b.offset

\* verifyPlan never refuses a plan, Best-Fit's or the fall-back's: the only ways
\* out are an overflow or a plan larger than the baseline, and the pass's
\* "internal error: sequential workspace verification failed" is unreachable.
VerifierNeverRefuses ==
  /\ rejection # "invalid"
  /\ phase = "failed" => rejection = "none"

\* What is published lies between the peak-live lower bound and the baseline
\* that the pass reports next to it.
PublishedSizeBounds ==
  phase = "planned" => /\ PeakLiveBytes <= workspaceBytes
                       /\ workspaceBytes <= sequentialBytes

\* The planner implements WorkspaceLayout: a placement never meets a live
\* object, restarts discard everything, only a complete layout is published.
Layout == INSTANCE WorkspaceLayout
            WITH layout <- [i \in placed |-> offset[i]], published <- phase = "planned"

ImplementsLayout == Layout!LayoutSpec

\* Every planner run ends in a published layout or in a reported failure.
EventuallyDecided == <>(phase \in {"planned", "failed"})

==============================================================================
