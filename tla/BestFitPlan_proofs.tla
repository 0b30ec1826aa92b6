-------------------------- MODULE BestFitPlan_proofs --------------------------
(***************************************************************************)
(* Machine-checked proofs about BestFitPlan, for any number of objects,    *)
(* any sizes, alignments and lifetimes, and any int64_t limit.             *)
(***************************************************************************)
EXTENDS BestFitPlan, WellFoundedInduction, TLAPS

------------------------------------------------------------------------------
(* Facts about the helpers.                                                 *)

\* Min of a non-empty set of naturals is its least element.
LEMMA MinOfNaturals ==
  ASSUME NEW S, S \subseteq Nat, S # {}
  PROVE  Min(S) \in S /\ \A y \in S : Min(S) <= y
<1>1. PICK x \in S : \A y \in S : ~(<<y, x>> \in OpToRel(<, Nat))
  BY NatLessThanWellFounded, WFMin
<1>2. \A y \in S : x <= y
  <2>1. SUFFICES ASSUME NEW y \in S PROVE x <= y
    OBVIOUS
  <2>2. ~(y < x)
    BY <1>1 DEF OpToRel
  <2> QED BY <2>2
<1> QED BY <1>2 DEF Min

\* Max of a non-empty bounded set of naturals is its greatest element.
LEMMA MaxOfNaturals ==
  ASSUME NEW S, S \subseteq Nat, S # {}, NEW W \in Nat, \A y \in S : y <= W
  PROVE  Max(S) \in S /\ \A y \in S : y <= Max(S)
<1> DEFINE T == {W - y : y \in S}
<1>1. T \subseteq Nat /\ T # {}
  <2>1. \A y \in S : W - y \in Nat
    OBVIOUS
  <2>2. PICK y \in S : TRUE
    OBVIOUS
  <2>3. W - y \in T
    OBVIOUS
  <2> QED BY <2>1, <2>3
<1>2. PICK t \in T : \A u \in T : ~(<<u, t>> \in OpToRel(<, Nat))
  BY <1>1, NatLessThanWellFounded, WFMin
<1>3. PICK x \in S : t = W - x
  OBVIOUS
<1>4. ASSUME NEW y \in S PROVE x >= y
  <2>1. W - y \in T /\ W - y \in Nat /\ t \in Nat
    BY <1>1
  <2>2. ~(W - y < t)
    BY <1>2, <2>1 DEF OpToRel
  <2> QED BY <2>1, <2>2, <1>3
<1>5. Max(S) \in S /\ \A y \in S : Max(S) >= y
  BY <1>4 DEF Max
<1> QED BY <1>5

\* alignTo never goes down, and stays below the next multiple.
LEMMA AlignToBounds ==
  ASSUME NEW v \in Nat, NEW a \in Nat \ {0}
  PROVE  /\ AlignTo(v, a) \in Nat
         /\ v <= AlignTo(v, a)
         /\ AlignTo(v, a) <= v + a - 1
         /\ AlignTo(v, a) % a = 0
<1> DEFINE q == (v + a - 1) \div a
<1>1. q \in Nat
  BY Z3
<1>2. q * a \in Nat
  BY <1>1
<1>3. v + a - 1 = q * a + ((v + a - 1) % a) /\ (v + a - 1) % a \in 0 .. a - 1
  BY Z3
<1>4. (q * a) % a = 0
  BY <1>1, Z3
<1> QED BY <1>2, <1>3, <1>4 DEF AlignTo

------------------------------------------------------------------------------
(* addFreeBlock.                                                            *)

BlocksWithin(blocks, W) ==
  blocks \subseteq FreeBlock /\ \A b \in blocks : BlockEnd(b) <= W

BlocksDisjoint(blocks) ==
  \A b, c \in blocks : b # c => ~RangesOverlap(b.offset, b.size, c.offset, c.size)

\* A byte range [o, o + s) that meets no block of the list.
ClearOf(blocks, o, s) == \A b \in blocks : ~RangesOverlap(o, s, b.offset, b.size)

\* Releasing a range merges it with its neighbours: the new list covers nothing
\* but the old blocks and the released range, and its blocks stay disjoint.
LEMMA AddFreeBlockSafe ==
  ASSUME NEW W \in Nat, NEW blocks, BlocksWithin(blocks, W), BlocksDisjoint(blocks),
         NEW off \in Nat, NEW size \in Int, off + size <= W
  PROVE  LET merged == AddFreeBlock(blocks, off, size) IN
         /\ BlocksWithin(merged, W)
         /\ BlocksDisjoint(merged)
         /\ \A o, s \in Nat :
               ClearOf(blocks, o, s) /\ ~RangesOverlap(o, s, off, size)
                 => ClearOf(merged, o, s)
<1> DEFINE merged   == AddFreeBlock(blocks, off, size)
           touching == {b \in blocks : b.offset <= off + size /\ off <= BlockEnd(b)}
           Firsts   == {off} \cup {b.offset : b \in touching}
           Lasts    == {off + size} \cup {BlockEnd(b) : b \in touching}
           first    == Min(Firsts)
           last     == Max(Lasts)
           new      == [offset |-> first, size |-> last - first]
<1>1. CASE size <= 0
  BY <1>1 DEF AddFreeBlock
<1>2. CASE size > 0
  <2>0. \A b \in blocks : b.offset \in Nat /\ b.size \in Nat /\ BlockEnd(b) \in Nat /\ BlockEnd(b) <= W
    BY DEF BlocksWithin, FreeBlock, BlockEnd
  <2>1. merged = (blocks \ touching) \cup {new}
    BY <1>2 DEF AddFreeBlock
  <2>2. Firsts \subseteq Nat /\ Firsts # {}
    BY <2>0
  <2>3. Lasts \subseteq Nat /\ Lasts # {} /\ \A y \in Lasts : y <= W
    BY <2>0, <1>2
  <2>4. first \in Firsts /\ first \in Nat /\ first <= off
    <3> HIDE DEF Firsts
    <3>1. first \in Firsts /\ \A y \in Firsts : first <= y
      BY <2>2, MinOfNaturals
    <3>2. first \in Nat
      BY <3>1, <2>2
    <3> QED BY <3>1, <3>2 DEF Firsts
  <2>5. last \in Lasts /\ last \in Nat /\ last <= W /\ off + size <= last
    <3> HIDE DEF Lasts
    <3>1. last \in Lasts /\ \A y \in Lasts : y <= last
      BY <2>3, MaxOfNaturals
    <3>2. last \in Nat /\ last <= W
      BY <3>1, <2>3
    <3> QED BY <3>1, <3>2 DEF Lasts
  <2>6. first \in Nat /\ last \in Nat /\ last <= W /\ first < last
    BY <2>4, <2>5, <1>2
  <2>7. first = off \/ \E b \in touching : first = b.offset
    BY <2>4
  <2>8. last = off + size \/ \E b \in touching : last = BlockEnd(b)
    BY <2>5
  <2> HIDE DEF first, last, Firsts, Lasts, merged
  <2>9. new \in FreeBlock /\ new.offset = first /\ new.size = last - first /\ BlockEnd(new) = last
    BY <2>6 DEF FreeBlock, BlockEnd
  <2>10. BlocksWithin(merged, W)
    BY <2>1, <2>6, <2>9 DEF BlocksWithin
  <2>11. ASSUME NEW o \in Nat, NEW s \in Nat, ClearOf(blocks, o, s),
                ~RangesOverlap(o, s, off, size)
         PROVE  ~RangesOverlap(o, s, new.offset, new.size)
    <3> SUFFICES ASSUME s > 0, o < last, first < o + s
                 PROVE  FALSE
      BY <2>6, <2>9 DEF RangesOverlap
    <3>1. o + s <= off \/ off + size <= o
      BY <2>11, <1>2 DEF RangesOverlap
    <3>2. CASE o + s <= off
      <4>1. PICK b \in touching : first = b.offset
        BY <2>7, <3>2, <2>6
      <4>2. b \in blocks /\ off <= BlockEnd(b) /\ ~RangesOverlap(o, s, b.offset, b.size)
        BY <2>11 DEF ClearOf
      <4> QED BY <4>1, <4>2, <3>2, <2>0 DEF RangesOverlap, BlockEnd
    <3>3. CASE off + size <= o
      <4>1. PICK b \in touching : last = BlockEnd(b)
        BY <2>8, <3>3, <2>6
      <4>2. b \in blocks /\ b.offset <= off + size /\ ~RangesOverlap(o, s, b.offset, b.size)
        BY <2>11 DEF ClearOf
      <4> QED BY <4>1, <4>2, <3>3, <2>0 DEF RangesOverlap, BlockEnd
    <3> QED BY <3>1, <3>2, <3>3
  <2>12. \A o, s \in Nat : ClearOf(blocks, o, s) /\ ~RangesOverlap(o, s, off, size)
                             => ClearOf(merged, o, s)
    BY <2>1, <2>11 DEF ClearOf
  <2>13. ASSUME NEW c \in blocks \ touching
         PROVE  ~RangesOverlap(c.offset, c.size, new.offset, new.size)
    <3>1. c.offset > off + size \/ BlockEnd(c) < off
      BY <2>0
    <3>2. \A b \in touching : ~RangesOverlap(c.offset, c.size, b.offset, b.size)
      BY DEF BlocksDisjoint
    <3> SUFFICES ASSUME c.size > 0, c.offset < last, first < BlockEnd(c)
                 PROVE  FALSE
      BY <2>6, <2>9 DEF RangesOverlap, BlockEnd
    <3>3. CASE c.offset > off + size
      <4>1. PICK b \in touching : last = BlockEnd(b)
        BY <2>8, <3>3, <2>0
      <4> QED BY <4>1, <3>2, <3>3, <2>0 DEF RangesOverlap, BlockEnd
    <3>4. CASE BlockEnd(c) < off
      <4>1. PICK b \in touching : first = b.offset
        BY <2>7, <3>4, <2>0
      <4> QED BY <4>1, <3>2, <3>4, <2>0 DEF RangesOverlap, BlockEnd
    <3> QED BY <3>1, <3>3, <3>4
  <2>14. BlocksDisjoint(merged)
    <3> SUFFICES ASSUME NEW b \in merged, NEW c \in merged, b # c
                 PROVE  ~RangesOverlap(b.offset, b.size, c.offset, c.size)
      BY DEF BlocksDisjoint
    <3>1. CASE b \in blocks \ touching /\ c \in blocks \ touching
      BY <3>1 DEF BlocksDisjoint
    <3>2. CASE b \in blocks \ touching /\ c = new
      BY <3>2, <2>13
    <3>3. CASE b = new /\ c \in blocks \ touching
      BY <3>3, <2>13 DEF RangesOverlap
    <3> QED BY <2>1, <3>1, <3>2, <3>3
  <2> QED BY <2>10, <2>12, <2>14 DEF merged
<1> QED BY <1>1, <1>2

------------------------------------------------------------------------------
(* The inductive invariant.                                                 *)

\* In a sequential layout nothing shares bytes, whatever the lifetimes.
SequentialDisjoint ==
  phase \in {"baseline", "fallback"} =>
    \A i, j \in placed : i # j => ~ObjectsShareBytes(i, j)

\* The scan's locals exist only while buildBestFitPlan runs.
ScanIdle ==
  phase # "bestFit" => current = NoObject /\ active = {} /\ freeBlocks = {}

ActiveDisjoint == \A i, j \in active : i # j => ~ObjectsShareBytes(i, j)

ActiveClear == \A i \in active : ClearOf(freeBlocks, offset[i], object[i].size)

\* The object being introduced starts no later than any other unplaced one.
CurrentFirst ==
  current # NoObject =>
    /\ current \notin placed
    /\ \A u \in Ids \ placed : object[current].start <= object[u].start

\* An object that left the active list ended before anything still to come.
RetiredBefore ==
  phase = "bestFit" =>
    \A p \in placed \ active, u \in Ids \ placed : object[p].end <= object[u].start

PhaseProgress ==
  /\ phase \in {"verify", "planned"} => placed = Ids
  /\ rejection # "invalid"

IInv ==
  /\ TypeOK /\ ArithmeticInRange /\ PlacedAligned /\ NoLiveOverlap
  /\ SequentialDisjoint /\ ScanIdle
  /\ BlocksDisjoint(freeBlocks) /\ ActiveDisjoint /\ ActiveClear
  /\ CurrentFirst /\ RetiredBefore /\ PhaseProgress

\* What TypeOK says of one object.
LEMMA ObjectFacts ==
  ASSUME TypeOK, NEW i \in Ids
  PROVE  /\ object[i].size \in Nat /\ object[i].alignment \in Nat \ {0}
         /\ object[i].start \in Nat /\ object[i].end \in Nat
         /\ offset[i] \in Nat
BY DEF TypeOK, MemoryObject

LEMMA InitIInv == Init => IInv
BY PlannerAssumption
   DEF Init, IInv, TypeOK, ArithmeticInRange, PlacedAligned, NoLiveOverlap,
       SequentialDisjoint, ScanIdle, BlocksDisjoint, ActiveDisjoint, ActiveClear,
       CurrentFirst, RetiredBefore, PhaseProgress, Phases, Rejections, NoObject, Ids

LEMMA PlaceSequentiallyIInv ==
  ASSUME IInv, NEW i \in Ids, PlaceSequentially(i)
  PROVE  IInv'
<1> DEFINE at == AlignTo(workspaceBytes, object[i].alignment)
<1> USE DEF IInv
<1>1. /\ at \in Nat /\ workspaceBytes <= at /\ at % object[i].alignment = 0
      /\ at + object[i].size <= MaxInt64
  <2>1. TypeOK /\ workspaceBytes \in Nat /\ MaxInt64 \in Nat
    BY PlannerAssumption DEF TypeOK
  <2>2. object[i].size \in Nat /\ object[i].alignment \in Nat \ {0}
    BY <2>1, ObjectFacts
  <2>3. /\ at \in Nat /\ workspaceBytes <= at /\ at % object[i].alignment = 0
    BY <2>1, <2>2, AlignToBounds
  <2>4. at <= MaxInt64 - object[i].size
    BY DEF PlaceSequentially, CanAdd
  <2> QED BY <2>1, <2>2, <2>3, <2>4
<1> HIDE DEF at
<1>2. /\ offset' = [offset EXCEPT ![i] = at]
      /\ workspaceBytes' = at + object[i].size
      /\ placed' = placed \cup {i} /\ i \notin placed
      /\ phase \in {"baseline", "fallback"}
      /\ UNCHANGED <<object, phase, current, active, freeBlocks, sequentialBytes, rejection>>
  BY DEF PlaceSequentially, IsNext, at, scan
<1>3. current = NoObject /\ active = {} /\ freeBlocks = {}
  BY <1>2 DEF ScanIdle
<1>4. /\ offset'[i] = at
      /\ \A j \in placed : offset'[j] = offset[j] /\ j \in Ids
  BY <1>2 DEF TypeOK
<1>5. TypeOK'
  BY <1>1, <1>2, ObjectFacts DEF TypeOK
<1>6. ArithmeticInRange'
  BY <1>1, <1>2, <1>3, <1>4, ObjectFacts DEF ArithmeticInRange, TypeOK
<1>7. PlacedAligned'
  BY <1>1, <1>2, <1>4 DEF PlacedAligned
<1>8. \A j \in placed : ~RangesOverlap(at, object[i].size, offset[j], object[j].size)
  BY <1>1, <1>4, ObjectFacts DEF ArithmeticInRange, RangesOverlap, TypeOK
<1>9. SequentialDisjoint'
  <2> SUFFICES ASSUME NEW j \in placed', NEW k \in placed', j # k
               PROVE  ~ObjectsShareBytes(j, k)'
    BY DEF SequentialDisjoint
  <2>1. CASE j = i
    BY <2>1, <1>2, <1>4, <1>8 DEF ObjectsShareBytes
  <2>2. CASE k = i
    BY <2>2, <1>2, <1>4, <1>8 DEF ObjectsShareBytes, RangesOverlap
  <2>3. CASE j # i /\ k # i
    BY <2>3, <1>2, <1>4 DEF SequentialDisjoint, ObjectsShareBytes
  <2> QED BY <2>1, <2>2, <2>3
<1>10. NoLiveOverlap'
  BY <1>9, <1>2 DEF SequentialDisjoint, NoLiveOverlap
<1>11. ScanIdle' /\ BlocksDisjoint(freeBlocks)' /\ ActiveDisjoint' /\ ActiveClear' /\ CurrentFirst'
  BY <1>2, <1>3 DEF ScanIdle, BlocksDisjoint, ActiveDisjoint, ActiveClear, CurrentFirst
<1>12. RetiredBefore' /\ PhaseProgress'
  BY <1>2 DEF RetiredBefore, PhaseProgress
<1> QED BY <1>5, <1>6, <1>7, <1>9, <1>10, <1>11, <1>12

\* Steps that leave every layout array alone or start an empty layout.
LEMMA PhaseStepsIInv ==
  ASSUME IInv,
         \/ \E i \in Ids : SequentialOverflow(i)
         \/ StartBestFit \/ FinishBestFit \/ BestFitOverflow
         \/ Accept \/ Reject \/ FinishFallback
  PROVE  IInv'
<1> USE DEF IInv
<1>1. ASSUME NEW i \in Ids, SequentialOverflow(i) PROVE IInv'
  BY <1>1 DEF SequentialOverflow, TypeOK, ArithmeticInRange, PlacedAligned, NoLiveOverlap,
       ObjectsShareBytes, LifetimesOverlap, SequentialDisjoint, ScanIdle, BlocksDisjoint,
       ActiveDisjoint, ActiveClear, ClearOf, CurrentFirst, RetiredBefore, PhaseProgress,
       Phases, scan
<1>2. ASSUME StartBestFit PROVE IInv'
  BY <1>2, PlannerAssumption DEF StartBestFit, TypeOK, ArithmeticInRange, PlacedAligned,
     NoLiveOverlap,
       SequentialDisjoint, ScanIdle, BlocksDisjoint,
       ActiveDisjoint, ActiveClear, ClearOf, CurrentFirst, RetiredBefore, PhaseProgress,
       Phases, scan
<1>3. ASSUME FinishBestFit PROVE IInv'
  BY <1>3 DEF FinishBestFit, LeaveBestFit, TypeOK, ArithmeticInRange, PlacedAligned,
     NoLiveOverlap,
       ObjectsShareBytes, LifetimesOverlap, SequentialDisjoint, ScanIdle, BlocksDisjoint,
       ActiveDisjoint, ActiveClear, ClearOf, CurrentFirst, RetiredBefore, PhaseProgress,
       Phases
<1>4. ASSUME BestFitOverflow PROVE IInv'
  BY <1>4, PlannerAssumption DEF BestFitOverflow, LeaveBestFit, FallBack, TypeOK,
     ArithmeticInRange,
       PlacedAligned, NoLiveOverlap, SequentialDisjoint, ScanIdle, BlocksDisjoint,
       ActiveDisjoint, ActiveClear, CurrentFirst, RetiredBefore, PhaseProgress,
       Phases, Rejections, NoObject
<1>5. ASSUME Accept PROVE IInv'
  BY <1>5 DEF Accept, TypeOK, ArithmeticInRange, PlacedAligned, NoLiveOverlap,
       ObjectsShareBytes, LifetimesOverlap, SequentialDisjoint, ScanIdle, BlocksDisjoint,
       ActiveDisjoint, ActiveClear, ClearOf, CurrentFirst, RetiredBefore, PhaseProgress,
       Phases, scan
<1>6. ASSUME Reject PROVE IInv'
  <2>1. PlanIsValid
    <3>1. phase = "verify" /\ placed = Ids
      BY <1>6 DEF Reject, PhaseProgress
    <3>2. ASSUME NEW i \in Ids
          PROVE  /\ offset[i] % object[i].alignment = 0
                 /\ offset[i] <= workspaceBytes
                 /\ object[i].size <= workspaceBytes - offset[i]
      BY <3>1, ObjectFacts DEF PlacedAligned, ArithmeticInRange, TypeOK
    <3>3. ASSUME NEW i \in Ids, NEW j \in Ids, i < j, LifetimesOverlap(i, j)
          PROVE  ~ObjectsShareBytes(i, j)
      <4>1. i # j
        BY <3>3 DEF Ids
      <4> QED BY <3>1, <3>3, <4>1 DEF NoLiveOverlap
    <3> QED BY <3>2, <3>3 DEF PlanIsValid
  <2> QED
    BY <1>6, <2>1, PlannerAssumption DEF Reject, FallBack, TypeOK, ArithmeticInRange,
       PlacedAligned, NoLiveOverlap,
       SequentialDisjoint, ScanIdle, BlocksDisjoint,
       ActiveDisjoint, ActiveClear, CurrentFirst, RetiredBefore, PhaseProgress,
       Phases, Rejections, scan
<1>7. ASSUME FinishFallback PROVE IInv'
  BY <1>7 DEF FinishFallback, TypeOK, ArithmeticInRange, PlacedAligned, NoLiveOverlap,
       ObjectsShareBytes, LifetimesOverlap, SequentialDisjoint, ScanIdle, BlocksDisjoint,
       ActiveDisjoint, ActiveClear, ClearOf, CurrentFirst, RetiredBefore, PhaseProgress,
       Phases, scan
<1> QED BY <1>1, <1>2, <1>3, <1>4, <1>5, <1>6, <1>7

LEMMA IntroduceIInv ==
  ASSUME IInv, NEW i \in Ids, Introduce(i)
  PROVE  IInv'
<1> USE DEF IInv
<1>1. \A u \in Ids \ placed : object[i].start <= object[u].start
  BY ObjectFacts DEF Introduce, IntroducedBefore
<1>2. CurrentFirst'
  BY <1>1 DEF Introduce, CurrentFirst
<1> QED
  BY <1>2 DEF Introduce, TypeOK, ArithmeticInRange, PlacedAligned, NoLiveOverlap,
     ObjectsShareBytes, LifetimesOverlap, SequentialDisjoint, ScanIdle, BlocksDisjoint,
     ActiveDisjoint, ActiveClear, ClearOf, RetiredBefore, PhaseProgress

LEMMA ExpireIInv ==
  ASSUME IInv, NEW i \in Ids, Expire(i)
  PROVE  IInv'
<1> USE DEF IInv
<1>1. /\ phase = "bestFit" /\ current # NoObject
      /\ i \in active /\ object[i].end <= object[current].start
      /\ active' = active \ {i}
      /\ freeBlocks' = AddFreeBlock(freeBlocks, offset[i], object[i].size)
      /\ UNCHANGED <<object, phase, placed, current, offset, workspaceBytes,
                     sequentialBytes, rejection>>
  BY DEF Expire, Expired
<1>2. BlocksWithin(freeBlocks, workspaceBytes)
  BY DEF BlocksWithin, TypeOK, ArithmeticInRange
<1>3. /\ offset[i] \in Nat /\ object[i].size \in Nat /\ workspaceBytes \in Nat
      /\ offset[i] + object[i].size <= workspaceBytes
  BY <1>1, ObjectFacts DEF TypeOK, ArithmeticInRange
<1>4. /\ BlocksWithin(freeBlocks', workspaceBytes)
      /\ BlocksDisjoint(freeBlocks')
      /\ \A o, s \in Nat :
            ClearOf(freeBlocks, o, s) /\ ~RangesOverlap(o, s, offset[i], object[i].size)
              => ClearOf(freeBlocks', o, s)
  BY <1>1, <1>2, <1>3, AddFreeBlockSafe
<1>5. TypeOK' /\ ArithmeticInRange'
  BY <1>1, <1>4 DEF TypeOK, ArithmeticInRange, BlocksWithin, BlockEnd
<1>6. ASSUME NEW j \in active' PROVE ClearOf(freeBlocks', offset[j], object[j].size)
  <2>1. j \in active /\ j # i /\ j \in Ids
    BY <1>1, <1>6 DEF TypeOK
  <2>2. ~RangesOverlap(offset[j], object[j].size, offset[i], object[i].size)
    BY <2>1, <1>1 DEF ActiveDisjoint, ObjectsShareBytes
  <2> QED BY <2>1, <2>2, <1>4, ObjectFacts DEF ActiveClear
<1>7. ActiveClear' /\ ActiveDisjoint'
  BY <1>1, <1>6 DEF ActiveClear, ActiveDisjoint, ObjectsShareBytes, ClearOf
<1>8. ASSUME NEW u \in Ids \ placed PROVE object[i].end <= object[u].start
  <2>1. current \in Ids /\ object[current].start <= object[u].start
    BY <1>1 DEF CurrentFirst, TypeOK
  <2>2. i \in Ids /\ object[i].end \in Nat /\ object[u].start \in Nat /\ object[current].start \in Nat
    BY <2>1, ObjectFacts
  <2> QED BY <2>1, <2>2, <1>1
<1>9. RetiredBefore'
  BY <1>1, <1>8 DEF RetiredBefore
<1>10. BlocksDisjoint(freeBlocks)'
  BY <1>4
<1> QED
  BY <1>1, <1>5, <1>7, <1>9, <1>10 DEF PlacedAligned, NoLiveOverlap, ObjectsShareBytes,
     LifetimesOverlap, SequentialDisjoint, ScanIdle, CurrentFirst, PhaseProgress

\* Common to both placements: once object i has bytes that meet no free block
\* and no active object, it can join the layout.
LEMMA PlacementIInv ==
  ASSUME IInv, phase = "bestFit", current \in Ids,
         NEW at \in Nat, NEW W \in Nat, workspaceBytes <= W, W <= MaxInt64,
         at % object[current].alignment = 0,
         at + object[current].size <= W,
         offset' = [offset EXCEPT ![current] = at],
         placed' = placed \cup {current}, active' = active \cup {current},
         current' = NoObject, workspaceBytes' = W,
         UNCHANGED <<object, phase, sequentialBytes, rejection>>,
         BlocksWithin(freeBlocks', W), BlocksDisjoint(freeBlocks'),
         ClearOf(freeBlocks', at, object[current].size),
         \A j \in active : ClearOf(freeBlocks', offset[j], object[j].size),
         \A j \in active : ~RangesOverlap(at, object[current].size, offset[j], object[j].size)
  PROVE  IInv'
<1> USE DEF IInv
<1> DEFINE i == current
<1>1. /\ i \in Ids /\ i \notin placed
      /\ \A u \in Ids \ placed : object[i].start <= object[u].start
  BY DEF CurrentFirst, NoObject, Ids
<1>2. /\ offset'[i] = at
      /\ \A j \in placed : offset'[j] = offset[j] /\ j \in Ids /\ j # i
      /\ active \subseteq placed
  BY <1>1 DEF TypeOK
<1>3. TypeOK'
  BY <1>1, <1>2, ObjectFacts DEF TypeOK, BlocksWithin, NoObject
<1>4. ArithmeticInRange'
  <2>1. \A j \in placed : offset[j] + object[j].size <= W
    BY <1>2, ObjectFacts DEF ArithmeticInRange, TypeOK
  <2> QED BY <2>1, <1>2 DEF ArithmeticInRange, BlocksWithin, BlockEnd
<1>5. PlacedAligned'
  BY <1>1, <1>2 DEF PlacedAligned
<1>6. ASSUME NEW j \in placed, LifetimesOverlap(i, j)
      PROVE  ~RangesOverlap(at, object[i].size, offset[j], object[j].size)
  <2>1. CASE j \in active
    BY <2>1
  <2>2. CASE j \notin active
    <3>1. object[j].end <= object[i].start
      BY <2>2, <1>1 DEF RetiredBefore
    <3> QED BY <3>1, <1>6, <1>1, <1>2, ObjectFacts DEF LifetimesOverlap
  <2> QED BY <2>1, <2>2
<1>7. NoLiveOverlap'
  <2> SUFFICES ASSUME NEW j \in placed', NEW k \in placed', j # k, LifetimesOverlap(j, k)
               PROVE  ~ObjectsShareBytes(j, k)'
    BY DEF NoLiveOverlap, LifetimesOverlap
  <2>1. CASE j = i
    BY <2>1, <1>2, <1>6 DEF ObjectsShareBytes
  <2>2. CASE k = i
    BY <2>2, <1>2, <1>6 DEF ObjectsShareBytes, RangesOverlap, LifetimesOverlap
  <2>3. CASE j # i /\ k # i
    BY <2>3, <1>2 DEF NoLiveOverlap, ObjectsShareBytes
  <2> QED BY <2>1, <2>2, <2>3
<1>8. ActiveDisjoint'
  <2> SUFFICES ASSUME NEW j \in active', NEW k \in active', j # k
               PROVE  ~ObjectsShareBytes(j, k)'
    BY DEF ActiveDisjoint
  <2>1. CASE j = i
    BY <2>1, <1>2 DEF ObjectsShareBytes
  <2>2. CASE k = i
    BY <2>2, <1>2 DEF ObjectsShareBytes, RangesOverlap
  <2>3. CASE j # i /\ k # i
    BY <2>3, <1>2 DEF ActiveDisjoint, ObjectsShareBytes
  <2> QED BY <2>1, <2>2, <2>3
<1>9. ActiveClear'
  BY <1>2 DEF ActiveClear, ClearOf
<1>10. CurrentFirst'
  BY DEF CurrentFirst
<1>11. RetiredBefore'
  BY <1>2 DEF RetiredBefore
<1>12. SequentialDisjoint' /\ ScanIdle' /\ PhaseProgress' /\ BlocksDisjoint(freeBlocks)'
  BY DEF SequentialDisjoint, ScanIdle, PhaseProgress
<1> QED BY <1>3, <1>4, <1>5, <1>7, <1>8, <1>9, <1>10, <1>11, <1>12

LEMMA PlaceAtEndIInv ==
  ASSUME IInv, PlaceAtEnd
  PROVE  IInv'
<1> DEFINE i  == current
           at == AlignTo(workspaceBytes, object[i].alignment)
           W  == at + object[i].size
<1>1. /\ phase = "bestFit" /\ i # NoObject
      /\ at <= MaxInt64 - object[i].size
      /\ freeBlocks' = AddFreeBlock(freeBlocks, workspaceBytes, at - workspaceBytes)
  BY DEF PlaceAtEnd, CanAdd
<1>2. /\ i \in Ids /\ TypeOK /\ workspaceBytes \in Nat /\ MaxInt64 \in Nat
  BY <1>1, PlannerAssumption DEF IInv, TypeOK
<1>3. object[i].size \in Nat /\ object[i].alignment \in Nat \ {0}
  BY <1>2, ObjectFacts
<1>4. at \in Nat /\ workspaceBytes <= at /\ at % object[i].alignment = 0
  BY <1>2, <1>3, AlignToBounds
<1>5. /\ offset' = [offset EXCEPT ![current] = at]
      /\ placed' = placed \cup {current} /\ active' = active \cup {current}
      /\ current' = NoObject /\ workspaceBytes' = W
      /\ UNCHANGED <<object, phase, sequentialBytes, rejection>>
  BY DEF PlaceAtEnd
<1> HIDE DEF at
<1>6. /\ BlocksWithin(freeBlocks, W) /\ BlocksDisjoint(freeBlocks)
      /\ \A b \in freeBlocks : b.offset \in Nat /\ b.size \in Nat
                               /\ b.offset + b.size <= workspaceBytes
  BY <1>2, <1>3, <1>4 DEF IInv, BlocksWithin, ArithmeticInRange, TypeOK, BlockEnd, FreeBlock
<1>7. W \in Nat /\ W <= MaxInt64 /\ workspaceBytes <= W /\ at - workspaceBytes \in Int
      /\ workspaceBytes + (at - workspaceBytes) <= W
  BY <1>1, <1>2, <1>3, <1>4
<1> HIDE DEF W
<1>8. /\ BlocksWithin(freeBlocks', W) /\ BlocksDisjoint(freeBlocks')
      /\ \A o, s \in Nat :
            ClearOf(freeBlocks, o, s)
              /\ ~RangesOverlap(o, s, workspaceBytes, at - workspaceBytes)
              => ClearOf(freeBlocks', o, s)
  BY <1>1, <1>2, <1>6, <1>7, AddFreeBlockSafe
<1>9. ClearOf(freeBlocks', at, object[i].size)
  <2>1. ClearOf(freeBlocks, at, object[i].size)
    BY <1>2, <1>3, <1>4, <1>6 DEF ClearOf, RangesOverlap
  <2>2. ~RangesOverlap(at, object[i].size, workspaceBytes, at - workspaceBytes)
    BY <1>2, <1>3, <1>4 DEF RangesOverlap
  <2> QED BY <2>1, <2>2, <1>3, <1>4, <1>8
<1>10. ASSUME NEW j \in active
       PROVE  /\ ClearOf(freeBlocks', offset[j], object[j].size)
              /\ ~RangesOverlap(at, object[i].size, offset[j], object[j].size)
  <2>1. /\ j \in Ids /\ offset[j] \in Nat /\ object[j].size \in Nat
        /\ offset[j] + object[j].size <= workspaceBytes
    BY <1>2, ObjectFacts DEF IInv, TypeOK, ArithmeticInRange
  <2>2. ~RangesOverlap(offset[j], object[j].size, workspaceBytes, at - workspaceBytes)
    BY <2>1, <1>2, <1>4 DEF RangesOverlap
  <2>3. ClearOf(freeBlocks, offset[j], object[j].size)
    BY DEF IInv, ActiveClear
  <2>4. ~RangesOverlap(at, object[i].size, offset[j], object[j].size)
    BY <2>1, <1>2, <1>3, <1>4 DEF RangesOverlap
  <2> QED BY <2>1, <2>2, <2>3, <2>4, <1>8
<1>11. at + object[i].size <= W
  BY <1>3, <1>4 DEF W
<1> QED
  BY <1>1, <1>2, <1>4, <1>5, <1>7, <1>8, <1>9, <1>10, <1>11, PlacementIInv

LEMMA PlaceInBlockIInv ==
  ASSUME IInv, NEW b \in freeBlocks, PlaceInBlock(b)
  PROVE  IInv'
<1> DEFINE i     == current
           at    == AlignTo(b.offset, object[i].alignment)
           size  == object[i].size
           W     == workspaceBytes
           rest  == freeBlocks \ {b}
           front == AddFreeBlock(rest, b.offset, at - b.offset)
           back  == AddFreeBlock(front, at + size, BlockEnd(b) - (at + size))
<1>1. /\ phase = "bestFit" /\ i # NoObject
      /\ at + size <= BlockEnd(b)
      /\ freeBlocks' = back
      /\ offset' = [offset EXCEPT ![current] = at]
      /\ placed' = placed \cup {current} /\ active' = active \cup {current}
      /\ current' = NoObject /\ workspaceBytes' = W
      /\ UNCHANGED <<object, phase, sequentialBytes, rejection>>
  BY DEF PlaceInBlock, Fits
<1>2. /\ i \in Ids /\ TypeOK /\ W \in Nat /\ W <= MaxInt64
      /\ b.offset \in Nat /\ b.size \in Nat
      /\ BlockEnd(b) = b.offset + b.size /\ BlockEnd(b) <= W
  BY <1>1 DEF IInv, TypeOK, ArithmeticInRange, FreeBlock, BlockEnd
<1>3. size \in Nat /\ object[i].alignment \in Nat \ {0}
  BY <1>2, ObjectFacts
<1>4. at \in Nat /\ b.offset <= at /\ at % object[i].alignment = 0
  BY <1>2, <1>3, AlignToBounds
<1> HIDE DEF at
<1>5. /\ BlocksWithin(rest, W) /\ BlocksDisjoint(rest)
      /\ \A c \in rest : /\ c.offset \in Nat /\ c.size \in Nat
                         /\ ~RangesOverlap(b.offset, b.size, c.offset, c.size)
  BY DEF IInv, BlocksWithin, BlocksDisjoint, TypeOK, ArithmeticInRange, FreeBlock
<1>6. at - b.offset \in Int /\ b.offset + (at - b.offset) <= W
  BY <1>1, <1>2, <1>3, <1>4
<1>7. /\ BlocksWithin(front, W) /\ BlocksDisjoint(front)
      /\ \A o, s \in Nat :
            ClearOf(rest, o, s) /\ ~RangesOverlap(o, s, b.offset, at - b.offset)
              => ClearOf(front, o, s)
  <2> HIDE DEF rest
  <2> QED BY <1>2, <1>5, <1>6, AddFreeBlockSafe
<1>8. /\ at + size \in Nat /\ BlockEnd(b) - (at + size) \in Int
      /\ (at + size) + (BlockEnd(b) - (at + size)) <= W
  BY <1>1, <1>2, <1>3, <1>4
<1>9. /\ BlocksWithin(back, W) /\ BlocksDisjoint(back)
      /\ \A o, s \in Nat :
            ClearOf(front, o, s)
              /\ ~RangesOverlap(o, s, at + size, BlockEnd(b) - (at + size))
              => ClearOf(back, o, s)
  <2> HIDE DEF front
  <2> QED BY <1>2, <1>7, <1>8, AddFreeBlockSafe
<1> HIDE DEF front, back
<1>10. ClearOf(freeBlocks', at, size)
  <2>1. ClearOf(rest, at, size)
    BY <1>1, <1>2, <1>3, <1>4, <1>5 DEF ClearOf, RangesOverlap
  <2>2. ~RangesOverlap(at, size, b.offset, at - b.offset)
    BY <1>2, <1>3, <1>4 DEF RangesOverlap
  <2>3. ~RangesOverlap(at, size, at + size, BlockEnd(b) - (at + size))
    BY <1>2, <1>3, <1>4 DEF RangesOverlap
  <2> QED BY <2>1, <2>2, <2>3, <1>1, <1>3, <1>4, <1>7, <1>9
<1>11. ASSUME NEW j \in active
       PROVE  /\ ClearOf(freeBlocks', offset[j], object[j].size)
              /\ ~RangesOverlap(at, size, offset[j], object[j].size)
  <2>1. j \in Ids /\ offset[j] \in Nat /\ object[j].size \in Nat
    BY <1>2, ObjectFacts DEF TypeOK
  <2>2. /\ ClearOf(freeBlocks, offset[j], object[j].size)
        /\ ~RangesOverlap(offset[j], object[j].size, b.offset, b.size)
    BY DEF IInv, ActiveClear, ClearOf
  <2>3. ClearOf(rest, offset[j], object[j].size)
    BY <2>2 DEF ClearOf
  <2>4. /\ ~RangesOverlap(offset[j], object[j].size, b.offset, at - b.offset)
        /\ ~RangesOverlap(offset[j], object[j].size, at + size, BlockEnd(b) - (at + size))
        /\ ~RangesOverlap(at, size, offset[j], object[j].size)
    BY <2>1, <2>2, <1>1, <1>2, <1>3, <1>4 DEF RangesOverlap
  <2> QED BY <2>1, <2>3, <2>4, <1>1, <1>7, <1>8, <1>9
<1>12. at + size <= W
  BY <1>1, <1>2, <1>3, <1>4
<1>13. /\ current \in Ids /\ phase = "bestFit"
       /\ BlocksWithin(freeBlocks', workspaceBytes) /\ BlocksDisjoint(freeBlocks')
       /\ workspaceBytes \in Nat /\ workspaceBytes <= workspaceBytes
       /\ workspaceBytes <= MaxInt64 /\ workspaceBytes' = workspaceBytes
  BY <1>1, <1>2, <1>9
<1> HIDE DEF rest
<1> QED
  BY <1>1, <1>4, <1>10, <1>11, <1>12, <1>13, PlacementIInv

LEMMA NextIInv == IInv /\ [Next]_vars => IInv'
<1>1. ASSUME IInv, Next PROVE IInv'
  BY <1>1, PlaceSequentiallyIInv, PhaseStepsIInv, IntroduceIInv, ExpireIInv,
     PlaceInBlockIInv, PlaceAtEndIInv DEF Next
<1>2. IInv /\ UNCHANGED vars => IInv'
  BY DEF vars, IInv, TypeOK, ArithmeticInRange, PlacedAligned, NoLiveOverlap,
     ObjectsShareBytes, LifetimesOverlap, SequentialDisjoint, ScanIdle, BlocksDisjoint,
     ActiveDisjoint, ActiveClear, ClearOf, CurrentFirst, RetiredBefore, PhaseProgress
<1> QED BY <1>1, <1>2

LEMMA Inductive == Spec => []IInv
BY InitIInv, NextIInv, PTL DEF Spec

------------------------------------------------------------------------------
(* The results.                                                             *)

\* The planner's variables keep their types.
THEOREM TypeCorrect == Spec => []TypeOK
BY Inductive, PTL DEF IInv

\* No plan the pass ever builds lets two simultaneously live objects share a
\* byte, for every function, every lifetime table and every alignment.
THEOREM LiveObjectsNeverOverlap == Spec => []NoLiveOverlap
BY Inductive, PTL DEF IInv

\* None of the planner's unchecked additions can pass the int64_t limit.
THEOREM PlannerNeverWraps == Spec => []ArithmeticInRange
BY Inductive, PTL DEF IInv

\* Every offset the pass emits is aligned as its object requires.
THEOREM OffsetsAligned == Spec => []PlacedAligned
BY Inductive, PTL DEF IInv

------------------------------------------------------------------------------
(* The free list.                                                           *)

Coalesced(blocks) ==
  \A b \in blocks :
    /\ b.size > 0
    /\ \A c \in blocks \ {b} : BlockEnd(b) < c.offset \/ BlockEnd(c) < b.offset

\* A list without touching blocks stays one: whatever the new range touches
\* becomes one block with it, and what is left lies apart from all of these.
LEMMA AddFreeBlockCoalesces ==
  ASSUME NEW W \in Nat, NEW blocks, BlocksWithin(blocks, W), Coalesced(blocks),
         NEW off \in Nat, NEW size \in Int, off + size <= W
  PROVE  Coalesced(AddFreeBlock(blocks, off, size))
<1> DEFINE merged   == AddFreeBlock(blocks, off, size)
           touching == {b \in blocks : b.offset <= off + size /\ off <= BlockEnd(b)}
           Firsts   == {off} \cup {b.offset : b \in touching}
           Lasts    == {off + size} \cup {BlockEnd(b) : b \in touching}
           first    == Min(Firsts)
           last     == Max(Lasts)
           new      == [offset |-> first, size |-> last - first]
<1>1. CASE size <= 0
  BY <1>1 DEF AddFreeBlock
<1>2. CASE size > 0
  <2>0. \A b \in blocks : b.offset \in Nat /\ b.size \in Nat /\ BlockEnd(b) \in Nat /\ BlockEnd(b) <= W
    BY DEF BlocksWithin, FreeBlock, BlockEnd
  <2>1. merged = (blocks \ touching) \cup {new}
    BY <1>2 DEF AddFreeBlock
  <2>2. Firsts \subseteq Nat /\ Firsts # {}
    BY <2>0
  <2>3. Lasts \subseteq Nat /\ Lasts # {} /\ \A y \in Lasts : y <= W
    BY <2>0, <1>2
  <2>4. first \in Firsts /\ first \in Nat /\ first <= off
    <3> HIDE DEF Firsts
    <3>1. first \in Firsts /\ \A y \in Firsts : first <= y
      BY <2>2, MinOfNaturals
    <3>2. first \in Nat
      BY <3>1, <2>2
    <3> QED BY <3>1, <3>2 DEF Firsts
  <2>5. last \in Lasts /\ last \in Nat /\ off + size <= last
    <3> HIDE DEF Lasts
    <3>1. last \in Lasts /\ \A y \in Lasts : y <= last
      BY <2>3, MaxOfNaturals
    <3>2. last \in Nat
      BY <3>1, <2>3
    <3> QED BY <3>1, <3>2 DEF Lasts
  <2>6. first = off \/ \E b \in touching : first = b.offset
    BY <2>4
  <2>7. last = off + size \/ \E b \in touching : last = BlockEnd(b)
    BY <2>5
  <2> HIDE DEF first, last, Firsts, Lasts, merged
  <2>8. new.offset = first /\ new.size = last - first /\ new.size > 0 /\ BlockEnd(new) = last
    BY <2>4, <2>5, <1>2 DEF BlockEnd
  <2>9. ASSUME NEW c \in blocks \ touching
        PROVE  last < c.offset \/ BlockEnd(c) < first
    <3>1. c.offset > off + size \/ BlockEnd(c) < off
      BY <2>0
    <3>2. \A b \in touching : BlockEnd(b) < c.offset \/ BlockEnd(c) < b.offset
      BY DEF Coalesced
    <3>3. c.offset <= BlockEnd(c)
      BY <2>0 DEF BlockEnd
    <3>4. CASE c.offset > off + size
      BY <2>0, <2>7, <3>2, <3>3, <3>4
    <3>5. CASE BlockEnd(c) < off
      BY <2>0, <2>6, <3>2, <3>3, <3>5
    <3> QED BY <3>1, <3>4, <3>5
  <2>10. Coalesced(merged)
    <3> SUFFICES ASSUME NEW b \in merged
                 PROVE  /\ b.size > 0
                        /\ \A c \in merged \ {b} :
                              BlockEnd(b) < c.offset \/ BlockEnd(c) < b.offset
      BY DEF Coalesced
    <3> HIDE DEF new
    <3>1. CASE b = new
      BY <2>1, <2>8, <2>9, <3>1
    <3>2. CASE b \in blocks \ touching
      BY <2>1, <2>8, <2>9, <3>2 DEF Coalesced
    <3> QED BY <2>1, <3>1, <3>2
  <2> QED BY <2>10 DEF merged
<1> QED BY <1>1, <1>2

LEMMA FewerCoalesced ==
  ASSUME NEW blocks, Coalesced(blocks), NEW b
  PROVE  Coalesced(blocks \ {b})
BY DEF Coalesced

\* The list always is one: no block is empty and no two blocks touch, whatever
\* is given back and however a block is split.
THEOREM FreeListStaysCoalesced == Spec => []FreeListCoalesced
<1>1. Init => FreeListCoalesced
  BY DEF Init, FreeListCoalesced
<1>2. IInv /\ FreeListCoalesced /\ [Next]_vars => FreeListCoalesced'
  <2> SUFFICES ASSUME IInv, Coalesced(freeBlocks), [Next]_vars
               PROVE  Coalesced(freeBlocks')
    BY DEF Coalesced, FreeListCoalesced
  <2>0. /\ TypeOK /\ workspaceBytes \in Nat
        /\ BlocksWithin(freeBlocks, workspaceBytes)
    BY DEF IInv, TypeOK, ArithmeticInRange, BlocksWithin
  <2>1. ASSUME NEW i \in Ids, Expire(i) PROVE Coalesced(freeBlocks')
    <3>1. /\ freeBlocks' = AddFreeBlock(freeBlocks, offset[i], object[i].size)
          /\ i \in placed
      BY <2>1 DEF Expire, IInv, TypeOK
    <3>2. /\ offset[i] \in Nat /\ object[i].size \in Nat
          /\ offset[i] + object[i].size <= workspaceBytes
      BY <2>0, <3>1, ObjectFacts DEF IInv, ArithmeticInRange
    <3> QED BY <2>0, <3>1, <3>2, AddFreeBlockCoalesces
  <2>2. ASSUME PlaceAtEnd PROVE Coalesced(freeBlocks')
    <3> DEFINE at == AlignTo(workspaceBytes, object[current].alignment)
    <3>1. /\ freeBlocks' = AddFreeBlock(freeBlocks, workspaceBytes, at - workspaceBytes)
          /\ current \in Ids
      BY <2>0, <2>2 DEF PlaceAtEnd, TypeOK
    <3>2. at \in Nat /\ workspaceBytes <= at
      BY <2>0, <3>1, ObjectFacts, AlignToBounds
    <3> HIDE DEF at
    <3>3. BlocksWithin(freeBlocks, at) /\ workspaceBytes + (at - workspaceBytes) <= at
      BY <2>0, <3>2 DEF BlocksWithin, FreeBlock, BlockEnd
    <3> QED BY <2>0, <3>1, <3>2, <3>3, AddFreeBlockCoalesces
  <2>3. ASSUME NEW b \in freeBlocks, PlaceInBlock(b) PROVE Coalesced(freeBlocks')
    <3> DEFINE at    == AlignTo(b.offset, object[current].alignment)
               end   == at + object[current].size
               rest  == freeBlocks \ {b}
               front == AddFreeBlock(rest, b.offset, at - b.offset)
    <3>1. /\ freeBlocks' = AddFreeBlock(front, end, BlockEnd(b) - end)
          /\ current \in Ids /\ end <= BlockEnd(b)
      BY <2>0, <2>3 DEF PlaceInBlock, Fits, TypeOK
    <3>2. b.offset \in Nat /\ BlockEnd(b) \in Nat /\ BlockEnd(b) <= workspaceBytes
      BY <2>0 DEF BlocksWithin, FreeBlock, BlockEnd
    <3>9. object[current].size \in Nat /\ object[current].alignment \in Nat \ {0}
      BY <2>0, <3>1, ObjectFacts
    <3>10. at \in Nat /\ b.offset <= at
      BY <3>2, <3>9, AlignToBounds
    <3> HIDE DEF at
    <3>3. at \in Nat /\ b.offset <= at /\ end \in Nat /\ at <= end
      BY <3>9, <3>10
    <3> HIDE DEF end
    <3>4. BlocksWithin(rest, workspaceBytes) /\ BlocksDisjoint(rest) /\ Coalesced(rest)
      BY <2>0, FewerCoalesced DEF IInv, BlocksWithin, BlocksDisjoint
    <3>5. at - b.offset \in Int /\ b.offset + (at - b.offset) <= workspaceBytes
      BY <2>0, <3>1, <3>2, <3>3
    <3> HIDE DEF rest
    <3>6. BlocksWithin(front, workspaceBytes) /\ Coalesced(front)
      BY <2>0, <3>2, <3>4, <3>5, AddFreeBlockSafe, AddFreeBlockCoalesces
    <3>7. BlockEnd(b) - end \in Int /\ end + (BlockEnd(b) - end) <= workspaceBytes
      BY <3>2, <3>3
    <3> HIDE DEF front
    <3> QED BY <2>0, <3>1, <3>3, <3>6, <3>7, AddFreeBlockCoalesces
  <2>4. freeBlocks' = {} => Coalesced(freeBlocks')
    BY DEF Coalesced
  <2> QED
    BY <2>1, <2>2, <2>3, <2>4 DEF Next, PlaceSequentially, SequentialOverflow, Introduce,
       StartBestFit, BestFitOverflow, FinishBestFit, LeaveBestFit, Accept, Reject,
       FinishFallback, scan, vars
<1> QED
  BY <1>1, <1>2, Inductive, PTL DEF Spec

------------------------------------------------------------------------------
(* The fall-back.                                                           *)

\* The sizes the sequential layout goes through, up to its object n.
Reaches(w, n) ==
  /\ w \in [0 .. N -> Nat]
  /\ w[0] = 0
  /\ \A k \in 1 .. n :
       LET at == AlignTo(w[k - 1], object[k].alignment)
       IN  /\ CanAlign(w[k - 1], object[k].alignment) /\ CanAdd(at, object[k].size)
           /\ w[k] = at + object[k].size

InOrder(w, n) == placed = 1 .. n /\ workspaceBytes = w[n]

\* The baseline went through the same sizes before it, so the fall-back cannot
\* overflow, and ends at the size of the baseline.
Repeats ==
  /\ phase = "baseline" =>
        /\ rejection = "none"
        /\ \E w, n : n \in 0 .. N /\ Reaches(w, n) /\ InOrder(w, n)
  /\ phase \in {"bestFit", "verify", "fallback"} =>
        \E w : /\ Reaches(w, N) /\ sequentialBytes = w[N]
               /\ phase = "fallback" => \E n \in 0 .. N : InOrder(w, n)
  /\ phase = "planned" => workspaceBytes <= sequentialBytes
  /\ phase = "failed" => rejection = "none"

\* A complete layout passes verifyPlan.
LEMMA CompleteIsValid == ASSUME IInv, placed = Ids PROVE PlanIsValid
<1>1. ASSUME NEW i \in Ids
      PROVE  /\ offset[i] % object[i].alignment = 0
             /\ offset[i] <= workspaceBytes
             /\ object[i].size <= workspaceBytes - offset[i]
  BY ObjectFacts DEF IInv, TypeOK, PlacedAligned, ArithmeticInRange
<1>2. \A i, j \in Ids : i < j /\ LifetimesOverlap(i, j) => ~ObjectsShareBytes(i, j)
  BY DEF IInv, NoLiveOverlap, Ids
<1> QED BY <1>1, <1>2 DEF PlanIsValid

\* buildSequentialPlan visits the objects by number.
LEMMA NextByNumber ==
  ASSUME NEW n \in 0 .. N, placed = 1 .. n, NEW i \in Ids, IsNext(i)
  PROVE  n < N /\ i = n + 1
BY PlannerAssumption DEF IsNext, Ids

LEMMA AllVisited ==
  ASSUME NEW n \in 0 .. N, placed = 1 .. n, placed = Ids
  PROVE  n = N
BY PlannerAssumption DEF Ids

LEMMA SameProgram ==
  ASSUME NEW w, NEW n, Reaches(w, n), object' = object
  PROVE  Reaches(w, n)'
BY DEF Reaches

LEMMA RepeatsNext == IInv /\ Repeats /\ [Next]_vars => Repeats'
<1> SUFFICES ASSUME IInv, Repeats, [Next]_vars PROVE Repeats'
  OBVIOUS
<1>0. TypeOK /\ N \in Nat \ {0}
  BY PlannerAssumption DEF IInv
<1>1. ASSUME NEW i \in Ids, PlaceSequentially(i), phase = "baseline" PROVE Repeats'
  <2> DEFINE at == AlignTo(workspaceBytes, object[i].alignment)
  <2>1. PICK w, n : n \in 0 .. N /\ Reaches(w, n) /\ InOrder(w, n)
    BY <1>1 DEF Repeats
  <2>2. n < N /\ i = n + 1
    BY <1>1, <2>1, NextByNumber DEF PlaceSequentially, InOrder
  <2>3. /\ placed' = 1 .. (n + 1) /\ workspaceBytes' = at + object[i].size
        /\ CanAlign(workspaceBytes, object[i].alignment) /\ CanAdd(at, object[i].size)
        /\ workspaceBytes = w[n] /\ UNCHANGED <<object, phase, rejection>>
    BY <1>1, <2>1, <2>2 DEF PlaceSequentially, InOrder
  <2>4. at + object[i].size \in Nat
    <3>1. /\ object[i].size \in Nat /\ object[i].alignment \in Nat \ {0}
          /\ workspaceBytes \in Nat
      BY <1>0, ObjectFacts DEF TypeOK
    <3>2. at \in Nat
      BY <3>1, AlignToBounds
    <3> QED BY <3>1, <3>2
  <2> HIDE DEF at
  <2> DEFINE v == [w EXCEPT ![n + 1] = at + object[i].size]
  <2>8. n + 1 \in 0 .. N /\ n \in Nat /\ w \in [0 .. N -> Nat] /\ w[0] = 0
    BY <1>0, <2>1, <2>2 DEF Reaches
  <2>9. /\ v \in [0 .. N -> Nat] /\ v[0] = 0 /\ v[n + 1] = at + object[i].size
        /\ \A k \in 0 .. n : v[k] = w[k]
    BY <1>0, <2>2, <2>4, <2>8
  <2> HIDE DEF v
  <2>5. Reaches(v, n + 1)
    <3> SUFFICES ASSUME NEW k \in 1 .. (n + 1)
                 PROVE  LET a == AlignTo(v[k - 1], object[k].alignment)
                        IN  /\ CanAlign(v[k - 1], object[k].alignment)
                            /\ CanAdd(a, object[k].size)
                            /\ v[k] = a + object[k].size
      BY <2>9 DEF Reaches
    <3>3. CASE k = n + 1
      <4>1. v[k - 1] = workspaceBytes
        BY <2>3, <2>8, <2>9, <3>3
      <4> QED BY <2>2, <2>3, <2>9, <3>3, <4>1 DEF at
    <3>4. CASE k \in 1 .. n
      <4>1. v[k - 1] = w[k - 1] /\ v[k] = w[k]
        BY <2>8, <2>9, <3>4
      <4> QED BY <2>1, <3>4, <4>1 DEF Reaches
    <3> QED BY <2>8, <3>3, <3>4
  <2>6. PICK u : Reaches(u, n + 1) /\ u[n + 1] = at + object[i].size
    BY <2>5, <2>9
  <2>7. Reaches(u, n + 1)' /\ InOrder(u, n + 1)' /\ n + 1 \in 0 .. N
    BY <2>3, <2>6, <2>8, SameProgram DEF InOrder
  <2> QED BY <1>1, <2>3, <2>7 DEF Repeats
<1>2. ASSUME NEW i \in Ids, PlaceSequentially(i) \/ SequentialOverflow(i), phase = "fallback"
      PROVE  Repeats'
  <2>1. PICK w : /\ Reaches(w, N) /\ sequentialBytes = w[N]
                 /\ \E n \in 0 .. N : InOrder(w, n)
    BY <1>2 DEF Repeats
  <2>2. PICK n \in 0 .. N : InOrder(w, n)
    BY <2>1
  <2>3. n < N /\ i = n + 1
    BY <1>2, <2>2, NextByNumber DEF PlaceSequentially, SequentialOverflow, InOrder
  <2> DEFINE at == AlignTo(w[n], object[i].alignment)
  <2>4. /\ CanAlign(w[n], object[i].alignment) /\ CanAdd(at, object[i].size)
        /\ w[n + 1] = at + object[i].size /\ w[n] = workspaceBytes
    <3>1. i \in 1 .. N /\ i - 1 = n
      BY <1>0, <2>3
    <3> QED BY <2>1, <2>2, <2>3, <3>1 DEF Reaches, InOrder
  <2>5. PlaceSequentially(i)
    BY <1>2, <2>4 DEF SequentialOverflow
  <2>6. /\ placed' = 1 .. (n + 1) /\ workspaceBytes' = w[n + 1]
        /\ UNCHANGED <<object, phase, rejection, sequentialBytes>>
    BY <2>2, <2>3, <2>4, <2>5 DEF PlaceSequentially, InOrder
  <2>7. Reaches(w, N)' /\ InOrder(w, n + 1)' /\ n + 1 \in 0 .. N
    BY <1>0, <2>1, <2>3, <2>6, SameProgram DEF InOrder
  <2> QED BY <1>2, <2>1, <2>6, <2>7 DEF Repeats
<1>3. ASSUME NEW i \in Ids, SequentialOverflow(i), phase = "baseline" PROVE Repeats'
  BY <1>3 DEF SequentialOverflow, Repeats
<1>4. ASSUME StartBestFit PROVE Repeats'
  <2>1. PICK w, n : n \in 0 .. N /\ Reaches(w, n) /\ InOrder(w, n)
    BY <1>4 DEF Repeats, StartBestFit
  <2>2. n = N /\ sequentialBytes' = w[N] /\ Reaches(w, N)'
    BY <1>4, <2>1, AllVisited, SameProgram DEF InOrder, StartBestFit
  <2> QED BY <1>4, <2>2 DEF Repeats, StartBestFit
<1>5. ASSUME phase \in {"bestFit", "verify"}, phase' \in {"bestFit", "verify"},
             UNCHANGED <<object, sequentialBytes>>
      PROVE  Repeats'
  BY <1>5, SameProgram DEF Repeats
<1>6. ASSUME BestFitOverflow \/ Reject PROVE Repeats'
  <2>1. /\ phase \in {"bestFit", "verify"} /\ phase' = "fallback"
        /\ placed' = {} /\ workspaceBytes' = 0 /\ UNCHANGED <<object, sequentialBytes>>
    BY <1>6 DEF BestFitOverflow, Reject, FallBack
  <2>2. PICK w : Reaches(w, N) /\ sequentialBytes = w[N]
    BY <2>1 DEF Repeats
  <2>3. Reaches(w, N)' /\ InOrder(w, 0)' /\ 0 \in 0 .. N
    BY <1>0, <2>1, <2>2, SameProgram DEF InOrder, Reaches
  <2> QED BY <2>1, <2>2, <2>3 DEF Repeats
<1>7. ASSUME Accept PROVE Repeats'
  BY <1>7 DEF Accept, Repeats
<1>8. ASSUME FinishFallback PROVE Repeats'
  <2>1. PICK w : /\ Reaches(w, N) /\ sequentialBytes = w[N]
                 /\ \E n \in 0 .. N : InOrder(w, n)
    BY <1>8 DEF Repeats, FinishFallback
  <2>2. workspaceBytes = w[N]
    BY <1>8, <2>1, AllVisited DEF InOrder, FinishFallback
  <2>3. PlanIsValid
    BY <1>8, CompleteIsValid DEF FinishFallback
  <2>4. phase' = "planned" /\ UNCHANGED <<workspaceBytes, sequentialBytes>>
    BY <1>8, <2>3 DEF FinishFallback
  <2>5. workspaceBytes \in Nat
    BY <1>0 DEF TypeOK
  <2> QED BY <2>1, <2>2, <2>4, <2>5 DEF Repeats
<1>9. ASSUME UNCHANGED vars PROVE Repeats'
  <2>1. UNCHANGED <<object, phase, placed, workspaceBytes, sequentialBytes, rejection>>
    BY <1>9 DEF vars
  <2> QED BY <2>1, SameProgram DEF Repeats, InOrder
<1>10. ASSUME NEW i \in Ids, Introduce(i) \/ Expire(i) PROVE Repeats'
  BY <1>5, <1>10 DEF Introduce, Expire
<1>11. ASSUME NEW b \in freeBlocks, PlaceInBlock(b) PROVE Repeats'
  BY <1>5, <1>11 DEF PlaceInBlock
<1>12. ASSUME PlaceAtEnd \/ FinishBestFit PROVE Repeats'
  BY <1>5, <1>12 DEF PlaceAtEnd, FinishBestFit
<1>13. ASSUME NEW i \in Ids, PlaceSequentially(i) \/ SequentialOverflow(i) PROVE Repeats'
  BY <1>1, <1>2, <1>3, <1>13 DEF PlaceSequentially, SequentialOverflow
<1> QED
  BY <1>4, <1>6, <1>7, <1>8, <1>9, <1>10, <1>11, <1>12, <1>13 DEF Next

LEMMA AlwaysRepeats == Spec => []Repeats
<1>1. Init => Repeats
  <2> SUFFICES ASSUME Init PROVE Repeats
    OBVIOUS
  <2> DEFINE w == [k \in 0 .. N |-> 0]
  <2>1. N \in Nat
    BY PlannerAssumption
  <2>2. Reaches(w, 0) /\ 0 \in 0 .. N /\ w[0] = 0
    BY <2>1 DEF Reaches
  <2>3. InOrder(w, 0)
    BY <2>2 DEF Init, InOrder
  <2> HIDE DEF w
  <2> QED BY <2>2, <2>3 DEF Init, Repeats
<1> QED
  BY <1>1, RepeatsNext, Inductive, PTL DEF Spec

\* The pass's two internal errors cannot happen: verifyPlan refuses no plan, and
\* the fall-back to the sequential layout, which fitted once, fits again.
THEOREM VerifierRefusesNothing == Spec => []VerifierNeverRefuses
<1>1. IInv /\ Repeats => VerifierNeverRefuses
  BY DEF IInv, PhaseProgress, Repeats, VerifierNeverRefuses
<1> QED BY <1>1, Inductive, AlwaysRepeats, PTL

\* What is published is never larger than the sequential baseline.
THEOREM NeverWorseThanBaseline ==
  Spec => [](phase = "planned" => workspaceBytes <= sequentialBytes)
<1>1. Repeats => (phase = "planned" => workspaceBytes <= sequentialBytes)
  BY DEF Repeats
<1> QED BY <1>1, AlwaysRepeats, PTL

------------------------------------------------------------------------------
(* The planner implements the abstract layout specification.                *)

LaidOut == [i \in placed |-> offset[i]]

\* One more object placed, nothing else moved, and no live overlap afterwards:
\* that is a Place step of the abstract specification.
LEMMA PlacementRefines ==
  ASSUME IInv, NoLiveOverlap', TypeOK', NEW i \in Ids, i \notin placed,
         placed' = placed \cup {i}, UNCHANGED <<object, phase>>, phase # "planned",
         \A j \in placed : offset'[j] = offset[j]
  PROVE  Layout!Place(i)
<1>1. placed \subseteq Ids /\ DOMAIN LaidOut = placed /\ DOMAIN LaidOut' = placed \cup {i}
  BY DEF IInv, TypeOK, LaidOut
<1>2. LaidOut'[i] = offset'[i] /\ offset'[i] \in Nat
  BY DEF LaidOut, TypeOK
<1>3. ASSUME NEW j \in placed
      PROVE  /\ LaidOut[j] = offset[j] /\ LaidOut'[j] = offset[j]
             /\ LifetimesOverlap(i, j) =>
                  ~RangesOverlap(offset'[i], object[i].size, offset[j], object[j].size)
  BY DEF LaidOut, NoLiveOverlap, LifetimesOverlap, ObjectsShareBytes
<1> QED
  BY <1>1, <1>2, <1>3 DEF Layout!Place, Layout!LifetimesOverlap, Layout!RangesOverlap,
     LifetimesOverlap, RangesOverlap, LaidOut

LEMMA StepRefines ==
  ASSUME IInv, IInv', [Next]_vars
  PROVE  [Layout!LayoutNext]_(Layout!layoutVars)
<1> USE DEF Layout!layoutVars
<1>1. ASSUME NEW i \in Ids, PlaceSequentially(i) PROVE Layout!Place(i)
  <2>1. /\ i \notin placed /\ placed' = placed \cup {i} /\ phase # "planned"
        /\ UNCHANGED <<object, phase>> /\ \A j \in placed : offset'[j] = offset[j]
    BY <1>1 DEF PlaceSequentially, IsNext, IInv, TypeOK
  <2> QED BY <2>1, PlacementRefines DEF IInv
<1>2. ASSUME PlaceAtEnd \/ \E b \in freeBlocks : PlaceInBlock(b)
      PROVE  \E i \in Ids : Layout!Place(i)
  <2>1. /\ current \in Ids /\ current \notin placed /\ placed' = placed \cup {current}
        /\ phase # "planned" /\ UNCHANGED <<object, phase>>
    BY <1>2 DEF PlaceAtEnd, PlaceInBlock, IInv, TypeOK, CurrentFirst
  <2>2. \A j \in placed : offset'[j] = offset[j]
    BY <1>2, <2>1 DEF PlaceAtEnd, PlaceInBlock, IInv, TypeOK
  <2>3. PICK i \in Ids : i = current
    BY <2>1
  <2>4. Layout!Place(i)
    BY <2>1, <2>2, <2>3, PlacementRefines DEF IInv
  <2> QED BY <2>4
<1>3. ASSUME StartBestFit \/ BestFitOverflow \/ Reject PROVE Layout!Discard
  BY <1>3 DEF StartBestFit, BestFitOverflow, Reject, FallBack, Layout!Discard
<1>4. ASSUME Accept PROVE Layout!Publish
  BY <1>4 DEF Accept, Layout!Publish, IInv, PhaseProgress
<1>5. ASSUME FinishFallback PROVE Layout!Publish \/ UNCHANGED Layout!layoutVars
  BY <1>5 DEF FinishFallback, Layout!Publish
<1>6. ASSUME \/ \E i \in Ids : SequentialOverflow(i) \/ Introduce(i) \/ Expire(i)
             \/ FinishBestFit \/ UNCHANGED vars
      PROVE  UNCHANGED Layout!layoutVars
  BY <1>6 DEF SequentialOverflow, Introduce, Expire, FinishBestFit, vars
<1>7. ASSUME \E i \in Ids : Layout!Place(i) PROVE Layout!LayoutNext
  BY <1>7 DEF Layout!LayoutNext
<1>8. ASSUME Layout!Discard \/ Layout!Publish PROVE Layout!LayoutNext
  BY <1>8 DEF Layout!LayoutNext
<1> HIDE DEF Layout!layoutVars
<1> QED
  BY <1>1, <1>2, <1>3, <1>4, <1>5, <1>6, <1>7, <1>8 DEF Next

\* Every behaviour of the planner is a behaviour of WorkspaceLayout.
THEOREM PlannerImplementsLayout == Spec => ImplementsLayout
<1>1. Init => Layout!LayoutInit
  BY PlannerAssumption DEF Init, Layout!LayoutInit, MemoryObject
<1> QED
  BY <1>1, Inductive, StepRefines, PTL DEF Spec, ImplementsLayout, Layout!LayoutSpec

==============================================================================
