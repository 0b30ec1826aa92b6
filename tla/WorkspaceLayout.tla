--------------------------- MODULE WorkspaceLayout ---------------------------
(***************************************************************************)
(* What -eot-plan-static-workspace promises, with no commitment to how an  *)
(* offset is found: objects are given byte ranges of one workspace, one at *)
(* a time, never a range that meets the range of an object alive at the    *)
(* same time; an unfinished layout may be thrown away; only a complete one *)
(* is published.  BestFitPlan implements this specification.               *)
(***************************************************************************)
EXTENDS Integers

CONSTANT Ids          \* the memref.alloc operations of the function

VARIABLES object,     \* [Ids -> [size, alignment, start, end]], never changes
          layout,     \* the partial function from Ids to byte offsets
          published   \* the function's ABI has been rewritten to this layout

layoutVars == <<object, layout, published>>

\* Half-open lifetimes [start, end) that share a program point.
LifetimesOverlap(a, b) == a.start < b.end /\ b.start < a.end

\* Half-open byte ranges that share a byte; an empty object has no bytes.
RangesOverlap(offA, sizeA, offB, sizeB) ==
  /\ sizeA > 0 /\ sizeB > 0
  /\ offA < offB + sizeB
  /\ offB < offA + sizeA

LayoutInit ==
  /\ object \in [Ids -> [size: Nat, alignment: Nat \ {0}, start: Nat, end: Nat]]
  /\ layout = [i \in {} |-> 0]
  /\ published = FALSE

\* Object i gets an offset, every other object keeps its own.
Place(i) ==
  /\ ~published
  /\ i \notin DOMAIN layout
  /\ DOMAIN layout' = DOMAIN layout \cup {i}
  /\ layout'[i] \in Nat
  /\ \A j \in DOMAIN layout :
        /\ layout'[j] = layout[j]
        /\ LifetimesOverlap(object[i], object[j]) =>
             ~RangesOverlap(layout'[i], object[i].size, layout[j], object[j].size)
  /\ UNCHANGED <<object, published>>

Discard ==
  /\ ~published
  /\ layout' = [i \in {} |-> 0]
  /\ UNCHANGED <<object, published>>

Publish ==
  /\ ~published
  /\ DOMAIN layout = Ids
  /\ published' = TRUE
  /\ UNCHANGED <<object, layout>>

LayoutNext ==
  \/ \E i \in Ids : Place(i)
  \/ Discard
  \/ Publish

LayoutSpec == LayoutInit /\ [][LayoutNext]_layoutVars

==============================================================================
