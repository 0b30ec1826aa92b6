---------------------------- MODULE MCBestFitPlan ----------------------------
(***************************************************************************)
(* Every assignment of lifetimes over three program points to four         *)
(* allocations, for tables of sizes and alignments that leave alignment    *)
(* gaps, make Best-Fit choose between holes of different sizes, and bring  *)
(* some layouts past the (scaled) int64_t limit.                           *)
(***************************************************************************)
EXTENDS BestFitPlan

McN == 4
McMaxInt64 == 207

Lifetimes == {<<s, e>> \in (0 .. 2) \X (1 .. 3) : s < e}

SizeTables == {<<24, 40, 24, 40>>, <<40, 24, 24, 16>>, <<24, 0, 40, 16>>, <<16, 24, 40, 72>>,
               <<72, 16, 40, 24>>, <<8, 40, 8, 40>>, <<40, 40, 24, 24>>}
AlignmentTables == {<<16, 32, 16, 16>>, <<16, 16, 64, 32>>}

Array(sizes, aligns, lives) ==
  [i \in 1 .. McN |-> [size |-> sizes[i], alignment |-> aligns[i],
                       start |-> lives[i][1], end |-> lives[i][2]]]

McPrograms ==
  {Array(s, a, l) : s \in SizeTables, a \in AlignmentTables, l \in [1 .. McN -> Lifetimes]}

==============================================================================
