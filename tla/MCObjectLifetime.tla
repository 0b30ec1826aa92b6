--------------------------- MODULE MCObjectLifetime ---------------------------
(***************************************************************************)
(* Two hoisted allocations and four operations.  Structured programs may   *)
(* put any of the four under one loop or one conditional; others branch    *)
(* forward over some of the four; CFG programs end in a conditional branch *)
(* back to an earlier operation; yield programs hand an object out of an   *)
(* affine.if or a memref.alloca_scope under the name of its result.        *)
(***************************************************************************)
EXTENDS ObjectLifetime, Sequences

McObjects == {"x", "y"}
McValues == {"x", "y", "view", "view2"}

Op(kind, operand, result, reads, writes) ==
  [kind |-> kind, operand |-> operand, result |-> result, reads |-> reads, writes |-> writes]

Alloc(o) == Op("alloc", NoValue, o, {}, {})
Read(v) == Op("access", NoValue, NoValue, {v}, {})
Write(v) == Op("access", NoValue, NoValue, {}, {v})
Copy(v, w) == Op("access", NoValue, NoValue, {v}, {w})
Structured == Op("region", NoValue, NoValue, {}, {})
CondBranch == Op("cond_br", NoValue, NoValue, {}, {})
Branch == Op("br", NoValue, NoValue, {}, {})

Accesses == {Read("x"), Read("y"), Write("x"), Write("y"), Copy("x", "y")}
DerivedUses == {Read("view"), Write("view"), Read("view2")}
Makers == {Op("alias", "x", "view", {}, {}), Op("forward", "x", "view", {}, {}),
           Op("alias", "view", "view2", {}, {}), Op("escape", "x", NoValue, {}, {})}

Body == 3 .. 6
BodiesOver(first, middle, last) ==
  {<<Alloc("x"), Alloc("y"), s[1], s[2], s[3], s[4]>> : s \in first \X middle \X middle \X last}

\* Bodies in which operations other than Structured are mixed with at most one
\* Structured operation.
Once(ops, op) == Cardinality({p \in Body : ops[p] = op}) <= 1

\* SSA: a derived value is defined once, before its uses and in their region.
DefinedBefore(ops, regions, v) ==
  LET uses == {p \in Body : v \in ops[p].reads \cup ops[p].writes \cup {ops[p].operand}}
      defs == {p \in Body : ops[p].result = v}
  IN  /\ Cardinality(defs) <= 1
      /\ \A p \in uses : \E d \in defs :
           d < p /\ \A r \in regions : d \in r.head .. r.last => p \in r.head .. r.last

Program(ops, regions, jumps, entry) ==
  [ops |-> ops, regions |-> regions, jumps |-> jumps, entry |-> entry,
   base |-> [v \in McValues |-> IF v = "y" THEN "y" ELSE "x"]]

\* The region choices of a body: none, or a loop or conditional that starts at
\* its Structured operation.
RegionChoices(ops) ==
  LET heads == {p \in Body : ops[p] = Structured}
  IN  IF heads = {} THEN {{}}
      ELSE {{[kind |-> k, head |-> h, last |-> l]} :
              k \in {"loop", "if"}, h \in heads, l \in {l \in Body : l > Min(heads)}}

WritesBoth(ops) ==
  \E p, q \in Body : "y" \in ops[p].writes /\ ops[q].writes \cap {"x", "view"} # {}

StructuredPrograms ==
  UNION {{Program(ops, r, {}, {"x", "y"}) : r \in RegionChoices(ops)} :
           ops \in {o \in BodiesOver(Makers \cup {Write("x"), Structured},
                                    Accesses \cup DerivedUses \cup Makers \cup {Structured},
                                    Accesses \cup {Read("view"), Read("view2")}) :
                     Once(o, Structured) /\ WritesBoth(o)}}

McStructured ==
  {q \in StructuredPrograms : /\ DefinedBefore(q.ops, q.regions, "view")
                              /\ DefinedBefore(q.ops, q.regions, "view2")}

\* Branches within straight code: an operation that ends its block goes on at the
\* next block, or at a later one.
McForward ==
  {Program([ops EXCEPT ![f] = branch], {}, {<<f, t>>}, {"x", "y"}) :
     ops \in {o \in BodiesOver(Accesses, Accesses, Accesses) : WritesBoth(o)},
     f \in 3 .. 4, t \in 5 .. 6, branch \in {Branch, CondBranch}}

McStructuredAndForward == McStructured \cup McForward

\* A CFG cycle: the last operation branches back to a block that starts earlier.
McCfg ==
  {Program(ops, {}, {<<f, t>>}, {"x", "y"}) :
     ops \in {o \in BodiesOver(Accesses, Accesses, {CondBranch}) : WritesBoth(o)},
     f \in {6}, t \in 4 .. 5}

\* The yield ends the region; what follows may use its result.
McYield ==
  {Program(<<Alloc("x"), Alloc("y"), Write("x"), Structured,
             Op("yield", "x", "view", {}, {}), a, b>>,
           {[kind |-> "if", head |-> 4, last |-> 5]}, {}, {"x", "y"}) :
     a \in Accesses, b \in Accesses \cup {Read("view"), Write("view")}}

===============================================================================
