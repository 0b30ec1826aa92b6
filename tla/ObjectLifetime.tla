---------------------------- MODULE ObjectLifetime ----------------------------
(***************************************************************************)
(* Lifetime analysis of lib/Transforms/Eot/PlanStaticWorkspace.cpp and the *)
(* execution of the function whose objects it let share bytes.             *)
(*                                                                         *)
(* A program is the pre-order list of a function's operations.  The        *)
(* analysis follows every alias of an allocation and gives the allocation  *)
(* a half-open lifetime; the program then runs.  BestFitPlan guarantees    *)
(* (theorem LiveObjectsNeverOverlap) that only objects with disjoint       *)
(* lifetimes share bytes, so here a write to an object destroys the        *)
(* contents of every object it may share with: the worst permitted layout. *)
(***************************************************************************)
EXTENDS Integers, FiniteSets, FiniteSetsExt

CONSTANTS Objects,   \* results of memref.alloc operations
          Values,    \* all memref values; Objects are among them
          Programs   \* the functions under analysis

(* A program is a record                                                    *)
(*   ops      [1 .. n -> operation], numbered in pre-order                  *)
(*   regions  structured operations [kind, head, last]: the operation at    *)
(*            head owns the operations up to last                           *)
(*   jumps    CFG edges <<from, to>> of cf.br and cf.cond_br                *)
(*   base     [Values -> Objects]: the storage a value really denotes       *)
(*   entry    the objects whose alloc is in the function's entry block      *)
(* and an operation a record [kind, operand, result, reads, writes].        *)
NoValue == "none"

\* Operations that give the storage of their operand another name.
Renames(op) == op.kind \in {"alias", "forward", "yield"}

Size(p) == Cardinality(DOMAIN p.ops)

\* The values an operation uses.
Operands(op) == op.reads \cup op.writes \cup {op.operand}

\* The values in S include the alloc of o and every value renamed from one of S.
ClosedUnderRenaming(p, o, S) ==
  /\ o \in S
  /\ \A k \in DOMAIN p.ops :
       Renames(p.ops[k]) /\ p.ops[k].operand \in S => p.ops[k].result \in S

\* What the MLIR verifier guarantees of a function: structured operations nest,
\* every object has its alloc, a metadata view accesses nothing (the shape operand
\* of memref.reshape is left out), and a value that some operation uses denotes an
\* object only because renamings lead to it from the alloc.
WellFormed(p) ==
  /\ Size(p) \in Nat \ {0} /\ DOMAIN p.ops = 1 .. Size(p)
  /\ \A k \in DOMAIN p.ops :
       /\ p.ops[k].reads \cup p.ops[k].writes \subseteq Values
       /\ Renames(p.ops[k]) => {p.ops[k].operand, p.ops[k].result} \subseteq Values
       /\ p.ops[k].kind = "escape" => p.ops[k].operand \in Values
       /\ p.ops[k].kind = "alias" => p.ops[k].reads \cup p.ops[k].writes = {}
  /\ \A o \in Objects :
       \E k \in DOMAIN p.ops : p.ops[k].kind = "alloc" /\ p.ops[k].result = o
  /\ \A r \in p.regions : r.head \in DOMAIN p.ops /\ r.last \in r.head .. Size(p)
  /\ \A r, q \in p.regions : \/ r.last < q.head \/ q.last < r.head
                             \/ q.head <= r.head /\ r.last <= q.last
                             \/ r.head <= q.head /\ q.last <= r.last
  /\ \A j \in p.jumps : j[1] \in DOMAIN p.ops /\ j[2] \in DOMAIN p.ops
  /\ p.base \in [Values -> Objects]
  /\ \A o \in Objects : \A S \in SUBSET Values :
       ClosedUnderRenaming(p, o, S) =>
         \A k \in DOMAIN p.ops : \A v \in Operands(p.ops[k]) \cap Values :
           p.base[v] = o => v \in S

ASSUME ObjectsAssumption ==
  /\ Objects \subseteq Values /\ NoValue \notin Values
  /\ \A p \in Programs : WellFormed(p)

VARIABLES program,
          phase,      \* "analyze", "run", "done"
          pending,    \* objects still to be analyzed
          root,       \* the object being analyzed
          worklist, aliases, firstUse, lastUse, reusable,
          lifetime,   \* [Objects -> [start, end]]
          pc,         \* position of the operation about to execute
          content,    \* what each object's bytes hold
          escaped     \* objects another agent may access at any time

analysisVars == <<pending, root, worklist, aliases, firstUse, lastUse, reusable, lifetime>>
runVars == <<pc, content, escaped>>
vars == <<program, phase, analysisVars, runVars>>

OperationCount == Size(program)
Positions == 1 .. OperationCount
Unused == OperationCount + 2      \* stands for int64_t max in firstUse

\* func.call, func.call_indirect, asynchronous regions and unknown dialects.
Escapes(op) == op.kind = "escape"

\* isKnownAliasProducer: a metadata-only view of its first operand.
IsAliasProducer(op, value) == op.kind = "alias" /\ op.operand = value

\* scf.yield, scf.condition, successor operands and unknown operations with a
\* memref result: the value goes on under a name the analysis does not follow,
\* and so it pins the object.  To affine.yield and memref.alloca_scope.return,
\* here "yield", it does neither: to it they are uses like any other.
Forwards(op) == op.kind = "forward"

------------------------------------------------------------------------------
(* includeUsePosition, over all uses of the popped value at once.           *)

\* Faulty variant: a use inside a loop counts at its own position only.
EnclosingNone(p) == {}

\* isLoopLike ancestors of an operation, the operation included.
EnclosingLoops(p) ==
  {r \in program.regions : r.kind = "loop" /\ r.head <= p /\ p <= r.last}

FirstPositions(p) == {p} \cup {r.head : r \in EnclosingLoops(p)}
LastPositions(p) == {p + 1} \cup {r.last + 1 : r \in EnclosingLoops(p)}

UsesOf(value) == {p \in Positions : value \in Operands(program.ops[p])}

------------------------------------------------------------------------------

Init ==
  /\ program \in Programs
  /\ phase = "analyze"
  /\ pending = Objects /\ root = NoValue
  /\ worklist = {} /\ aliases = {} /\ firstUse = Unused /\ lastUse = 0
  /\ reusable = TRUE
  /\ lifetime = [o \in Objects |-> [start |-> 0, end |-> 0]]
  /\ pc = 1
  /\ content = [o \in Objects |-> "undefined"]
  /\ escaped = {}

\* The head of analyzeObjectLifetime: the objects are handled one by one.
StartObject(o) ==
  /\ phase = "analyze"
  /\ root = NoValue
  /\ o \in pending
  /\ root' = o
  /\ worklist' = {o} /\ aliases' = {o}
  /\ firstUse' = Unused /\ lastUse' = 0
  /\ reusable' = (o \in program.entry)
  /\ UNCHANGED <<program, phase, pending, lifetime, runVars>>

\* One turn of the worklist: follow the views of the value, record all its
\* other uses, and pin the object at the first use that cannot be understood.
PopValue(value) ==
  LET views   == {p \in UsesOf(value) : IsAliasProducer(program.ops[p], value)}
      uses    == UsesOf(value) \ views
      results == {program.ops[p].result : p \in views}
  IN  /\ phase = "analyze"
      /\ value \in worklist
      /\ aliases' = aliases \cup results
      /\ worklist' = (worklist \ {value}) \cup (results \ aliases)
      /\ firstUse' = Min({firstUse} \cup UNION {FirstPositions(p) : p \in uses})
      /\ lastUse' = Max({lastUse} \cup UNION {LastPositions(p) : p \in uses})
      /\ reusable' = (reusable /\ \A p \in uses : ~Escapes(program.ops[p])
                                              /\ ~Forwards(program.ops[p]))
      /\ UNCHANGED <<program, phase, pending, root, lifetime, runVars>>

AllocationOf(o) ==
  CHOOSE p \in Positions : program.ops[p].kind = "alloc" /\ program.ops[p].result = o

MaxOf(a, b) == IF a > b THEN a ELSE b

\* The tail of analyzeObjectLifetime.
LifetimeFound(o) ==
  IF ~reusable THEN [start |-> 0, end |-> OperationCount + 1]
  ELSE IF firstUse = Unused
  THEN [start |-> AllocationOf(o), end |-> AllocationOf(o) + 1]
  ELSE [start |-> firstUse, end |-> MaxOf(firstUse + 1, lastUse)]

FinishObject ==
  /\ phase = "analyze"
  /\ root # NoValue
  /\ worklist = {}
  /\ lifetime' = [lifetime EXCEPT ![root] = LifetimeFound(root)]
  /\ pending' = pending \ {root}
  /\ root' = NoValue
  /\ UNCHANGED <<program, phase, worklist, aliases, firstUse, lastUse, reusable, runVars>>

StartRun ==
  /\ phase = "analyze"
  /\ pending = {}
  /\ phase' = "run"
  /\ UNCHANGED <<program, analysisVars, runVars>>

------------------------------------------------------------------------------
(* The function runs with the memref.view operations of the plan.           *)

MayShare(o, q) ==
  /\ o # q
  /\ ~(lifetime[o].start < lifetime[q].end /\ lifetime[q].start < lifetime[o].end)

AfterWrites(written) ==
  [q \in Objects |->
     IF q \in written THEN "own"
     ELSE IF content[q] = "own" /\ \E o \in written : MayShare(o, q) THEN "clobbered"
     ELSE content[q]]

\* Structured regions may run again or be skipped; a jump leaves the block.
Successors(p) ==
  LET taken   == {j[2] : j \in {j \in program.jumps : j[1] = p}}
      repeat  == {r.head : r \in {r \in program.regions : r.kind = "loop" /\ r.last = p}}
      skipped == {r.last + 1 : r \in {r \in program.regions : r.head = p}}
  IN  (IF program.ops[p].kind = "br" THEN {} ELSE {p + 1}) \cup taken \cup repeat \cup skipped

Execute(next) ==
  LET op == program.ops[pc]
  IN  /\ phase = "run"
      /\ next \in Successors(pc)
      /\ content' = AfterWrites({program.base[v] : v \in op.writes})
      /\ escaped' = IF Escapes(op) THEN escaped \cup {program.base[op.operand]} ELSE escaped
      /\ pc' = next
      /\ phase' = IF next > OperationCount THEN "done" ELSE "run"
      /\ UNCHANGED <<program, analysisVars>>

\* A callee or an asynchronous region that was handed the object writes it.
ForeignWrite(o) ==
  /\ phase = "run"
  /\ o \in escaped
  /\ content' = AfterWrites({o})
  /\ UNCHANGED <<program, phase, analysisVars, pc, escaped>>

Next ==
  \/ \E o \in Objects : StartObject(o) \/ ForeignWrite(o)
  \/ \E v \in Values : PopValue(v)
  \/ FinishObject \/ StartRun
  \/ \E p \in 1 .. OperationCount + 1 : phase = "run" /\ Execute(p)

Spec == Init /\ [][Next]_vars

------------------------------------------------------------------------------
(* Correctness.                                                             *)

TypeOK ==
  /\ phase \in {"analyze", "run", "done"}
  /\ pending \subseteq Objects /\ root \in Objects \cup {NoValue}
  /\ worklist \subseteq aliases /\ aliases \subseteq Values
  /\ firstUse \in 0 .. Unused /\ lastUse \in 0 .. OperationCount + 1
  /\ reusable \in BOOLEAN
  /\ \A o \in Objects : o \notin pending => lifetime[o].start < lifetime[o].end
  /\ pc \in 1 .. OperationCount + 1
  /\ content \in [Objects -> {"undefined", "own", "clobbered"}]
  /\ escaped \subseteq Objects

\* No operation of the running function reads an object whose bytes another
\* object overwrote, nor can a callee or an asynchronous region that holds the
\* object: sharing bytes is invisible to the program.  It is what pinning is for,
\* "instead of risking an invalid reuse"; a "yield" or a jump backward breaks it.
ReadsOwnData ==
  /\ phase = "run" => \A v \in program.ops[pc].reads : content[program.base[v]] # "clobbered"
  /\ \A o \in escaped : content[o] # "clobbered"

==============================================================================
