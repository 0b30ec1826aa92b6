------------------------ MODULE ObjectLifetime_proofs ------------------------
(***************************************************************************)
(* The lifetime analysis is long enough for every function whose jumps go  *)
(* forward and whose renamings it follows or pins: any number of objects,  *)
(* values and operations, any nesting of loops and conditionals, any chain *)
(* of views.                                                               *)
(***************************************************************************)
EXTENDS ObjectLifetime, TLAPS, WellFoundedInduction

\* No loop starts before position x and reaches it: execution that has come to x
\* does not fall behind x again.
Unspanned(p, x) ==
  \A r \in p.regions : r.kind = "loop" => ~(r.head < x /\ x <= r.last)

Around(p, k) == {r \in p.regions : r.kind = "loop" /\ r.head <= k /\ k <= r.last}

\* What the worklist has recorded of the uses of v.
Recorded(p, v, S, first, last, ok) ==
  \A k \in DOMAIN p.ops :
    v \in Operands(p.ops[k]) =>
      IF p.ops[k].kind = "alias" /\ p.ops[k].operand = v
      THEN p.ops[k].result \in S
      ELSE /\ first <= k /\ k < last
           /\ ok => ~Escapes(p.ops[k]) /\ ~Forwards(p.ops[k])

Touches(p, o, k) == \E v \in p.ops[k].reads \cup p.ops[k].writes : p.base[v] = o

Pinned(p, t) == t.start = 0 /\ t.end = Size(p) + 1

\* A lifetime that is long enough for the object o of the function p.
LongEnough(p, o, t) ==
  /\ t.start \in Nat /\ t.end \in Nat /\ t.start < t.end
  /\ t.start <= Size(p) /\ t.end <= Size(p) + 1
  /\ \/ Pinned(p, t)
     \/ \A k \in DOMAIN p.ops :
          /\ Touches(p, o, k) => /\ t.start <= k /\ k < t.end
                                  /\ Unspanned(p, t.start) /\ Unspanned(p, t.end)
          /\ Escapes(p.ops[k]) => p.base[p.ops[k].operand] # o

\* What the bytes of an object may hold when position i is about to execute.
Undisturbed(p, t, bytes, i) ==
  /\ bytes # "undefined" =>
       Pinned(p, t) \/ (t.start <= i /\ Unspanned(p, t.start) /\ Unspanned(p, t.end))
  /\ bytes = "clobbered" => ~Pinned(p, t) /\ t.end <= i

RootInv ==
  /\ root \in pending /\ root \in aliases
  /\ aliases \subseteq Values /\ worklist \subseteq aliases
  /\ firstUse \in Nat /\ lastUse \in Nat /\ lastUse <= Size(program) + 1
  /\ \/ firstUse = Size(program) + 2
     \/ 1 <= firstUse /\ firstUse <= Size(program) /\ firstUse < lastUse
  /\ Unspanned(program, firstUse) /\ Unspanned(program, lastUse)
  /\ reusable \in BOOLEAN
  /\ \A v \in aliases \ worklist : Recorded(program, v, aliases, firstUse, lastUse, reusable)

AnalysisInv ==
  /\ program \in Programs
  /\ phase \in {"analyze", "run", "done"}
  /\ pending \subseteq Objects
  /\ root \in Objects \cup {NoValue}
  /\ IF root = NoValue THEN worklist = {} ELSE RootInv
  /\ lifetime \in [Objects -> [start : Nat, end : Nat]]
  /\ \A o \in Objects \ pending : LongEnough(program, o, lifetime[o])

RunInv ==
  /\ phase # "analyze" => pending = {}
  /\ pc \in 1 .. Size(program) + 1
  /\ phase # "done" => pc <= Size(program)
  /\ content \in [Objects -> {"undefined", "own", "clobbered"}]
  /\ escaped \subseteq Objects
  /\ phase = "analyze" => escaped = {} /\ \A o \in Objects : content[o] = "undefined"
  /\ \A o \in escaped : Pinned(program, lifetime[o])
  /\ phase # "analyze" =>
       \A o \in Objects : Undisturbed(program, lifetime[o], content[o], pc)

IInv == AnalysisInv /\ RunInv

ForwardJumps == \A p \in Programs : \A j \in p.jumps : j[1] < j[2]

\* The functions hold no affine.yield and no memref.alloca_scope.return of a
\* memref: the analysis would neither follow it nor pin the object.
RenamingsHandled ==
  \A p \in Programs : \A k \in DOMAIN p.ops :
    Renames(p.ops[k]) => p.ops[k].kind = "alias" \/ Forwards(p.ops[k])

------------------------------------------------------------------------------
(* Least and greatest elements.                                             *)

LEMMA LeastOf ==
  ASSUME NEW S \in SUBSET Nat, S # {}
  PROVE  \E m \in S : \A n \in S : m <= n
<1>1. IsWellFoundedOn(OpToRel(<, Nat), Nat)
  BY NatLessThanWellFounded
<1>2. PICK m \in S : \A n \in S : <<n, m>> \notin OpToRel(<, Nat)
  BY <1>1, WFMin
<1>3. \A n \in S : ~(n < m)
  BY <1>2 DEF OpToRel
<1> QED
  BY <1>3

LEMMA MinFacts ==
  ASSUME NEW S \in SUBSET Nat, S # {}
  PROVE  Min(S) \in S /\ \A n \in S : Min(S) <= n
BY LeastOf DEF Min

LEMMA MaxFacts ==
  ASSUME NEW b \in Nat, NEW S \in SUBSET (0 .. b), S # {}
  PROVE  Max(S) \in S /\ \A n \in S : n <= Max(S)
<1> DEFINE D == {b - x : x \in S}
<1>1. D \in SUBSET Nat /\ D # {}
  <2>1. \A x \in S : b - x \in Nat
    OBVIOUS
  <2>2. D \subseteq Nat
    BY <2>1
  <2>3. PICK x \in S : TRUE
    OBVIOUS
  <2>4. b - x \in D
    OBVIOUS
  <2> QED
    BY <2>2, <2>4
<1>2. PICK d \in D : \A n \in D : d <= n
  BY <1>1, LeastOf
<1>3. PICK m \in S : d = b - m
  BY <1>2
<1>4. \A n \in S : m >= n
  <2> TAKE n \in S
  <2>1. b - n \in D
    OBVIOUS
  <2> QED
    BY <1>2, <1>3, <2>1
<1>5. Max(S) \in S /\ \A n \in S : Max(S) >= n
  BY <1>4 DEF Max
<1> QED
  BY <1>5

------------------------------------------------------------------------------
(* Positions no loop spans.                                                 *)

\* What a leaf needs of the shape of a well-formed program.
LEMMA Shape ==
  ASSUME NEW p, WellFormed(p)
  PROVE  /\ Size(p) \in Nat \ {0} /\ DOMAIN p.ops = 1 .. Size(p)
         /\ \A r \in p.regions : /\ r.head \in 1 .. Size(p) /\ r.last \in 1 .. Size(p)
                                 /\ r.head <= r.last
         /\ \A r, q \in p.regions : \/ r.last < q.head \/ q.last < r.head
                                    \/ q.head <= r.head /\ r.last <= q.last
                                    \/ r.head <= q.head /\ q.last <= r.last
BY DEF WellFormed

\* The least of a use and the heads of the loops around it is spanned by no loop.
LEMMA HeadUnspanned ==
  ASSUME NEW p, WellFormed(p), NEW k \in 1 .. Size(p),
         NEW x \in {k} \cup {r.head : r \in Around(p, k)},
         \A r \in Around(p, k) : x <= r.head
  PROVE  Unspanned(p, x)
<1> SUFFICES ASSUME NEW r \in p.regions, r.kind = "loop", r.head < x, x <= r.last
             PROVE  r \in Around(p, k)
  BY Shape DEF Unspanned
<1>1. CASE x = k
  BY <1>1, Shape DEF Around
<1>2. CASE x # k
  <2>1. PICK q \in Around(p, k) : x = q.head
    BY <1>2
  <2> QED
    BY <2>1, Shape DEF Around
<1> QED
  BY <1>1, <1>2

\* And so is the greatest of the positions after the use and after those loops.
LEMMA TailUnspanned ==
  ASSUME NEW p, WellFormed(p), NEW k \in 1 .. Size(p),
         NEW x \in {k + 1} \cup {r.last + 1 : r \in Around(p, k)},
         \A r \in Around(p, k) : r.last + 1 <= x
  PROVE  Unspanned(p, x)
<1> SUFFICES ASSUME NEW r \in p.regions, r.kind = "loop", r.head < x, x <= r.last
             PROVE  r \in Around(p, k)
  BY Shape DEF Unspanned
<1>1. CASE x = k + 1
  BY <1>1, Shape DEF Around
<1>2. CASE x # k + 1
  <2>1. PICK q \in Around(p, k) : x = q.last + 1
    BY <1>2
  <2> QED
    BY <2>1, Shape DEF Around
<1> QED
  BY <1>1, <1>2

\* Execution that has come to such a position does not fall behind it.
LEMMA StepOver ==
  ASSUME program \in Programs, WellFormed(program), ForwardJumps,
         NEW k \in 1 .. Size(program), NEW next \in Successors(k),
         NEW x \in Nat, Unspanned(program, x), x <= k
  PROVE  x <= next
<1>1. CASE next = k + 1
  BY <1>1
<1>2. CASE next \in {j[2] : j \in {j \in program.jumps : j[1] = k}}
  <2>1. PICK j \in program.jumps : j[1] = k /\ next = j[2]
    BY <1>2
  <2>2. j[1] < j[2] /\ j[2] \in 1 .. Size(program)
    BY <2>1 DEF ForwardJumps, WellFormed
  <2> QED
    BY <2>1, <2>2
<1>3. CASE next \in {r.head : r \in {r \in program.regions : r.kind = "loop" /\ r.last = k}}
  BY <1>3, Shape DEF Unspanned
<1>4. CASE next \in {r.last + 1 : r \in {r \in program.regions : r.head = k}}
  BY <1>4, Shape
<1> QED
  BY <1>1, <1>2, <1>3, <1>4 DEF Successors

------------------------------------------------------------------------------
(* One turn of the worklist.                                                *)

LEMMA ProgramFacts ==
  ASSUME program \in Programs
  PROVE  /\ WellFormed(program)
         /\ Positions = 1 .. Size(program) /\ DOMAIN program.ops = Positions
         /\ Size(program) \in Nat \ {0} /\ Unused = Size(program) + 2
BY ObjectsAssumption, Shape DEF Positions, OperationCount, Unused

LEMMA LoopsAround ==
  ASSUME program \in Programs, NEW k \in Positions
  PROVE  /\ FirstPositions(k) = {k} \cup {r.head : r \in Around(program, k)}
         /\ LastPositions(k) = {k + 1} \cup {r.last + 1 : r \in Around(program, k)}
         /\ FirstPositions(k) \subseteq 1 .. k
         /\ LastPositions(k) \subseteq 0 .. Size(program) + 1
<1>1. EnclosingLoops(k) = Around(program, k)
  BY DEF EnclosingLoops, Around
<1>2. \A r \in Around(program, k) : /\ r.head \in 1 .. k
                                    /\ r.last + 1 \in 0 .. Size(program) + 1
  BY ProgramFacts, Shape DEF Around
<1>3. k \in 1 .. k /\ k + 1 \in 0 .. Size(program) + 1
  BY ProgramFacts
<1> QED
  BY <1>1, <1>2, <1>3 DEF FirstPositions, LastPositions

\* The first use found so far never moves past a use, and no loop spans it.
LEMMA FirstUseMoves ==
  ASSUME program \in Programs, NEW uses \in SUBSET Positions,
         NEW a \in Nat, Unspanned(program, a)
  PROVE  LET m == Min({a} \cup UNION {FirstPositions(k) : k \in uses})
         IN  /\ m \in Nat /\ m <= a /\ \A k \in uses : m <= k
             /\ m = a \/ (uses # {} /\ m \in 1 .. Size(program))
             /\ Unspanned(program, m)
<1> DEFINE S == {a} \cup UNION {FirstPositions(k) : k \in uses}
           m == Min(S)
<1>1. S \in SUBSET Nat /\ S # {}
  BY LoopsAround, ProgramFacts
<1>2. m \in S /\ \A n \in S : m <= n
  <2> HIDE DEF S
  <2> QED
    BY <1>1, MinFacts
<1> HIDE DEF m
<1>3. \A k \in uses : k \in S
  BY LoopsAround
<1>4. CASE m # a
  <2>1. PICK k \in uses : m \in FirstPositions(k)
    BY <1>2, <1>4
  <2>2. \A n \in FirstPositions(k) : m <= n
    BY <1>2, <2>1
  <2>3. Unspanned(program, m) /\ m \in 1 .. Size(program)
    BY <2>1, <2>2, LoopsAround, HeadUnspanned, ProgramFacts
  <2> QED
    BY <1>1, <1>2, <1>3, <2>3 DEF m
<1>5. CASE m = a
  BY <1>1, <1>2, <1>3, <1>5 DEF m
<1> QED
  BY <1>4, <1>5

\* The last use never moves before the end of a use, and no loop spans it.
LEMMA LastUseMoves ==
  ASSUME program \in Programs, NEW uses \in SUBSET Positions,
         NEW a \in Nat, a <= Size(program) + 1, Unspanned(program, a)
  PROVE  LET m == Max({a} \cup UNION {LastPositions(k) : k \in uses})
         IN  /\ m \in Nat /\ m <= Size(program) + 1
             /\ a <= m /\ \A k \in uses : k < m
             /\ Unspanned(program, m)
<1> DEFINE S == {a} \cup UNION {LastPositions(k) : k \in uses}
           m == Max(S)
           b == Size(program) + 1
<1>1. b \in Nat /\ S \in SUBSET (0 .. b) /\ S # {}
  BY LoopsAround, ProgramFacts
<1>2. m \in S /\ \A n \in S : n <= m
  <2> HIDE DEF S, b
  <2> QED
    BY <1>1, MaxFacts
<1>3. m \in 0 .. b
  BY <1>1, <1>2
<1> HIDE DEF m
<1>4. \A k \in uses : k + 1 \in S
  BY LoopsAround
<1>5. \A k \in uses : k < m
  BY <1>2, <1>3, <1>4, ProgramFacts
<1>6. CASE m # a
  <2>1. PICK k \in uses : m \in LastPositions(k)
    BY <1>2, <1>6
  <2>2. \A n \in LastPositions(k) : n <= m
    BY <1>2, <2>1
  <2>3. Unspanned(program, m)
    BY <2>1, <2>2, LoopsAround, TailUnspanned, ProgramFacts
  <2> QED
    BY <1>2, <1>3, <1>5, <2>3, ProgramFacts DEF m
<1>7. CASE m = a
  BY <1>2, <1>3, <1>5, <1>7, ProgramFacts DEF m
<1> QED
  BY <1>6, <1>7

\* The facts about the object under analysis survive a turn of the worklist.
LEMMA PopKeepsRoot ==
  ASSUME IInv, NEW v \in Values, PopValue(v)
  PROVE  RootInv' /\ root # NoValue
<1> DEFINE views == {p \in UsesOf(v) : IsAliasProducer(program.ops[p], v)}
           uses == UsesOf(v) \ views
           results == {program.ops[p].result : p \in views}
<1>1. root # NoValue /\ RootInv /\ program \in Programs /\ v \in worklist
  BY DEF IInv, AnalysisInv, PopValue
<1>2. /\ program' = program /\ root' = root /\ pending' = pending
      /\ aliases' = aliases \cup results
      /\ worklist' = (worklist \ {v}) \cup (results \ aliases)
      /\ firstUse' = Min({firstUse} \cup UNION {FirstPositions(p) : p \in uses})
      /\ lastUse' = Max({lastUse} \cup UNION {LastPositions(p) : p \in uses})
      /\ reusable' = (reusable /\ \A p \in uses : ~Escapes(program.ops[p])
                                              /\ ~Forwards(program.ops[p]))
  BY DEF PopValue
<1>3. uses \in SUBSET Positions /\ views \in SUBSET Positions
  BY DEF UsesOf
<1>4. \A k \in Positions : v \in Operands(program.ops[k]) =>
        IF program.ops[k].kind = "alias" /\ program.ops[k].operand = v
        THEN program.ops[k].result \in results ELSE k \in uses
  BY DEF UsesOf, IsAliasProducer
<1>5. results \subseteq Values
  BY <1>1, <1>3, ProgramFacts DEF WellFormed, Renames, IsAliasProducer
<1> HIDE DEF views, uses, results
<1>6. /\ firstUse' \in Nat /\ firstUse' <= firstUse /\ \A k \in uses : firstUse' <= k
      /\ firstUse' = firstUse \/ (uses # {} /\ firstUse' \in 1 .. Size(program))
      /\ Unspanned(program, firstUse')
  BY <1>1, <1>2, <1>3, FirstUseMoves DEF RootInv
<1>7. /\ lastUse' \in Nat /\ lastUse' <= Size(program) + 1
      /\ lastUse <= lastUse' /\ \A k \in uses : k < lastUse'
      /\ Unspanned(program, lastUse')
  BY <1>1, <1>2, <1>3, LastUseMoves DEF RootInv
<1>8. /\ root' \in pending' /\ root' \in aliases'
      /\ aliases' \subseteq Values /\ worklist' \subseteq aliases'
  BY <1>1, <1>2, <1>5 DEF RootInv
<1>9. \/ firstUse' = Size(program) + 2
      \/ 1 <= firstUse' /\ firstUse' <= Size(program) /\ firstUse' < lastUse'
  <2>1. CASE uses = {}
    BY <1>1, <1>6, <1>7, <2>1, ProgramFacts DEF RootInv
  <2>2. CASE uses # {}
    <3>1. PICK k \in uses : TRUE
      BY <2>2
    <3>2. k \in 1 .. Size(program) /\ firstUse' <= k /\ k < lastUse'
      BY <1>1, <1>3, <1>6, <1>7, <3>1, ProgramFacts
    <3> QED
      BY <1>1, <1>6, <1>7, <3>2, ProgramFacts DEF RootInv
  <2> QED
    BY <2>1, <2>2
<1>10. reusable' \in BOOLEAN /\ (reusable' => reusable)
  BY <1>1, <1>2 DEF RootInv
<1>11. ASSUME NEW w \in aliases' \ worklist'
       PROVE  Recorded(program, w, aliases', firstUse', lastUse', reusable')
  <2>1. CASE w = v
    BY <1>1, <1>2, <1>3, <1>4, <1>6, <1>7, <2>1, ProgramFacts DEF Recorded
  <2>2. CASE w # v
    <3>1. w \in aliases \ worklist
      BY <1>1, <1>2, <2>2
    <3>2. Recorded(program, w, aliases, firstUse, lastUse, reusable)
      BY <1>1, <3>1 DEF RootInv
    <3>3. \A k \in DOMAIN program.ops :
            firstUse <= k /\ k < lastUse => firstUse' <= k /\ k < lastUse'
      BY <1>1, <1>6, <1>7, ProgramFacts DEF RootInv
    <3> QED
      BY <1>2, <1>10, <3>2, <3>3 DEF Recorded
  <2> QED
    BY <2>1, <2>2
<1> QED
  BY <1>1, <1>2, <1>6, <1>7, <1>8, <1>9, <1>10, <1>11 DEF RootInv

------------------------------------------------------------------------------
(* The lifetime found for an object.                                        *)

\* With the worklist empty and the object not pinned, every used value that
\* denotes the object has been followed.
LEMMA EveryAliasFollowed ==
  ASSUME RenamingsHandled, program \in Programs, RootInv, root \in Objects,
         worklist = {}, reusable,
         NEW k \in Positions, NEW v \in Operands(program.ops[k]) \cap Values,
         program.base[v] = root
  PROVE  v \in aliases
<1>1. \A w \in aliases : Recorded(program, w, aliases, firstUse, lastUse, reusable)
  BY DEF RootInv
<1>2. ASSUME NEW i \in DOMAIN program.ops, Renames(program.ops[i]),
             program.ops[i].operand \in aliases
      PROVE  program.ops[i].result \in aliases
  <2>1. program.ops[i].operand \in Operands(program.ops[i])
    BY DEF Operands
  <2> QED
    BY <1>1, <1>2, <2>1 DEF Recorded, RenamingsHandled
<1>3. ClosedUnderRenaming(program, root, aliases) /\ aliases \in SUBSET Values
  BY <1>2 DEF ClosedUnderRenaming, RootInv
<1> QED
  BY <1>3, ProgramFacts DEF WellFormed

LEMMA FoundIsLongEnough ==
  ASSUME RenamingsHandled, program \in Programs, RootInv, root \in Objects, worklist = {}
  PROVE  LongEnough(program, root, LifetimeFound(root))
<1> SUFFICES ASSUME NEW t, t = LifetimeFound(root)
             PROVE  LongEnough(program, root, t)
  OBVIOUS
<1> DEFINE n == Size(program)
<1>1. n \in Nat \ {0} /\ DOMAIN program.ops = 1 .. n /\ Positions = 1 .. n
  BY ProgramFacts
<1>2. CASE ~reusable
  <2>1. t = [start |-> 0, end |-> n + 1]
    BY <1>2 DEF LifetimeFound, OperationCount
  <2>2. t.start = 0 /\ t.end = n + 1
    BY <2>1
  <2> QED
    BY <1>1, <2>2 DEF LongEnough, Pinned
<1>3. CASE reusable
  <2>1. ASSUME NEW k \in Positions, NEW v \in Operands(program.ops[k]) \cap Values,
               program.base[v] = root
        PROVE  IF program.ops[k].kind = "alias" /\ program.ops[k].operand = v
               THEN program.ops[k].result \in aliases
               ELSE /\ firstUse <= k /\ k < lastUse /\ ~Escapes(program.ops[k])
    <3>1. v \in aliases
      BY <1>3, <2>1, EveryAliasFollowed
    <3>2. Recorded(program, v, aliases, firstUse, lastUse, reusable)
      BY <3>1 DEF RootInv
    <3> QED
      BY <1>1, <1>3, <3>2 DEF Recorded
  <2>2. ASSUME NEW k \in Positions, Touches(program, root, k)
        PROVE  firstUse <= k /\ k < lastUse
    <3>1. PICK v \in program.ops[k].reads \cup program.ops[k].writes : program.base[v] = root
      BY <2>2 DEF Touches
    <3>2. v \in Operands(program.ops[k]) \cap Values
      BY <1>1, <3>1, ProgramFacts DEF Operands, WellFormed
    <3>3. program.ops[k].kind # "alias"
      BY <1>1, <3>1, ProgramFacts DEF WellFormed
    <3> QED
      BY <2>1, <3>1, <3>2, <3>3
  <2>3. ASSUME NEW k \in Positions, Escapes(program.ops[k])
        PROVE  program.base[program.ops[k].operand] # root
    <3>1. program.ops[k].operand \in Operands(program.ops[k]) \cap Values
      BY <1>1, <2>3, ProgramFacts DEF Operands, WellFormed, Escapes
    <3>2. program.ops[k].kind # "alias"
      BY <2>3 DEF Escapes
    <3> QED
      BY <2>1, <2>3, <3>1, <3>2
  <2>4. CASE firstUse = n + 2
    <3> DEFINE a == AllocationOf(root)
    <3>1. a \in Positions
      BY <1>1, ProgramFacts DEF AllocationOf, WellFormed
    <3>2. t = [start |-> a, end |-> a + 1]
      BY <1>3, <2>4 DEF LifetimeFound, Unused, OperationCount
    <3>3. t.start = a /\ t.end = a + 1
      BY <3>2
    <3>4. \A k \in Positions : ~Touches(program, root, k)
      BY <1>1, <2>2, <2>4
    <3> HIDE DEF a
    <3> QED
      BY <1>1, <2>3, <3>1, <3>3, <3>4 DEF LongEnough
  <2>5. CASE firstUse # n + 2
    <3>1. /\ firstUse \in 1 .. n /\ lastUse \in Nat /\ firstUse < lastUse
          /\ lastUse <= n + 1
          /\ Unspanned(program, firstUse) /\ Unspanned(program, lastUse)
      BY <1>1, <2>5 DEF RootInv
    <3>2. MaxOf(firstUse + 1, lastUse) = lastUse
      BY <3>1 DEF MaxOf
    <3>3. t = [start |-> firstUse, end |-> lastUse]
      BY <1>3, <2>5, <3>2 DEF LifetimeFound, Unused, OperationCount
    <3>4. t.start = firstUse /\ t.end = lastUse
      BY <3>3
    <3> QED
      BY <1>1, <2>2, <2>3, <3>1, <3>4 DEF LongEnough
  <2> QED
    BY <2>4, <2>5
<1> QED
  BY <1>2, <1>3 DEF RootInv

------------------------------------------------------------------------------
(* The run.                                                                 *)

\* Once the function runs, every lifetime is long enough and none is empty.
LEMMA Analyzed ==
  ASSUME IInv, phase # "analyze", NEW o \in Objects
  PROVE  /\ LongEnough(program, o, lifetime[o])
         /\ lifetime[o].start \in Nat /\ lifetime[o].end \in Nat
         /\ lifetime[o].start < lifetime[o].end
         /\ lifetime[o].start <= Size(program) /\ lifetime[o].end <= Size(program) + 1
         /\ Undisturbed(program, lifetime[o], content[o], pc)
<1>1. o \in Objects \ pending
  BY DEF IInv, RunInv
<1>2. LongEnough(program, o, lifetime[o])
  BY <1>1 DEF IInv, AnalysisInv
<1> QED
  BY <1>2 DEF IInv, RunInv, LongEnough

\* A pinned object shares its bytes with no other.
LEMMA PinnedSharesNothing ==
  ASSUME IInv, phase # "analyze", NEW o \in Objects, NEW q \in Objects,
         MayShare(o, q)
  PROVE  ~Pinned(program, lifetime[o]) /\ ~Pinned(program, lifetime[q])
<1>1. Size(program) \in Nat
  BY ProgramFacts DEF IInv, AnalysisInv
<1> QED
  BY <1>1, Analyzed DEF MayShare, Pinned

\* What the analysis knows of an operation on o of a function that is running.
LEMMA TouchedIsLive ==
  ASSUME IInv, phase = "run", NEW o \in Objects, Touches(program, o, pc),
         ~Pinned(program, lifetime[o])
  PROVE  /\ lifetime[o].start <= pc /\ pc < lifetime[o].end
         /\ Unspanned(program, lifetime[o].start) /\ Unspanned(program, lifetime[o].end)
<1>1. pc \in DOMAIN program.ops
  BY ProgramFacts DEF IInv, AnalysisInv, RunInv
<1>2. LongEnough(program, o, lifetime[o])
  BY Analyzed
<1> QED
  BY <1>1, <1>2 DEF LongEnough

\* The next position keeps on the same side of every position no loop spans.
LEMMA NextStaysBehind ==
  ASSUME IInv, ForwardJumps, phase = "run", NEW next \in Successors(pc),
         NEW x \in Nat, Unspanned(program, x), x <= pc
  PROVE  x <= next
<1>1. program \in Programs /\ WellFormed(program) /\ pc \in 1 .. Size(program)
  BY ProgramFacts DEF IInv, AnalysisInv, RunInv
<1> QED
  BY <1>1, StepOver

LEMMA WrittenObjects ==
  ASSUME IInv, phase = "run", NEW o \in {program.base[v] : v \in program.ops[pc].writes}
  PROVE  o \in Objects /\ Touches(program, o, pc)
<1>1. PICK v \in program.ops[pc].writes : o = program.base[v]
  OBVIOUS
<1>2. pc \in DOMAIN program.ops /\ WellFormed(program)
  BY ProgramFacts DEF IInv, AnalysisInv, RunInv
<1>3. v \in Values
  BY <1>1, <1>2 DEF WellFormed
<1> QED
  BY <1>1, <1>2, <1>3 DEF WellFormed, Touches

\* A step of the function disturbs no object that is still needed.
LEMMA ExecuteDisturbsNothing ==
  ASSUME IInv, ForwardJumps, NEW next, Execute(next), NEW q \in Objects
  PROVE  Undisturbed(program, lifetime[q], content'[q], next)
<1> DEFINE written == {program.base[v] : v \in program.ops[pc].writes}
           t == lifetime[q]
<1>1. /\ phase = "run" /\ next \in Successors(pc)
      /\ content' = AfterWrites(written)
  BY DEF Execute
<1>2. /\ Undisturbed(program, t, content[q], pc)
      /\ t.start \in Nat /\ t.end \in Nat /\ t.start < t.end
  BY <1>1, Analyzed
<1>3. pc \in Nat
  BY DEF IInv, RunInv
<1>4. CASE q \in written
  <2>1. Touches(program, q, pc)
    BY <1>1, <1>4, WrittenObjects
  <2>2. content'[q] = "own"
    BY <1>1, <1>4 DEF AfterWrites
  <2>3. CASE Pinned(program, t)
    BY <2>2, <2>3 DEF Undisturbed
  <2>4. CASE ~Pinned(program, t)
    <3>1. /\ t.start <= pc
          /\ Unspanned(program, t.start) /\ Unspanned(program, t.end)
      BY <1>1, <2>1, <2>4, TouchedIsLive
    <3>2. t.start <= next
      BY <1>1, <1>2, <3>1, NextStaysBehind
    <3> QED
      BY <2>2, <3>1, <3>2 DEF Undisturbed
  <2> QED
    BY <2>3, <2>4
<1>5. CASE q \notin written /\ content[q] = "own" /\ \E o \in written : MayShare(o, q)
  <2>1. content'[q] = "clobbered"
    BY <1>1, <1>5 DEF AfterWrites
  <2>2. PICK o \in written : MayShare(o, q)
    BY <1>5
  <2>3. o \in Objects /\ Touches(program, o, pc)
    BY <1>1, <2>2, WrittenObjects
  <2>4. ~Pinned(program, lifetime[o]) /\ ~Pinned(program, t)
    BY <1>1, <2>2, <2>3, PinnedSharesNothing
  <2>5. lifetime[o].start <= pc /\ pc < lifetime[o].end
    BY <1>1, <2>3, <2>4, TouchedIsLive
  <2>6. /\ t.start <= pc
        /\ Unspanned(program, t.start) /\ Unspanned(program, t.end)
    BY <1>2, <1>5, <2>4 DEF Undisturbed
  <2>7. lifetime[o].start \in Nat /\ lifetime[o].end \in Nat
    BY <1>1, <2>3, Analyzed
  <2>8. t.end <= pc
    BY <1>2, <1>3, <2>2, <2>5, <2>6, <2>7 DEF MayShare
  <2>9. t.start <= next /\ t.end <= next
    BY <1>1, <1>2, <2>6, <2>8, NextStaysBehind
  <2> QED
    BY <2>1, <2>4, <2>6, <2>9 DEF Undisturbed
<1>6. CASE q \notin written /\ ~(content[q] = "own" /\ \E o \in written : MayShare(o, q))
  <2>1. content'[q] = content[q]
    BY <1>1, <1>6 DEF AfterWrites
  <2>2. ASSUME NEW x \in Nat, Unspanned(program, x), x <= pc
        PROVE  x <= next
    BY <1>1, <2>2, NextStaysBehind
  <2> QED
    BY <1>2, <2>1, <2>2 DEF Undisturbed
<1> QED
  BY <1>4, <1>5, <1>6

\* And neither does an agent the object was handed to: the object is pinned.
LEMMA ForeignWriteDisturbsNothing ==
  ASSUME IInv, NEW o \in Objects, ForeignWrite(o), NEW q \in Objects
  PROVE  Undisturbed(program, lifetime[q], content'[q], pc)
<1>1. phase = "run" /\ content' = AfterWrites({o}) /\ Pinned(program, lifetime[o])
  BY DEF ForeignWrite, IInv, RunInv
<1>2. Undisturbed(program, lifetime[q], content[q], pc)
  BY <1>1, Analyzed
<1>3. ~MayShare(o, q)
  BY <1>1, PinnedSharesNothing
<1>4. content'[q] = IF q = o THEN "own" ELSE content[q]
  BY <1>1, <1>3 DEF AfterWrites
<1> QED
  BY <1>1, <1>2, <1>4 DEF Undisturbed

LEMMA AfterWritesTyped ==
  ASSUME NEW written, content \in [Objects -> {"undefined", "own", "clobbered"}]
  PROVE  AfterWrites(written) \in [Objects -> {"undefined", "own", "clobbered"}]
BY DEF AfterWrites

------------------------------------------------------------------------------
(* The invariant.                                                           *)

\* A turn of the analysis leaves the function unexecuted.
LEMMA AnalysisKeepsRun ==
  ASSUME IInv, phase = "analyze", phase' = "analyze",
         program' = program, UNCHANGED runVars
  PROVE  RunInv'
BY DEF IInv, RunInv, runVars

LEMMA StartObjectStep ==
  ASSUME IInv, NEW o \in Objects, StartObject(o)
  PROVE  IInv'
<1>1. /\ program \in Programs /\ program' = program /\ phase' = phase /\ phase = "analyze"
      /\ pending' = pending /\ o \in pending /\ root' = o /\ lifetime' = lifetime
      /\ worklist' = {o} /\ aliases' = {o}
      /\ firstUse' = Size(program) + 2 /\ lastUse' = 0 /\ reusable' \in BOOLEAN
      /\ UNCHANGED runVars
  BY ProgramFacts DEF StartObject, IInv, AnalysisInv
<1>2. o \in Values /\ o # NoValue
  BY ObjectsAssumption
<1>3. Unspanned(program, Size(program) + 2) /\ Unspanned(program, 0)
  BY <1>1, ProgramFacts, Shape DEF Unspanned
<1>4. RootInv'
  BY <1>1, <1>2, <1>3, ProgramFacts DEF RootInv
<1>5. AnalysisInv'
  BY <1>1, <1>2, <1>4 DEF IInv, AnalysisInv
<1>6. RunInv'
  BY <1>1, AnalysisKeepsRun
<1> QED
  BY <1>5, <1>6 DEF IInv

LEMMA PopValueStep ==
  ASSUME IInv, NEW v \in Values, PopValue(v)
  PROVE  IInv'
<1>1. RootInv' /\ root # NoValue
  BY PopKeepsRoot
<1>2. /\ phase = "analyze"
      /\ UNCHANGED <<program, phase, pending, root, lifetime, runVars>>
  BY DEF PopValue
<1>3. AnalysisInv'
  BY <1>1, <1>2 DEF IInv, AnalysisInv
<1>4. RunInv'
  BY <1>2, AnalysisKeepsRun
<1> QED
  BY <1>3, <1>4 DEF IInv

LEMMA FinishObjectStep ==
  ASSUME IInv, RenamingsHandled, FinishObject
  PROVE  IInv'
<1> DEFINE t == LifetimeFound(root)
<1>1. /\ phase = "analyze" /\ phase' = phase /\ program' = program
      /\ root # NoValue /\ root' = NoValue /\ worklist = {} /\ worklist' = worklist
      /\ lifetime' = [lifetime EXCEPT ![root] = t] /\ pending' = pending \ {root}
      /\ UNCHANGED runVars
  BY DEF FinishObject
<1>2. /\ program \in Programs /\ RootInv /\ root \in Objects
      /\ pending \subseteq Objects
      /\ lifetime \in [Objects -> [start : Nat, end : Nat]]
      /\ \A o \in Objects \ pending : LongEnough(program, o, lifetime[o])
  BY <1>1 DEF IInv, AnalysisInv
<1>3. LongEnough(program, root, t)
  BY <1>1, <1>2, FoundIsLongEnough
<1>4. t = [start |-> t.start, end |-> t.end]
  BY DEF LifetimeFound
<1> HIDE DEF t
<1>5. t \in [start : Nat, end : Nat]
  BY <1>3, <1>4 DEF LongEnough
<1>6. lifetime' \in [Objects -> [start : Nat, end : Nat]]
  BY <1>1, <1>2, <1>5
<1>7. \A o \in Objects \ pending' : LongEnough(program, o, lifetime'[o])
  BY <1>1, <1>2, <1>3
<1>8. AnalysisInv'
  BY <1>1, <1>2, <1>6, <1>7 DEF AnalysisInv, IInv
<1>9. RunInv'
  BY <1>1, AnalysisKeepsRun
<1> QED
  BY <1>8, <1>9 DEF IInv

LEMMA StartRunStep ==
  ASSUME IInv, StartRun
  PROVE  IInv'
<1>1. /\ phase = "analyze" /\ pending = {} /\ phase' = "run"
      /\ UNCHANGED <<program, analysisVars, runVars>>
  BY DEF StartRun
<1>2. AnalysisInv'
  BY <1>1 DEF IInv, AnalysisInv, analysisVars, RootInv
<1>3. RunInv'
  BY <1>1 DEF IInv, RunInv, analysisVars, runVars, Undisturbed
<1> QED
  BY <1>2, <1>3 DEF IInv

\* What both kinds of write to the storage leave of the analysis.
LEMMA RunKeepsAnalysis ==
  ASSUME IInv, phase' \in {"run", "done"}, UNCHANGED <<program, analysisVars>>
  PROVE  AnalysisInv'
BY DEF IInv, AnalysisInv, analysisVars, RootInv

LEMMA ExecuteStep ==
  ASSUME IInv, ForwardJumps, NEW next \in 1 .. OperationCount + 1, Execute(next)
  PROVE  IInv'
<1> DEFINE op == program.ops[pc]
           written == {program.base[v] : v \in op.writes}
<1>1. /\ phase = "run" /\ pc' = next
      /\ content' = AfterWrites(written)
      /\ escaped' = IF Escapes(op) THEN escaped \cup {program.base[op.operand]} ELSE escaped
      /\ phase' = IF next > Size(program) THEN "done" ELSE "run"
      /\ UNCHANGED <<program, analysisVars>>
  BY DEF Execute, OperationCount
<1>2. AnalysisInv'
  BY <1>1, RunKeepsAnalysis
<1>3. /\ Size(program) \in Nat /\ pending = {} /\ WellFormed(program)
      /\ pc \in DOMAIN program.ops /\ escaped \subseteq Objects
      /\ \A o \in escaped : Pinned(program, lifetime[o])
  BY <1>1, ProgramFacts DEF IInv, AnalysisInv, RunInv
<1>4. pc' \in 1 .. Size(program) + 1 /\ (phase' # "done" => pc' <= Size(program))
  BY <1>1, <1>3 DEF OperationCount
<1>5. content' \in [Objects -> {"undefined", "own", "clobbered"}]
  BY <1>1, AfterWritesTyped DEF IInv, RunInv
<1>6. \A o \in escaped' : o \in Objects /\ Pinned(program, lifetime[o])
  <2>1. ASSUME Escapes(op)
        PROVE  /\ program.base[op.operand] \in Objects
               /\ Pinned(program, lifetime[program.base[op.operand]])
    <3> DEFINE o == program.base[op.operand]
    <3>1. o \in Objects
      BY <1>3, <2>1 DEF WellFormed, Escapes
    <3>2. LongEnough(program, o, lifetime[o])
      BY <1>1, <3>1, Analyzed
    <3> QED
      BY <1>3, <2>1, <3>1, <3>2 DEF LongEnough
  <2> QED
    BY <1>1, <1>3, <2>1
<1>7. \A q \in Objects : Undisturbed(program, lifetime[q], content'[q], next)
  BY ExecuteDisturbsNothing
<1>8. /\ lifetime' = lifetime /\ pending' = pending /\ program' = program
      /\ phase' # "analyze"
  BY <1>1 DEF analysisVars
<1>9. RunInv'
  BY <1>1, <1>3, <1>4, <1>5, <1>6, <1>7, <1>8 DEF RunInv
<1> QED
  BY <1>2, <1>9 DEF IInv

LEMMA ForeignWriteStep ==
  ASSUME IInv, NEW o \in Objects, ForeignWrite(o)
  PROVE  IInv'
<1>1. /\ phase = "run" /\ phase' = phase /\ pc' = pc /\ escaped' = escaped
      /\ content' = AfterWrites({o})
      /\ UNCHANGED <<program, analysisVars>>
  BY DEF ForeignWrite
<1>2. AnalysisInv'
  BY <1>1, RunKeepsAnalysis
<1>3. content' \in [Objects -> {"undefined", "own", "clobbered"}]
  BY <1>1, AfterWritesTyped DEF IInv, RunInv
<1>4. \A q \in Objects : Undisturbed(program, lifetime[q], content'[q], pc)
  BY ForeignWriteDisturbsNothing
<1>5. lifetime' = lifetime /\ pending' = pending /\ program' = program
  BY <1>1 DEF analysisVars
<1>6. RunInv'
  BY <1>1, <1>3, <1>4, <1>5 DEF IInv, RunInv
<1> QED
  BY <1>2, <1>6 DEF IInv

\* Everything the analysis and the run keep, for functions without backward jumps
\* in which no object leaves a region by affine.yield or alloca_scope.return.
THEOREM LifetimeInvariance ==
  ASSUME ForwardJumps, RenamingsHandled
  PROVE  Spec => []IInv
<1>1. Init => IInv
  <2> SUFFICES ASSUME Init PROVE IInv
    OBVIOUS
  <2>1. Size(program) \in Nat \ {0}
    BY ProgramFacts DEF Init
  <2>2. RunInv
    BY <2>1 DEF Init, RunInv
  <2>3. AnalysisInv
    BY DEF Init, AnalysisInv
  <2> QED
    BY <2>2, <2>3 DEF IInv
<1>2. IInv /\ [Next]_vars => IInv'
  <2> SUFFICES ASSUME IInv, [Next]_vars PROVE IInv'
    OBVIOUS
  <2>1. ASSUME NEW o \in Objects, StartObject(o) \/ ForeignWrite(o)
        PROVE  IInv'
    BY <2>1, StartObjectStep, ForeignWriteStep
  <2>2. ASSUME NEW v \in Values, PopValue(v)
        PROVE  IInv'
    BY <2>2, PopValueStep
  <2>3. CASE FinishObject \/ StartRun
    BY <2>3, FinishObjectStep, StartRunStep
  <2>4. ASSUME NEW p \in 1 .. OperationCount + 1, Execute(p)
        PROVE  IInv'
    BY <2>4, ExecuteStep
  <2>5. CASE UNCHANGED vars
    BY <2>5 DEF IInv, AnalysisInv, RunInv, RootInv, vars, analysisVars, runVars
  <2> QED
    BY <2>1, <2>2, <2>3, <2>4, <2>5 DEF Next
<1> QED
  BY <1>1, <1>2, PTL DEF Spec

\* Sharing bytes is invisible to the function: no operation reads, and no callee
\* or asynchronous region holds, an object whose bytes another object overwrote,
\* if jumps go forward and every renaming is one the analysis follows or pins;
\* without either hypothesis it is false.
THEOREM SharingIsInvisible ==
  ASSUME ForwardJumps, RenamingsHandled
  PROVE  Spec => []ReadsOwnData
<1>1. IInv => ReadsOwnData
  <2> SUFFICES ASSUME IInv PROVE ReadsOwnData
    OBVIOUS
  <2>1. ASSUME phase = "run", NEW v \in program.ops[pc].reads,
               content[program.base[v]] = "clobbered"
        PROVE  FALSE
    <3> DEFINE o == program.base[v]
    <3>1. /\ pc \in DOMAIN program.ops /\ WellFormed(program) /\ pc \in Nat
      BY <2>1, ProgramFacts DEF IInv, AnalysisInv, RunInv
    <3>2. o \in Objects /\ Touches(program, o, pc)
      BY <2>1, <3>1 DEF WellFormed, Touches
    <3>3. /\ ~Pinned(program, lifetime[o]) /\ lifetime[o].end <= pc
          /\ lifetime[o].end \in Nat
      BY <2>1, <3>2, Analyzed DEF Undisturbed
    <3>4. pc < lifetime[o].end
      BY <2>1, <3>2, <3>3, TouchedIsLive
    <3> QED
      BY <3>1, <3>3, <3>4
  <2>2. ASSUME NEW o \in escaped, content[o] = "clobbered"
        PROVE  FALSE
    <3>1. o \in Objects /\ Pinned(program, lifetime[o]) /\ phase # "analyze"
      BY <2>2 DEF IInv, RunInv
    <3> QED
      BY <2>2, <3>1, Analyzed DEF Undisturbed
  <2> QED
    BY <2>1, <2>2 DEF ReadsOwnData
<1> QED
  BY <1>1, LifetimeInvariance, PTL
==============================================================================
