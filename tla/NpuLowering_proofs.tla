------------------------- MODULE NpuLowering_proofs -------------------------
(* The lowering of NpuLowering is correct for every well-formed function.    *)
(* First what its operators compute: row-major offsets number the cells of a *)
(* view, finite sums may be reindexed.  Then one loop nest: it stores every  *)
(* cell of its result once and reads inside its operands.  Then the          *)
(* invariant of the whole run, and last the agreement with TOSA.             *)
EXTENDS NpuLowering, FiniteSetTheorems, WellFoundedInduction, TLAPS

(* A set of naturals that is not empty has a least element.                  *)
LEMMA LeastNat ==
    ASSUME NEW T, T \subseteq Nat, T # {}
    PROVE  \E x \in T : \A y \in T : x <= y
<1> DEFINE R == OpToRel(<, Nat)
<1>1. IsWellFoundedOn(R, Nat)
  BY NatLessThanWellFounded
<1>2. \E x \in T : \A y \in T : ~ (<<y, x>> \in R)
  <2> HIDE DEF R
  <2> QED BY <1>1, WFMin
<1>3. \A x \in Nat, y \in Nat : y < x => <<y, x>> \in R
  BY DEF OpToRel
<1> HIDE DEF R
<1>4. PICK x \in T : \A y \in T : ~ (<<y, x>> \in R)
  BY <1>2
<1>5. \A y \in T : ~ (y < x)
  BY <1>3, <1>4
<1> QED BY <1>4, <1>5

(* Induction on the naturals, over a set instead of a predicate.             *)
LEMMA SetInduction ==
    ASSUME NEW S, 0 \in S, \A n \in Nat : n \in S => n + 1 \in S
    PROVE  \A n \in Nat : n \in S
<1> SUFFICES ASSUME NEW m \in Nat, m \notin S PROVE FALSE
  OBVIOUS
<1> DEFINE T == {n \in Nat : n \notin S}
<1>1. T \subseteq Nat /\ T # {}
  OBVIOUS
<1>2. PICK x \in T : \A y \in T : x <= y
  <2> HIDE DEF T
  <2> QED BY <1>1, LeastNat
<1>3. x # 0 /\ x \in Nat
  OBVIOUS
<1>4. x - 1 \in Nat /\ x - 1 \notin T
  BY <1>2, <1>3
<1> QED BY <1>3, <1>4

(* Induction from the last dimension to the first.                           *)
LEMMA DownwardInduction ==
    ASSUME NEW n \in Nat, NEW S, n + 1 \in S, \A d \in 1 .. n : d + 1 \in S => d \in S
    PROVE  \A d \in 1 .. (n + 1) : d \in S
<1> DEFINE T == {k \in Nat : k <= n => n + 1 - k \in S}
<1>1. \A k \in Nat : k \in T
  <2>1. 0 \in T
    OBVIOUS
  <2>2. ASSUME NEW k \in Nat, k \in T PROVE k + 1 \in T
    <3>1. CASE k + 1 <= n
      <4>1. n + 1 - k \in S /\ n - k \in 1 .. n /\ (n - k) + 1 = n + 1 - k
        BY <2>2, <3>1
      <4>2. n - k \in S
        BY <4>1
      <4> QED BY <4>2
    <3>2. CASE ~ (k + 1 <= n)
      BY <3>2
    <3> QED BY <3>1, <3>2
  <2> HIDE DEF T
  <2> QED BY <2>1, <2>2, SetInduction
<1> TAKE d \in 1 .. (n + 1)
<1>2. n + 1 - d \in Nat /\ n + 1 - d <= n /\ n + 1 - (n + 1 - d) = d
  OBVIOUS
<1>3. n + 1 - d \in T
  BY <1>1, <1>2
<1> QED BY <1>2, <1>3

(* A finite set of integers has a greatest element, which Max chooses.       *)
LEMMA MaxOfFinite ==
    ASSUME NEW S, S \subseteq Int, IsFiniteSet(S), S # {}
    PROVE  Max(S) \in S /\ \A y \in S : y <= Max(S)
<1> DEFINE HasMax(X) == \E x \in X : \A y \in X : x >= y
           T == {n \in Nat : \A X \in SUBSET Int :
                    IsFiniteSet(X) /\ Cardinality(X) = n /\ X # {} => HasMax(X)}
<1>1. 0 \in T
  BY FS_EmptySet
<1>2. ASSUME NEW n \in Nat, n \in T PROVE n + 1 \in T
  <2> SUFFICES ASSUME NEW X \in SUBSET Int, IsFiniteSet(X), Cardinality(X) = n + 1, X # {}
               PROVE  HasMax(X)
    OBVIOUS
  <2>1. PICK x \in X : TRUE
    OBVIOUS
  <2>2. IsFiniteSet(X \ {x}) /\ Cardinality(X \ {x}) = n
    <3>1. Cardinality(X \ {x}) = Cardinality(X) - 1 /\ IsFiniteSet(X \ {x})
      BY FS_RemoveElement
    <3> QED BY <3>1
  <2>3. CASE X \ {x} = {}
    BY <2>1, <2>3
  <2>4. CASE X \ {x} # {}
    <3>1. PICK m \in X \ {x} : \A y \in X \ {x} : m >= y
      BY <1>2, <2>2, <2>4
    <3>2. CASE m >= x
      BY <3>1, <3>2
    <3>3. CASE ~ (m >= x)
      <4>1. \A y \in X : x >= y
        BY <3>1, <3>3
      <4> QED BY <2>1, <4>1
    <3> QED BY <3>2, <3>3
  <2> QED BY <2>3, <2>4
<1>3. Cardinality(S) \in Nat
  BY FS_CardinalityType
<1>4. Cardinality(S) \in T
  <2> HIDE DEF T
  <2> QED BY <1>1, <1>2, <1>3, SetInduction
<1>5. HasMax(S)
  BY <1>4
<1> QED BY <1>5 DEF Max

(* Min of a set of naturals is its least element.                            *)
LEMMA MinOfNats ==
    ASSUME NEW S, S \subseteq Nat, S # {}
    PROVE  Min(S) \in S /\ \A y \in S : Min(S) <= y
<1>1. \E x \in S : \A y \in S : x =< y
  BY LeastNat
<1> QED BY <1>1 DEF Min

(* A recursion from the last position to the first defines a function.       *)
LEMMA BackwardRecursion ==
    ASSUME NEW n \in Nat, NEW base \in Int, NEW h \in [1 .. n -> [Int -> Int]]
    PROVE  \E f \in [1 .. (n + 1) -> Int] :
              f[n + 1] = base /\ \A d \in 1 .. n : f[d] = h[d][f[d + 1]]
<1> DEFINE S == {e \in 1 .. (n + 1) : \E f \in [e .. (n + 1) -> Int] :
                    f[n + 1] = base /\ \A d \in e .. n : f[d] = h[d][f[d + 1]]}
<1>1. n + 1 \in S
  <2> DEFINE g == [d \in (n + 1) .. (n + 1) |-> base]
  <2>1. g \in [(n + 1) .. (n + 1) -> Int] /\ g[n + 1] = base /\ \A d \in (n + 1) .. n : FALSE
    OBVIOUS
  <2> HIDE DEF g
  <2> QED BY <2>1
<1>2. ASSUME NEW d \in 1 .. n, d + 1 \in S PROVE d \in S
  <2>1. PICK f \in [(d + 1) .. (n + 1) -> Int] :
            f[n + 1] = base /\ \A e \in (d + 1) .. n : f[e] = h[e][f[e + 1]]
    BY <1>2
  <2> DEFINE g == [e \in d .. (n + 1) |-> IF e = d THEN h[d][f[d + 1]] ELSE f[e]]
  <2>2. f[d + 1] \in Int /\ h[d] \in [Int -> Int]
    OBVIOUS
  <2>3. h[d][f[d + 1]] \in Int
    BY <2>2
  <2>4. g \in [d .. (n + 1) -> Int]
    BY <2>3
  <2>5. g[n + 1] = base
    BY <2>1
  <2>6. ASSUME NEW e \in d .. n PROVE g[e] = h[e][g[e + 1]]
    <3>1. \A k \in d .. (n + 1) : k # d => g[k] = f[k]
      OBVIOUS
    <3>2. e + 1 \in d .. (n + 1) /\ e + 1 # d
      OBVIOUS
    <3>3. g[e + 1] = f[e + 1]
      BY <3>1, <3>2
    <3>4. CASE e = d
      BY <3>3, <3>4
    <3>5. CASE e # d
      BY <2>1, <3>1, <3>3, <3>5
    <3> QED BY <3>4, <3>5
  <2>7. d \in 1 .. (n + 1)
    OBVIOUS
  <2> HIDE DEF g
  <2> QED BY <2>4, <2>5, <2>6, <2>7
<1>3. \A d \in 1 .. (n + 1) : d \in S
  <2> HIDE DEF S
  <2> QED BY <1>1, <1>2, DownwardInduction
<1>4. \A e \in S : \E f \in [e .. (n + 1) -> Int] :
                    f[n + 1] = base /\ \A d \in e .. n : f[d] = h[d][f[d + 1]]
  OBVIOUS
<1> HIDE DEF S
<1>5. 1 \in 1 .. (n + 1)
  OBVIOUS
<1>6. 1 \in S
  BY <1>3, <1>5
<1> QED BY <1>4, <1>6

-----------------------------------------------------------------------------
(* Row-major layout: strides, offsets, and the order of index tuples.        *)
LEMMA RowMajorRecursion ==
    ASSUME NEW shape \in Seq(Positive)
    PROVE  /\ RowMajor(shape) \in [1 .. (Len(shape) + 1) -> Positive]
           /\ RowMajor(shape)[Len(shape) + 1] = 1
           /\ \A d \in 1 .. Len(shape) :
                 RowMajor(shape)[d] = shape[d] * RowMajor(shape)[d + 1]
<1> DEFINE n == Len(shape)
           Rec(p) == p = [d \in 1 .. (n + 1) |-> IF d = n + 1 THEN 1 ELSE shape[d] * p[d + 1]]
           h == [d \in 1 .. n |-> [x \in Int |-> shape[d] * x]]
<1>1. n \in Nat /\ \A d \in 1 .. n : shape[d] \in Positive
  OBVIOUS
<1>2. h \in [1 .. n -> [Int -> Int]]
  BY <1>1 DEF Positive
<1>3. \E f \in [1 .. (n + 1) -> Int] :
         f[n + 1] = 1 /\ \A d \in 1 .. n : f[d] = h[d][f[d + 1]]
  <2>1. PICK base \in Int : base = 1
    OBVIOUS
  <2> HIDE DEF h, n
  <2>2. \E f \in [1 .. (n + 1) -> Int] :
           f[n + 1] = base /\ \A d \in 1 .. n : f[d] = h[d][f[d + 1]]
    BY <1>1, <1>2, BackwardRecursion
  <2> QED BY <2>1, <2>2
<1>4. PICK f \in [1 .. (n + 1) -> Int] :
         f[n + 1] = 1 /\ \A d \in 1 .. n : f[d] = h[d][f[d + 1]]
  BY <1>3
<1>5. Rec(f)
  <2>1. ASSUME NEW d \in 1 .. (n + 1), d # n + 1
        PROVE  f[d] = shape[d] * f[d + 1]
    <3>1. d \in 1 .. n /\ d + 1 \in 1 .. (n + 1)
      BY <1>1, <2>1
    <3>2. f[d + 1] \in Int
      BY <3>1
    <3> QED BY <1>4, <3>1, <3>2
  <2> HIDE DEF n, h
  <2> QED BY <1>4, <2>1
<1>6. Rec(RowMajor(shape))
  <2>1. RowMajor(shape) = CHOOSE p : Rec(p)
    BY DEF RowMajor
  <2> HIDE DEF Rec
  <2> QED BY <1>5, <2>1
<1> DEFINE P == RowMajor(shape)
<1> HIDE DEF P, h
<1>7. DOMAIN P = 1 .. (n + 1) /\ P = [d \in DOMAIN P |-> P[d]]
  BY <1>6 DEF P
<1>8. P[n + 1] = 1 /\ \A d \in 1 .. n : P[d] = shape[d] * P[d + 1]
  <2>1. \A d \in 1 .. (n + 1) : P[d] = IF d = n + 1 THEN 1 ELSE shape[d] * P[d + 1]
    BY <1>6 DEF P
  <2> HIDE DEF n
  <2> QED BY <1>1, <2>1
<1>9. \A d \in 1 .. (n + 1) : P[d] \in Positive
  <2> DEFINE S == {d \in 1 .. (n + 1) : P[d] \in Positive}
  <2>1. n + 1 \in S
    BY <1>1, <1>8 DEF Positive
  <2>2. ASSUME NEW d \in 1 .. n, d + 1 \in S PROVE d \in S
    <3>1. \A a \in Positive, b \in Positive : a * b \in Positive
      BY DEF Positive
    <3> QED BY <1>1, <1>8, <2>2, <3>1
  <2>3. \A d \in 1 .. (n + 1) : d \in S
    <3> HIDE DEF S, n
    <3> QED BY <1>1, <2>1, <2>2, DownwardInduction
  <2> QED BY <2>3
<1> QED BY <1>7, <1>8, <1>9 DEF P

(* The indices of a shape: a natural below the extent in each dimension.     *)
LEMMA TuplesOf ==
    ASSUME NEW shape \in Seq(Positive), NEW t
    PROVE  t \in Tuples(shape) <=>
              t \in [1 .. Len(shape) -> Nat] /\ \A d \in 1 .. Len(shape) : t[d] < shape[d]
<1>1. CASE shape = << >>
  <2>1. Len(shape) = 0 /\ 1 .. Len(shape) = {}
    BY <1>1
  <2>2. << >> = [d \in {} |-> d]
    OBVIOUS
  <2>3. << >> \in [{} -> Nat]
    BY <2>2
  <2>4. t \in [{} -> Nat] => t = << >>
    BY <2>2
  <2> QED BY <1>1, <2>1, <2>3, <2>4 DEF Tuples
<1>2. CASE shape # << >>
  <2>1. Len(shape) \in Nat /\ 1 \in 1 .. Len(shape) /\ DOMAIN shape = 1 .. Len(shape)
    BY <1>2
  <2>2. \A d \in 1 .. Len(shape) : shape[d] \in Positive
    OBVIOUS
  <2>3. IsFiniteSet(Range(shape))
    <3>1. IsFiniteSet(1 .. Len(shape))
      BY <2>1, FS_Interval
    <3>2. shape \in Surjection(1 .. Len(shape), Range(shape))
      BY <2>1 DEF Surjection, Range
    <3> QED BY <3>1, <3>2, FS_Surjection
  <2>4. Range(shape) \subseteq Int /\ Range(shape) # {}
    BY <2>1, <2>2 DEF Range, Positive
  <2>5. Max(Range(shape)) \in Int /\ \A d \in 1 .. Len(shape) : shape[d] <= Max(Range(shape))
    BY <2>1, <2>3, <2>4, MaxOfFinite DEF Range
  <2> DEFINE m == Max(Range(shape))
  <2> HIDE DEF m
  <2>6. t \in Tuples(shape) <=>
            t \in [1 .. Len(shape) -> 0 .. (m - 1)] /\ \A d \in 1 .. Len(shape) : t[d] < shape[d]
    BY <1>2, <2>1 DEF Tuples, m
  <2>7. ASSUME t \in [1 .. Len(shape) -> Nat], \A d \in 1 .. Len(shape) : t[d] < shape[d]
        PROVE  t \in [1 .. Len(shape) -> 0 .. (m - 1)]
    <3>1. \A d \in 1 .. Len(shape) : t[d] \in 0 .. (m - 1)
      BY <2>2, <2>5, <2>7 DEF Positive, m
    <3> QED BY <2>7, <3>1
  <2>8. m \in Int
    BY <2>5 DEF m
  <2> QED BY <2>6, <2>7, <2>8
<1> QED BY <1>1, <1>2

(* The partial offsets of an index tuple, from the last dimension.           *)
Partial(shape, idx, g) ==
    /\ g \in [1 .. (Len(shape) + 1) -> Int]
    /\ g[Len(shape) + 1] = 0
    /\ \A d \in 1 .. Len(shape) : g[d] = idx[d] * RowMajor(shape)[d + 1] + g[d + 1]

IsRowMajor(m) == m.shape \in Seq(Positive) /\ m.strides = Strides(m.shape)

(* The sums of the last dimensions exist as a function.                      *)
LEMMA PartialExists ==
    ASSUME NEW shape \in Seq(Positive), NEW idx \in [1 .. Len(shape) -> Int]
    PROVE  \E g : Partial(shape, idx, g)
<1> DEFINE n == Len(shape)
           P == RowMajor(shape)
           h == [d \in 1 .. n |-> [x \in Int |-> idx[d] * P[d + 1] + x]]
<1>1. n \in Nat /\ \A d \in 1 .. n : P[d + 1] \in Int
  <2>1. P \in [1 .. (n + 1) -> Positive]
    BY RowMajorRecursion
  <2> HIDE DEF P
  <2> QED BY <2>1 DEF Positive
<1>2. h \in [1 .. n -> [Int -> Int]]
  <2> HIDE DEF P
  <2> QED BY <1>1
<1>3. \E f \in [1 .. (n + 1) -> Int] :
         f[n + 1] = 0 /\ \A d \in 1 .. n : f[d] = h[d][f[d + 1]]
  <2>1. PICK base \in Int : base = 0
    OBVIOUS
  <2> HIDE DEF h, n
  <2>2. \E f \in [1 .. (n + 1) -> Int] :
           f[n + 1] = base /\ \A d \in 1 .. n : f[d] = h[d][f[d + 1]]
    BY <1>1, <1>2, BackwardRecursion
  <2> QED BY <2>1, <2>2
<1>4. PICK f \in [1 .. (n + 1) -> Int] :
         f[n + 1] = 0 /\ \A d \in 1 .. n : f[d] = h[d][f[d + 1]]
  BY <1>3
<1>5. \A d \in 1 .. n : f[d + 1] \in Int
  BY <1>1
<1>6. \A d \in 1 .. n : f[d] = idx[d] * P[d + 1] + f[d + 1]
  <2> HIDE DEF P
  <2> QED BY <1>4, <1>5
<1> HIDE DEF h
<1> QED BY <1>4, <1>6 DEF Partial

(* They are determined by their recursion.                                   *)
LEMMA PartialUnique ==
    ASSUME NEW shape \in Seq(Positive), NEW idx, NEW g, NEW h,
           Partial(shape, idx, g), Partial(shape, idx, h)
    PROVE  g = h
<1> DEFINE n == Len(shape)
           S == {d \in 1 .. (n + 1) : g[d] = h[d]}
<1>1. n \in Nat
  OBVIOUS
<1>2. n + 1 \in S
  BY <1>1 DEF Partial
<1>3. ASSUME NEW d \in 1 .. n, d + 1 \in S PROVE d \in S
  BY <1>1, <1>3 DEF Partial
<1>4. \A d \in 1 .. (n + 1) : d \in S
  <2> HIDE DEF S, n
  <2> QED BY <1>1, <1>2, <1>3, DownwardInduction
<1>5. \A d \in 1 .. (n + 1) : g[d] = h[d]
  BY <1>4
<1> QED BY <1>5 DEF Partial

(* Offset, the recursion over the strides, is the first of them.             *)
LEMMA OffsetIs ==
    ASSUME NEW m, IsRowMajor(m), NEW idx \in [1 .. Len(m.shape) -> Int], NEW g,
           Partial(m.shape, idx, g)
    PROVE  Offset(m, idx) = g[1]
<1> DEFINE n == Len(m.shape)
           P == RowMajor(m.shape)
           Rec(f) == f = [d \in 1 .. (n + 1) |->
                             IF d = n + 1 THEN 0 ELSE idx[d] * m.strides[d] + f[d + 1]]
           from == CHOOSE f : Rec(f)
<1>1. n \in Nat /\ DOMAIN m.shape = 1 .. n
  BY DEF IsRowMajor
<1>2. \A d \in 1 .. n : m.strides[d] = P[d + 1]
  BY <1>1 DEF IsRowMajor, Strides
<1>3. Rec(g)
  <2>1. \A d \in 1 .. (n + 1) : g[d] = IF d = n + 1 THEN 0 ELSE idx[d] * m.strides[d] + g[d + 1]
    <3>1. \A d \in 1 .. (n + 1) : d = n + 1 \/ d \in 1 .. n
      BY <1>1
    <3> QED BY <1>1, <1>2, <3>1 DEF Partial
  <2>2. g = [d \in 1 .. (n + 1) |-> g[d]]
    BY DEF Partial
  <2> HIDE DEF n, P
  <2> QED BY <2>1, <2>2
<1>4. Rec(from)
  <2> HIDE DEF Rec
  <2> QED BY <1>3
<1>5. Offset(m, idx) = from[1]
  BY DEF Offset
<1>6. from[n + 1] = 0 /\ \A d \in 1 .. n : from[d] = idx[d] * P[d + 1] + from[d + 1]
  <2>1. \A d \in 1 .. (n + 1) :
           from[d] = IF d = n + 1 THEN 0 ELSE idx[d] * m.strides[d] + from[d + 1]
    <3> HIDE DEF from
    <3> QED BY <1>4
  <2> HIDE DEF from, n, P
  <2> QED BY <1>1, <1>2, <2>1
<1>7. \A d \in 1 .. (n + 1) : from[d] = g[d]
  <2> DEFINE S == {d \in 1 .. (n + 1) : from[d] = g[d]}
  <2> HIDE DEF from
  <2>1. n + 1 \in S
    BY <1>1, <1>6 DEF Partial
  <2>2. ASSUME NEW d \in 1 .. n, d + 1 \in S PROVE d \in S
    BY <1>1, <1>6, <2>2 DEF Partial
  <2>3. \A d \in 1 .. (n + 1) : d \in S
    <3> HIDE DEF S, n
    <3> QED BY <1>1, <2>1, <2>2, DownwardInduction
  <2> QED BY <2>3
<1>8. 1 \in 1 .. (n + 1)
  BY <1>1
<1> HIDE DEF from
<1> QED BY <1>5, <1>7, <1>8

(* One dimension contributes its index times its stride.                     *)
LEMMA OffsetStep ==
    ASSUME NEW a \in Int, NEW s \in Int, NEW p \in Int, NEW r \in Int,
           0 <= a, a < s, 0 <= r, r < p
    PROVE  0 <= a * p + r /\ a * p + r < s * p
<1>1. \A x \in Nat, y \in Nat : x * y \in Nat
  OBVIOUS
<1>2. a * p \in Nat
  BY <1>1
<1>3. (s - a - 1) * p \in Nat
  BY <1>1
<1>4. s * p = (s - a - 1) * p + a * p + p
  OBVIOUS
<1> QED BY <1>2, <1>3, <1>4

(* The sum from dimension d on stays below the stride before it.             *)
LEMMA PartialBounds ==
    ASSUME NEW shape \in Seq(Positive), NEW idx \in Tuples(shape), NEW g,
           Partial(shape, idx, g)
    PROVE  \A d \in 1 .. (Len(shape) + 1) : 0 <= g[d] /\ g[d] < RowMajor(shape)[d]
<1> DEFINE n == Len(shape)
           P == RowMajor(shape)
           S == {d \in 1 .. (n + 1) : 0 <= g[d] /\ g[d] < P[d]}
<1>1. n \in Nat
  OBVIOUS
<1>2. P \in [1 .. (n + 1) -> Positive] /\ P[n + 1] = 1
         /\ \A d \in 1 .. n : P[d] = shape[d] * P[d + 1]
  BY RowMajorRecursion
<1>3. \A d \in 1 .. n : idx[d] \in Nat /\ idx[d] < shape[d] /\ shape[d] \in Int
  BY TuplesOf DEF Positive
<1> HIDE DEF P
<1>4. n + 1 \in S
  BY <1>1, <1>2 DEF Partial
<1>5. ASSUME NEW d \in 1 .. n, d + 1 \in S PROVE d \in S
  <2>1. g[d + 1] \in Int /\ P[d + 1] \in Int /\ 0 <= g[d + 1] /\ g[d + 1] < P[d + 1]
    BY <1>1, <1>2, <1>5 DEF Partial, Positive
  <2>2. 0 <= idx[d] * P[d + 1] + g[d + 1] /\ idx[d] * P[d + 1] + g[d + 1] < shape[d] * P[d + 1]
    <3>1. idx[d] \in Int /\ 0 <= idx[d] /\ idx[d] < shape[d] /\ shape[d] \in Int
      BY <1>3
    <3> QED BY <2>1, <3>1, OffsetStep
  <2>3. g[d] = idx[d] * P[d + 1] + g[d + 1]
    BY DEF Partial, P
  <2> QED BY <1>1, <1>2, <2>2, <2>3
<1>6. \A d \in 1 .. (n + 1) : d \in S
  <2> HIDE DEF S, n
  <2> QED BY <1>1, <1>4, <1>5, DownwardInduction
<1> QED BY <1>6 DEF P

(* An index tuple has integer components.                                    *)
LEMMA IndexIsInt ==
    ASSUME NEW shape \in Seq(Positive), NEW idx \in Tuples(shape)
    PROVE  idx \in [1 .. Len(shape) -> Int]
<1>1. idx \in [1 .. Len(shape) -> Nat]
  BY TuplesOf
<1> QED BY <1>1

(* No index tuple of a row-major memref leads outside its cells.             *)
LEMMA OffsetInRange ==
    ASSUME NEW m, IsRowMajor(m), NEW idx \in Tuples(m.shape)
    PROVE  Offset(m, idx) \in 0 .. (Product(m.shape) - 1)
<1>1. m.shape \in Seq(Positive) /\ Len(m.shape) \in Nat
  BY DEF IsRowMajor
<1>2. idx \in [1 .. Len(m.shape) -> Int]
  BY <1>1, IndexIsInt
<1>3. PICK g : Partial(m.shape, idx, g)
  BY <1>1, <1>2, PartialExists
<1>4. Offset(m, idx) = g[1]
  BY <1>2, <1>3, OffsetIs
<1>5. 1 \in 1 .. (Len(m.shape) + 1)
  BY <1>1
<1>6. 0 <= g[1] /\ g[1] < RowMajor(m.shape)[1]
  BY <1>1, <1>3, <1>5, PartialBounds
<1>7. g[1] \in Int /\ RowMajor(m.shape)[1] \in Int
  BY <1>1, <1>3, <1>5, RowMajorRecursion, SMTT(30) DEF Partial, Positive
<1> QED BY <1>4, <1>6, <1>7 DEF Product

(* Offsets grow with the index tuples in lexicographic order.                *)
LEMMA OffsetGrows ==
    ASSUME NEW m, IsRowMajor(m), NEW i \in Tuples(m.shape), NEW j \in Tuples(m.shape),
           Before(i, j)
    PROVE  Offset(m, i) < Offset(m, j)
<1> DEFINE shape == m.shape
           n == Len(shape)
           P == RowMajor(shape)
<1>1. shape \in Seq(Positive) /\ n \in Nat
  BY DEF IsRowMajor
<1>2. i \in [1 .. n -> Int] /\ j \in [1 .. n -> Int]
  BY <1>1, IndexIsInt
<1>3. PICK g : Partial(shape, i, g)
  BY <1>1, <1>2, PartialExists
<1>4. PICK h : Partial(shape, j, h)
  BY <1>1, <1>2, PartialExists
<1>5. Offset(m, i) = g[1] /\ Offset(m, j) = h[1]
  BY <1>2, <1>3, <1>4, OffsetIs
<1>6. PICK d \in 1 .. n : i[d] < j[d] /\ \A e \in 1 .. (d - 1) : i[e] = j[e]
  BY <1>2 DEF Before
<1>7. P \in [1 .. (n + 1) -> Int]
  BY <1>1, RowMajorRecursion DEF Positive
<1>8. \A e \in 1 .. (n + 1) : 0 <= g[e] /\ g[e] < P[e] /\ 0 <= h[e] /\ h[e] < P[e]
  BY <1>1, <1>3, <1>4, PartialBounds
<1>9. /\ \A e \in 1 .. (n + 1) : g[e] \in Int /\ h[e] \in Int
      /\ \A e \in 1 .. n : g[e] = i[e] * P[e + 1] + g[e + 1] /\ h[e] = j[e] * P[e + 1] + h[e + 1]
  BY <1>3, <1>4 DEF Partial
<1> HIDE DEF P, n, shape
<1>10. g[d] < h[d]
  <2>1. PICK p \in Int, r \in Int, q \in Int : p = P[d + 1] /\ r = g[d + 1] /\ q = h[d + 1]
    <3>1. d + 1 \in 1 .. (n + 1)
      BY <1>1
    <3> QED BY <1>7, <1>9, <3>1
  <2>2. r < p /\ 0 <= q /\ 0 <= r /\ g[d] = i[d] * p + r /\ h[d] = j[d] * p + q
    <3>1. d + 1 \in 1 .. (n + 1)
      BY <1>1
    <3>2. r < p /\ 0 <= q /\ 0 <= r
      BY <1>8, <2>1, <3>1
    <3> QED BY <1>9, <2>1, <3>2
  <2>3. PICK a \in Int, b \in Int : a = i[d] /\ b = j[d]
    BY <1>2
  <2>4. (b - a - 1) * p \in Nat
    <3>1. b - a - 1 \in Nat /\ p \in Nat
      BY <1>6, <2>2, <2>3
    <3>2. \A x \in Nat, y \in Nat : x * y \in Nat
      OBVIOUS
    <3> QED BY <3>1, <3>2
  <2>5. b * p = (b - a - 1) * p + a * p + p /\ a * p \in Int /\ b * p \in Int
    OBVIOUS
  <2> QED BY <2>2, <2>3, <2>4, <2>5
<1>11. \A e \in 1 .. d : g[e] < h[e]
  <2> DEFINE S == {e \in 1 .. d : g[e] < h[e]}
  <2>1. d - 1 \in Nat /\ (d - 1) + 1 = d
    BY <1>1
  <2>2. (d - 1) + 1 \in S
    BY <1>10, <2>1
  <2>3. ASSUME NEW e \in 1 .. (d - 1), e + 1 \in S PROVE e \in S
    <3>1. e \in 1 .. n /\ e + 1 \in 1 .. (n + 1) /\ e \in 1 .. d
      BY <1>1
    <3>2. PICK x \in Int : x = i[e] * P[e + 1]
      BY <1>2, <1>7, <3>1
    <3>3. g[e] = x + g[e + 1] /\ h[e] = x + h[e + 1]
      BY <1>6, <1>9, <3>1, <3>2
    <3>4. g[e + 1] < h[e + 1] /\ g[e + 1] \in Int /\ h[e + 1] \in Int
      BY <1>9, <2>3, <3>1
    <3> QED BY <3>1, <3>3, <3>4
  <2>4. \A e \in 1 .. ((d - 1) + 1) : e \in S
    <3> HIDE DEF S
    <3> QED BY <2>1, <2>2, <2>3, DownwardInduction
  <2> QED BY <2>1, <2>4
<1> QED BY <1>1, <1>5, <1>11

(* The lexicographic order is total.                                         *)
LEMMA BeforeTotal ==
    ASSUME NEW shape \in Seq(Positive), NEW i \in Tuples(shape), NEW j \in Tuples(shape), i # j
    PROVE  Before(i, j) \/ Before(j, i)
<1> DEFINE n == Len(shape)
           T == {d \in 1 .. n : i[d] # j[d]}
<1>1. i \in [1 .. n -> Int] /\ j \in [1 .. n -> Int]
  BY IndexIsInt
<1> HIDE DEF n
<1>2. T \subseteq Nat /\ T # {}
  <2>1. \E d \in 1 .. n : i[d] # j[d]
    <3> SUFFICES ASSUME \A d \in 1 .. n : i[d] = j[d] PROVE FALSE
      OBVIOUS
    <3>1. i = [d \in 1 .. n |-> i[d]] /\ j = [d \in 1 .. n |-> j[d]]
      BY <1>1
    <3>2. i = j
      BY <3>1
    <3> QED BY <3>2
  <2> QED BY <2>1
<1>3. PICK d \in T : \A e \in T : d <= e
  <2> HIDE DEF T
  <2> QED BY <1>2, LeastNat
<1>4. d \in 1 .. n /\ i[d] # j[d]
  OBVIOUS
<1>5. \A e \in 1 .. (d - 1) : i[e] = j[e]
  <2> SUFFICES ASSUME NEW e \in 1 .. (d - 1), i[e] # j[e] PROVE FALSE
    OBVIOUS
  <2>0. n \in Int
    BY DEF n
  <2>1. e \in 1 .. n /\ e < d
    BY <1>4, <2>0
  <2>2. e \in T
    BY <2>1
  <2> QED BY <1>3, <2>1, <2>2
<1>6. i[d] < j[d] \/ j[d] < i[d]
  BY <1>1, <1>4
<1> QED BY <1>1, <1>4, <1>5, <1>6 DEF Before

(* Two indices of a row-major view share no cell.                            *)
LEMMA OffsetInjective ==
    ASSUME NEW m, IsRowMajor(m), NEW i \in Tuples(m.shape), NEW j \in Tuples(m.shape),
           Offset(m, i) = Offset(m, j)
    PROVE  i = j
<1> SUFFICES ASSUME i # j PROVE FALSE
  OBVIOUS
<1>1. Before(i, j) \/ Before(j, i)
  BY BeforeTotal DEF IsRowMajor
<1>2. Offset(m, i) \in Int /\ Offset(m, j) \in Int
  BY OffsetInRange
<1>3. Offset(m, i) < Offset(m, j) \/ Offset(m, j) < Offset(m, i)
  BY <1>1, OffsetGrows
<1> QED BY <1>2, <1>3

(* Division with remainder.                                                  *)
LEMMA Division ==
    ASSUME NEW p \in Positive
    PROVE  \A o \in Nat : \E a \in Nat, r \in Nat : o = a * p + r /\ r < p
<1> DEFINE S == {o \in Nat : \E a \in Nat, r \in Nat : o = a * p + r /\ r < p}
<1>0. p \in Int /\ 0 < p
  BY DEF Positive
<1>1. 0 \in S
  <2>1. 0 = 0 * p + 0
    BY <1>0
  <2> QED BY <1>0, <2>1
<1>2. ASSUME NEW o \in Nat, o \in S PROVE o + 1 \in S
  <2>1. PICK a \in Nat, r \in Nat : o = a * p + r /\ r < p
    BY <1>2
  <2>2. CASE r + 1 < p
    <3>1. o + 1 = a * p + (r + 1)
      BY <1>0, <2>1
    <3> QED BY <2>2, <3>1
  <2>3. CASE ~ (r + 1 < p)
    <3>1. r + 1 = p
      BY <1>0, <2>1, <2>3
    <3>2. o + 1 = (a + 1) * p + 0
      BY <1>0, <2>1, <3>1
    <3>3. a + 1 \in Nat /\ 0 \in Nat
      OBVIOUS
    <3>4. \E b \in Nat, q \in Nat : o + 1 = b * p + q /\ q < p
      BY <1>0, <3>2, <3>3
    <3> QED BY <3>4
  <2> QED BY <2>2, <2>3
<1>3. \A o \in Nat : o \in S
  <2> HIDE DEF S
  <2> QED BY <1>1, <1>2, SetInduction
<1> QED BY <1>3

(* Every cell of a row-major memref has an index tuple.                      *)
LEMMA OffsetOnto ==
    ASSUME NEW m, IsRowMajor(m), NEW o \in 0 .. (Product(m.shape) - 1)
    PROVE  \E idx \in Tuples(m.shape) : Offset(m, idx) = o
<1> DEFINE shape == m.shape
           n == Len(shape)
           P == RowMajor(shape)
           Reaches(d, x, g, t) ==
               /\ x \in [d .. n -> Nat] /\ g \in [d .. (n + 1) -> Int]
               /\ g[n + 1] = 0 /\ g[d] = t
               /\ \A e \in d .. n : x[e] < shape[e] /\ g[e] = x[e] * P[e + 1] + g[e + 1]
           S == {d \in 1 .. (n + 1) : \A t \in 0 .. (P[d] - 1) : \E x, g : Reaches(d, x, g, t)}
<1>1. shape \in Seq(Positive) /\ n \in Nat /\ \A d \in 1 .. n : shape[d] \in Positive
  BY DEF IsRowMajor
<1>2. P \in [1 .. (n + 1) -> Positive] /\ P[n + 1] = 1
         /\ \A d \in 1 .. n : P[d] = shape[d] * P[d + 1]
  BY <1>1, RowMajorRecursion
<1> HIDE DEF P, n, shape
<1>3. n + 1 \in S
  <2> SUFFICES ASSUME NEW t \in 0 .. (P[n + 1] - 1) PROVE \E x, g : Reaches(n + 1, x, g, t)
    <3>1. n + 1 \in 1 .. (n + 1)
      BY <1>1
    <3> HIDE DEF Reaches
    <3> QED BY <3>1
  <2>1. t = 0
    BY <1>2
  <2> DEFINE x == [e \in (n + 1) .. n |-> 0]
             g == [e \in (n + 1) .. (n + 1) |-> 0]
  <2>2. n + 1 \in (n + 1) .. (n + 1) /\ \A e \in (n + 1) .. n : FALSE
    BY <1>1
  <2>3. x \in [(n + 1) .. n -> Nat] /\ g \in [(n + 1) .. (n + 1) -> Int] /\ g[n + 1] = 0
    BY <2>2
  <2> HIDE DEF x, g
  <2>4. Reaches(n + 1, x, g, t)
    BY <2>1, <2>2, <2>3
  <2> QED BY <2>4
<1>4. ASSUME NEW d \in 1 .. n, d + 1 \in S PROVE d \in S
  <2>1. d \in 1 .. (n + 1) /\ d + 1 \in 1 .. (n + 1)
    BY <1>1
  <2> SUFFICES ASSUME NEW t \in 0 .. (P[d] - 1) PROVE \E x, g : Reaches(d, x, g, t)
    BY <2>1
  <2>2. PICK p \in Positive : p = P[d + 1]
    BY <1>2, <2>1
  <2>3. PICK a \in Nat, r \in Nat : t = a * p + r /\ r < p
    <3>1. P[d] \in Int /\ t \in Nat
      BY <1>2, <2>1 DEF Positive
    <3> QED BY <3>1, Division
  <2>4. PICK s \in Int : s = shape[d] /\ P[d] = s * p
    <3>1. shape[d] \in Int
      BY <1>1 DEF Positive
    <3>2. P[d] = shape[d] * p
      BY <1>2, <2>2
    <3> QED BY <3>1, <3>2
  <2>5. a < s
    <3> SUFFICES ASSUME s <= a PROVE FALSE
      OBVIOUS
    <3>1. (a - s) * p \in Nat
      <4>1. a - s \in Nat /\ p \in Nat
        BY DEF Positive
      <4>2. \A x \in Nat, y \in Nat : x * y \in Nat
        OBVIOUS
      <4> QED BY <4>1, <4>2
    <3>2. a * p = (a - s) * p + s * p /\ s * p \in Int /\ a * p \in Int
      BY DEF Positive
    <3>3. t < s * p
      BY <2>4, <3>2
    <3> QED BY <2>3, <3>1, <3>2, <3>3
  <2>6. r \in 0 .. (P[d + 1] - 1)
    BY <2>2, <2>3 DEF Positive
  <2>7. PICK x, g : Reaches(d + 1, x, g, r)
    <3> HIDE DEF Reaches
    <3> QED BY <1>4, <2>6
  <2> DEFINE y == [e \in d .. n |-> IF e = d THEN a ELSE x[e]]
             h == [e \in d .. (n + 1) |-> IF e = d THEN t ELSE g[e]]
  <2>8. /\ x \in [(d + 1) .. n -> Nat] /\ g \in [(d + 1) .. (n + 1) -> Int]
        /\ g[n + 1] = 0 /\ g[d + 1] = r
        /\ \A e \in (d + 1) .. n : x[e] < shape[e] /\ g[e] = x[e] * P[e + 1] + g[e + 1]
    BY <2>7
  <2>9. /\ \A e \in d .. n : e = d \/ e \in (d + 1) .. n
        /\ \A e \in d .. (n + 1) : e = d \/ e \in (d + 1) .. (n + 1)
        /\ n + 1 \in d .. (n + 1) /\ n + 1 # d /\ d \in d .. n /\ d \in d .. (n + 1)
        /\ \A e \in d .. n : e + 1 \in d .. (n + 1) /\ e + 1 # d
    BY <1>1
  <2>10. y \in [d .. n -> Nat] /\ h \in [d .. (n + 1) -> Int]
    BY <2>8, <2>9
  <2>11. /\ y[d] = a /\ h[d] = t /\ h[n + 1] = 0
         /\ \A e \in (d + 1) .. n : y[e] = x[e] /\ h[e] = g[e]
         /\ \A e \in d .. n : h[e + 1] = g[e + 1]
    <3>1. \A e \in (d + 1) .. n : e \in d .. n /\ e \in d .. (n + 1) /\ e # d
      BY <1>1
    <3> QED BY <2>8, <2>9, <3>1
  <2> HIDE DEF y, h
  <2>12. ASSUME NEW e \in d .. n PROVE y[e] < shape[e] /\ h[e] = y[e] * P[e + 1] + h[e + 1]
    <3>1. CASE e = d
      BY <2>2, <2>3, <2>4, <2>5, <2>8, <2>11, <3>1
    <3>2. CASE e \in (d + 1) .. n
      BY <2>8, <2>11, <3>2
    <3> QED BY <2>9, <3>1, <3>2
  <2>13. Reaches(d, y, h, t)
    BY <2>10, <2>11, <2>12
  <2> QED BY <2>13
<1>5. \A d \in 1 .. (n + 1) : d \in S
  <2> HIDE DEF S
  <2> QED BY <1>1, <1>3, <1>4, DownwardInduction
<1>6. 1 \in 1 .. (n + 1)
  BY <1>1
<1>7. PICK x, g : Reaches(1, x, g, o)
  <2>1. o \in 0 .. (P[1] - 1)
    BY DEF Product, P, shape
  <2>2. 1 \in S
    <3> HIDE DEF S
    <3> QED BY <1>5, <1>6
  <2> HIDE DEF Reaches
  <2> QED BY <2>1, <2>2
<1>8. /\ x \in [1 .. n -> Nat] /\ g \in [1 .. (n + 1) -> Int] /\ g[n + 1] = 0 /\ g[1] = o
      /\ \A e \in 1 .. n : x[e] < shape[e] /\ g[e] = x[e] * P[e + 1] + g[e + 1]
  BY <1>7
<1>9. Partial(shape, x, g)
  BY <1>8 DEF Partial, n, P
<1>10. x \in Tuples(shape)
  BY <1>1, <1>8, TuplesOf DEF n
<1>11. Offset(m, x) = o
  <2>1. x \in [1 .. Len(m.shape) -> Int]
    BY <1>8 DEF n, shape
  <2> QED BY <1>8, <1>9, <2>1, OffsetIs DEF shape
<1> QED BY <1>10, <1>11 DEF shape

(* The lexicographic rank of an index tuple is its row-major offset.         *)
LEMMA RankIsOffset ==
    ASSUME NEW m, IsRowMajor(m), NEW i \in Tuples(m.shape)
    PROVE  Rank(i, m.shape) = Offset(m, i) /\ IsFiniteSet(Tuples(m.shape))
<1> DEFINE T == Tuples(m.shape)
           B == {j \in T : Before(j, i)}
           o == Offset(m, i)
           f == [j \in T |-> Offset(m, j)]
           b == [j \in B |-> Offset(m, j)]
<1>1. m.shape \in Seq(Positive)
  BY DEF IsRowMajor
<1>2. \A j \in T : Offset(m, j) \in 0 .. (Product(m.shape) - 1)
  BY OffsetInRange
<1>3. \A j \in T, k \in T : Offset(m, j) = Offset(m, k) => j = k
  BY OffsetInjective
<1>4. Product(m.shape) \in Int
  <2>1. 1 \in 1 .. (Len(m.shape) + 1)
    BY <1>1
  <2> QED BY <1>1, <2>1, RowMajorRecursion DEF Product, Positive
<1>5. IsFiniteSet(T)
  <2>1. f \in Injection(T, 0 .. (Product(m.shape) - 1))
    <3> HIDE DEF T
    <3> QED BY <1>2, <1>3 DEF Injection, IsInjective
  <2>2. IsFiniteSet(0 .. (Product(m.shape) - 1))
    BY <1>4, FS_Interval
  <2> HIDE DEF T, f
  <2> QED BY <2>1, <2>2, FS_Injection
<1>6. \A j \in T : Before(j, i) <=> Offset(m, j) < o
  <2> SUFFICES ASSUME NEW j \in T PROVE Before(j, i) <=> Offset(m, j) < o
    OBVIOUS
  <2>1. Offset(m, j) \in Int /\ o \in Int
    BY <1>2, <1>4
  <2>2. Before(j, i) => Offset(m, j) < o
    BY OffsetGrows
  <2>3. Before(i, j) => o < Offset(m, j)
    BY OffsetGrows
  <2>4. j # i => Before(i, j) \/ Before(j, i)
    BY <1>1, BeforeTotal
  <2>5. j = i => Offset(m, j) = o
    OBVIOUS
  <2> HIDE DEF o
  <2> QED BY <2>1, <2>2, <2>3, <2>4, <2>5
<1>7. o \in Nat /\ o < Product(m.shape)
  BY <1>2, <1>4
<1>8. ExistsBijection(B, 0 .. (o - 1))
  <2>1. \A j \in B : Offset(m, j) \in 0 .. (o - 1)
    BY <1>2, <1>4, <1>6, <1>7
  <2>2. \A t \in 0 .. (o - 1) : \E j \in B : Offset(m, j) = t
    <3> SUFFICES ASSUME NEW t \in 0 .. (o - 1) PROVE \E j \in B : Offset(m, j) = t
      OBVIOUS
    <3>1. t \in 0 .. (Product(m.shape) - 1) /\ t < o
      BY <1>4, <1>7
    <3>2. PICK j \in T : Offset(m, j) = t
      BY <3>1, OffsetOnto
    <3> QED BY <1>6, <3>1, <3>2
  <2> HIDE DEF o
  <2>3. b \in Bijection(B, 0 .. (o - 1))
    <3>1. b \in [B -> 0 .. (o - 1)]
      BY <2>1
    <3>2. \A j \in B, k \in B : b[j] = b[k] => j = k
      BY <1>3
    <3>3. \A t \in 0 .. (o - 1) : \E j \in B : b[j] = t
      BY <2>2
    <3> HIDE DEF b, B
    <3> QED BY <3>1, <3>2, <3>3 DEF Bijection, Injection, Surjection, IsInjective
  <2> QED BY <2>3 DEF ExistsBijection
<1>9. IsFiniteSet(0 .. (o - 1)) /\ Cardinality(0 .. (o - 1)) = o
  <2>1. Cardinality(0 .. (o - 1)) = IF 0 > o - 1 THEN 0 ELSE (o - 1) - 0 + 1
    BY <1>7, FS_Interval, SMTT(30)
  <2> HIDE DEF o
  <2> QED BY <1>7, <2>1, FS_Interval
<1>10. IsFiniteSet(B)
  BY <1>5, FS_Subset
<1>11. Cardinality(0 .. (o - 1)) = Cardinality(B)
  <2> HIDE DEF B, o
  <2> QED BY <1>8, <1>10, FS_Bijection
<1>12. Rank(i, m.shape) = Cardinality(B)
  BY DEF Rank
<1> QED BY <1>5, <1>9, <1>11, <1>12

-----------------------------------------------------------------------------
(* Sums over the domain of a function.                                       *)
LEMMA SubsetInduction ==
    ASSUME NEW D, IsFiniteSet(D), NEW S,
           \A s \in SUBSET D : (\A x \in s : s \ {x} \in S) => s \in S
    PROVE  \A s \in SUBSET D : s \in S
<1> DEFINE T == {k \in Nat : \A s \in SUBSET D : Cardinality(s) = k => s \in S}
<1>1. \A s \in SUBSET D : IsFiniteSet(s) /\ Cardinality(s) \in Nat
  BY FS_Subset, FS_CardinalityType
<1>2. 0 \in T
  <2> SUFFICES ASSUME NEW s \in SUBSET D, Cardinality(s) = 0 PROVE s \in S
    OBVIOUS
  <2>1. s = {}
    BY <1>1, FS_EmptySet
  <2> QED BY <2>1
<1>3. ASSUME NEW k \in Nat, k \in T PROVE k + 1 \in T
  <2> SUFFICES ASSUME NEW s \in SUBSET D, Cardinality(s) = k + 1 PROVE s \in S
    OBVIOUS
  <2>1. ASSUME NEW x \in s PROVE s \ {x} \in S
    <3>1. Cardinality(s \ {x}) = Cardinality(s) - 1
      BY <1>1, FS_RemoveElement
    <3>2. Cardinality(s \ {x}) = k /\ s \ {x} \in SUBSET D
      BY <3>1
    <3> QED BY <1>3, <3>2
  <2> QED BY <2>1
<1>4. \A k \in Nat : k \in T
  <2> HIDE DEF T
  <2> QED BY <1>2, <1>3, SetInduction
<1> TAKE s \in SUBSET D
<1>5. Cardinality(s) \in T
  BY <1>1, <1>4
<1> QED BY <1>5

Pick(s) == CHOOSE x \in s : TRUE
SumRec(f, g) ==
    g = [s \in SUBSET DOMAIN f |-> IF s = {} THEN 0 ELSE f[Pick(s)] + g[s \ {Pick(s)}]]
Sums(f) == CHOOSE g : SumRec(f, g)

(* SumFunction, unfolded to the recursion it chooses.                        *)
LEMMA SumIs == ASSUME NEW f PROVE SumFunction(f) = Sums(f)[DOMAIN f]
BY DEF SumFunction, SumFunctionOnSet, FoldFunctionOnSet, MapThenFoldSet, Sums, SumRec, Pick

(* The recursion of a fold over a finite set has a solution.                 *)
LEMMA SumRecExists ==
    ASSUME NEW f, IsFiniteSet(DOMAIN f)
    PROVE  SumRec(f, Sums(f))
<1> DEFINE D == DOMAIN f
           Level(k) == {s \in SUBSET D : Cardinality(s) <= k}
           Value(s, g) == IF s = {} THEN 0 ELSE f[Pick(s)] + g[s \ {Pick(s)}]
           Q(k, g) == g = [s \in Level(k) |-> Value(s, g)]
           T == {k \in Nat : \E g : Q(k, g)}
<1>1. \A s \in SUBSET D : IsFiniteSet(s) /\ Cardinality(s) \in Nat /\ Cardinality(s) <= Cardinality(D)
  BY FS_Subset, FS_CardinalityType
<1>2. \A s \in SUBSET D : s # {} => Pick(s) \in s
  BY DEF Pick
<1>3. \A s \in SUBSET D : s # {} => Cardinality(s \ {Pick(s)}) = Cardinality(s) - 1
  BY <1>1, <1>2, FS_RemoveElement
<1>4. 0 \in T
  <2> DEFINE g == [s \in Level(0) |-> 0]
  <2>1. \A s \in Level(0) : s = {}
    <3> SUFFICES ASSUME NEW s \in Level(0) PROVE s = {}
      OBVIOUS
    <3>1. Cardinality(s) = 0 /\ IsFiniteSet(s)
      BY <1>1
    <3> QED BY <3>1, FS_EmptySet
  <2>2. Q(0, g)
    BY <2>1
  <2> QED BY <2>2
<1>5. ASSUME NEW k \in Nat, k \in T PROVE k + 1 \in T
  <2>1. PICK g : Q(k, g)
    BY <1>5
  <2> DEFINE h == [s \in Level(k + 1) |-> Value(s, g)]
  <2>2. \A s \in Level(k) : s \in Level(k + 1) /\ g[s] = h[s]
    <3> SUFFICES ASSUME NEW s \in Level(k) PROVE s \in Level(k + 1) /\ g[s] = h[s]
      OBVIOUS
    <3>1. s \in Level(k + 1)
      BY <1>1
    <3>2. h[s] = Value(s, g)
      BY <3>1
    <3>3. g[s] = Value(s, g)
      <4> HIDE DEF Value, Level
      <4> QED BY <2>1
    <3> QED BY <3>1, <3>2, <3>3
  <2>3. ASSUME NEW s \in Level(k + 1) PROVE Value(s, g) = Value(s, h)
    <3>1. CASE s = {}
      BY <3>1
    <3>2. CASE s # {}
      <4>1. s \ {Pick(s)} \in Level(k)
        BY <1>1, <1>3, <3>2
      <4>2. g[s \ {Pick(s)}] = h[s \ {Pick(s)}]
        <5> HIDE DEF h, Level
        <5> QED BY <2>2, <4>1
      <4> HIDE DEF h
      <4> QED BY <3>2, <4>2
    <3> QED BY <3>1, <3>2
  <2>4. h = [s \in Level(k + 1) |-> Value(s, h)]
    <3> HIDE DEF Value, Level
    <3> QED BY <2>3
  <2> HIDE DEF h, Value, Level
  <2>5. \E e : Q(k + 1, e)
    BY <2>4
  <2> QED BY <2>5
<1>6. Cardinality(D) \in T
  <2>1. Cardinality(D) \in Nat
    BY FS_CardinalityType
  <2> HIDE DEF T, D
  <2> QED BY <1>4, <1>5, <2>1, SetInduction
<1>7. PICK g : Q(Cardinality(D), g)
  BY <1>6
<1>8. Level(Cardinality(D)) = SUBSET D
  BY <1>1
<1>9. SumRec(f, g)
  <2> HIDE DEF Level
  <2> QED BY <1>7, <1>8 DEF SumRec
<1> QED BY <1>9 DEF Sums

(* A sum over integers may give up any of its terms first.                   *)
LEMMA SumsRecursion ==
    ASSUME NEW f, IsFiniteSet(DOMAIN f), f \in [DOMAIN f -> Int]
    PROVE  /\ Sums(f)[{}] = 0
           /\ \A s \in SUBSET DOMAIN f : Sums(f)[s] \in Int
           /\ \A s \in SUBSET DOMAIN f : \A x \in s : Sums(f)[s] = f[x] + Sums(f)[s \ {x}]
<1> DEFINE D == DOMAIN f
           F == Sums(f)
<1>1. F = [s \in SUBSET D |-> IF s = {} THEN 0 ELSE f[Pick(s)] + F[s \ {Pick(s)}]]
  BY SumRecExists DEF SumRec
<1>0. \A x \in D : f[x] \in Int
  OBVIOUS
<1> HIDE DEF F, D
<1>2. F[{}] = 0
  BY <1>1
<1>3. \A s \in SUBSET D : s # {} => Pick(s) \in s /\ F[s] = f[Pick(s)] + F[s \ {Pick(s)}]
  BY <1>1 DEF Pick
<1>6. \A s \in SUBSET D : F[s] \in Int
  <2> DEFINE S == {s \in SUBSET D : F[s] \in Int}
  <2>1. ASSUME NEW s \in SUBSET D, \A x \in s : s \ {x} \in S PROVE s \in S
    <3>1. CASE s = {}
      BY <1>2, <3>1
    <3>2. CASE s # {}
      <4>1. PICK y \in s : F[s] = f[y] + F[s \ {y}]
        BY <1>3, <3>2
      <4>2. F[s \ {y}] \in Int /\ f[y] \in Int
        BY <1>0, <2>1
      <4> QED BY <4>1, <4>2
    <3> QED BY <3>1, <3>2
  <2>2. \A s \in SUBSET D : s \in S
    <3> HIDE DEF S
    <3> QED BY <2>1, SubsetInduction DEF D
  <2> QED BY <2>2
<1> DEFINE S == {s \in SUBSET D : \A x \in s : F[s] = f[x] + F[s \ {x}]}
<1>4. ASSUME NEW s \in SUBSET D, \A x \in s : s \ {x} \in S PROVE s \in S
  <2>1. CASE s = {}
    BY <1>2, <2>1
  <2>2. CASE s # {}
    <3> DEFINE y == Pick(s)
    <3>1. y \in s /\ F[s] = f[y] + F[s \ {y}] /\ s \ {y} \in S
      BY <1>3, <1>4, <2>2
    <3> HIDE DEF y
    <3>2. F[s \ {y}] \in Int /\ f[y] \in Int
      BY <1>0, <1>6, <3>1
    <3>3. ASSUME NEW x \in s, x # y PROVE F[s] = f[x] + F[s \ {x}]
      <4>1. x \in s \ {y} /\ y \in s \ {x} /\ s \ {x} \in S /\ s \ {y} \in S
        BY <1>4, <3>1, <3>3
      <4>2. F[s \ {y}] = f[x] + F[(s \ {y}) \ {x}]
        BY <4>1
      <4>3. F[s \ {x}] = f[y] + F[(s \ {x}) \ {y}]
        BY <4>1
      <4>4. (s \ {y}) \ {x} = (s \ {x}) \ {y}
        OBVIOUS
      <4>5. (s \ {x}) \ {y} \in SUBSET D /\ f[x] \in Int
        BY <1>0
      <4>6. F[(s \ {x}) \ {y}] \in Int
        BY <1>6, <4>5
      <4>7. F[s] = f[y] + (f[x] + F[(s \ {x}) \ {y}])
        BY <3>1, <4>2, <4>4
      <4>8. PICK p \in Int, q \in Int, r \in Int : p = f[x] /\ q = f[y] /\ r = F[(s \ {x}) \ {y}]
        BY <3>2, <4>5, <4>6
      <4>9. F[s] = q + (p + r) /\ F[s \ {x}] = q + r
        BY <4>3, <4>7, <4>8
      <4> QED BY <4>8, <4>9
    <3> QED BY <3>1, <3>3
  <2> QED BY <2>1, <2>2
<1>5. \A s \in SUBSET D : s \in S
  <2> HIDE DEF S
  <2> QED BY <1>4, SubsetInduction DEF D
<1> QED BY <1>2, <1>5, <1>6 DEF F, D

(* A finite sum of integers is an integer.                                   *)
LEMMA SumIsInt ==
    ASSUME NEW D, IsFiniteSet(D), NEW f \in [D -> Int]
    PROVE  SumFunction(f) \in Int
BY SumIs, SumsRecursion

(* A sum does not depend on how its terms are indexed.                       *)
LEMMA SumReindexed ==
    ASSUME NEW D, NEW E, IsFiniteSet(D), NEW f \in [D -> Int], NEW g \in [E -> Int],
           NEW b \in Bijection(D, E), \A x \in D : f[x] = g[b[x]]
    PROVE  SumFunction(f) = SumFunction(g)
<1> DEFINE Image(s) == {b[x] : x \in s}
           F == Sums(f)
           G == Sums(g)
           S == {s \in SUBSET D : F[s] = G[Image(s)]}
<1>1. IsFiniteSet(E)
  BY FS_Surjection DEF Bijection
<1>0. /\ b \in [D -> E] /\ \A x \in D, y \in D : b[x] = b[y] => x = y
      /\ \A z \in E : \E x \in D : b[x] = z
  BY DEF Bijection, Surjection, Injection, IsInjective
<1>2. DOMAIN f = D /\ DOMAIN g = E
  OBVIOUS
<1>3. F[{}] = 0 /\ \A s \in SUBSET D : \A x \in s : F[s] = f[x] + F[s \ {x}]
  BY <1>2, SumsRecursion
<1>4. G[{}] = 0 /\ \A s \in SUBSET E : \A x \in s : G[s] = g[x] + G[s \ {x}]
  <2> HIDE <1>0
  <2> QED BY <1>1, <1>2, SumsRecursion
<1> HIDE DEF F, G
<1>5. ASSUME NEW s \in SUBSET D, \A x \in s : s \ {x} \in S PROVE s \in S
  <2>1. CASE s = {}
    <3>1. Image(s) = {}
      BY <2>1
    <3> HIDE DEF Image
    <3> QED BY <1>3, <1>4, <2>1, <3>1
  <2>2. CASE s # {}
    <3>1. PICK x \in s : TRUE
      BY <2>2
    <3>2. Image(s \ {x}) = Image(s) \ {b[x]}
      <4>1. \A y \in s : b[y] = b[x] => y = x
        BY <1>0, <3>1
      <4> QED BY <4>1
    <3>3. b[x] \in Image(s) /\ Image(s) \in SUBSET E
      BY <1>0, <3>1
    <3>4. F[s \ {x}] = G[Image(s \ {x})]
      BY <1>5, <3>1
    <3>5. F[s] = f[x] + F[s \ {x}] /\ f[x] = g[b[x]]
      BY <1>3, <3>1
    <3>6. G[Image(s)] = g[b[x]] + G[Image(s) \ {b[x]}]
      <4> HIDE DEF Image
      <4> QED BY <1>4, <3>3
    <3> HIDE DEF Image
    <3> QED BY <3>2, <3>4, <3>5, <3>6
  <2> QED BY <2>1, <2>2
<1>6. \A s \in SUBSET D : s \in S
  <2> HIDE DEF S
  <2> QED BY <1>5, SubsetInduction
<1>7. F[D] = G[Image(D)]
  BY <1>6
<1>8. Image(D) = E
  BY <1>0
<1> HIDE DEF Image
<1> QED BY <1>2, <1>7, <1>8, SumIs DEF F, G

-----------------------------------------------------------------------------
(* One loop nest.  An operation `op` of npu, lowered from the verified TOSA   *)
(* operation `p`, over operands that are written entirely.                   *)
IsOperand(m) ==
    /\ IsRowMajor(m)
    /\ DOMAIN m.cells = 0 .. (Product(m.shape) - 1)
    /\ \A o \in DOMAIN m.cells : m.cells[o] \in Int

SameOp(op, p) ==
    /\ DOMAIN op = OpFields
    /\ op.kind = p.kind /\ op.args = p.args /\ op.shape = p.shape /\ op.data = p.data
    /\ op.attrs = NpuAttrs(p.kind, p.attrs)

Ready(p, op, in) ==
    /\ SameOp(op, p) /\ p.kind \in LoopKinds /\ p.shape \in Seq(Positive)
    /\ \E n \in Nat : DOMAIN in = 1 .. n
    /\ Verified(p, [k \in DOMAIN in |-> in[k].shape])
    /\ \A k \in DOMAIN in : IsOperand(in[k])

(* The shapes of an operation and of its operands are sequences.             *)
LEMMA ReadyShapes ==
    ASSUME NEW p, NEW op, NEW in, Ready(p, op, in)
    PROVE  /\ op.kind = p.kind /\ op.shape = p.shape /\ op.shape \in Seq(Positive)
           /\ Len(op.shape) \in Nat /\ DOMAIN op.shape = 1 .. Len(op.shape)
           /\ \A k \in DOMAIN in : /\ in[k].shape \in Seq(Positive)
                                   /\ Len(in[k].shape) \in Nat
                                   /\ DOMAIN in[k].shape = 1 .. Len(in[k].shape)
<1>1. op.kind = p.kind /\ op.shape = p.shape /\ op.shape \in Seq(Positive)
  BY DEF Ready, SameOp
<1>2. \A k \in DOMAIN in : in[k].shape \in Seq(Positive)
  BY DEF Ready, IsOperand, IsRowMajor
<1> QED BY <1>1, <1>2

(* The number of operands.                                                   *)
LEMMA ReadyOperands ==
    ASSUME NEW p, NEW op, NEW in, Ready(p, op, in), NEW n \in Nat,
           Len([k \in DOMAIN in |-> in[k].shape]) = n
    PROVE  DOMAIN in = 1 .. n
<1>1. PICK k \in Nat : DOMAIN in = 1 .. k
  BY DEF Ready
<1>2. Len([j \in 1 .. k |-> in[j].shape]) = k
  OBVIOUS
<1> QED BY <1>1, <1>2

ClampFits(p, op, in) ==
    /\ DOMAIN in = {1} /\ op.shape = in[1].shape
    /\ op.attrs.min = p.attrs.min /\ op.attrs.max = p.attrs.max
    /\ op.attrs.min \in Int /\ op.attrs.max \in Int /\ op.attrs.min <= op.attrs.max

TransposeFits(p, op, in) ==
    /\ DOMAIN in = {1} /\ Len(in[1].shape) = Len(op.shape)
    /\ op.attrs.perms = p.attrs.perms
    /\ \A d \in 1 .. Len(op.shape) :
          /\ op.attrs.perms[d] + 1 \in 1 .. Len(op.shape)
          /\ op.shape[d] = in[1].shape[op.attrs.perms[d] + 1]
          /\ \E e \in 1 .. Len(op.shape) : op.attrs.perms[e] + 1 = d

AddFits(p, op, in) ==
    /\ DOMAIN in = 1 .. 2
    /\ \A k \in 1 .. 2 : /\ Len(in[k].shape) = Len(op.shape)
                         /\ \A d \in 1 .. Len(op.shape) : in[k].shape[d] \in {1, op.shape[d]}

MatmulFits(p, op, in) ==
    /\ DOMAIN in = 1 .. 2 /\ Len(op.shape) = 3
    /\ Len(in[1].shape) = 3 /\ Len(in[2].shape) = 3
    /\ in[1].shape[1] = op.shape[1] /\ in[1].shape[2] = op.shape[2]
    /\ in[2].shape[1] = op.shape[1] /\ in[2].shape[2] = in[1].shape[3]
    /\ in[2].shape[3] = op.shape[3]

PoolFits(p, op, in) ==
    /\ DOMAIN in = {1} /\ Len(op.shape) = 4 /\ Len(in[1].shape) = 4
    /\ in[1].shape[1] = op.shape[1] /\ in[1].shape[4] = op.shape[4]
    /\ op.attrs = [kernel |-> p.attrs.kernel, stride |-> p.attrs.stride, pad |-> p.attrs.pad]
    /\ op.attrs.kernel \in [1 .. 2 -> Positive] /\ op.attrs.stride \in [1 .. 2 -> Positive]
    /\ op.attrs.pad \in [1 .. 4 -> Nat]
    /\ \A d \in 1 .. 2 :
          /\ op.attrs.pad[2 * d - 1] < op.attrs.kernel[d]
          /\ op.attrs.pad[2 * d] < op.attrs.kernel[d]
          /\ (op.shape[d + 1] - 1) * op.attrs.stride[d]
                <= in[1].shape[d + 1] + op.attrs.pad[2 * d - 1]
                     + op.attrs.pad[2 * d] - op.attrs.kernel[d]

ConvFits(p, op, in) ==
    /\ DOMAIN in = 1 .. 3 /\ Len(op.shape) = 4
    /\ Len(in[1].shape) = 4 /\ Len(in[2].shape) = 4 /\ Len(in[3].shape) = 1
    /\ in[1].shape[1] = op.shape[1] /\ in[2].shape[4] = in[1].shape[4]
    /\ in[2].shape[1] = op.shape[4] /\ in[3].shape[1] = op.shape[4]
    /\ op.attrs = [pad |-> p.attrs.pad, stride |-> p.attrs.stride, dilation |-> p.attrs.dilation]
    /\ op.attrs.stride \in [1 .. 2 -> Positive] /\ op.attrs.dilation \in [1 .. 2 -> Positive]
    /\ op.attrs.pad \in [1 .. 4 -> Nat]

(* What the verifier of clamp says of the lowered operation.                 *)
LEMMA ClampReady ==
    ASSUME NEW p, NEW op, NEW in, Ready(p, op, in), op.kind = "clamp"
    PROVE  ClampFits(p, op, in)
<1> DEFINE shapes == [k \in DOMAIN in |-> in[k].shape]
<1>1. p.kind = "clamp" /\ Verified(p, shapes) /\ op.shape = p.shape
  BY DEF Ready, SameOp
<1>2. op.attrs = [min |-> p.attrs.min, max |-> p.attrs.max]
  BY <1>1 DEF Ready, SameOp, NpuAttrs
<1>3. Len(shapes) = 1 /\ p.shape = shapes[1]
      /\ p.attrs.min \in Int /\ p.attrs.max \in Int /\ p.attrs.min <= p.attrs.max
  <2> HIDE DEF shapes
  <2> QED BY <1>1 DEF Verified
<1>4. DOMAIN in = 1 .. 1
  BY <1>3, ReadyOperands
<1> QED BY <1>1, <1>2, <1>3, <1>4 DEF ClampFits

(* What the verifier of transpose says of the lowered operation.             *)
LEMMA TransposeReady ==
    ASSUME NEW p, NEW op, NEW in, Ready(p, op, in), op.kind = "transpose"
    PROVE  TransposeFits(p, op, in)
<1> DEFINE shapes == [k \in DOMAIN in |-> in[k].shape]
<1>1. p.kind = "transpose" /\ Verified(p, shapes) /\ op.shape = p.shape
  BY DEF Ready, SameOp
<1>2. op.attrs = [perms |-> p.attrs.perms]
  BY <1>1 DEF Ready, SameOp, NpuAttrs
<1>3. /\ Len(shapes) = 1 /\ Len(shapes[1]) = Len(p.shape)
      /\ \A d \in DOMAIN p.shape : p.attrs.perms[d] + 1 \in DOMAIN p.shape
                                   /\ p.shape[d] = shapes[1][p.attrs.perms[d] + 1]
      /\ \A d \in DOMAIN p.shape : \E e \in DOMAIN p.shape : p.attrs.perms[e] + 1 = d
  <2> HIDE DEF shapes
  <2> QED BY <1>1 DEF Verified
<1>4. DOMAIN in = 1 .. 1
  BY <1>3, ReadyOperands
<1>5. DOMAIN p.shape = 1 .. Len(p.shape)
  BY DEF Ready
<1>6. shapes[1] = in[1].shape
  BY <1>4
<1>7. op.attrs.perms = p.attrs.perms
  BY <1>2
<1>8. \A d \in 1 .. Len(op.shape) :
         /\ op.attrs.perms[d] + 1 \in 1 .. Len(op.shape)
         /\ op.shape[d] = in[1].shape[op.attrs.perms[d] + 1]
  <2> HIDE DEF shapes
  <2> QED BY <1>1, <1>3, <1>5, <1>6, <1>7
<1>9. \A d \in 1 .. Len(op.shape) : \E e \in 1 .. Len(op.shape) : op.attrs.perms[e] + 1 = d
  <2> HIDE DEF shapes
  <2> QED BY <1>1, <1>3, <1>5, <1>7
<1> HIDE DEF shapes
<1> QED BY <1>1, <1>3, <1>4, <1>6, <1>7, <1>8, <1>9 DEF TransposeFits

(* What the verifier of add says of the lowered operation.                   *)
LEMMA AddReady ==
    ASSUME NEW p, NEW op, NEW in, Ready(p, op, in), op.kind = "add"
    PROVE  AddFits(p, op, in)
<1> DEFINE shapes == [k \in DOMAIN in |-> in[k].shape]
<1>1. p.kind = "add" /\ Verified(p, shapes) /\ op.shape = p.shape
  BY DEF Ready, SameOp
<1>3. /\ Len(shapes) = 2
      /\ \A k \in 1 .. 2 : /\ Len(shapes[k]) = Len(p.shape)
                           /\ \A d \in DOMAIN p.shape : shapes[k][d] \in {1, p.shape[d]}
  <2> HIDE DEF shapes
  <2> QED BY <1>1 DEF Verified
<1>4. DOMAIN in = 1 .. 2
  BY <1>3, ReadyOperands
<1>5. DOMAIN p.shape = 1 .. Len(p.shape)
  BY DEF Ready
<1>6. \A k \in 1 .. 2 : shapes[k] = in[k].shape
  BY <1>4
<1> HIDE DEF shapes
<1> QED BY <1>1, <1>3, <1>4, <1>5, <1>6 DEF AddFits

(* What the verifier of matmul says of the lowered operation.                *)
LEMMA MatmulReady ==
    ASSUME NEW p, NEW op, NEW in, Ready(p, op, in), op.kind = "matmul"
    PROVE  MatmulFits(p, op, in)
<1> DEFINE shapes == [k \in DOMAIN in |-> in[k].shape]
<1>1. p.kind = "matmul" /\ Verified(p, shapes) /\ op.shape = p.shape
  BY DEF Ready, SameOp
<1>3. /\ Len(shapes) = 2 /\ Len(p.shape) = 3 /\ Len(shapes[1]) = 3
      /\ shapes[1][1] = p.shape[1] /\ shapes[1][2] = p.shape[2]
      /\ shapes[2] = <<p.shape[1], shapes[1][3], p.shape[3]>>
  <2> HIDE DEF shapes
  <2> QED BY <1>1 DEF Verified
<1>4. DOMAIN in = 1 .. 2
  BY <1>3, ReadyOperands
<1>6. shapes[1] = in[1].shape /\ shapes[2] = in[2].shape
  BY <1>4
<1> HIDE DEF shapes
<1> QED BY <1>1, <1>3, <1>4, <1>6 DEF MatmulFits

(* What the verifier of max_pool2d says of the lowered operation.            *)
LEMMA PoolReady ==
    ASSUME NEW p, NEW op, NEW in, Ready(p, op, in), op.kind = "max_pool2d"
    PROVE  PoolFits(p, op, in)
<1> DEFINE shapes == [k \in DOMAIN in |-> in[k].shape]
           a == p.attrs
<1>1. p.kind = "max_pool2d" /\ Verified(p, shapes) /\ op.shape = p.shape
  BY DEF Ready, SameOp
<1>2. op.attrs = [kernel |-> a.kernel, stride |-> a.stride, pad |-> a.pad]
  BY <1>1 DEF Ready, SameOp, NpuAttrs
<1>3. /\ Len(shapes) = 1 /\ Len(shapes[1]) = 4 /\ Len(p.shape) = 4
      /\ shapes[1][1] = p.shape[1] /\ shapes[1][4] = p.shape[4]
      /\ a.kernel \in [1 .. 2 -> Positive] /\ a.stride \in [1 .. 2 -> Positive]
      /\ a.pad \in [1 .. 4 -> Nat]
      /\ \A d \in 1 .. 2 :
            /\ a.pad[2 * d - 1] < a.kernel[d] /\ a.pad[2 * d] < a.kernel[d]
            /\ (p.shape[d + 1] - 1) * a.stride[d]
                  <= shapes[1][d + 1] + a.pad[2 * d - 1] + a.pad[2 * d] - a.kernel[d]
  <2> HIDE DEF shapes
  <2> QED BY <1>1 DEF Verified
<1>4. DOMAIN in = 1 .. 1
  BY <1>3, ReadyOperands
<1>6. shapes[1] = in[1].shape
  BY <1>4
<1>7. op.attrs.kernel = a.kernel /\ op.attrs.stride = a.stride /\ op.attrs.pad = a.pad
  BY <1>2
<1> HIDE DEF shapes, a
<1> QED BY <1>1, <1>2, <1>3, <1>4, <1>6, <1>7 DEF a, PoolFits

(* What the verifier of conv2d says of the lowered operation.                *)
LEMMA ConvReady ==
    ASSUME NEW p, NEW op, NEW in, Ready(p, op, in), op.kind = "conv2d"
    PROVE  ConvFits(p, op, in)
<1> DEFINE shapes == [k \in DOMAIN in |-> in[k].shape]
           a == p.attrs
<1>1. p.kind = "conv2d" /\ Verified(p, shapes) /\ op.shape = p.shape
  BY DEF Ready, SameOp
<1>2. op.attrs = [pad |-> a.pad, stride |-> a.stride, dilation |-> a.dilation]
  BY <1>1 DEF Ready, SameOp, NpuAttrs
<1>3. /\ Len(shapes) = 3 /\ Len(shapes[1]) = 4 /\ Len(shapes[2]) = 4 /\ Len(p.shape) = 4
      /\ shapes[1][1] = p.shape[1] /\ shapes[2][4] = shapes[1][4]
      /\ shapes[2][1] = p.shape[4] /\ shapes[3] = <<p.shape[4]>>
      /\ a.stride \in [1 .. 2 -> Positive] /\ a.dilation \in [1 .. 2 -> Positive]
      /\ a.pad \in [1 .. 4 -> Nat]
  <2> HIDE DEF shapes
  <2> QED BY <1>1 DEF Verified
<1>4. DOMAIN in = 1 .. 3
  BY <1>3, ReadyOperands
<1>6. shapes[1] = in[1].shape /\ shapes[2] = in[2].shape /\ shapes[3] = in[3].shape
  BY <1>4
<1>7. op.attrs.dilation = a.dilation /\ op.attrs.stride = a.stride /\ op.attrs.pad = a.pad
  BY <1>2
<1>8. Len(shapes[3]) = 1 /\ shapes[3][1] = p.shape[4]
  <2> HIDE DEF shapes
  <2> QED BY <1>3
<1> HIDE DEF shapes
<1> QED BY <1>1, <1>2, <1>3, <1>4, <1>6, <1>7, <1>8 DEF ConvFits

(* A load at an index of the shape finds an integer.                         *)
LEMMA LoadOperand ==
    ASSUME NEW m, IsOperand(m), NEW idx \in Tuples(m.shape)
    PROVE  /\ Offset(m, idx) \in DOMAIN m.cells
           /\ Load(m, idx) = m.cells[Offset(m, idx)] /\ Load(m, idx) \in Int
<1>1. Offset(m, idx) \in DOMAIN m.cells
  BY OffsetInRange DEF IsOperand
<1> QED BY <1>1 DEF Load, IsOperand

(* One component of an index is below its extent.                            *)
LEMMA IndexAt ==
    ASSUME NEW shape \in Seq(Positive), NEW t \in Tuples(shape), NEW d \in 1 .. Len(shape)
    PROVE  t[d] \in Nat /\ t[d] < shape[d] /\ shape[d] \in Nat
<1>1. t \in [1 .. Len(shape) -> Nat] /\ t[d] < shape[d]
  BY TuplesOf
<1> QED BY <1>1 DEF Positive

(* Index tuples of rank 4,                                                   *)
LEMMA TuplesOfRank4 ==
    ASSUME NEW shape \in Seq(Positive), Len(shape) = 4,
           NEW a \in Nat, NEW b \in Nat, NEW c \in Nat, NEW d \in Nat,
           a < shape[1], b < shape[2], c < shape[3], d < shape[4]
    PROVE  <<a, b, c, d>> \in Tuples(shape)
<1>1. <<a, b, c, d>> \in [1 .. 4 -> Nat]
  OBVIOUS
<1>2. \A e \in 1 .. 4 : <<a, b, c, d>>[e] < shape[e]
  <2>1. \A e \in 1 .. 4 : e = 1 \/ e = 2 \/ e = 3 \/ e = 4
    OBVIOUS
  <2> QED BY <2>1
<1> QED BY <1>1, <1>2, TuplesOf

(* of rank 3,                                                                *)
LEMMA TuplesOfRank3 ==
    ASSUME NEW shape \in Seq(Positive), Len(shape) = 3,
           NEW a \in Nat, NEW b \in Nat, NEW c \in Nat,
           a < shape[1], b < shape[2], c < shape[3]
    PROVE  <<a, b, c>> \in Tuples(shape)
<1>1. <<a, b, c>> \in [1 .. 3 -> Nat]
  OBVIOUS
<1>2. \A e \in 1 .. 3 : <<a, b, c>>[e] < shape[e]
  <2>1. \A e \in 1 .. 3 : e = 1 \/ e = 2 \/ e = 3
    OBVIOUS
  <2> QED BY <2>1
<1> QED BY <1>1, <1>2, TuplesOf

(* and of rank 1.                                                            *)
LEMMA TuplesOfRank1 ==
    ASSUME NEW shape \in Seq(Positive), Len(shape) = 1, NEW a \in Nat, a < shape[1]
    PROVE  <<a>> \in Tuples(shape)
<1>1. <<a>> \in [1 .. 1 -> Nat]
  OBVIOUS
<1>2. \A e \in 1 .. 1 : <<a>>[e] < shape[e]
  OBVIOUS
<1> QED BY <1>1, <1>2, TuplesOf

(* Where the iterations of a loop nest store: in the result, each in a cell  *)
(* of its own, and every cell of the result has its iteration.               *)
LEMMA StoresCoverResult ==
    ASSUME NEW p, NEW op, NEW in, Ready(p, op, in)
    PROVE  /\ \A iv \in Iterations(op, in) : StoreAt(op, iv) \in Tuples(op.shape)
           /\ \A iv \in Iterations(op, in), jv \in Iterations(op, in) :
                 StoreAt(op, iv) = StoreAt(op, jv) => iv = jv
           /\ \A idx \in Tuples(op.shape) : \E iv \in Iterations(op, in) : StoreAt(op, iv) = idx
<1> DEFINE n == Len(op.shape)
           s == in[1].shape
           q == op.attrs.perms
           f == [d \in 1 .. n |-> q[d] + 1]
<1>1. CASE op.kind # "transpose"
  BY <1>1 DEF Iterations, StoreAt
<1>2. CASE op.kind = "transpose"
  <2>1. /\ DOMAIN in = {1} /\ Len(s) = n
        /\ \A d \in 1 .. n : /\ q[d] + 1 \in 1 .. n /\ op.shape[d] = s[q[d] + 1]
                             /\ \E e \in 1 .. n : q[e] + 1 = d
    <3>1. /\ DOMAIN in = {1} /\ Len(in[1].shape) = Len(op.shape)
          /\ \A d \in 1 .. Len(op.shape) :
                 /\ op.attrs.perms[d] + 1 \in 1 .. Len(op.shape)
                 /\ op.shape[d] = in[1].shape[op.attrs.perms[d] + 1]
                 /\ \E e \in 1 .. Len(op.shape) : op.attrs.perms[e] + 1 = d
      <4>1. TransposeFits(p, op, in)
        BY <1>2, TransposeReady
      <4> QED BY <1>2, <4>1 DEF TransposeFits
    <3> QED BY <3>1, Zenon
  <2>2. op.shape \in Seq(Positive) /\ s \in Seq(Positive) /\ n \in Nat
    BY <2>1, ReadyShapes
  <2>3. Iterations(op, in) = Tuples(s)
    BY <1>2 DEF Iterations
  <2>4. \A iv \in Tuples(s) : DOMAIN iv = 1 .. n /\ \A d \in 1 .. n : iv[d] \in Nat /\ iv[d] < s[d]
    BY <2>1, <2>2, TuplesOf, SMTT(30)
  <2>5. \A iv \in Tuples(s) : StoreAt(op, iv) = [d \in 1 .. n |-> iv[f[d]]]
    BY <1>2, <2>4 DEF StoreAt
  <2>6. f \in [1 .. n -> 1 .. n] /\ (\A d \in 1 .. n : \E e \in 1 .. n : f[e] = d)
        /\ \A d \in 1 .. n : op.shape[d] = s[f[d]]
    BY <2>1
  <2> HIDE DEF f, s, q, n
  <2>7. \A d \in 1 .. n, e \in 1 .. n : f[d] = f[e] => d = e
    <3>1. f \in Surjection(1 .. n, 1 .. n)
      BY <2>6 DEF Surjection
    <3>2. IsFiniteSet(1 .. n)
      BY <2>2, FS_Interval
    <3>3. f \in Injection(1 .. n, 1 .. n)
      BY <3>1, <3>2, FS_SurjSameCardinalityImpliesInj
    <3> QED BY <3>3 DEF Injection, IsInjective
  <2>8. ASSUME NEW iv \in Tuples(s) PROVE StoreAt(op, iv) \in Tuples(op.shape)
    <3> DEFINE t == [d \in 1 .. n |-> iv[f[d]]]
    <3>1. t \in [1 .. n -> Nat] /\ \A d \in 1 .. n : t[d] < op.shape[d]
      BY <2>4, <2>6
    <3> HIDE DEF t
    <3>2. t \in Tuples(op.shape)
      BY <2>2, <3>1, TuplesOf DEF n
    <3> QED BY <2>5, <3>2 DEF t
  <2>9. ASSUME NEW iv \in Tuples(s), NEW jv \in Tuples(s), StoreAt(op, iv) = StoreAt(op, jv)
        PROVE  iv = jv
    <3>1. \A d \in 1 .. n : iv[f[d]] = jv[f[d]]
      <4>1. [d \in 1 .. n |-> iv[f[d]]] = [d \in 1 .. n |-> jv[f[d]]]
        BY <2>5, <2>9
      <4> QED BY <4>1
    <3>2. \A d \in 1 .. n : iv[d] = jv[d]
      BY <2>6, <3>1
    <3>3. iv = [d \in 1 .. n |-> iv[d]] /\ jv = [d \in 1 .. n |-> jv[d]]
      <4>1. iv \in [1 .. n -> Nat] /\ jv \in [1 .. n -> Nat]
        BY <2>1, <2>2, TuplesOf
      <4> QED BY <4>1
    <3> QED BY <3>2, <3>3
  <2>10. ASSUME NEW idx \in Tuples(op.shape) PROVE \E iv \in Tuples(s) : StoreAt(op, iv) = idx
    <3> DEFINE inverse == [d \in 1 .. n |-> CHOOSE e \in 1 .. n : f[e] = d]
               iv == [d \in 1 .. n |-> idx[inverse[d]]]
    <3>1. idx \in [1 .. n -> Nat] /\ \A d \in 1 .. n : idx[d] < op.shape[d]
      BY <2>2, TuplesOf DEF n
    <3>2. \A d \in 1 .. n : inverse[d] \in 1 .. n /\ f[inverse[d]] = d
      BY <2>6
    <3>3. \A d \in 1 .. n : inverse[f[d]] = d
      BY <2>6, <2>7, <3>2
    <3> HIDE DEF inverse
    <3>4. iv \in [1 .. n -> Nat] /\ \A d \in 1 .. n : iv[d] < s[d]
      <4>1. \A d \in 1 .. n : s[d] = op.shape[inverse[d]]
        BY <2>6, <3>2
      <4> QED BY <3>1, <3>2, <4>1
    <3>5. \A d \in 1 .. n : iv[f[d]] = idx[d]
      BY <2>6, <3>3
    <3> HIDE DEF iv
    <3>6. iv \in Tuples(s)
      BY <2>1, <2>2, <3>4, TuplesOf
    <3>7. idx = [d \in 1 .. n |-> idx[d]]
      BY <3>1
    <3>8. StoreAt(op, iv) = idx
      BY <2>5, <3>5, <3>6, <3>7
    <3> QED BY <3>6, <3>8
  <2> QED BY <2>3, <2>8, <2>9, <2>10
<1> QED BY <1>1, <1>2

(* The kernel positions of a convolution.                                    *)
LEMMA ConvTapsAre ==
    ASSUME NEW p, NEW op, NEW in, Ready(p, op, in), op.kind = "conv2d"
    PROVE  /\ IsFiniteSet(ConvTaps(op, in))
           /\ \A t : t \in ConvTaps(op, in) <=>
                 /\ t \in [1 .. 3 -> Nat] /\ t[1] < in[2].shape[2]
                 /\ t[2] < in[2].shape[3] /\ t[3] < in[2].shape[4]
<1> DEFINE w == in[2].shape
           s == <<w[2], w[3], w[4]>>
<1>1. w \in Seq(Positive) /\ Len(w) = 4
  <2>1. ConvFits(p, op, in)
    BY ConvReady
  <2> QED BY <2>1, ReadyShapes DEF ConvFits
<1>2. s \in Seq(Positive) /\ Len(s) = 3
  BY <1>1
<1>3. ConvTaps(op, in) = Tuples(s)
  BY DEF ConvTaps
<1>4. \A t : t \in Tuples(s) <=> t \in [1 .. 3 -> Nat] /\ \A d \in 1 .. 3 : t[d] < s[d]
  <2> HIDE DEF s
  <2> QED BY <1>2, TuplesOf
<1>5. s[1] = w[2] /\ s[2] = w[3] /\ s[3] = w[4]
  OBVIOUS
<1>6. IsFiniteSet(Tuples(s))
  <2> DEFINE m == [shape |-> s, strides |-> Strides(s)]
  <2>1. IsRowMajor(m) /\ m.shape = s
    BY <1>2 DEF IsRowMajor
  <2> HIDE DEF m, s
  <2>2. \A i \in Tuples(s) : IsFiniteSet(Tuples(s))
    BY <2>1, RankIsOffset
  <2> QED BY <2>2, FS_EmptySet
<1>7. \A u : (\A d \in 1 .. 3 : u[d] < s[d]) <=> u[1] < s[1] /\ u[2] < s[2] /\ u[3] < s[3]
  <2>1. \A d \in 1 .. 3 : d = 1 \/ d = 2 \/ d = 3
    OBVIOUS
  <2> HIDE DEF s
  <2> QED BY <2>1
<1> HIDE DEF s, w
<1> QED BY <1>3, <1>4, <1>5, <1>6, <1>7 DEF w

(* The kernel positions of a pooling window.                                 *)
LEMMA PoolTapsAre ==
    ASSUME NEW p, NEW op, NEW in, Ready(p, op, in), op.kind = "max_pool2d"
    PROVE  /\ IsFiniteSet(Tuples(op.attrs.kernel))
           /\ \A t : t \in Tuples(op.attrs.kernel) <=>
                 /\ t \in [1 .. 2 -> Nat] /\ t[1] < op.attrs.kernel[1] /\ t[2] < op.attrs.kernel[2]
<1> DEFINE s == op.attrs.kernel
<1>0. s \in [1 .. 2 -> Positive]
  <2>1. PoolFits(p, op, in)
    BY PoolReady
  <2> QED BY <2>1 DEF PoolFits
<1> HIDE DEF s
<1>2. s \in Seq(Positive) /\ Len(s) = 2
  <2>1. s = <<s[1], s[2]>> /\ s[1] \in Positive /\ s[2] \in Positive
    BY <1>0
  <2>2. <<s[1], s[2]>> \in Seq(Positive) /\ Len(<<s[1], s[2]>>) = 2
    BY <2>1
  <2> QED BY <2>1, <2>2
<1>4. \A t : t \in Tuples(s) <=> t \in [1 .. 2 -> Nat] /\ \A d \in 1 .. 2 : t[d] < s[d]
  BY <1>2, TuplesOf
<1>6. IsFiniteSet(Tuples(s))
  <2> DEFINE m == [shape |-> s, strides |-> Strides(s)]
  <2>1. IsRowMajor(m) /\ m.shape = s
    BY <1>2 DEF IsRowMajor
  <2> HIDE DEF m
  <2>2. \A i \in Tuples(s) : IsFiniteSet(Tuples(s))
    BY <2>1, RankIsOffset
  <2> QED BY <2>2, FS_EmptySet
<1>7. \A u : (\A d \in 1 .. 2 : u[d] < s[d]) <=> u[1] < s[1] /\ u[2] < s[2]
  <2>1. \A d \in 1 .. 2 : d = 1 \/ d = 2
    OBVIOUS
  <2> QED BY <2>1
<1> QED BY <1>4, <1>6, <1>7 DEF s

(* Every cell an iteration loads belongs to an operand and lies inside it.   *)
LEMMA ReadsInside ==
    ASSUME NEW p, NEW op, NEW in, Ready(p, op, in), NEW iv \in Iterations(op, in),
           NEW r \in Reads(op, in, iv)
    PROVE  r[1] \in DOMAIN in /\ r[2] \in Tuples(in[r[1]].shape)
<1>0. /\ op.kind \in LoopKinds /\ op.shape \in Seq(Positive)
      /\ \A k \in DOMAIN in : in[k].shape \in Seq(Positive)
  BY ReadyShapes DEF Ready
<1>1. CASE op.kind = "conv2d"
  <2>1. /\ DOMAIN in = 1 .. 3 /\ Len(op.shape) = 4
        /\ Len(in[1].shape) = 4 /\ Len(in[2].shape) = 4 /\ Len(in[3].shape) = 1
        /\ in[1].shape[1] = op.shape[1] /\ in[2].shape[4] = in[1].shape[4]
        /\ in[2].shape[1] = op.shape[4] /\ in[3].shape[1] = op.shape[4]
    <3>1. ConvFits(p, op, in)
      BY <1>1, ConvReady
    <3> QED BY <1>1, <3>1 DEF ConvFits
  <2>2. iv \in Tuples(op.shape)
    BY <1>1 DEF Iterations
  <2>3. iv[1] \in Nat /\ iv[1] < op.shape[1] /\ iv[4] \in Nat /\ iv[4] < op.shape[4]
    <3>1. 1 \in 1 .. Len(op.shape) /\ 4 \in 1 .. Len(op.shape)
      BY <2>1
    <3> QED BY <1>0, <2>2, <3>1, IndexAt
  <2>4. CASE r = <<3, <<iv[4]>>>>
    <3>1. <<iv[4]>> \in Tuples(in[3].shape)
      BY <1>0, <2>1, <2>3, TuplesOfRank1
    <3> QED BY <2>1, <2>4, <3>1
  <2>5. ASSUME NEW t \in ConvTaps(op, in), ConvValid(op, in, iv, t), r = <<1, ConvInput(op, iv, t)>>
        PROVE  r[1] \in DOMAIN in /\ r[2] \in Tuples(in[r[1]].shape)
    <3> DEFINE q == InputAt(iv, op.attrs.pad, op.attrs.stride, op.attrs.dilation, t[1], t[2])
    <3>1. ConvInput(op, iv, t) = <<iv[1], q[1], q[2], t[3]>>
      BY DEF ConvInput
    <3>2. q[1] \in Int /\ q[2] \in Int
      <4>1. /\ op.attrs.stride \in [1 .. 2 -> Positive] /\ op.attrs.dilation \in [1 .. 2 -> Positive]
            /\ op.attrs.pad \in [1 .. 4 -> Nat]
        <5>1. ConvFits(p, op, in)
          BY <1>1, ConvReady
        <5> QED BY <1>1, <5>1 DEF ConvFits
      <4>2. t[1] \in Nat /\ t[2] \in Nat
        BY <1>1, ConvTapsAre
      <4>3. iv[2] \in Nat /\ iv[3] \in Nat
        <5>1. 2 \in 1 .. Len(op.shape) /\ 3 \in 1 .. Len(op.shape)
          BY <2>1
        <5> QED BY <1>0, <2>2, <5>1, IndexAt
      <4>4. /\ op.attrs.stride[1] \in Int /\ op.attrs.stride[2] \in Int
            /\ op.attrs.dilation[1] \in Int /\ op.attrs.dilation[2] \in Int
            /\ op.attrs.pad[1] \in Int /\ op.attrs.pad[3] \in Int
        BY <4>1 DEF Positive
      <4> QED BY <4>2, <4>3, <4>4 DEF InputAt
    <3> HIDE DEF q
    <3>3. q[1] >= 0 /\ q[1] < in[1].shape[2] /\ q[2] >= 0 /\ q[2] < in[1].shape[3]
      <4>1. ConvInput(op, iv, t)[2] = q[1] /\ ConvInput(op, iv, t)[3] = q[2]
        BY <3>1
      <4>2. IsValid(<<q[1], q[2]>>, in[1].shape)
        BY <2>5, <4>1 DEF ConvValid
      <4> QED BY <4>2 DEF IsValid
    <3>4. t[3] \in Nat /\ t[3] < in[1].shape[4]
      BY <1>1, <2>1, ConvTapsAre
    <3>5. q[1] \in Nat /\ q[2] \in Nat
      BY <3>2, <3>3
    <3>6. <<iv[1], q[1], q[2], t[3]>> \in Tuples(in[1].shape)
      <4>1. in[1].shape \in Seq(Positive) /\ Len(in[1].shape) = 4
        BY <1>0, <2>1
      <4>2. iv[1] \in Nat /\ iv[1] < in[1].shape[1]
        BY <2>1, <2>3
      <4> QED BY <3>3, <3>4, <3>5, <4>1, <4>2, TuplesOfRank4
    <3> QED BY <2>1, <2>5, <3>1, <3>6
  <2>6. ASSUME NEW t \in ConvTaps(op, in), r = <<2, ConvWeight(iv, t)>>
        PROVE  r[1] \in DOMAIN in /\ r[2] \in Tuples(in[r[1]].shape)
    <3>1. /\ t[1] \in Nat /\ t[2] \in Nat /\ t[3] \in Nat
          /\ t[1] < in[2].shape[2] /\ t[2] < in[2].shape[3] /\ t[3] < in[2].shape[4]
      BY <1>1, ConvTapsAre
    <3>2. <<iv[4], t[1], t[2], t[3]>> \in Tuples(in[2].shape)
      <4>1. in[2].shape \in Seq(Positive) /\ Len(in[2].shape) = 4
        BY <1>0, <2>1
      <4>2. iv[4] \in Nat /\ iv[4] < in[2].shape[1]
        BY <2>1, <2>3
      <4> QED BY <3>1, <4>1, <4>2, TuplesOfRank4
    <3> QED BY <2>1, <2>6, <3>2 DEF ConvWeight
  <2>7. r = <<3, <<iv[4]>>>> \/ \E t \in ConvTaps(op, in) :
           ConvValid(op, in, iv, t) /\ (r = <<1, ConvInput(op, iv, t)>> \/ r = <<2, ConvWeight(iv, t)>>)
    <3>1. r \in {<<3, <<iv[4]>>>>} \union
            UNION {{<<1, ConvInput(op, iv, t)>>, <<2, ConvWeight(iv, t)>>} :
                      t \in {u \in ConvTaps(op, in) : ConvValid(op, in, iv, u)}}
      BY <1>1 DEF Reads
    <3> QED BY <3>1
  <2> QED BY <2>4, <2>5, <2>6, <2>7
<1>2. CASE op.kind = "max_pool2d"
  <2>1. /\ DOMAIN in = {1} /\ Len(op.shape) = 4 /\ Len(in[1].shape) = 4
        /\ in[1].shape[1] = op.shape[1] /\ in[1].shape[4] = op.shape[4]
    <3>1. PoolFits(p, op, in)
      BY <1>2, PoolReady
    <3> QED BY <1>2, <3>1 DEF PoolFits
  <2>2. iv \in Tuples(op.shape)
    BY <1>2 DEF Iterations
  <2>3. \A d \in 1 .. 4 : iv[d] \in Nat /\ iv[d] < op.shape[d]
    BY <1>0, <2>1, <2>2, IndexAt
  <2>4. PICK t \in Tuples(op.attrs.kernel) :
            PoolValid(op, in, iv, t) /\ r = <<1, PoolInput(op, iv, t)>>
    BY <1>2 DEF Reads
  <2> DEFINE q == InputAt(iv, op.attrs.pad, op.attrs.stride, <<1, 1>>, t[1], t[2])
  <2>5. PoolInput(op, iv, t) = <<iv[1], q[1], q[2], iv[4]>>
    BY DEF PoolInput
  <2>6. q[1] \in Int /\ q[2] \in Int
    <3>1. op.attrs.stride \in [1 .. 2 -> Positive] /\ op.attrs.pad \in [1 .. 4 -> Nat]
      <4>1. PoolFits(p, op, in)
        BY <1>2, PoolReady
      <4> QED BY <1>2, <4>1 DEF PoolFits
    <3>2. t[1] \in Nat /\ t[2] \in Nat
      BY <1>2, PoolTapsAre
    <3>3. /\ op.attrs.stride[1] \in Int /\ op.attrs.stride[2] \in Int
          /\ op.attrs.pad[1] \in Int /\ op.attrs.pad[3] \in Int
      BY <3>1 DEF Positive
    <3>4. iv[2] \in Nat /\ iv[3] \in Nat
      BY <2>3
    <3> QED BY <3>2, <3>3, <3>4 DEF InputAt
  <2> HIDE DEF q
  <2>7. q[1] >= 0 /\ q[1] < in[1].shape[2] /\ q[2] >= 0 /\ q[2] < in[1].shape[3]
    <3>1. PoolInput(op, iv, t)[2] = q[1] /\ PoolInput(op, iv, t)[3] = q[2]
      BY <2>5
    <3>2. IsValid(<<q[1], q[2]>>, in[1].shape)
      BY <2>4, <3>1 DEF PoolValid
    <3> QED BY <3>2 DEF IsValid
  <2>8. q[1] \in Nat /\ q[2] \in Nat
    BY <2>6, <2>7
  <2>9. iv[1] \in Nat /\ iv[1] < in[1].shape[1] /\ iv[4] \in Nat /\ iv[4] < in[1].shape[4]
    BY <2>1, <2>3
  <2>10. <<iv[1], q[1], q[2], iv[4]>> \in Tuples(in[1].shape)
    BY <1>0, <2>1, <2>7, <2>8, <2>9, TuplesOfRank4
  <2> QED BY <2>1, <2>4, <2>5, <2>10
<1>3. CASE op.kind = "matmul"
  <2>1. /\ DOMAIN in = 1 .. 2 /\ Len(op.shape) = 3
        /\ Len(in[1].shape) = 3 /\ Len(in[2].shape) = 3
        /\ in[1].shape[1] = op.shape[1] /\ in[1].shape[2] = op.shape[2]
        /\ in[2].shape[1] = op.shape[1] /\ in[2].shape[2] = in[1].shape[3]
        /\ in[2].shape[3] = op.shape[3]
    <3>1. MatmulFits(p, op, in)
      BY <1>3, MatmulReady
    <3> QED BY <1>3, <3>1 DEF MatmulFits
  <2>2. iv \in Tuples(op.shape)
    BY <1>3 DEF Iterations
  <2>3. \A d \in 1 .. 3 : iv[d] \in Nat /\ iv[d] < op.shape[d]
    BY <1>0, <2>1, <2>2, IndexAt
  <2>4. in[1].shape[3] \in Nat
    <3>1. 3 \in 1 .. Len(in[1].shape) /\ in[1].shape \in Seq(Positive)
      BY <1>0, <2>1
    <3> QED BY <3>1 DEF Positive
  <2>5. PICK k \in 0 .. (in[1].shape[3] - 1) :
            r = <<1, <<iv[1], iv[2], k>>>> \/ r = <<2, <<iv[1], k, iv[3]>>>>
    BY <1>3 DEF Reads
  <2>6. k \in Nat /\ k < in[1].shape[3] /\ k < in[2].shape[2]
    BY <2>1, <2>4
  <2>7. <<iv[1], iv[2], k>> \in Tuples(in[1].shape)
    BY <1>0, <2>1, <2>3, <2>6, TuplesOfRank3
  <2>8. <<iv[1], k, iv[3]>> \in Tuples(in[2].shape)
    BY <1>0, <2>1, <2>3, <2>6, TuplesOfRank3
  <2> QED BY <2>1, <2>5, <2>7, <2>8
<1>4. CASE op.kind = "add"
  <2>1. /\ DOMAIN in = 1 .. 2
        /\ \A k \in 1 .. 2 : /\ Len(in[k].shape) = Len(op.shape)
                             /\ \A d \in 1 .. Len(op.shape) : in[k].shape[d] \in {1, op.shape[d]}
    <3>1. AddFits(p, op, in)
      BY <1>4, AddReady
    <3> QED BY <1>4, <3>1 DEF AddFits
  <2>2. iv \in Tuples(op.shape)
    BY <1>4 DEF Iterations
  <2>3. PICK k \in 1 .. 2 : r = <<k, BroadcastIndices(in[k], iv)>>
    BY <1>4 DEF Reads
  <2>4. in[k].shape \in Seq(Positive) /\ Len(in[k].shape) = Len(op.shape)
    BY <1>0, <2>1
  <2>5. \A d \in 1 .. Len(op.shape) : iv[d] \in Nat /\ iv[d] < op.shape[d]
    BY <1>0, <2>2, IndexAt
  <2> DEFINE b == BroadcastIndices(in[k], iv)
  <2>6. b = [d \in 1 .. Len(op.shape) |-> IF in[k].shape[d] = 1 THEN 0 ELSE iv[d]]
    BY <2>4 DEF BroadcastIndices
  <2>7. b \in [1 .. Len(op.shape) -> Nat] /\ \A d \in 1 .. Len(op.shape) : b[d] < in[k].shape[d]
    <3> HIDE DEF b
    <3> QED BY <2>1, <2>5, <2>6
  <2> HIDE DEF b
  <2>8. b \in Tuples(in[k].shape)
    BY <2>4, <2>7, TuplesOf
  <2> QED BY <2>1, <2>3, <2>8 DEF b
<1>5. CASE op.kind = "clamp"
  <2>1. ClampFits(p, op, in)
    BY <1>5, ClampReady
  <2> QED BY <1>5, <2>1 DEF ClampFits, Reads, Iterations
<1>6. CASE op.kind = "transpose"
  <2>1. TransposeFits(p, op, in)
    BY <1>6, TransposeReady
  <2> QED BY <1>6, <2>1 DEF TransposeFits, Reads, Iterations
<1> QED BY <1>0, <1>1, <1>2, <1>3, <1>4, <1>5, <1>6 DEF LoopKinds

(* What an iteration loads are integers.                                     *)
LEMMA ReadsAreIntegers ==
    ASSUME NEW p, NEW op, NEW in, Ready(p, op, in), NEW iv \in Iterations(op, in)
    PROVE  \A k, idx : <<k, idx>> \in Reads(op, in, iv) =>
              k \in DOMAIN in /\ idx \in Tuples(in[k].shape) /\ Load(in[k], idx) \in Int
<1> SUFFICES ASSUME NEW k, NEW idx, <<k, idx>> \in Reads(op, in, iv)
             PROVE  k \in DOMAIN in /\ idx \in Tuples(in[k].shape) /\ Load(in[k], idx) \in Int
  OBVIOUS
<1> DEFINE r == <<k, idx>>
<1>1. r[1] = k /\ r[2] = idx /\ r \in Reads(op, in, iv)
  OBVIOUS
<1> HIDE DEF r
<1>2. k \in DOMAIN in /\ idx \in Tuples(in[k].shape)
  BY <1>1, ReadsInside
<1>3. IsOperand(in[k])
  BY <1>2 DEF Ready
<1> QED BY <1>2, <1>3, LoadOperand

(* The loads of a convolution, one by one.                                   *)
LEMMA ConvReads ==
    ASSUME NEW op, NEW in, NEW iv, op.kind = "conv2d"
    PROVE  /\ <<3, <<iv[4]>>>> \in Reads(op, in, iv)
           /\ \A t \in ConvTaps(op, in) : ConvValid(op, in, iv, t) =>
                 /\ <<1, ConvInput(op, iv, t)>> \in Reads(op, in, iv)
                 /\ <<2, ConvWeight(iv, t)>> \in Reads(op, in, iv)
<1>1. Reads(op, in, iv) =
            {<<3, <<iv[4]>>>>} \union
            UNION {{<<1, ConvInput(op, iv, t)>>, <<2, ConvWeight(iv, t)>>} :
                      t \in {u \in ConvTaps(op, in) : ConvValid(op, in, iv, u)}}
  BY DEF Reads
<1> QED BY <1>1

(* A pooling window reaches the image: one dimension of it.                  *)
LEMMA WindowReaches ==
    ASSUME NEW o \in Int, NEW s \in Int, NEW before \in Int, NEW after \in Int, NEW k \in Int,
           NEW size \in Int, NEW count \in Int,
           0 <= o, o < count, 0 < s, 0 <= before, before < k, after < k, 0 < size,
           (count - 1) * s <= size + before + after - k
    PROVE  \E t \in Nat : t < k /\ 0 <= o * s - before + t /\ o * s - before + t < size
<1>1. \A x \in Nat, y \in Nat : x * y \in Nat
  OBVIOUS
<1>2. o * s \in Nat
  BY <1>1
<1>3. (count - 1 - o) * s \in Nat
  BY <1>1
<1>4. (count - 1) * s = (count - 1 - o) * s + o * s
  OBVIOUS
<1>5. o * s <= size + before + after - k
  BY <1>2, <1>3, <1>4
<1>6. CASE o * s >= before
  <2>1. 0 < k /\ 0 <= o * s - before + 0 /\ o * s - before + 0 < size
    BY <1>2, <1>5, <1>6
  <2> QED BY <2>1
<1>7. CASE o * s < before
  <2>1. PICK t \in Nat : t = before - o * s
    BY <1>2, <1>7
  <2> QED BY <1>2, <2>1
<1> QED BY <1>2, <1>6, <1>7

(* A pooling window meets the image, so its maximum is over some cell.       *)
LEMMA PoolReaches ==
    ASSUME NEW p, NEW op, NEW in, Ready(p, op, in), op.kind = "max_pool2d",
           NEW iv \in Iterations(op, in)
    PROVE  \E t \in Tuples(op.attrs.kernel) : PoolValid(op, in, iv, t)
<1> DEFINE a == op.attrs
           x == in[1].shape
           y == op.shape
<1>1. PoolFits(p, op, in)
  BY PoolReady
<1>2. /\ Len(y) = 4 /\ Len(x) = 4
      /\ a.kernel \in [1 .. 2 -> Positive] /\ a.stride \in [1 .. 2 -> Positive]
      /\ a.pad \in [1 .. 4 -> Nat]
      /\ \A d \in 1 .. 2 :
            /\ a.pad[2 * d - 1] < a.kernel[d] /\ a.pad[2 * d] < a.kernel[d]
            /\ (y[d + 1] - 1) * a.stride[d] <= x[d + 1] + a.pad[2 * d - 1] + a.pad[2 * d] - a.kernel[d]
  BY <1>1 DEF PoolFits
<1>3. x \in Seq(Positive) /\ y \in Seq(Positive) /\ iv \in Tuples(y)
  BY <1>1, ReadyShapes DEF Iterations, PoolFits
<1> HIDE DEF a, x, y
<1>4. ASSUME NEW d \in 1 .. 4
      PROVE  /\ iv[d] \in Int /\ 0 <= iv[d] /\ iv[d] < y[d] /\ y[d] \in Int
             /\ x[d] \in Int /\ 0 < x[d] /\ a.pad[d] \in Nat
  <2>1. d \in 1 .. Len(y) /\ d \in 1 .. Len(x)
    BY <1>2
  <2>2. iv[d] \in Nat /\ iv[d] < y[d]
    BY <1>3, <2>1, IndexAt
  <2>3. y[d] \in Positive /\ x[d] \in Positive
    BY <1>3, <2>1
  <2>4. a.pad[d] \in Nat
    BY <1>2
  <2> HIDE DEF a, x, y
  <2> QED BY <2>2, <2>3, <2>4 DEF Positive
<1>5. 1 \in 1 .. 4 /\ 2 \in 1 .. 4 /\ 3 \in 1 .. 4 /\ 4 \in 1 .. 4
  OBVIOUS
<1>6. ASSUME NEW d \in 1 .. 2
      PROVE  a.kernel[d] \in Int /\ a.stride[d] \in Int /\ 0 < a.stride[d]
  <2>1. a.kernel[d] \in Positive /\ a.stride[d] \in Positive
    BY <1>2
  <2> QED BY <2>1 DEF Positive
<1>7. PICK t1 \in Nat : /\ t1 < a.kernel[1] /\ 0 <= iv[2] * a.stride[1] - a.pad[1] + t1
                        /\ iv[2] * a.stride[1] - a.pad[1] + t1 < x[2]
  <2>1. /\ a.pad[1] < a.kernel[1] /\ a.pad[2] < a.kernel[1]
        /\ (y[2] - 1) * a.stride[1] <= x[2] + a.pad[1] + a.pad[2] - a.kernel[1]
    <3>1. /\ a.pad[2 * 1 - 1] < a.kernel[1] /\ a.pad[2 * 1] < a.kernel[1]
          /\ (y[1 + 1] - 1) * a.stride[1] <= x[1 + 1] + a.pad[2 * 1 - 1] + a.pad[2 * 1] - a.kernel[1]
      BY <1>2
    <3> QED BY <3>1
  <2>2. /\ iv[2] \in Int /\ 0 <= iv[2] /\ iv[2] < y[2] /\ y[2] \in Int /\ x[2] \in Int /\ 0 < x[2]
        /\ a.pad[1] \in Int /\ 0 <= a.pad[1] /\ a.pad[2] \in Int
        /\ a.kernel[1] \in Int /\ a.stride[1] \in Int /\ 0 < a.stride[1]
    <3>1. iv[2] \in Int /\ 0 <= iv[2] /\ iv[2] < y[2] /\ y[2] \in Int /\ x[2] \in Int /\ 0 < x[2]
      BY <1>4, <1>5
    <3>2. a.pad[1] \in Nat /\ a.pad[2] \in Nat
      BY <1>4, <1>5
    <3>3. a.kernel[1] \in Int /\ a.stride[1] \in Int /\ 0 < a.stride[1]
      BY <1>6
    <3> QED BY <3>1, <3>2, <3>3
  <2>3. PICK o \in Int, s \in Int, before \in Int, after \in Int, k \in Int, size \in Int, count \in Int :
            /\ o = iv[2] /\ s = a.stride[1] /\ before = a.pad[1] /\ after = a.pad[2]
            /\ k = a.kernel[1] /\ size = x[2] /\ count = y[2]
    <3>1. a.pad[2] \in Int
      BY <1>4, <1>5
    <3> QED BY <2>2, <3>1
  <2>4. /\ 0 <= o /\ o < count /\ 0 < s /\ 0 <= before /\ before < k /\ after < k /\ 0 < size
        /\ (count - 1) * s <= size + before + after - k
    BY <2>1, <2>2, <2>3
  <2>5. \E t \in Nat : t < k /\ 0 <= o * s - before + t /\ o * s - before + t < size
    BY <2>4, WindowReaches
  <2> QED BY <2>3, <2>5
<1>8. PICK t2 \in Nat : /\ t2 < a.kernel[2] /\ 0 <= iv[3] * a.stride[2] - a.pad[3] + t2
                        /\ iv[3] * a.stride[2] - a.pad[3] + t2 < x[3]
  <2>1. /\ a.pad[3] < a.kernel[2] /\ a.pad[4] < a.kernel[2]
        /\ (y[3] - 1) * a.stride[2] <= x[3] + a.pad[3] + a.pad[4] - a.kernel[2]
    <3>1. /\ a.pad[2 * 2 - 1] < a.kernel[2] /\ a.pad[2 * 2] < a.kernel[2]
          /\ (y[2 + 1] - 1) * a.stride[2] <= x[2 + 1] + a.pad[2 * 2 - 1] + a.pad[2 * 2] - a.kernel[2]
      BY <1>2
    <3> QED BY <3>1
  <2>2. /\ iv[3] \in Int /\ 0 <= iv[3] /\ iv[3] < y[3] /\ y[3] \in Int /\ x[3] \in Int /\ 0 < x[3]
        /\ a.pad[3] \in Int /\ 0 <= a.pad[3] /\ a.pad[4] \in Int
        /\ a.kernel[2] \in Int /\ a.stride[2] \in Int /\ 0 < a.stride[2]
    <3>1. iv[3] \in Int /\ 0 <= iv[3] /\ iv[3] < y[3] /\ y[3] \in Int /\ x[3] \in Int /\ 0 < x[3]
      BY <1>4, <1>5
    <3>2. a.pad[3] \in Nat /\ a.pad[4] \in Nat
      BY <1>4, <1>5
    <3>3. a.kernel[2] \in Int /\ a.stride[2] \in Int /\ 0 < a.stride[2]
      BY <1>6
    <3> QED BY <3>1, <3>2, <3>3
  <2>3. PICK o \in Int, s \in Int, before \in Int, after \in Int, k \in Int, size \in Int, count \in Int :
            /\ o = iv[3] /\ s = a.stride[2] /\ before = a.pad[3] /\ after = a.pad[4]
            /\ k = a.kernel[2] /\ size = x[3] /\ count = y[3]
    <3>1. a.pad[4] \in Int
      BY <1>4, <1>5
    <3> QED BY <2>2, <3>1
  <2>4. /\ 0 <= o /\ o < count /\ 0 < s /\ 0 <= before /\ before < k /\ after < k /\ 0 < size
        /\ (count - 1) * s <= size + before + after - k
    BY <2>1, <2>2, <2>3
  <2>5. \E t \in Nat : t < k /\ 0 <= o * s - before + t /\ o * s - before + t < size
    BY <2>4, WindowReaches
  <2> QED BY <2>3, <2>5
<1> DEFINE t == <<t1, t2>>
<1>9. t \in Tuples(op.attrs.kernel)
  <2>1. t \in [1 .. 2 -> Nat] /\ t[1] = t1 /\ t[2] = t2
    OBVIOUS
  <2> QED BY <1>7, <1>8, <2>1, PoolTapsAre DEF a
<1>10. PoolValid(op, in, iv, t)
  <2>1. t[1] * 1 = t1 /\ t[2] * 1 = t2
    OBVIOUS
  <2>2. InputAt(iv, op.attrs.pad, op.attrs.stride, <<1, 1>>, t[1], t[2])
           = <<iv[2] * a.stride[1] - a.pad[1] + t1, iv[3] * a.stride[2] - a.pad[3] + t2>>
    BY <2>1 DEF InputAt, a
  <2> QED BY <1>7, <1>8, <2>2 DEF PoolValid, PoolInput, IsValid, x
<1> QED BY <1>9, <1>10

(* What a loop nest stores is an integer.                                    *)
LEMMA BodyIsInteger ==
    ASSUME NEW p, NEW op, NEW in, Ready(p, op, in), NEW iv \in Iterations(op, in)
    PROVE  Body(op, in, iv) \in Int
<1>0. op.kind \in LoopKinds
  BY DEF Ready, SameOp
<1>r. \A k, idx : <<k, idx>> \in Reads(op, in, iv) => Load(in[k], idx) \in Int
  BY ReadsAreIntegers
<1>1. CASE op.kind = "conv2d"
  <2> DEFINE product(t) == IF ConvValid(op, in, iv, t)
                      THEN Load(in[1], ConvInput(op, iv, t)) * Load(in[2], ConvWeight(iv, t))
                      ELSE 0
             f == [t \in ConvTaps(op, in) |-> product(t)]
  <2>1. \A t \in ConvTaps(op, in) : product(t) \in Int
    <3> SUFFICES ASSUME NEW t \in ConvTaps(op, in), ConvValid(op, in, iv, t)
                 PROVE  Load(in[1], ConvInput(op, iv, t)) * Load(in[2], ConvWeight(iv, t)) \in Int
      OBVIOUS
    <3>1. Load(in[1], ConvInput(op, iv, t)) \in Int /\ Load(in[2], ConvWeight(iv, t)) \in Int
      BY <1>1, <1>r, ConvReads
    <3> QED BY <3>1
  <2>2. IsFiniteSet(ConvTaps(op, in))
    BY <1>1, ConvTapsAre
  <2>3. f \in [ConvTaps(op, in) -> Int]
    <3> HIDE DEF product
    <3> QED BY <2>1
  <2>4. SumFunction(f) \in Int
    <3> HIDE DEF f
    <3> QED BY <2>2, <2>3, SumIsInt
  <2>5. Load(in[3], <<iv[4]>>) \in Int
    BY <1>1, <1>r, ConvReads
  <2>6. Body(op, in, iv) = Load(in[3], <<iv[4]>>) + SumFunction(f)
    BY <1>1 DEF Body, ConvBody
  <2> HIDE DEF f
  <2> QED BY <2>4, <2>5, <2>6
<1>2. CASE op.kind = "max_pool2d"
  <2> DEFINE Valid == {u \in Tuples(op.attrs.kernel) : PoolValid(op, in, iv, u)}
             cells == {Load(in[1], PoolInput(op, iv, t)) : t \in Valid}
             f == [t \in Valid |-> Load(in[1], PoolInput(op, iv, t))]
  <2>1. \A t \in Valid : <<1, PoolInput(op, iv, t)>> \in Reads(op, in, iv)
    BY <1>2 DEF Reads
  <2>2. cells \subseteq Int
    <3> HIDE DEF Valid
    <3> QED BY <1>r, <2>1
  <2>3. IsFiniteSet(Valid)
    <3>1. IsFiniteSet(Tuples(op.attrs.kernel))
      BY <1>2, PoolTapsAre
    <3> QED BY <3>1, FS_Subset
  <2>4. Valid # {}
    BY <1>2, PoolReaches
  <2>5. IsFiniteSet(cells) /\ cells # {}
    <3> HIDE DEF Valid
    <3>1. f \in Surjection(Valid, cells)
      BY DEF Surjection
    <3> HIDE DEF f, cells
    <3>2. IsFiniteSet(cells)
      BY <2>3, <3>1, FS_Surjection
    <3> QED BY <2>4, <3>2 DEF cells
  <2>6. Body(op, in, iv) = Max(cells)
    <3>1. Body(op, in, iv) = PoolBody(op, in, iv)
      BY <1>2 DEF Body
    <3>2. PoolBody(op, in, iv) = IF cells = {} THEN Lowest ELSE Max(cells)
      BY DEF PoolBody
    <3> HIDE DEF cells
    <3> QED BY <2>5, <3>1, <3>2
  <2> HIDE DEF cells
  <2> QED BY <2>2, <2>5, <2>6, MaxOfFinite
<1>3. CASE op.kind = "matmul"
  <2> DEFINE term(k) == Load(in[1], <<iv[1], iv[2], k>>) * Load(in[2], <<iv[1], k, iv[3]>>)
             K == 0 .. (in[1].shape[3] - 1)
             f == [k \in K |-> term(k)]
  <2>1. \A k \in K : <<1, <<iv[1], iv[2], k>>>> \in Reads(op, in, iv)
                     /\ <<2, <<iv[1], k, iv[3]>>>> \in Reads(op, in, iv)
    <3>1. Reads(op, in, iv) = UNION {{<<1, <<iv[1], iv[2], k>>>>, <<2, <<iv[1], k, iv[3]>>>>} : k \in K}
      BY <1>3 DEF Reads
    <3> HIDE DEF K
    <3> QED BY <3>1
  <2>2. IsFiniteSet(K)
    <3>1. 1 \in DOMAIN in /\ Len(in[1].shape) = 3
      <4>1. MatmulFits(p, op, in)
        BY <1>3, MatmulReady
      <4> QED BY <4>1 DEF MatmulFits
    <3>2. in[1].shape[3] \in Int
      <4>1. in[1].shape \in Seq(Positive)
        BY <3>1, ReadyShapes
      <4> QED BY <3>1, <4>1 DEF Positive
    <3> QED BY <3>2, FS_Interval
  <2> HIDE DEF K
  <2>3. \A k \in K : term(k) \in Int
    <3> SUFFICES ASSUME NEW k \in K PROVE term(k) \in Int
      OBVIOUS
    <3>1. Load(in[1], <<iv[1], iv[2], k>>) \in Int /\ Load(in[2], <<iv[1], k, iv[3]>>) \in Int
      BY <1>r, <2>1
    <3> QED BY <3>1
  <2>4. f \in [K -> Int]
    <3> HIDE DEF term
    <3> QED BY <2>3
  <2>5. SumFunction(f) \in Int
    <3> HIDE DEF f
    <3> QED BY <2>2, <2>4, SumIsInt
  <2>6. Body(op, in, iv) = SumFunction(f)
    BY <1>3 DEF Body, MatmulBody, K
  <2> QED BY <2>5, <2>6
<1>4. CASE op.kind = "add"
  <2>1. <<1, BroadcastIndices(in[1], iv)>> \in Reads(op, in, iv)
        /\ <<2, BroadcastIndices(in[2], iv)>> \in Reads(op, in, iv)
    <3>1. Reads(op, in, iv) = {<<i, BroadcastIndices(in[i], iv)>> : i \in 1 .. 2}
      BY <1>4 DEF Reads
    <3> QED BY <3>1
  <2>2. Load(in[1], BroadcastIndices(in[1], iv)) \in Int /\ Load(in[2], BroadcastIndices(in[2], iv)) \in Int
    BY <1>r, <2>1
  <2> QED BY <1>4, <2>2 DEF Body
<1>5. CASE op.kind = "clamp"
  <2>1. Load(in[1], iv) \in Int
    <3>1. <<1, iv>> \in Reads(op, in, iv)
      BY <1>5 DEF Reads
    <3> QED BY <1>r, <3>1
  <2>2. op.attrs.min \in Int /\ op.attrs.max \in Int
    <3>1. ClampFits(p, op, in)
      BY <1>5, ClampReady
    <3> QED BY <3>1 DEF ClampFits
  <2> QED BY <1>5, <2>1, <2>2 DEF Body, ClampBody
<1>6. CASE op.kind = "transpose"
  <2>1. <<1, iv>> \in Reads(op, in, iv)
    BY <1>6 DEF Reads
  <2> QED BY <1>6, <1>r, <2>1 DEF Body
<1> QED BY <1>0, <1>1, <1>2, <1>3, <1>4, <1>5, <1>6 DEF LoopKinds

-----------------------------------------------------------------------------
(* A value already computed: what its memref holds, given its operands.      *)
Computed(op, m, in) ==
    /\ m.shape = op.shape /\ IsOperand(m)
    /\ op.kind \in Bound => \A o \in DOMAIN m.cells : m.cells[o] = op.data[o + 1]
    /\ op.kind = "reshape" => m.cells = in[1].cells
    /\ op.kind \in LoopKinds =>
          \A iv \in Iterations(op, in) : Load(m, StoreAt(op, iv)) = Body(op, in, iv)

(* The value being computed, when the iterations in `some` have run.         *)
Filled(op, m, in, some) ==
    /\ m.shape = op.shape /\ IsRowMajor(m)
    /\ DOMAIN m.cells = 0 .. (Product(m.shape) - 1)
    /\ some \subseteq Iterations(op, in)
    /\ \A iv \in some : Load(m, StoreAt(op, iv)) = Body(op, in, iv)

(* The place of a cell is decided by the shape and the strides alone.        *)
LEMMA OffsetOfView ==
    ASSUME NEW m, NEW w, IsRowMajor(m), w.shape = m.shape, w.strides = m.strides,
           NEW idx \in Tuples(m.shape)
    PROVE  Offset(w, idx) = Offset(m, idx)
<1>1. IsRowMajor(w) /\ m.shape \in Seq(Positive)
  BY DEF IsRowMajor
<1>2. idx \in [1 .. Len(m.shape) -> Int]
  <2>1. idx \in [1 .. Len(m.shape) -> Nat]
    BY <1>1, TuplesOf
  <2> QED BY <2>1
<1>3. PICK g : Partial(m.shape, idx, g)
  BY <1>1, <1>2, PartialExists
<1>4. Offset(m, idx) = g[1]
  BY <1>2, <1>3, OffsetIs
<1>5. Offset(w, idx) = g[1]
  BY <1>1, <1>2, <1>3, OffsetIs
<1> QED BY <1>4, <1>5

(* One iteration stores its value and disturbs no other's.                   *)
LEMMA FilledStep ==
    ASSUME NEW p, NEW op, NEW in, Ready(p, op, in), NEW m, NEW some, Filled(op, m, in, some),
           NEW iv \in Iterations(op, in), NEW w,
           w.shape = m.shape, w.strides = m.strides,
           w.cells = [m.cells EXCEPT ![Offset(m, StoreAt(op, iv))] = Body(op, in, iv)]
    PROVE  Filled(op, w, in, some \union {iv})
<1>1. IsRowMajor(m) /\ IsRowMajor(w) /\ w.shape = op.shape /\ m.shape = op.shape
  BY DEF Filled, IsRowMajor
<1>2. DOMAIN w.cells = DOMAIN m.cells /\ DOMAIN m.cells = 0 .. (Product(m.shape) - 1)
  BY DEF Filled
<1>3. ASSUME NEW jv \in Iterations(op, in)
      PROVE  /\ StoreAt(op, jv) \in Tuples(m.shape)
             /\ Offset(w, StoreAt(op, jv)) = Offset(m, StoreAt(op, jv))
             /\ Offset(m, StoreAt(op, jv)) \in DOMAIN m.cells
  <2>1. StoreAt(op, jv) \in Tuples(m.shape)
    BY <1>1, StoresCoverResult
  <2>2. Offset(m, StoreAt(op, jv)) \in DOMAIN m.cells
    BY <1>1, <1>2, <2>1, OffsetInRange
  <2>3. Offset(w, StoreAt(op, jv)) = Offset(m, StoreAt(op, jv))
    BY <1>1, <2>1, OffsetOfView
  <2> QED BY <2>1, <2>2, <2>3
<1>4. Load(w, StoreAt(op, iv)) = Body(op, in, iv)
  BY <1>2, <1>3 DEF Load
<1>5. ASSUME NEW jv \in some, jv # iv
      PROVE  Load(w, StoreAt(op, jv)) = Body(op, in, jv)
  <2>1. jv \in Iterations(op, in) /\ Load(m, StoreAt(op, jv)) = Body(op, in, jv)
    BY DEF Filled
  <2>2. StoreAt(op, jv) # StoreAt(op, iv)
    BY <1>5, <2>1, StoresCoverResult
  <2>3. /\ StoreAt(op, jv) \in Tuples(m.shape) /\ StoreAt(op, iv) \in Tuples(m.shape)
        /\ Offset(w, StoreAt(op, jv)) = Offset(m, StoreAt(op, jv))
        /\ Offset(m, StoreAt(op, jv)) \in DOMAIN m.cells
    BY <1>3, <2>1
  <2>4. Offset(m, StoreAt(op, jv)) # Offset(m, StoreAt(op, iv))
    BY <1>1, <2>2, <2>3, OffsetInjective
  <2> QED BY <1>2, <2>1, <2>3, <2>4 DEF Load
<1>6. some \union {iv} \subseteq Iterations(op, in)
  BY DEF Filled
<1> QED BY <1>1, <1>2, <1>4, <1>5, <1>6 DEF Filled

(* When every iteration has run, every cell is written.                      *)
LEMMA FilledIsComputed ==
    ASSUME NEW p, NEW op, NEW in, Ready(p, op, in), NEW m, Filled(op, m, in, Iterations(op, in))
    PROVE  Computed(op, m, in)
<1>1. /\ IsRowMajor(m) /\ m.shape = op.shape /\ DOMAIN m.cells = 0 .. (Product(m.shape) - 1)
      /\ \A iv \in Iterations(op, in) : Load(m, StoreAt(op, iv)) = Body(op, in, iv)
  BY DEF Filled
<1>2. ASSUME NEW o \in DOMAIN m.cells PROVE m.cells[o] \in Int
  <2>1. PICK idx \in Tuples(m.shape) : Offset(m, idx) = o
    BY <1>1, OffsetOnto
  <2>2. PICK iv \in Iterations(op, in) : StoreAt(op, iv) = idx
    BY <1>1, StoresCoverResult
  <2>3. Load(m, idx) = Body(op, in, iv) /\ Body(op, in, iv) \in Int
    BY <1>1, <2>2, BodyIsInteger
  <2> QED BY <2>1, <2>3 DEF Load
<1>3. IsOperand(m)
  BY <1>1, <1>2 DEF IsOperand
<1>4. op.kind \in LoopKinds
  BY DEF Ready, SameOp
<1>5. op.kind \notin Bound /\ op.kind # "reshape"
  BY <1>4 DEF LoopKinds, Bound, Constants
<1> QED BY <1>1, <1>3, <1>5 DEF Computed

(* A loop nest over operands in other buffers accesses memory safely.        *)
LEMMA LoopNestSafe ==
    ASSUME NEW p, NEW op, NEW in, Ready(p, op, in), NEW m, m.shape = op.shape,
           \A k \in DOMAIN in : in[k].buf # m.buf, NEW iv \in Iterations(op, in)
    PROVE  /\ Inside(m, StoreAt(op, iv))
           /\ \A r \in Reads(op, in, iv) : /\ Inside(in[r[1]], r[2])
                                           /\ Load(in[r[1]], r[2]) # Undef
                                           /\ in[r[1]].buf # m.buf
<1>1. ASSUME NEW w, w.shape \in Seq(Positive), NEW idx \in Tuples(w.shape)
      PROVE  Inside(w, idx)
  <2>1. ASSUME NEW d \in DOMAIN w.shape PROVE idx[d] \in 0 .. (w.shape[d] - 1)
    <3>1. d \in 1 .. Len(w.shape)
      BY <1>1
    <3>2. idx[d] \in Nat /\ idx[d] < w.shape[d] /\ w.shape[d] \in Nat
      BY <1>1, <3>1, IndexAt
    <3> QED BY <3>2
  <2> QED BY <2>1 DEF Inside
<1>2. Inside(m, StoreAt(op, iv))
  <2>1. m.shape \in Seq(Positive)
    BY ReadyShapes
  <2>2. StoreAt(op, iv) \in Tuples(m.shape)
    BY StoresCoverResult
  <2> QED BY <1>1, <2>1, <2>2
<1>3. ASSUME NEW r \in Reads(op, in, iv)
      PROVE  Inside(in[r[1]], r[2]) /\ Load(in[r[1]], r[2]) # Undef /\ in[r[1]].buf # m.buf
  <2>1. r[1] \in DOMAIN in /\ r[2] \in Tuples(in[r[1]].shape)
    BY ReadsInside
  <2>2. IsOperand(in[r[1]])
    BY <2>1 DEF Ready
  <2>3. in[r[1]].shape \in Seq(Positive)
    BY <2>1, ReadyShapes
  <2>4. Load(in[r[1]], r[2]) \in Int
    BY <2>1, <2>2, LoadOperand
  <2>5. Inside(in[r[1]], r[2])
    BY <1>1, <2>1, <2>3
  <2> QED BY <2>1, <2>4, <2>5, UndefAssumption
<1> QED BY <1>2, <1>3

-----------------------------------------------------------------------------
(* Sequences whose elements have no common type.                             *)
IsSeq(s) == s \in Seq(Range(s))

(* Append, for a sequence of anything.                                       *)
LEMMA AppendIsSeq ==
    ASSUME NEW s, IsSeq(s), NEW x
    PROVE  /\ IsSeq(Append(s, x)) /\ Len(Append(s, x)) = Len(s) + 1 /\ Len(s) \in Nat
           /\ DOMAIN s = 1 .. Len(s)
           /\ \A i \in 1 .. Len(s) : Append(s, x)[i] = s[i]
           /\ Append(s, x)[Len(s) + 1] = x
<1> DEFINE S == Range(s) \union {x}
           t == Append(s, x)
<1>1. s \in Seq(S) /\ Len(s) \in Nat /\ DOMAIN s = 1 .. Len(s)
  BY DEF IsSeq
<1>2. x \in S
  OBVIOUS
<1> HIDE DEF S
<1>3. /\ t \in Seq(S) /\ Len(t) = Len(s) + 1 /\ t[Len(s) + 1] = x
      /\ \A i \in 1 .. Len(s) : t[i] = s[i]
  BY <1>1, <1>2
<1> HIDE DEF t
<1>4. IsSeq(t)
  <2>1. \A i \in 1 .. Len(t) : t[i] \in Range(t)
    BY <1>3 DEF Range
  <2>2. t = [i \in 1 .. Len(t) |-> t[i]] /\ Len(t) \in Nat
    BY <1>3
  <2>3. t \in [1 .. Len(t) -> Range(t)]
    BY <2>1, <2>2
  <2> QED BY <2>2, <2>3 DEF IsSeq
<1> QED BY <1>1, <1>3, <1>4 DEF t

(* An update in place keeps a sequence and its length.                       *)
LEMMA UpdateIsSeq ==
    ASSUME NEW s, IsSeq(s), NEW t, DOMAIN t = DOMAIN s, t = [i \in DOMAIN t |-> t[i]]
    PROVE  IsSeq(t) /\ Len(t) = Len(s)
<1>1. Len(s) \in Nat /\ DOMAIN s = 1 .. Len(s)
  BY DEF IsSeq
<1>2. PICK n \in Nat : n = Len(s)
  BY <1>1
<1>3. \A i \in 1 .. n : t[i] \in Range(t)
  BY <1>1, <1>2 DEF Range
<1>4. t \in [1 .. n -> Range(t)]
  BY <1>1, <1>2, <1>3
<1>5. t \in Seq(Range(t)) /\ Len(t) = n
  BY <1>4
<1> QED BY <1>2, <1>5 DEF IsSeq

(* A fresh symbol exists: more numbers are tried than symbols are taken.     *)
LEMMA FreshIdIsFresh ==
    ASSUME NEW kind, NEW from \in Nat, IsFiniteSet(DOMAIN globals),
           Len(prog) \in Nat, Cardinality(DOMAIN globals) <= Len(prog)
    PROVE  FreshId(kind, from) \in Nat /\ <<kind, FreshId(kind, from)>> \notin Taken \union DOMAIN globals
<1> DEFINE U == Taken \union DOMAIN globals
           last == from + Cardinality(Taken) + Len(prog)
           K == from .. last
           F == {k \in K : <<kind, k>> \notin U}
           f == [k \in K |-> <<kind, k>>]
<1>1. Cardinality(Taken) \in Nat /\ Cardinality(DOMAIN globals) \in Nat
  BY TakenAssumption, FS_CardinalityType
<1>2. IsFiniteSet(U) /\ Cardinality(U) <= Cardinality(Taken) + Len(prog)
  <2>1. /\ IsFiniteSet(U)
        /\ Cardinality(U) = Cardinality(Taken) + Cardinality(DOMAIN globals)
                              - Cardinality(Taken \intersect DOMAIN globals)
    BY TakenAssumption, FS_Union
  <2>2. Cardinality(Taken \intersect DOMAIN globals) \in Nat
    BY TakenAssumption, FS_Intersection, FS_CardinalityType
  <2> HIDE DEF U
  <2> QED BY <1>1, <2>1, <2>2
<1>3. last \in Nat /\ from <= last /\ last - from + 1 > Cardinality(Taken) + Len(prog)
  BY <1>1
<1>4. IsFiniteSet(K) /\ Cardinality(K) = last - from + 1
  <2> HIDE DEF last
  <2>1. PICK hi \in Int : hi = last
    BY <1>3
  <2>2. IsFiniteSet(from .. hi) /\ Cardinality(from .. hi) = IF from > hi THEN 0 ELSE hi - from + 1
    BY FS_Interval
  <2> QED BY <1>3, <2>1, <2>2
<1>5. F # {}
  <2> SUFFICES ASSUME F = {} PROVE FALSE
    OBVIOUS
  <2>1. f \in Injection(K, U)
    <3>1. \A k \in K : <<kind, k>> \in U
      OBVIOUS
    <3> HIDE DEF K, U
    <3>2. f \in [K -> U]
      BY <3>1
    <3>3. \A a, b \in K : f[a] = f[b] => a = b
      OBVIOUS
    <3> QED BY <3>2, <3>3 DEF Injection, IsInjective
  <2> HIDE DEF f, K, U
  <2>2. Cardinality(K) <= Cardinality(U)
    BY <1>2, <2>1, FS_Injection
  <2>3. Cardinality(U) \in Nat
    BY <1>2, FS_CardinalityType
  <2> HIDE DEF last
  <2> QED BY <1>1, <1>2, <1>3, <1>4, <2>2, <2>3
<1>6. F \subseteq Nat
  BY <1>3
<1>7. FreshId(kind, from) = Min(F)
  BY DEF FreshId
<1> HIDE DEF F
<1>8. Min(F) \in F
  BY <1>5, <1>6, MinOfNats
<1> QED BY <1>6, <1>7, <1>8 DEF F

-----------------------------------------------------------------------------
(* The inductive invariant.  The conversion keeps the operations in place;   *)
(* every constant converted has a global of its own; every value computed    *)
(* holds what its loop nest stores, and lives in no buffer written later.    *)
Started == phase \in {"running", "done"}
Writing == Started /\ Len(env) = at

CodeInv ==
    /\ prog \in Programs
    /\ phase \in {"tosa", "npu", "running", "done", "failed"}
    /\ at \in 1 .. (Len(prog) + 1)
    /\ IsSeq(code) /\ Len(code) <= Len(prog)
    /\ phase = "tosa" => Len(code) = at - 1
    /\ phase \in {"npu", "running", "done"} => Len(code) = Len(prog)
    /\ phase = "done" => at = Len(prog) + 1
    /\ \A i \in 1 .. Len(code) : prog[i].kind \in Supported /\ SameOp(code[i], prog[i])

Emitted ==
    {i \in 1 .. Len(code) : /\ code[i].kind \in Constants
                            /\ Started \/ (phase = "npu" /\ i < at)}
GlobalsInv ==
    /\ DOMAIN globals \intersect Taken = {}
    /\ next \in [Constants -> Nat]
    /\ \A s \in DOMAIN globals : \E i \in Emitted : code[i].symbol = s
    /\ \A i \in Emitted : /\ code[i].symbol \in DOMAIN globals
                          /\ globals[code[i].symbol] = code[i].data
    /\ \A i, j \in Emitted : code[i].symbol = code[j].symbol => i = j

EnvInv ==
    /\ IsSeq(env) /\ IsSeq(mem)
    /\ ~Started => env = << >> /\ mem = << >> /\ done = {}
    /\ Started => Len(env) \in {at - 1, at}
    /\ Started /\ ~Writing => done = {}
    /\ Writing => phase = "running" /\ at <= Len(code) /\ code[at].kind \in LoopKinds
    /\ \A i \in DOMAIN env : env[i].buf \in DOMAIN mem

ValuesInv ==
    Started => \A i \in 1 .. (at - 1) : Computed(code[i], Memref(i), Operands(code[i]))

WriteInv ==
    Writing => /\ Filled(code[at], Memref(at), Operands(code[at]), done)
               /\ \A i \in 1 .. (at - 1) : env[i].buf # env[at].buf

Inv == CodeInv /\ GlobalsInv /\ EnvInv /\ ValuesInv /\ WriteInv

(* What ProgramsAssumption says of the function being lowered.               *)
LEMMA ProgramFacts ==
    ASSUME prog \in Programs
    PROVE  /\ IsSeq(prog) /\ Len(prog) \in Nat /\ DOMAIN prog = 1 .. Len(prog)
           /\ \A i \in 1 .. Len(prog) :
                 /\ DOMAIN prog[i] = OpFields
                 /\ prog[i].shape \in Seq(Positive)
                 /\ prog[i].args \in Seq(1 .. (i - 1))
                 /\ Verified(prog[i], [k \in DOMAIN prog[i].args |-> prog[prog[i].args[k]].shape])
<1>1. WellFormed(prog)
  BY ProgramsAssumption
<1>2. prog \in Seq(Range(prog))
  BY <1>1 DEF WellFormed
<1>3. Len(prog) \in Nat /\ DOMAIN prog = 1 .. Len(prog)
  BY <1>2
<1> QED BY <1>1, <1>2, <1>3 DEF WellFormed, IsSeq

(* The operand of an operation is an earlier value, of the operand's shape.  *)
LEMMA OperandIs ==
    ASSUME CodeInv, NEW i \in 1 .. Len(code), NEW k \in DOMAIN code[i].args
    PROVE  /\ code[i].args = prog[i].args /\ code[i].args[k] \in 1 .. (i - 1)
           /\ code[i].args[k] \in 1 .. Len(code)
           /\ code[code[i].args[k]].shape = prog[prog[i].args[k]].shape
           /\ Operands(code[i])[k] = Memref(code[i].args[k])
<1>1. /\ Len(code) \in Nat /\ Len(prog) \in Nat /\ i \in 1 .. Len(prog)
  BY ProgramFacts DEF CodeInv, IsSeq
<1>2. code[i].args = prog[i].args
  BY DEF CodeInv, SameOp
<1>3. prog[i].args \in Seq(1 .. (i - 1))
  BY <1>1, ProgramFacts DEF CodeInv
<1> DEFINE j == code[i].args[k]
<1>4. j \in 1 .. (i - 1)
  <2>1. k \in 1 .. Len(prog[i].args)
    BY <1>2, <1>3
  <2> QED BY <1>2, <1>3, <2>1
<1>5. j \in 1 .. Len(code)
  BY <1>1, <1>4
<1>6. code[j].shape = prog[j].shape
  <2> HIDE DEF j
  <2> QED BY <1>5 DEF CodeInv, SameOp
<1>7. Operands(code[i])[k] = Memref(j)
  BY DEF Operands
<1> QED BY <1>2, <1>4, <1>5, <1>6, <1>7

(* The operands of the current operation are computed and verified.          *)
LEMMA OperandsReady ==
    ASSUME CodeInv, ValuesInv, Started, NEW i \in 1 .. Len(code), i <= at,
           code[i].kind \in LoopKinds
    PROVE  Ready(prog[i], code[i], Operands(code[i]))
<1> DEFINE in == Operands(code[i])
<1>1. /\ Len(code) \in Nat /\ Len(prog) \in Nat /\ i \in 1 .. Len(prog) /\ at \in Nat
  BY ProgramFacts DEF CodeInv, IsSeq
<1>2. SameOp(code[i], prog[i]) /\ code[i].kind = prog[i].kind /\ code[i].args = prog[i].args
  BY DEF CodeInv, SameOp
<1>3. prog[i].shape \in Seq(Positive) /\ prog[i].args \in Seq(1 .. (i - 1))
      /\ Verified(prog[i], [k \in DOMAIN prog[i].args |-> prog[prog[i].args[k]].shape])
  BY <1>1, ProgramFacts DEF CodeInv
<1>4. DOMAIN in = DOMAIN prog[i].args
  BY <1>2 DEF Operands
<1>5. \E n \in Nat : DOMAIN in = 1 .. n
  BY <1>3, <1>4
<1>6. ASSUME NEW k \in DOMAIN in
      PROVE  in[k].shape = prog[prog[i].args[k]].shape /\ IsOperand(in[k])
  <2>1. k \in DOMAIN code[i].args
    BY <1>2, <1>4
  <2>2. PICK j : j = code[i].args[k]
    OBVIOUS
  <2>3. /\ j \in 1 .. (i - 1) /\ j \in 1 .. Len(code) /\ code[j].shape = prog[prog[i].args[k]].shape
        /\ in[k] = Memref(j)
    BY <2>1, <2>2, OperandIs
  <2>4. j \in 1 .. (at - 1)
    BY <1>1, <2>3
  <2>5. Computed(code[j], Memref(j), Operands(code[j]))
    BY <2>4 DEF ValuesInv
  <2> HIDE DEF in
  <2> QED BY <2>3, <2>5 DEF Computed
<1> HIDE DEF in
<1>7. [k \in DOMAIN in |-> in[k].shape] = [k \in DOMAIN prog[i].args |-> prog[prog[i].args[k]].shape]
  BY <1>4, <1>6
<1> QED BY <1>2, <1>3, <1>5, <1>6, <1>7 DEF Ready, in

(* The invariant gives the properties. *)
LEMMA EmittedFacts ==
    ASSUME CodeInv, GlobalsInv
    PROVE  /\ IsFiniteSet(DOMAIN globals)
           /\ Cardinality(DOMAIN globals) = Cardinality(Emitted)
           /\ Cardinality(DOMAIN globals) <= Len(prog)
<1> DEFINE f == [i \in Emitted |-> code[i].symbol]
<1>1. Len(code) \in Nat /\ Len(prog) \in Nat /\ Len(code) <= Len(prog)
  BY ProgramFacts DEF CodeInv, IsSeq
<1>2. IsFiniteSet(1 .. Len(code)) /\ Cardinality(1 .. Len(code)) = Len(code)
  <2>1. PICK n \in Nat : n = Len(code)
    BY <1>1
  <2>2. IsFiniteSet(1 .. n) /\ Cardinality(1 .. n) = n
    BY FS_Interval
  <2> QED BY <2>1, <2>2
<1>3. Emitted \subseteq 1 .. Len(code)
  BY DEF Emitted
<1>4. IsFiniteSet(Emitted) /\ Cardinality(Emitted) <= Len(code)
  BY <1>2, <1>3, FS_Subset
<1>5. f \in Surjection(Emitted, DOMAIN globals)
  <2>1. f \in [Emitted -> DOMAIN globals]
    BY DEF GlobalsInv
  <2>2. \A s \in DOMAIN globals : \E i \in Emitted : f[i] = s
    BY DEF GlobalsInv
  <2> QED BY <2>1, <2>2 DEF Surjection
<1>6. f \in Injection(Emitted, DOMAIN globals)
  <2>1. \A i, j \in Emitted : f[i] = f[j] => i = j
    BY DEF GlobalsInv
  <2> QED BY <1>5, <2>1 DEF Surjection, Injection, IsInjective
<1> HIDE DEF f
<1>7. /\ IsFiniteSet(DOMAIN globals) /\ Cardinality(DOMAIN globals) = Cardinality(Emitted)
  BY <1>4, <1>5, <1>6, FS_Surjection
<1>8. Cardinality(Emitted) \in Nat
  BY <1>4, FS_CardinalityType
<1> QED BY <1>1, <1>4, <1>7, <1>8

(* The invariant implies the type invariant: one global per constant.        *)
LEMMA InvTypeOK == Inv => TypeOK
<1> SUFFICES ASSUME Inv PROVE TypeOK
  OBVIOUS
<1>1. ASSUME phase \in {"running", "done"}
      PROVE  Cardinality(DOMAIN globals) =
                Cardinality({i \in DOMAIN code : code[i].kind \in Constants})
  <2>1. Emitted = {i \in DOMAIN code : code[i].kind \in Constants}
    <3>1. DOMAIN code = 1 .. Len(code)
      BY DEF Inv, CodeInv, IsSeq
    <3> QED BY <1>1, <3>1 DEF Emitted, Started
  <2> QED BY <2>1, EmittedFacts DEF Inv
<1>2. DOMAIN globals \intersect Taken = {}
  BY DEF Inv, GlobalsInv
<1>3. phase \in {"tosa", "npu", "running", "done", "failed"} /\ at \in 1 .. (Len(prog) + 1)
  BY DEF Inv, CodeInv
<1>4. phase \in {"running", "done"} =>
          Len(env) \in {at - 1, at} /\ \A i \in DOMAIN env : env[i].buf \in DOMAIN mem
  BY DEF Inv, EnvInv, Started
<1> QED BY <1>1, <1>2, <1>3, <1>4 DEF TypeOK

(* The invariant makes every iteration still to run a safe one.              *)
LEMMA InvAccessesSafe == Inv => AccessesSafe
<1> SUFFICES ASSUME Inv, phase = "running", at <= Len(code), Len(env) = at, code[at].kind \in LoopKinds
             PROVE  LET op == code[at]
                        in == Operands(op)
                        pending == Iterations(op, in) \ done
                    IN  /\ \A iv \in pending :
                              /\ Inside(env[at], StoreAt(op, iv))
                              /\ \A r \in Reads(op, in, iv) : /\ Inside(in[r[1]], r[2])
                                                              /\ Load(in[r[1]], r[2]) # Undef
                                                              /\ in[r[1]].buf # env[at].buf
                        /\ Cardinality({StoreAt(op, iv) : iv \in pending}) = Cardinality(pending)
  BY DEF AccessesSafe
<1> DEFINE op == code[at]
           in == Operands(op)
           pending == Iterations(op, in) \ done
           m == Memref(at)
<1>0. Started /\ Writing /\ at \in 1 .. Len(code) /\ at \in Nat
  BY ProgramFacts DEF Inv, CodeInv, IsSeq, Started, Writing
<1>1. Ready(prog[at], op, in)
  BY <1>0, OperandsReady DEF Inv
<1>2. Filled(op, m, in, done) /\ \A i \in 1 .. (at - 1) : env[i].buf # env[at].buf
  BY <1>0 DEF Inv, WriteInv
<1>3. m.shape = env[at].shape /\ m.buf = env[at].buf
  BY DEF Memref
<1>4. \A k \in DOMAIN in : in[k].buf # m.buf
  <2> SUFFICES ASSUME NEW k \in DOMAIN in PROVE in[k].buf # m.buf
    OBVIOUS
  <2>1. k \in DOMAIN op.args
    BY DEF Operands
  <2>2. PICK j : j = op.args[k]
    OBVIOUS
  <2>3. j \in 1 .. (at - 1) /\ in[k] = Memref(j)
    BY <1>0, <2>1, <2>2, OperandIs DEF Inv
  <2>4. Memref(j).buf = env[j].buf
    BY DEF Memref
  <2> QED BY <1>2, <1>3, <2>3, <2>4
<1>5. m.shape = op.shape
  BY <1>2 DEF Filled
<1> HIDE DEF op, in, m
<1>6. ASSUME NEW iv \in Iterations(op, in)
      PROVE  /\ Inside(env[at], StoreAt(op, iv))
             /\ \A r \in Reads(op, in, iv) : /\ Inside(in[r[1]], r[2])
                                             /\ Load(in[r[1]], r[2]) # Undef
                                             /\ in[r[1]].buf # env[at].buf
  <2>1. /\ Inside(m, StoreAt(op, iv))
        /\ \A r \in Reads(op, in, iv) : /\ Inside(in[r[1]], r[2])
                                        /\ Load(in[r[1]], r[2]) # Undef
                                        /\ in[r[1]].buf # m.buf
    BY <1>1, <1>4, <1>5, LoopNestSafe
  <2>2. Inside(m, StoreAt(op, iv)) = Inside(env[at], StoreAt(op, iv))
    BY <1>3 DEF Inside
  <2> QED BY <1>3, <2>1, <2>2
<1>7. Cardinality({StoreAt(op, iv) : iv \in pending}) = Cardinality(pending)
  <2> DEFINE T == {StoreAt(op, iv) : iv \in pending}
             f == [iv \in pending |-> StoreAt(op, iv)]
  <2>1. IsFiniteSet(Iterations(op, in))
    <3> DEFINE g == [iv \in Iterations(op, in) |-> StoreAt(op, iv)]
    <3>1. g \in Injection(Iterations(op, in), Tuples(op.shape))
      <4>1. \A iv \in Iterations(op, in) : g[iv] = StoreAt(op, iv) /\ g[iv] \in Tuples(op.shape)
        BY <1>1, StoresCoverResult
      <4>2. \A iv, jv \in Iterations(op, in) : g[iv] = g[jv] => iv = jv
        BY <1>1, <4>1, StoresCoverResult
      <4>3. g \in [Iterations(op, in) -> Tuples(op.shape)]
        BY <4>1
      <4> QED BY <4>2, <4>3 DEF Injection, IsInjective
    <3>2. IsFiniteSet(Tuples(op.shape))
      <4> DEFINE w == View(1, op.shape)
      <4>1. IsRowMajor(w) /\ w.shape = op.shape
        BY <1>1, ReadyShapes DEF View, IsRowMajor
      <4> HIDE DEF w
      <4>2. CASE Tuples(op.shape) = {}
        BY <4>2, FS_EmptySet
      <4>3. ASSUME NEW i \in Tuples(op.shape) PROVE IsFiniteSet(Tuples(op.shape))
        BY <4>1, <4>3, RankIsOffset
      <4> QED BY <4>2, <4>3
    <3> HIDE DEF g
    <3> QED BY <3>1, <3>2, FS_Injection
  <2>2. IsFiniteSet(pending) /\ pending \subseteq Iterations(op, in)
    BY <2>1, FS_Subset
  <2> HIDE DEF pending
  <2>3. \A iv, jv \in pending : StoreAt(op, iv) = StoreAt(op, jv) => iv = jv
    BY <1>1, <2>2, StoresCoverResult
  <2>4. f \in Surjection(pending, T)
    BY DEF Surjection
  <2>5. f \in Injection(pending, T)
    BY <2>3, <2>4 DEF Surjection, Injection, IsInjective
  <2> HIDE DEF f, T
  <2>6. Cardinality(T) = Cardinality(pending)
    BY <2>2, <2>4, <2>5, FS_Surjection
  <2> QED BY <2>6 DEF T
<1>8. \A iv \in pending : iv \in Iterations(op, in)
  OBVIOUS
<1> QED BY <1>6, <1>7, <1>8 DEF op, in

(* The invariant holds initially.                                            *)
LEMMA InitInv == Init => Inv
<1> SUFFICES ASSUME Init PROVE Inv
  OBVIOUS
<1>0. prog \in Programs /\ code = << >> /\ phase = "tosa" /\ at = 1 /\ globals = << >>
      /\ next = [const |-> 0, const_shape |-> 0] /\ env = << >> /\ mem = << >> /\ done = {}
  BY DEF Init
<1>1. IsSeq(<< >>) /\ Len(<< >>) = 0 /\ DOMAIN << >> = {}
  BY DEF IsSeq
<1>2. CodeInv
  BY <1>0, <1>1, ProgramFacts DEF CodeInv
<1>3. Emitted = {}
  BY <1>0, <1>1 DEF Emitted
<1>4. GlobalsInv
  <2>1. next \in [Constants -> Nat]
    BY <1>0 DEF Constants
  <2> QED BY <1>0, <1>1, <1>3, <2>1 DEF GlobalsInv
<1>5. ~Started
  BY <1>0 DEF Started
<1>6. EnvInv
  BY <1>0, <1>1, <1>5 DEF EnvInv, Writing
<1> QED BY <1>2, <1>4, <1>5, <1>6 DEF Inv, ValuesInv, WriteInv, Writing

(* Before the function runs there are no values. *)
LEMMA NotStarted ==
    ASSUME EnvInv, ~Started, ~Started', UNCHANGED <<env, mem, done>>
    PROVE  EnvInv' /\ ValuesInv' /\ WriteInv'
BY DEF EnvInv, ValuesInv, WriteInv, Writing

(* The conversion to npu: the operation keeps all but its attributes. *)
LEMMA ToNpuInv == Inv /\ ToNpu => Inv'
<1> SUFFICES ASSUME Inv, ToNpu PROVE Inv'
  OBVIOUS
<1> USE DEF Inv
<1>1. ~Started /\ ~Started' /\ UNCHANGED <<env, mem, done>>
  BY DEF ToNpu, Started
<1>2. CodeInv'
  <2>1. CASE prog[at].kind \in Supported
    <3> DEFINE op == [prog[at] EXCEPT !.attrs = NpuAttrs(prog[at].kind, @)]
    <3>1. code' = Append(code, op) /\ at' = at + 1 /\ phase' = phase /\ prog' = prog /\ phase = "tosa"
          /\ at <= Len(prog)
      BY <2>1 DEF ToNpu
    <3>2. /\ IsSeq(code') /\ Len(code') = Len(code) + 1 /\ Len(code) \in Nat
          /\ \A i \in 1 .. Len(code) : code'[i] = code[i]
          /\ code'[Len(code) + 1] = op
      BY <3>1, AppendIsSeq DEF CodeInv
    <3>3. Len(code) = at - 1 /\ at \in Nat /\ Len(prog) \in Nat /\ at \in 1 .. Len(prog)
      BY <3>1, ProgramFacts DEF CodeInv
    <3>4. SameOp(op, prog[at])
      <4>1. DOMAIN prog[at] = OpFields
        BY <3>3, ProgramFacts DEF CodeInv
      <4> QED BY <4>1 DEF SameOp, OpFields
    <3> HIDE DEF op
    <3>5. \A i \in 1 .. Len(code') : prog[i].kind \in Supported /\ SameOp(code'[i], prog[i])
      BY <2>1, <3>2, <3>3, <3>4 DEF CodeInv
    <3> QED BY <3>1, <3>2, <3>3, <3>5 DEF CodeInv
  <2>2. CASE prog[at].kind \notin Supported
    BY <2>2 DEF ToNpu, CodeInv
  <2> QED BY <2>1, <2>2
<1>3. Emitted = {} /\ Emitted' = {}
  BY DEF Emitted, ToNpu, Started
<1>4. GlobalsInv'
  BY <1>3 DEF GlobalsInv, ToNpu
<1> QED BY <1>1, <1>2, <1>4, NotStarted

(* The first pattern set is done.                                            *)
LEMMA NpuDoneInv == Inv /\ NpuDone => Inv'
<1> SUFFICES ASSUME Inv, NpuDone PROVE Inv'
  OBVIOUS
<1> USE DEF Inv
<1>1. ~Started /\ ~Started' /\ UNCHANGED <<env, mem, done>>
  BY DEF NpuDone, Started
<1>2. CodeInv'
  <2>1. Len(code) \in Nat /\ Len(prog) \in Nat
    BY ProgramFacts DEF CodeInv, IsSeq
  <2> QED BY <2>1 DEF NpuDone, CodeInv
<1>3. Emitted = {} /\ Emitted' = {}
  BY DEF Emitted, NpuDone, Started
<1>4. GlobalsInv'
  BY <1>3 DEF GlobalsInv, NpuDone
<1> QED BY <1>1, <1>2, <1>4, NotStarted

(* An operation that is no constant keeps its place.                         *)
LEMMA OpToLoopsInv == Inv /\ OpToLoops => Inv'
<1> SUFFICES ASSUME Inv, OpToLoops PROVE Inv'
  OBVIOUS
<1> USE DEF Inv
<1>1. ~Started /\ ~Started' /\ UNCHANGED <<env, mem, done>>
  BY DEF OpToLoops, Started
<1>2. Len(code) \in Nat /\ Len(prog) \in Nat /\ Len(code) = Len(prog) /\ at \in Nat
  BY ProgramFacts DEF CodeInv, IsSeq, OpToLoops
<1>3. CodeInv'
  BY <1>2 DEF OpToLoops, CodeInv
<1>4. Emitted' = Emitted
  BY <1>1, <1>2 DEF Emitted, OpToLoops
<1>5. GlobalsInv'
  BY <1>4 DEF GlobalsInv, OpToLoops
<1> QED BY <1>1, <1>3, <1>5, NotStarted

(* The second pattern set is done; the function starts.                      *)
LEMMA LoopsDoneInv == Inv /\ LoopsDone => Inv'
<1> SUFFICES ASSUME Inv, LoopsDone PROVE Inv'
  OBVIOUS
<1> USE DEF Inv
<1>1. ~Started /\ Started' /\ UNCHANGED <<env, mem, done>> /\ at' = 1 /\ UNCHANGED <<prog, code, globals, next>>
  BY DEF LoopsDone, Started
<1>2. Len(code) \in Nat /\ Len(prog) \in Nat /\ Len(code) = Len(prog) /\ at \in Nat
  BY ProgramFacts DEF CodeInv, IsSeq, LoopsDone
<1>3. CodeInv'
  BY <1>2 DEF LoopsDone, CodeInv
<1>4. Emitted' = Emitted
  BY <1>1, <1>2 DEF Emitted, LoopsDone
<1>5. GlobalsInv'
  BY <1>4 DEF GlobalsInv, LoopsDone
<1>6. env = << >> /\ done = {} /\ Len(<< >>) = 0
  BY <1>1 DEF EnvInv
<1>7. ~Writing' /\ Len(env') = 0
  BY <1>1, <1>6 DEF Writing
<1>8. EnvInv'
  BY <1>1, <1>6, <1>7 DEF EnvInv
<1> QED BY <1>1, <1>3, <1>5, <1>7, <1>8 DEF ValuesInv, WriteInv

(* A constant becomes a global under a symbol that nothing has yet. *)
LEMMA ConstantToGlobalInv == Inv /\ ConstantToGlobal => Inv'
<1> SUFFICES ASSUME Inv, ConstantToGlobal PROVE Inv'
  OBVIOUS
<1> USE DEF Inv
<1>1. ~Started /\ ~Started' /\ UNCHANGED <<env, mem, done>>
  BY DEF ConstantToGlobal, Started
<1>2. Len(code) \in Nat /\ Len(prog) \in Nat /\ Len(code) = Len(prog) /\ at \in 1 .. Len(code)
      /\ DOMAIN code = 1 .. Len(code)
  BY ProgramFacts DEF CodeInv, IsSeq, ConstantToGlobal
<1> DEFINE kind == code[at].kind
           k == FreshId(kind, next[kind])
           s == <<kind, k>>
<1>3. /\ phase = "npu" /\ phase' = phase /\ kind \in Constants /\ at' = at + 1 /\ prog' = prog
      /\ globals' = [r \in DOMAIN globals \union {s} |-> IF r = s THEN code[at].data ELSE globals[r]]
      /\ next' = [next EXCEPT ![kind] = k + 1]
      /\ code' = [code EXCEPT ![at].symbol = s]
  BY DEF ConstantToGlobal
<1>4. k \in Nat /\ s \notin Taken \union DOMAIN globals
  <2>1. next[kind] \in Nat
    BY <1>3 DEF GlobalsInv
  <2>2. IsFiniteSet(DOMAIN globals) /\ Cardinality(DOMAIN globals) <= Len(prog)
    BY EmittedFacts
  <2> QED BY <1>2, <2>1, <2>2, FreshIdIsFresh
<1> HIDE DEF k, s
<1>5. /\ IsSeq(code') /\ Len(code') = Len(code)
      /\ \A i \in 1 .. Len(code) : i # at => code'[i] = code[i]
      /\ code'[at] = [code[at] EXCEPT !.symbol = s]
  BY <1>2, <1>3, UpdateIsSeq DEF CodeInv
<1>6. DOMAIN code[at] = OpFields
  BY <1>2 DEF CodeInv, SameOp
<1>7. /\ code'[at].symbol = s /\ code'[at].kind = kind /\ code'[at].data = code[at].data
      /\ code'[at].args = code[at].args /\ code'[at].shape = code[at].shape
      /\ code'[at].attrs = code[at].attrs /\ DOMAIN code'[at] = OpFields
  BY <1>5, <1>6 DEF OpFields
<1>8. CodeInv'
  <2>1. \A i \in 1 .. Len(code) : prog[i].kind \in Supported /\ SameOp(code'[i], prog[i])
    <3> SUFFICES ASSUME NEW i \in 1 .. Len(code)
                 PROVE  prog[i].kind \in Supported /\ SameOp(code'[i], prog[i])
      OBVIOUS
    <3>1. prog[i].kind \in Supported /\ SameOp(code[i], prog[i])
      BY DEF CodeInv
    <3>2. CASE i # at
      BY <1>5, <3>1, <3>2
    <3>3. CASE i = at
      BY <1>7, <3>1, <3>3 DEF SameOp
    <3> QED BY <3>2, <3>3
  <2>2. prog' = prog /\ phase' = "npu" /\ at' \in 1 .. (Len(prog) + 1)
    BY <1>2, <1>3
  <2>3. prog \in Programs /\ Len(code) = Len(prog) /\ Len(prog) \in Nat
    BY <1>2 DEF CodeInv
  <2> QED BY <1>5, <2>1, <2>2, <2>3 DEF CodeInv
<1>9. Emitted' = Emitted \union {at} /\ at \notin Emitted
  <2>1. \A i \in 1 .. Len(code) : code'[i].kind = code[i].kind
    BY <1>5, <1>7
  <2>2. \A i \in 1 .. Len(code) : i < at + 1 <=> i < at \/ i = at
    BY <1>2
  <2>3. Emitted = {i \in 1 .. Len(code) : code[i].kind \in Constants /\ i < at}
    BY <1>1, <1>3 DEF Emitted
  <2>4. Emitted' = {i \in 1 .. Len(code) : code[i].kind \in Constants /\ i < at + 1}
    BY <1>1, <1>3, <1>5, <2>1 DEF Emitted
  <2> QED BY <1>2, <1>3, <2>2, <2>3, <2>4
<1>10. \A i \in Emitted : i \in 1 .. Len(code) /\ code'[i] = code[i]
  BY <1>5, <1>9 DEF Emitted
<1>11. GlobalsInv'
  <2>1. next' \in [Constants -> Nat]
    BY <1>3, <1>4 DEF GlobalsInv
  <2>2. DOMAIN globals' = DOMAIN globals \union {s} /\ globals'[s] = code[at].data
        /\ \A r \in DOMAIN globals : r # s /\ globals'[r] = globals[r]
    BY <1>3, <1>4
  <2>3. DOMAIN globals' \intersect Taken = {}
    BY <1>4, <2>2 DEF GlobalsInv
  <2>4. \A r \in DOMAIN globals' : \E i \in Emitted' : code'[i].symbol = r
    BY <1>7, <1>9, <1>10, <2>2 DEF GlobalsInv
  <2>5. \A i \in Emitted' : code'[i].symbol \in DOMAIN globals' /\ globals'[code'[i].symbol] = code'[i].data
    BY <1>7, <1>9, <1>10, <2>2 DEF GlobalsInv
  <2>6. \A i \in Emitted : code'[i].symbol # s
    BY <1>10, <2>2 DEF GlobalsInv
  <2>7. \A i, j \in Emitted' : code'[i].symbol = code'[j].symbol => i = j
    BY <1>7, <1>9, <1>10, <2>6 DEF GlobalsInv
  <2> QED BY <2>1, <2>3, <2>4, <2>5, <2>7 DEF GlobalsInv
<1> QED BY <1>1, <1>8, <1>11, NotStarted

(* Lengths while the function runs.                                          *)
LEMMA RunningFacts ==
    ASSUME Inv, phase = "running"
    PROVE  /\ Started /\ Len(code) \in Nat /\ Len(code) = Len(prog) /\ at \in Nat /\ at >= 1
           /\ at <= Len(code) + 1 /\ Len(env) \in {at - 1, at} /\ Len(env) \in Nat /\ Len(mem) \in Nat
           /\ DOMAIN env = 1 .. Len(env) /\ DOMAIN mem = 1 .. Len(mem)
<1>1. Started
  BY DEF Started
<1>2. Len(code) \in Nat /\ Len(code) = Len(prog) /\ at \in 1 .. (Len(prog) + 1)
  BY DEF Inv, CodeInv, IsSeq
<1>3. /\ Len(env) \in Nat /\ Len(mem) \in Nat
      /\ DOMAIN env = 1 .. Len(env) /\ DOMAIN mem = 1 .. Len(mem)
  BY DEF Inv, EnvInv, IsSeq
<1>4. Len(env) \in {at - 1, at}
  BY <1>1 DEF Inv, EnvInv
<1>5. at \in Nat /\ at >= 1 /\ at <= Len(code) + 1
  <2>1. at \in 1 .. (Len(code) + 1)
    BY <1>2
  <2> QED BY <1>2, <2>1
<1> QED BY <1>1, <1>2, <1>3, <1>4, <1>5

(* While the function runs, the code and its globals stay. *)
LEMMA CodeKept ==
    ASSUME Inv, phase = "running", phase' = "running", UNCHANGED <<prog, code, globals, next>>,
           at' \in {at, at + 1}, at <= Len(code)
    PROVE  CodeInv' /\ GlobalsInv' /\ Started'
<1>1. /\ Started /\ Started' /\ Len(code) \in Nat /\ Len(code) = Len(prog) /\ at \in Nat /\ at >= 1
  BY RunningFacts DEF Started
<1>2. at' \in 1 .. (Len(prog) + 1)
  BY <1>1
<1>3. CodeInv'
  BY <1>1, <1>2 DEF Inv, CodeInv
<1>4. Emitted' = Emitted
  BY <1>1 DEF Emitted
<1>5. GlobalsInv'
  BY <1>4 DEF Inv, GlobalsInv
<1> QED BY <1>1, <1>3, <1>5

(* A value whose buffer is not written keeps its cells,                      *)
LEMMA MemrefKept ==
    ASSUME NEW i, env'[i] = env[i], mem'[env[i].buf] = mem[env[i].buf]
    PROVE  Memref(i)' = Memref(i)
BY DEF Memref

(* so the operands of later operations keep theirs,                          *)
LEMMA OperandsKept ==
    ASSUME CodeInv, code' = code, NEW i \in 1 .. Len(code),
           \A j \in 1 .. (i - 1) : Memref(j)' = Memref(j)
    PROVE  Operands(code[i])' = Operands(code[i])
<1>1. ASSUME NEW k \in DOMAIN code[i].args PROVE Memref(code[i].args[k])' = Memref(code[i].args[k])
  <2>1. code[i].args[k] \in 1 .. (i - 1)
    BY OperandIs
  <2>2. PICK j : j = code[i].args[k]
    OBVIOUS
  <2>3. Memref(j)' = Memref(j)
    BY <2>1, <2>2
  <2> QED BY <2>2, <2>3 DEF Memref
<1> QED BY <1>1 DEF Operands

(* and every value computed stays computed.                                  *)
LEMMA ValuesKept ==
    ASSUME CodeInv, ValuesInv, Started, code' = code, at - 1 <= Len(code),
           \A j \in 1 .. (at - 1) : Memref(j)' = Memref(j)
    PROVE  \A i \in 1 .. (at - 1) : Computed(code'[i], Memref(i)', Operands(code[i])')
<1> SUFFICES ASSUME NEW i \in 1 .. (at - 1)
             PROVE  Computed(code'[i], Memref(i)', Operands(code[i])')
  OBVIOUS
<1>1. Len(code) \in Nat /\ at \in Nat
  BY ProgramFacts DEF CodeInv, IsSeq
<1>2. i \in 1 .. Len(code) /\ \A j \in 1 .. (i - 1) : j \in 1 .. (at - 1)
  BY <1>1
<1>3. Operands(code[i])' = Operands(code[i])
  BY <1>2, OperandsKept
<1>4. Computed(code[i], Memref(i), Operands(code[i]))
  BY DEF ValuesInv
<1> QED BY <1>3, <1>4

(* A new value is the last one of env; the buffers that were there stay.    *)
LEMMA ValueAdded ==
    ASSUME Inv, phase = "running", Len(env) = at - 1, NEW w, env' = Append(env, w),
           IsSeq(mem'), Len(mem') >= Len(mem), Len(mem') \in Nat,
           \A b \in DOMAIN mem : mem'[b] = mem[b], w.buf \in DOMAIN mem'
    PROVE  /\ IsSeq(env') /\ Len(env') = at /\ env'[at] = w
           /\ \A i \in DOMAIN env' : env'[i].buf \in DOMAIN mem'
           /\ \A i \in 1 .. (at - 1) : env'[i] = env[i] /\ env[i].buf \in DOMAIN mem
                                       /\ Memref(i)' = Memref(i)
<1>1. IsSeq(env) /\ at \in Nat /\ DOMAIN env = 1 .. (at - 1) /\ DOMAIN mem = 1 .. Len(mem)
      /\ Len(mem) \in Nat
  BY RunningFacts DEF Inv, EnvInv
<1>2. /\ IsSeq(env') /\ Len(env') = at /\ env'[at] = w
      /\ \A i \in 1 .. (at - 1) : env'[i] = env[i]
  BY <1>1, AppendIsSeq
<1>3. DOMAIN env' = 1 .. at /\ DOMAIN mem' = 1 .. Len(mem')
  BY <1>2 DEF IsSeq
<1>4. \A i \in 1 .. (at - 1) : env[i].buf \in DOMAIN mem
  BY <1>1 DEF Inv, EnvInv
<1>5. \A i \in 1 .. at : i \in 1 .. (at - 1) \/ i = at
  BY <1>1
<1>6. \A b \in DOMAIN mem : b \in DOMAIN mem'
  BY <1>1, <1>3
<1>7. \A i \in DOMAIN env' : env'[i].buf \in DOMAIN mem'
  BY <1>2, <1>3, <1>4, <1>5, <1>6
<1>8. \A i \in 1 .. (at - 1) : Memref(i)' = Memref(i)
  BY <1>2, <1>4, MemrefKept
<1> QED BY <1>2, <1>4, <1>7, <1>8

(* A value computed in one step. *)
LEMMA ValueDone ==
    ASSUME Inv, phase = "running", at <= Len(code), Len(env) = at - 1, NEW w, env' = Append(env, w),
           IsSeq(mem'), Len(mem') >= Len(mem), Len(mem') \in Nat,
           \A b \in DOMAIN mem : mem'[b] = mem[b], w.buf \in DOMAIN mem',
           UNCHANGED <<prog, code, phase, globals, next, done>>, at' = at + 1,
           NEW n, n = at, Computed(code[n], Memref(n)', Operands(code[n]))
    PROVE  Inv'
<1>1. /\ Started /\ at \in Nat /\ at >= 1 /\ Len(code) \in Nat
  BY RunningFacts
<1>2. CodeInv' /\ GlobalsInv' /\ Started'
  BY CodeKept
<1>3. /\ IsSeq(env') /\ Len(env') = at /\ env'[at] = w
      /\ \A i \in DOMAIN env' : env'[i].buf \in DOMAIN mem'
      /\ \A i \in 1 .. (at - 1) : Memref(i)' = Memref(i)
  BY ValueAdded
<1>4. ~Writing' /\ Len(env') = at' - 1
  BY <1>1, <1>3 DEF Writing
<1>5. done' = {}
  BY <1>1 DEF Inv, EnvInv, Writing
<1>6. EnvInv'
  BY <1>2, <1>3, <1>4, <1>5 DEF EnvInv
<1>7. ValuesInv'
  <2>1. \A i \in 1 .. (at - 1) : Computed(code'[i], Memref(i)', Operands(code[i])')
    BY <1>1, <1>3, ValuesKept DEF Inv
  <2>2. Operands(code[n])' = Operands(code[n])
    <3>1. n \in 1 .. Len(code)
      BY <1>1
    <3> QED BY <1>3, <3>1, OperandsKept DEF Inv
  <2>3. \A i \in 1 .. (at' - 1) : i \in 1 .. (at - 1) \/ i = n
    BY <1>1
  <2>4. Computed(code'[n], Memref(n)', Operands(code[n])')
    BY <2>2
  <2>5. ASSUME NEW i \in 1 .. (at' - 1) PROVE Computed(code[i], Memref(i), Operands(code[i]))'
    <3>1. CASE i \in 1 .. (at - 1)
      BY <2>1, <3>1
    <3>2. CASE i = n
      BY <2>4, <3>2
    <3> QED BY <2>3, <3>1, <3>2
  <2> QED BY <1>2, <2>5 DEF ValuesInv
<1> QED BY <1>2, <1>4, <1>6, <1>7 DEF Inv, WriteInv

(* A view made by the lowering is row-major.                                 *)
LEMMA ViewIs ==
    ASSUME NEW b, NEW shape \in Seq(Positive), NEW m, m.shape = View(b, shape).shape,
           m.strides = View(b, shape).strides
    PROVE  IsRowMajor(m) /\ m.shape = shape
BY DEF View, IsRowMajor

(* What an argument or a constant of the module holds. *)
LEMMA BoundData ==
    ASSUME Inv, Running(Bound)
    PROVE  LET op == code[at]
               data == IF op.kind = "arg" THEN op.data ELSE globals[op.symbol]
           IN  /\ data = op.data /\ data \in Seq(Int) /\ Len(data) = Product(op.shape)
               /\ op.shape \in Seq(Positive)
<1> DEFINE op == code[at]
<1>1. phase = "running" /\ at <= Len(code) /\ op.kind \in Bound
  BY DEF Running
<1>2. Started /\ at \in 1 .. Len(code) /\ at \in 1 .. Len(prog)
  BY <1>1, RunningFacts
<1>3. SameOp(op, prog[at])
  BY <1>2 DEF Inv, CodeInv
<1>4. op.kind = prog[at].kind /\ op.data = prog[at].data /\ op.shape = prog[at].shape
  BY <1>3 DEF SameOp
<1>5. prog[at].shape \in Seq(Positive)
      /\ \E in : Verified(prog[at], in)
  BY <1>2, ProgramFacts DEF Inv, CodeInv
<1>6. prog[at].data \in Seq(Int) /\ Len(prog[at].data) = Product(prog[at].shape)
  BY <1>1, <1>4, <1>5 DEF Verified
<1>7. op.kind # "arg" => globals[op.symbol] = op.data
  <2> SUFFICES ASSUME op.kind # "arg" PROVE globals[op.symbol] = op.data
    OBVIOUS
  <2>1. at \in Emitted
    BY <1>1, <1>2 DEF Emitted, Bound
  <2> QED BY <2>1 DEF Inv, GlobalsInv
<1> QED BY <1>4, <1>5, <1>6, <1>7

(* An argument or a global holds its data.                                   *)
LEMMA BindInv == Inv /\ Bind => Inv'
<1> SUFFICES ASSUME Inv, Bind PROVE Inv'
  OBVIOUS
<1> DEFINE op == code[at]
           data == IF op.kind = "arg" THEN op.data ELSE globals[op.symbol]
           cells == [i \in 0 .. (Len(data) - 1) |-> data[i + 1]]
           w == View(Len(mem) + 1, op.shape)
<1>1. /\ Running(Bound) /\ mem' = Append(mem, cells) /\ env' = Append(env, w)
      /\ at' = at + 1 /\ UNCHANGED <<prog, code, phase, globals, next, done>>
  BY DEF Bind
<1>2. phase = "running" /\ at <= Len(code) /\ op.kind \in Bound
  BY <1>1 DEF Running
<1>3. /\ Started /\ at \in 1 .. Len(code) /\ at \in Nat /\ Len(env) \in {at - 1, at} /\ Len(mem) \in Nat
      /\ DOMAIN mem = 1 .. Len(mem)
  BY <1>2, RunningFacts
<1>4. data = op.data /\ data \in Seq(Int) /\ Len(data) = Product(op.shape) /\ op.shape \in Seq(Positive)
  BY <1>1, BoundData
<1>5. op.kind \notin LoopKinds /\ op.kind # "reshape"
  BY <1>2 DEF LoopKinds, Bound, Constants
<1>6. Len(env) = at - 1
  BY <1>3, <1>5 DEF Inv, EnvInv, Writing
<1> HIDE DEF data
<1>7. /\ DOMAIN cells = 0 .. (Product(op.shape) - 1)
      /\ \A o \in DOMAIN cells : cells[o] = op.data[o + 1] /\ cells[o] \in Int
  <2>1. \A o \in 0 .. (Len(data) - 1) : o + 1 \in 1 .. Len(data)
    BY <1>4
  <2> QED BY <1>4, <2>1
<1> HIDE DEF cells
<1>8. /\ IsSeq(mem') /\ Len(mem') = Len(mem) + 1 /\ mem'[Len(mem) + 1] = cells
      /\ \A b \in DOMAIN mem : mem'[b] = mem[b]
  BY <1>1, <1>3, AppendIsSeq DEF Inv, EnvInv
<1>9. w.buf = Len(mem) + 1 /\ w.buf \in DOMAIN mem'
  BY <1>3, <1>8 DEF View, IsSeq
<1>10. env'[at] = w
  BY <1>1, <1>2, <1>3, <1>6, <1>8, <1>9, ValueAdded
<1>11. PICK n : n = at
  OBVIOUS
<1> DEFINE m == Memref(n)'
<1>12. m.shape = w.shape /\ m.strides = w.strides /\ m.cells = cells
  BY <1>8, <1>9, <1>10, <1>11 DEF Memref
<1>13. Computed(op, m, Operands(op))
  <2> HIDE DEF m
  <2>1. IsRowMajor(m) /\ m.shape = op.shape
    BY <1>4, <1>12, ViewIs
  <2>2. IsOperand(m)
    BY <1>7, <1>12, <2>1 DEF IsOperand
  <2> QED BY <1>5, <1>7, <1>12, <2>1, <2>2 DEF Computed
<1> HIDE DEF w
<1> QED BY <1>1, <1>2, <1>3, <1>6, <1>8, <1>9, <1>11, <1>13, ValueDone

(* A reshape sees the cells of its operand.                                  *)
LEMMA ReshapeInv == Inv /\ Reshape => Inv'
<1> SUFFICES ASSUME Inv, Reshape PROVE Inv'
  OBVIOUS
<1> DEFINE op == code[at]
           w == View(env[op.args[1]].buf, op.shape)
<1>1. /\ Running({"reshape"}) /\ mem' = mem /\ env' = Append(env, w)
      /\ at' = at + 1 /\ UNCHANGED <<prog, code, phase, globals, next, done>>
  BY DEF Reshape
<1>2. phase = "running" /\ at <= Len(code) /\ op.kind = "reshape"
  BY <1>1 DEF Running
<1>3. /\ Started /\ at \in 1 .. Len(code) /\ at \in Nat /\ Len(env) \in {at - 1, at} /\ Len(mem) \in Nat
      /\ DOMAIN mem = 1 .. Len(mem) /\ at \in 1 .. Len(prog) /\ DOMAIN env = 1 .. Len(env)
  BY <1>2, RunningFacts
<1>4. op.kind \notin LoopKinds /\ op.kind \notin Bound
  BY <1>2 DEF LoopKinds, Bound, Constants
<1>5. Len(env) = at - 1
  BY <1>2, <1>3, <1>4 DEF Inv, EnvInv, Writing
<1>6. op.args = prog[at].args /\ op.kind = prog[at].kind /\ op.shape = prog[at].shape
  BY <1>3 DEF Inv, CodeInv, SameOp
<1>7. /\ prog[at].shape \in Seq(Positive) /\ prog[at].args \in Seq(1 .. (at - 1))
      /\ Verified(prog[at], [k \in DOMAIN prog[at].args |-> prog[prog[at].args[k]].shape])
  BY <1>3, ProgramFacts DEF Inv, CodeInv
<1>8. 1 \in DOMAIN op.args /\ Product(op.shape) = Product(prog[prog[at].args[1]].shape)
  <2> DEFINE in == [k \in DOMAIN prog[at].args |-> prog[prog[at].args[k]].shape]
  <2>1. Len(in) >= 1 /\ Product(prog[at].shape) = Product(in[1])
    BY <1>2, <1>6, <1>7 DEF Verified
  <2>2. Len(in) = Len(prog[at].args) /\ Len(prog[at].args) \in Nat
    BY <1>7
  <2>3. 1 \in DOMAIN prog[at].args
    BY <1>7, <2>1, <2>2
  <2> QED BY <1>6, <2>1, <2>3
<1>9. PICK j : j = op.args[1]
  OBVIOUS
<1>10. /\ j \in 1 .. (at - 1) /\ j \in 1 .. Len(code) /\ code[j].shape = prog[prog[at].args[1]].shape
       /\ Operands(op)[1] = Memref(j)
  BY <1>3, <1>8, <1>9, OperandIs DEF Inv
<1>11. Computed(code[j], Memref(j), Operands(code[j]))
  BY <1>3, <1>10 DEF Inv, ValuesInv
<1>12. /\ DOMAIN Memref(j).cells = 0 .. (Product(op.shape) - 1)
       /\ \A o \in DOMAIN Memref(j).cells : Memref(j).cells[o] \in Int
  BY <1>8, <1>10, <1>11 DEF Computed, IsOperand
<1>13. w.buf = env[j].buf /\ Memref(j).cells = mem[env[j].buf] /\ env[j].buf \in DOMAIN mem
  <2>1. j \in DOMAIN env
    BY <1>3, <1>5, <1>10
  <2>2. w.buf = env[j].buf
    BY <1>9 DEF View
  <2>3. Memref(j).cells = mem[env[j].buf]
    BY DEF Memref
  <2> QED BY <2>1, <2>2, <2>3 DEF Inv, EnvInv
<1>14. /\ IsSeq(mem') /\ w.buf \in DOMAIN mem' /\ Len(mem') >= Len(mem) /\ Len(mem') \in Nat
       /\ \A b \in DOMAIN mem : mem'[b] = mem[b]
  <2>1. IsSeq(mem) /\ w.buf \in DOMAIN mem
    BY <1>13 DEF Inv, EnvInv
  <2> QED BY <1>1, <1>3, <2>1, SMTT(30)
<1>15. env'[at] = w
  BY <1>1, <1>2, <1>3, <1>5, <1>14, ValueAdded
<1>16. PICK n : n = at
  OBVIOUS
<1> DEFINE m == Memref(n)'
<1>17. m.shape = w.shape /\ m.strides = w.strides /\ m.cells = Memref(j).cells
  BY <1>1, <1>13, <1>15, <1>16 DEF Memref
<1>18. Computed(op, m, Operands(op))
  <2> HIDE DEF m
  <2>1. IsRowMajor(m) /\ m.shape = op.shape
    BY <1>6, <1>7, <1>17, ViewIs, SMTT(30)
  <2>2. IsOperand(m)
    BY <1>12, <1>17, <2>1 DEF IsOperand
  <2> QED BY <1>4, <1>10, <1>17, <2>1, <2>2 DEF Computed
<1> HIDE DEF w
<1> QED BY <1>1, <1>2, <1>3, <1>5, <1>14, <1>16, <1>18, ValueDone

(* A fresh buffer is nobody else's.                                          *)
LEMMA AllocInv == Inv /\ Alloc => Inv'
<1> SUFFICES ASSUME Inv, Alloc PROVE Inv'
  OBVIOUS
<1> DEFINE op == code[at]
           cells == [i \in 0 .. (Product(op.shape) - 1) |-> Undef]
           w == View(Len(mem) + 1, op.shape)
<1>1. /\ Running(LoopKinds) /\ mem' = Append(mem, cells) /\ env' = Append(env, w)
      /\ at' = at /\ UNCHANGED <<prog, code, phase, globals, next>> /\ Len(env) < at /\ done' = {}
  BY DEF Alloc
<1>2. phase = "running" /\ at <= Len(code) /\ op.kind \in LoopKinds
  BY <1>1 DEF Running
<1>3. /\ Started /\ at \in 1 .. Len(code) /\ at \in Nat /\ Len(env) = at - 1 /\ Len(mem) \in Nat
      /\ DOMAIN mem = 1 .. Len(mem) /\ Len(code) \in Nat
  BY <1>1, <1>2, RunningFacts
<1>4. CodeInv' /\ GlobalsInv' /\ Started'
  BY <1>1, <1>2, CodeKept
<1>5. op.shape \in Seq(Positive)
  <2>1. Ready(prog[at], op, Operands(op))
    BY <1>2, <1>3, OperandsReady DEF Inv
  <2> QED BY <2>1, ReadyShapes
<1>6. DOMAIN cells = 0 .. (Product(op.shape) - 1)
  OBVIOUS
<1> HIDE DEF cells
<1>7. /\ IsSeq(mem') /\ Len(mem') = Len(mem) + 1 /\ mem'[Len(mem) + 1] = cells
      /\ \A b \in DOMAIN mem : mem'[b] = mem[b]
  BY <1>1, <1>3, AppendIsSeq DEF Inv, EnvInv
<1>8. w.buf = Len(mem) + 1 /\ w.buf \in DOMAIN mem'
  BY <1>3, <1>7 DEF View, IsSeq
<1>9. Len(mem') >= Len(mem) /\ Len(mem') \in Nat
  BY <1>3, <1>7
<1>10. /\ IsSeq(env') /\ Len(env') = at /\ env'[at] = w
       /\ \A i \in DOMAIN env' : env'[i].buf \in DOMAIN mem'
       /\ \A i \in 1 .. (at - 1) : env'[i] = env[i] /\ env[i].buf \in DOMAIN mem
                                   /\ Memref(i)' = Memref(i)
  BY <1>1, <1>2, <1>3, <1>7, <1>8, <1>9, ValueAdded
<1>11. PICK n : n = at
  OBVIOUS
<1> DEFINE m == Memref(n)'
<1>12. m.shape = w.shape /\ m.strides = w.strides /\ m.cells = cells
  BY <1>7, <1>8, <1>10, <1>11 DEF Memref
<1>13. Filled(op, m, Operands(op), {})
  <2> HIDE DEF m
  <2>1. IsRowMajor(m) /\ m.shape = op.shape
    BY <1>5, <1>12, ViewIs
  <2> QED BY <1>6, <1>12, <2>1 DEF Filled
<1> HIDE DEF w
<1>14. Operands(code[n])' = Operands(code[n])
  BY <1>1, <1>3, <1>10, <1>11, OperandsKept DEF Inv
<1>15. EnvInv'
  <2>1. Writing'
    BY <1>1, <1>4, <1>10 DEF Writing
  <2> QED BY <1>1, <1>2, <1>4, <1>7, <1>10, <2>1 DEF EnvInv
<1>16. ValuesInv'
  <2>1. \A i \in 1 .. (at - 1) : Computed(code'[i], Memref(i)', Operands(code[i])')
    BY <1>1, <1>2, <1>3, <1>10, ValuesKept DEF Inv
  <2> QED BY <1>1, <2>1 DEF ValuesInv
<1>17. WriteInv'
  <2>1. Filled(code'[n], Memref(n)', Operands(code[n])', {})
    BY <1>1, <1>11, <1>13, <1>14
  <2>2. \A i \in 1 .. (at - 1) : env'[i].buf # env'[at].buf
    <3>1. \A b \in DOMAIN mem : b # Len(mem) + 1
      BY <1>3
    <3> QED BY <1>8, <1>10, <3>1
  <2>3. Filled(code[at], Memref(at), Operands(code[at]), done)'
    <3>1. at' = n /\ done' = {}
      BY <1>1, <1>11
    <3> QED BY <2>1, <3>1 DEF Memref, Operands
  <2> QED BY <1>1, <2>2, <2>3 DEF WriteInv
<1> QED BY <1>4, <1>15, <1>16, <1>17 DEF Inv

(* An iteration writes its cell and only that.                               *)
LEMMA IterateInv ==
    ASSUME Inv, NEW iv \in Iterations(code[at], Operands(code[at])), Iterate(iv)
    PROVE  Inv'
<1> DEFINE op == code[at]
           in == Operands(op)
           out == Memref(at)
           o == Offset(out, StoreAt(op, iv))
<1>1. /\ Running(LoopKinds) /\ Len(env) = at
      /\ mem' = IF o \in DOMAIN out.cells THEN [mem EXCEPT ![out.buf][o] = Body(op, in, iv)] ELSE mem
      /\ done' = done \union {iv} /\ UNCHANGED <<prog, code, phase, at, globals, next, env>>
  BY DEF Iterate
<1>2. phase = "running" /\ at <= Len(code) /\ op.kind \in LoopKinds
  BY <1>1 DEF Running
<1>3. /\ Started /\ Writing /\ at \in 1 .. Len(code) /\ at \in Nat /\ Len(code) \in Nat
      /\ DOMAIN mem = 1 .. Len(mem) /\ DOMAIN env = 1 .. at
  BY <1>1, <1>2, RunningFacts DEF Writing
<1>4. CodeInv' /\ GlobalsInv' /\ Started'
  BY <1>1, <1>2, CodeKept
<1>5. Ready(prog[at], op, in)
  BY <1>2, <1>3, OperandsReady DEF Inv
<1>6. Filled(op, out, in, done) /\ \A i \in 1 .. (at - 1) : env[i].buf # env[at].buf
  BY <1>3 DEF Inv, WriteInv
<1>7. out.buf = env[at].buf /\ out.cells = mem[env[at].buf] /\ env[at].buf \in DOMAIN mem
      /\ out.shape = env[at].shape /\ out.strides = env[at].strides
  <2>1. env[at].buf \in DOMAIN mem
    BY <1>3 DEF Inv, EnvInv
  <2> QED BY <2>1 DEF Memref
<1>8. o \in DOMAIN out.cells
  <2>1. StoreAt(op, iv) \in Tuples(op.shape)
    BY <1>5, StoresCoverResult
  <2> QED BY <1>6, <2>1, OffsetInRange DEF Filled
<1>9. PICK v : v = Body(op, in, iv)
  OBVIOUS
<1>10. PICK c : c = [out.cells EXCEPT ![o] = v]
  OBVIOUS
<1> HIDE DEF o, in, out
<1>11. mem' = [mem EXCEPT ![env[at].buf] = c]
  <2>1. mem' = [mem EXCEPT ![out.buf][o] = v]
    BY <1>1, <1>8, <1>9
  <2> QED BY <1>7, <1>10, <2>1
<1>12. /\ DOMAIN mem' = DOMAIN mem /\ mem'[env[at].buf] = c
       /\ \A b \in DOMAIN mem : b # env[at].buf => mem'[b] = mem[b]
       /\ mem' = [b \in DOMAIN mem' |-> mem'[b]]
  BY <1>7, <1>11
<1>13. IsSeq(mem')
  BY <1>12, UpdateIsSeq DEF Inv, EnvInv
<1>14. PICK n : n = at
  OBVIOUS
<1>15. \A i \in 1 .. (at - 1) : Memref(i)' = Memref(i)
  <2>1. \A i \in 1 .. (at - 1) : env[i].buf \in DOMAIN mem /\ i \in 1 .. at
    BY <1>3 DEF Inv, EnvInv
  <2> QED BY <1>1, <1>6, <1>12, <2>1, MemrefKept
<1>16. Operands(code[n])' = Operands(code[n])
  BY <1>1, <1>3, <1>14, <1>15, OperandsKept DEF Inv
<1> DEFINE m == Memref(n)'
<1>17. m.shape = out.shape /\ m.strides = out.strides /\ m.cells = c
  BY <1>1, <1>7, <1>12, <1>14 DEF Memref
<1>18. Filled(op, m, in, done \union {iv})
  <2> HIDE DEF m, op
  <2>1. iv \in Iterations(op, in)
    BY DEF in, op
  <2>2. m.cells = [out.cells EXCEPT ![Offset(out, StoreAt(op, iv))] = Body(op, in, iv)]
    BY <1>9, <1>10, <1>17 DEF o
  <2> QED BY <1>5, <1>6, <1>17, <2>1, <2>2, FilledStep
<1>19. EnvInv'
  <2>1. Writing'
    BY <1>1, <1>4 DEF Writing
  <2>2. \A i \in DOMAIN env' : env'[i].buf \in DOMAIN mem'
    BY <1>1, <1>12 DEF Inv, EnvInv
  <2>3. IsSeq(env') /\ Len(env') \in {at' - 1, at'}
    BY <1>1 DEF Inv, EnvInv
  <2> QED BY <1>1, <1>2, <1>4, <1>13, <2>1, <2>2, <2>3 DEF EnvInv
<1>20. ValuesInv'
  <2>1. \A i \in 1 .. (at - 1) : Computed(code'[i], Memref(i)', Operands(code[i])')
    BY <1>1, <1>2, <1>3, <1>15, ValuesKept DEF Inv
  <2> QED BY <1>1, <2>1 DEF ValuesInv
<1>21. WriteInv'
  <2>1. Filled(code'[n], Memref(n)', Operands(code[n])', done')
    BY <1>1, <1>14, <1>16, <1>18 DEF in
  <2>2. \A i \in 1 .. (at - 1) : env'[i].buf # env'[at].buf
    BY <1>1, <1>6
  <2>3. Filled(code[at], Memref(at), Operands(code[at]), done)'
    <3>1. at' = n
      BY <1>1, <1>14
    <3> QED BY <2>1, <3>1 DEF Memref, Operands
  <2> QED BY <1>1, <2>2, <2>3 DEF WriteInv
<1> QED BY <1>4, <1>19, <1>20, <1>21 DEF Inv

(* The loop nest ends when every iteration has run.                          *)
LEMMA LeaveInv == Inv /\ Leave => Inv'
<1> SUFFICES ASSUME Inv, Leave PROVE Inv'
  OBVIOUS
<1> DEFINE op == code[at]
<1>1. /\ Running(LoopKinds) /\ Len(env) = at /\ done = Iterations(op, Operands(op))
      /\ at' = at + 1 /\ done' = {} /\ UNCHANGED <<prog, code, phase, globals, next, env, mem>>
  BY DEF Leave
<1>2. phase = "running" /\ at <= Len(code) /\ op.kind \in LoopKinds
  BY <1>1 DEF Running
<1>3. /\ Started /\ Writing /\ at \in 1 .. Len(code) /\ at \in Nat /\ Len(code) \in Nat
  BY <1>1, <1>2, RunningFacts DEF Writing
<1>4. CodeInv' /\ GlobalsInv' /\ Started'
  BY <1>1, <1>2, CodeKept
<1>5. Computed(op, Memref(at), Operands(op))
  <2>1. Ready(prog[at], op, Operands(op))
    BY <1>2, <1>3, OperandsReady DEF Inv
  <2>2. Filled(op, Memref(at), Operands(op), done)
    BY <1>3 DEF Inv, WriteInv
  <2> QED BY <1>1, <2>1, <2>2, FilledIsComputed
<1>6. \A i : Memref(i)' = Memref(i)
  BY <1>1 DEF Memref
<1>7. ~Writing' /\ Len(env') = at' - 1
  BY <1>1, <1>3 DEF Writing
<1>8. EnvInv'
  BY <1>1, <1>4, <1>7 DEF Inv, EnvInv
<1>9. ValuesInv'
  <2>1. \A i \in 1 .. (at' - 1) : i \in 1 .. (at - 1) \/ i = at
    BY <1>1, <1>3
  <2>2. ASSUME NEW i \in 1 .. (at' - 1) PROVE Computed(code[i], Memref(i), Operands(code[i]))'
    <3>1. Computed(code[i], Memref(i), Operands(code[i]))
      BY <1>3, <1>5, <2>1 DEF Inv, ValuesInv
    <3>2. Operands(code[i])' = Operands(code[i])
      BY <1>1 DEF Operands, Memref
    <3>3. Computed(code'[i], Memref(i)', Operands(code[i])')
      BY <1>1, <1>6, <3>1, <3>2
    <3> QED BY <3>3
  <2> QED BY <2>2 DEF ValuesInv
<1> QED BY <1>4, <1>7, <1>8, <1>9 DEF Inv, WriteInv

(* The function returns.                                                     *)
LEMMA ReturnInv == Inv /\ Return => Inv'
<1> SUFFICES ASSUME Inv, Return PROVE Inv'
  OBVIOUS
<1>1. /\ phase = "running" /\ at > Len(code) /\ phase' = "done"
      /\ UNCHANGED <<prog, code, at, globals, next, env, mem, done>>
  BY DEF Return
<1>2. Started /\ Started' /\ Len(code) \in Nat /\ Len(code) = Len(prog) /\ at = Len(code) + 1
  BY <1>1, RunningFacts DEF Started
<1>3. ~Writing /\ ~Writing'
  BY <1>1, <1>2 DEF Inv, EnvInv, Writing
<1>4. CodeInv'
  BY <1>1, <1>2 DEF Inv, CodeInv
<1>5. Emitted' = Emitted
  BY <1>1, <1>2 DEF Emitted
<1>6. GlobalsInv'
  BY <1>1, <1>5 DEF Inv, GlobalsInv
<1>7. EnvInv'
  BY <1>1, <1>2, <1>3 DEF Inv, EnvInv
<1>8. ValuesInv'
  BY <1>1, <1>2 DEF Inv, ValuesInv, Memref, Operands
<1> QED BY <1>3, <1>4, <1>6, <1>7, <1>8 DEF Inv, WriteInv

(* The invariant is inductive.                                               *)
LEMMA StepInv == Inv /\ [Next]_vars => Inv'
<1> SUFFICES ASSUME Inv, [Next]_vars PROVE Inv'
  OBVIOUS
<1>1. CASE ToNpu
  BY <1>1, ToNpuInv
<1>2. CASE NpuDone
  BY <1>2, NpuDoneInv
<1>3. CASE ConstantToGlobal
  BY <1>3, ConstantToGlobalInv
<1>4. CASE OpToLoops
  BY <1>4, OpToLoopsInv
<1>5. CASE LoopsDone
  BY <1>5, LoopsDoneInv
<1>6. CASE Bind
  BY <1>6, BindInv
<1>7. CASE Reshape
  BY <1>7, ReshapeInv
<1>8. CASE Alloc
  BY <1>8, AllocInv
<1>9. CASE Leave
  BY <1>9, LeaveInv
<1>10. CASE Return
  BY <1>10, ReturnInv
<1>11. CASE \E iv \in Iterations(code[at], Operands(code[at])) : Iterate(iv)
  BY <1>11, IterateInv
<1>12. CASE UNCHANGED vars
  <2>1. UNCHANGED <<prog, code, phase, at, globals, next, env, mem, done>>
    BY <1>12 DEF vars
  <2>2. CodeInv'
    BY <2>1 DEF Inv, CodeInv
  <2>3. (Started' <=> Started) /\ (Writing' <=> Writing) /\ Emitted' = Emitted
    BY <2>1 DEF Started, Writing, Emitted
  <2>4. GlobalsInv'
    BY <2>1, <2>3 DEF Inv, GlobalsInv
  <2>5. EnvInv'
    BY <2>1, <2>3 DEF Inv, EnvInv
  <2>6. ValuesInv'
    BY <2>1, <2>3 DEF Inv, ValuesInv, Memref, Operands
  <2>7. WriteInv'
    BY <2>1, <2>3 DEF Inv, WriteInv, Memref, Operands
  <2> QED BY <2>2, <2>4, <2>5, <2>6, <2>7 DEF Inv
<1> QED BY <1>1, <1>2, <1>3, <1>4, <1>5, <1>6, <1>7, <1>8, <1>9, <1>10, <1>11, <1>12 DEF Next

(* The invariant holds in every state of the lowering and of the run.        *)
THEOREM InvAlways == Spec => []Inv
<1> QED BY InitInv, StepInv, PTL DEF Spec

(* The type invariant, for every set of functions and of symbols taken:      *)
(* the globals that NpuToVecScf adds have symbols of their own, one for each *)
(* constant, and every value of a running function has a live buffer.        *)
THEOREM NpuTypeCorrect == Spec => []TypeOK
<1> QED BY InvAlways, InvTypeOK, PTL

(* In whatever order the iterations of an scf.parallel of NpuToVecScf run,   *)
(* they load and store inside their memrefs, load only what was written, never *)
(* from the buffer being written, and no two of them store to the same cell. *)
THEOREM NpuAccessesSafe == Spec => []AccessesSafe
<1> QED BY InvAlways, InvAccessesSafe, PTL

-----------------------------------------------------------------------------
(* What each loop nest stores is what TOSA says of the operands' contents.   *)
ContentsOf(in) == [k \in DOMAIN in |-> Contents(in[k])]
ShapesOf(in) == [k \in DOMAIN in |-> in[k].shape]

(* The contents of an operand, cell by cell.                                 *)
LEMMA ContentsAt ==
    ASSUME NEW in, NEW k \in DOMAIN in
    PROVE  /\ DOMAIN ContentsOf(in)[k] = Tuples(in[k].shape) /\ ShapesOf(in)[k] = in[k].shape
           /\ \A idx \in Tuples(in[k].shape) : ContentsOf(in)[k][idx] = Load(in[k], idx)
BY DEF ContentsOf, ShapesOf, Contents

(* Two selects clamp.                                                        *)
LEMMA ClampIsTosa ==
    ASSUME NEW p, NEW op, NEW in, Ready(p, op, in), op.kind = "clamp", NEW iv \in Iterations(op, in)
    PROVE  Body(op, in, iv) = TosaClamp(p, ContentsOf(in), StoreAt(op, iv))
<1> DEFINE x == Load(in[1], iv)
           lo == op.attrs.min
           hi == op.attrs.max
<1>1. ClampFits(p, op, in)
  BY ClampReady
<1>2. /\ DOMAIN in = {1} /\ op.shape = in[1].shape /\ lo = p.attrs.min /\ hi = p.attrs.max
      /\ lo \in Int /\ hi \in Int /\ lo <= hi
  BY <1>1 DEF ClampFits
<1>3. StoreAt(op, iv) = iv /\ iv \in Tuples(in[1].shape)
  BY <1>2 DEF StoreAt, Iterations
<1>4. ContentsOf(in)[1][iv] = x
  BY <1>2, <1>3, ContentsAt
<1>5. x \in Int
  <2>1. IsOperand(in[1])
    BY <1>2 DEF Ready
  <2> QED BY <1>3, <2>1, LoadOperand
<1>6. TosaClamp(p, ContentsOf(in), StoreAt(op, iv)) =
        CHOOSE v \in {x, lo, hi} : v >= lo /\ v <= hi /\ (x \in lo .. hi => v = x)
                                   /\ (x > hi => v = hi) /\ (x < lo => v = lo)
  BY <1>2, <1>3, <1>4 DEF TosaClamp
<1>7. Body(op, in, iv) = LET low == IF x > lo THEN x ELSE lo IN IF low < hi THEN low ELSE hi
  BY DEF Body, ClampBody
<1> HIDE DEF x, lo, hi
<1> DEFINE P(v) == v >= lo /\ v <= hi /\ (x \in lo .. hi => v = x)
                                   /\ (x > hi => v = hi) /\ (x < lo => v = lo)
           b == LET low == IF x > lo THEN x ELSE lo IN IF low < hi THEN low ELSE hi
<1>8. b \in {x, lo, hi} /\ P(b)
  BY <1>2, <1>5
<1>9. \A v \in {x, lo, hi} : P(v) => v = b
  BY <1>2, <1>5
<1>10. (CHOOSE v \in {x, lo, hi} : P(v)) = b
  <2> HIDE DEF P, b
  <2> QED BY <1>8, <1>9
<1> QED BY <1>6, <1>7, <1>10

(* Storing at the permuted index is reading at the inverse one.              *)
LEMMA TransposeIsTosa ==
    ASSUME NEW p, NEW op, NEW in, Ready(p, op, in), op.kind = "transpose", NEW iv \in Iterations(op, in)
    PROVE  Body(op, in, iv) = TosaTranspose(p, ContentsOf(in), StoreAt(op, iv))
<1> DEFINE q == op.attrs.perms
           o == StoreAt(op, iv)
           P(i) == \A d \in DOMAIN o : i[q[d] + 1] = o[d]
<1>1. TransposeFits(p, op, in)
  BY TransposeReady
<1>2. DOMAIN in = {1} /\ Len(in[1].shape) = Len(op.shape) /\ q = p.attrs.perms
  BY <1>1 DEF TransposeFits
<1>3. Iterations(op, in) = Tuples(in[1].shape) /\ in[1].shape \in Seq(Positive)
  BY <1>2, ReadyShapes DEF Iterations
<1>4. \A i \in Tuples(in[1].shape) : DOMAIN i = 1 .. Len(in[1].shape)
  BY <1>3, TuplesOf
<1>5. \A i \in Tuples(in[1].shape) : StoreAt(op, i) = [d \in 1 .. Len(in[1].shape) |-> i[q[d] + 1]]
  BY <1>4 DEF StoreAt
<1>6. P(iv)
  BY <1>3, <1>5
<1>7. ASSUME NEW i \in Tuples(in[1].shape), P(i) PROVE i = iv
  <2>1. StoreAt(op, i) = o
    BY <1>3, <1>5, <1>7
  <2> QED BY <1>3, <2>1, StoresCoverResult
<1>8. DOMAIN ContentsOf(in)[1] = Tuples(in[1].shape) /\ ContentsOf(in)[1][iv] = Load(in[1], iv)
  BY <1>2, <1>3, ContentsAt
<1>9. TosaTranspose(p, ContentsOf(in), o) =
         ContentsOf(in)[1][CHOOSE i \in Tuples(in[1].shape) : P(i)]
  BY <1>2, <1>8 DEF TosaTranspose
<1>10. (CHOOSE i \in Tuples(in[1].shape) : P(i)) = iv
  <2> HIDE DEF P, o
  <2> QED BY <1>3, <1>6, <1>7
<1>11. Body(op, in, iv) = Load(in[1], iv)
  BY DEF Body
<1> QED BY <1>8, <1>9, <1>10, <1>11

(* An extent of 1 is broadcast: the index modulo the extent.                 *)
LEMMA AddIsTosa ==
    ASSUME NEW p, NEW op, NEW in, Ready(p, op, in), op.kind = "add", NEW iv \in Iterations(op, in)
    PROVE  Body(op, in, iv) = TosaAdd(ContentsOf(in), ShapesOf(in), StoreAt(op, iv))
<1>1. AddFits(p, op, in)
  BY AddReady
<1>2. StoreAt(op, iv) = iv /\ iv \in Tuples(op.shape) /\ op.shape \in Seq(Positive)
  BY ReadyShapes DEF StoreAt, Iterations
<1>3. ASSUME NEW k \in 1 .. 2
      PROVE  /\ [d \in DOMAIN iv |-> iv[d] % ShapesOf(in)[k][d]] = BroadcastIndices(in[k], iv)
             /\ ContentsOf(in)[k][BroadcastIndices(in[k], iv)] = Load(in[k], BroadcastIndices(in[k], iv))
  <2>1. /\ k \in DOMAIN in /\ Len(in[k].shape) = Len(op.shape)
        /\ \A d \in 1 .. Len(op.shape) : in[k].shape[d] \in {1, op.shape[d]}
    BY <1>1 DEF AddFits
  <2>2. DOMAIN iv = 1 .. Len(op.shape) /\ DOMAIN in[k].shape = 1 .. Len(op.shape)
    BY <1>2, <2>1, TuplesOf, ReadyShapes
  <2>3. ASSUME NEW d \in 1 .. Len(op.shape)
        PROVE  iv[d] % in[k].shape[d] = IF in[k].shape[d] = 1 THEN 0 ELSE iv[d]
    <3>1. iv[d] \in Nat /\ iv[d] < op.shape[d] /\ op.shape[d] \in Nat
      BY <1>2, IndexAt
    <3>2. PICK a \in Nat, s \in Nat : a = iv[d] /\ s = op.shape[d]
      BY <3>1
    <3>3. a % 1 = 0
      OBVIOUS
    <3>4. a % s = a
      <4>1. a < s
        BY <3>1, <3>2
      <4> QED BY <4>1
    <3> QED BY <2>1, <3>2, <3>3, <3>4
  <2>4. ShapesOf(in)[k] = in[k].shape
    BY <2>1, ContentsAt
  <2>5. [d \in DOMAIN iv |-> iv[d] % ShapesOf(in)[k][d]] = BroadcastIndices(in[k], iv)
    BY <2>2, <2>3, <2>4 DEF BroadcastIndices
  <2>6. BroadcastIndices(in[k], iv) \in Tuples(in[k].shape)
    <3> DEFINE r == <<k, BroadcastIndices(in[k], iv)>>
    <3>1. r[1] = k /\ r[2] = BroadcastIndices(in[k], iv)
      OBVIOUS
    <3>2. r \in Reads(op, in, iv)
      <4>1. Reads(op, in, iv) = {<<i, BroadcastIndices(in[i], iv)>> : i \in 1 .. 2}
        BY DEF Reads
      <4> QED BY <4>1
    <3> HIDE DEF r
    <3> QED BY <3>1, <3>2, ReadsInside
  <2> QED BY <2>1, <2>5, <2>6, ContentsAt
<1>4. /\ [d \in DOMAIN iv |-> iv[d] % ShapesOf(in)[1][d]] = BroadcastIndices(in[1], iv)
      /\ ContentsOf(in)[1][BroadcastIndices(in[1], iv)] = Load(in[1], BroadcastIndices(in[1], iv))
  BY <1>3
<1>5. /\ [d \in DOMAIN iv |-> iv[d] % ShapesOf(in)[2][d]] = BroadcastIndices(in[2], iv)
      /\ ContentsOf(in)[2][BroadcastIndices(in[2], iv)] = Load(in[2], BroadcastIndices(in[2], iv))
  BY <1>3
<1>6. Body(op, in, iv) = Load(in[1], BroadcastIndices(in[1], iv)) + Load(in[2], BroadcastIndices(in[2], iv))
  BY DEF Body
<1> QED BY <1>2, <1>4, <1>5, <1>6 DEF TosaAdd

(* The reduction of a matmul.                                                *)
LEMMA MatmulIsTosa ==
    ASSUME NEW p, NEW op, NEW in, Ready(p, op, in), op.kind = "matmul", NEW iv \in Iterations(op, in)
    PROVE  Body(op, in, iv) = TosaMatmul(ContentsOf(in), ShapesOf(in), StoreAt(op, iv))
<1> DEFINE K == 0 .. (in[1].shape[3] - 1)
<1>1. DOMAIN in = 1 .. 2
  BY MatmulReady DEF MatmulFits
<1>2. StoreAt(op, iv) = iv
  BY DEF StoreAt
<1>3. ASSUME NEW k \in K
      PROVE  /\ ContentsOf(in)[1][<<iv[1], iv[2], k>>] = Load(in[1], <<iv[1], iv[2], k>>)
             /\ ContentsOf(in)[2][<<iv[1], k, iv[3]>>] = Load(in[2], <<iv[1], k, iv[3]>>)
  <2>1. <<1, <<iv[1], iv[2], k>>>> \in Reads(op, in, iv)
                     /\ <<2, <<iv[1], k, iv[3]>>>> \in Reads(op, in, iv)
    <3>1. Reads(op, in, iv) = UNION {{<<1, <<iv[1], iv[2], j>>>>, <<2, <<iv[1], j, iv[3]>>>>} : j \in K}
      BY DEF Reads
    <3> HIDE DEF K
    <3> QED BY <3>1
  <2>2. <<iv[1], iv[2], k>> \in Tuples(in[1].shape) /\ <<iv[1], k, iv[3]>> \in Tuples(in[2].shape)
    BY <2>1, ReadsAreIntegers
  <2> QED BY <1>1, <2>2, ContentsAt
<1>4. ShapesOf(in)[1] = in[1].shape
  BY <1>1, ContentsAt
<1> DEFINE f == [k \in K |-> Load(in[1], <<iv[1], iv[2], k>>) * Load(in[2], <<iv[1], k, iv[3]>>)]
           g == [k \in K |-> ContentsOf(in)[1][<<iv[1], iv[2], k>>] * ContentsOf(in)[2][<<iv[1], k, iv[3]>>]]
<1>5. Body(op, in, iv) = SumFunction(f)
  BY DEF Body, MatmulBody
<1>6. TosaMatmul(ContentsOf(in), ShapesOf(in), StoreAt(op, iv)) = SumFunction(g)
  BY <1>2, <1>4 DEF TosaMatmul
<1>7. f = g
  <2> HIDE DEF K
  <2> QED BY <1>3
<1> QED BY <1>5, <1>6, <1>7

(* An argument or a constant is its data in row-major order.                 *)
LEMMA BoundIsTosa ==
    ASSUME NEW p, NEW op, NEW m, NEW in, SameOp(op, p), Computed(op, m, in), op.kind \in Bound,
           NEW o \in Tuples(op.shape)
    PROVE  Load(m, o) = p.data[Rank(o, p.shape) + 1]
<1>1. /\ IsOperand(m) /\ m.shape = op.shape /\ op.shape = p.shape /\ op.data = p.data
      /\ \A c \in DOMAIN m.cells : m.cells[c] = op.data[c + 1]
  BY DEF Computed, SameOp
<1>2. Offset(m, o) \in DOMAIN m.cells /\ Load(m, o) = m.cells[Offset(m, o)]
  BY <1>1, LoadOperand
<1>3. Rank(o, p.shape) = Offset(m, o)
  BY <1>1, RankIsOffset DEF IsOperand
<1> QED BY <1>1, <1>2, <1>3

(* A reshape keeps the row-major order of the elements.                      *)
LEMMA ReshapeIsTosa ==
    ASSUME NEW p, NEW op, NEW m, NEW in, SameOp(op, p), Computed(op, m, in), op.kind = "reshape",
           1 \in DOMAIN in, IsOperand(in[1]), NEW o \in Tuples(op.shape)
    PROVE  Load(m, o) = TosaReshape(p, ContentsOf(in), ShapesOf(in), o)
<1> DEFINE x == in[1]
           P(i) == Rank(i, x.shape) = Rank(o, p.shape)
<1>1. IsOperand(m) /\ m.shape = op.shape /\ op.shape = p.shape /\ m.cells = x.cells
  BY DEF Computed, SameOp
<1>2. Offset(m, o) \in DOMAIN m.cells /\ Load(m, o) = m.cells[Offset(m, o)]
  BY <1>1, LoadOperand
<1>3. Rank(o, p.shape) = Offset(m, o)
  BY <1>1, RankIsOffset DEF IsOperand
<1>4. PICK idx \in Tuples(x.shape) : Offset(x, idx) = Offset(m, o)
  BY <1>1, <1>2, OffsetOnto DEF IsOperand
<1>5. ASSUME NEW i \in Tuples(x.shape)
      PROVE  Rank(i, x.shape) = Offset(x, i) /\ ContentsOf(in)[1][i] = x.cells[Offset(x, i)]
  <2>1. Rank(i, x.shape) = Offset(x, i)
    BY RankIsOffset DEF IsOperand
  <2>2. Load(x, i) = x.cells[Offset(x, i)]
    BY LoadOperand
  <2> QED BY <2>1, <2>2, ContentsAt
<1>6. P(idx)
  BY <1>3, <1>4, <1>5
<1>7. TosaReshape(p, ContentsOf(in), ShapesOf(in), o) =
         ContentsOf(in)[1][CHOOSE i \in Tuples(x.shape) : P(i)]
  <2>1. DOMAIN ContentsOf(in)[1] = Tuples(x.shape) /\ ShapesOf(in)[1] = x.shape
    BY ContentsAt
  <2> QED BY <2>1 DEF TosaReshape
<1>8. PICK c : c = CHOOSE i \in Tuples(x.shape) : P(i)
  OBVIOUS
<1>9. c \in Tuples(x.shape) /\ P(c)
  <2> HIDE DEF P
  <2> QED BY <1>6, <1>8
<1>10. ContentsOf(in)[1][c] = x.cells[Offset(m, o)]
  BY <1>3, <1>5, <1>9
<1> QED BY <1>1, <1>2, <1>7, <1>8, <1>10

(* The kernel positions that are valid are the cells of the window.          *)
LEMMA PoolIsTosa ==
    ASSUME NEW p, NEW op, NEW in, Ready(p, op, in), op.kind = "max_pool2d", NEW iv \in Iterations(op, in)
    PROVE  Body(op, in, iv) = TosaMaxPool(p, ContentsOf(in), StoreAt(op, iv))
<1> DEFINE a == op.attrs
           x == in[1].shape
           Valid == {u \in Tuples(op.attrs.kernel) : PoolValid(op, in, iv, u)}
           cells == {Load(in[1], PoolInput(op, iv, t)) : t \in Valid}
           InWindow(j) == /\ j[1] = iv[1] /\ j[4] = iv[4]
                          /\ j[2] + a.pad[1] - iv[2] * a.stride[1] \in 0 .. (a.kernel[1] - 1)
                          /\ j[3] + a.pad[3] - iv[3] * a.stride[2] \in 0 .. (a.kernel[2] - 1)
           Window == {j \in Tuples(x) : InWindow(j)}
<1>1. PoolFits(p, op, in)
  BY PoolReady
<1>2. /\ DOMAIN in = {1} /\ Len(x) = 4 /\ Len(op.shape) = 4 /\ x \in Seq(Positive)
      /\ op.shape \in Seq(Positive)
      /\ a.kernel \in [1 .. 2 -> Positive] /\ a.stride \in [1 .. 2 -> Positive] /\ a.pad \in [1 .. 4 -> Nat]
      /\ a.kernel = p.attrs.kernel /\ a.stride = p.attrs.stride /\ a.pad = p.attrs.pad
  BY <1>1, ReadyShapes DEF PoolFits
<1>3. StoreAt(op, iv) = iv /\ iv \in Tuples(op.shape)
  BY DEF StoreAt, Iterations
<1>4. /\ iv[2] \in Int /\ iv[3] \in Int
      /\ a.pad[1] \in Int /\ a.pad[3] \in Int /\ a.stride[1] \in Int /\ a.stride[2] \in Int
      /\ a.kernel[1] \in Int /\ a.kernel[2] \in Int
  <2>1. 2 \in 1 .. Len(op.shape) /\ 3 \in 1 .. Len(op.shape)
    BY <1>2
  <2>2. iv[2] \in Nat /\ iv[3] \in Nat
    BY <1>2, <1>3, <2>1, IndexAt
  <2>3. /\ a.kernel[1] \in Positive /\ a.kernel[2] \in Positive
        /\ a.stride[1] \in Positive /\ a.stride[2] \in Positive
    BY <1>2
  <2>4. a.pad[1] \in Nat /\ a.pad[3] \in Nat
    BY <1>2
  <2> HIDE DEF a
  <2> QED BY <2>2, <2>3, <2>4 DEF Positive
<1>5. /\ DOMAIN ContentsOf(in)[1] = Tuples(x)
      /\ \A i \in Tuples(x) : ContentsOf(in)[1][i] = Load(in[1], i)
  BY <1>2, ContentsAt
<1>6. TosaMaxPool(p, ContentsOf(in), StoreAt(op, iv)) = Max({ContentsOf(in)[1][i] : i \in Window})
  BY <1>2, <1>3, <1>5 DEF TosaMaxPool
<1>7. \A t \in Valid : <<1, PoolInput(op, iv, t)>> \in Reads(op, in, iv)
  BY DEF Reads
<1>8. Valid # {}
  BY PoolReaches
<1>9. Body(op, in, iv) = Max(cells)
  <2>1. Body(op, in, iv) = PoolBody(op, in, iv)
    BY DEF Body
  <2>2. PoolBody(op, in, iv) = IF cells = {} THEN Lowest ELSE Max(cells)
    BY DEF PoolBody
  <2>3. cells # {}
    <3> HIDE DEF Valid
    <3> QED BY <1>8
  <2> HIDE DEF cells
  <2> QED BY <2>1, <2>2, <2>3
<1>t. \A t : t \in Tuples(op.attrs.kernel) <=>
               t \in [1 .. 2 -> Nat] /\ t[1] < a.kernel[1] /\ t[2] < a.kernel[2]
  BY PoolTapsAre
<1>10. ASSUME NEW t \in Nat \X Nat
       PROVE  /\ PoolInput(op, iv, t) = <<iv[1], iv[2] * a.stride[1] - a.pad[1] + t[1],
                                          iv[3] * a.stride[2] - a.pad[3] + t[2], iv[4]>>
  <2>1. t[1] * 1 = t[1] /\ t[2] * 1 = t[2]
    OBVIOUS
  <2> QED BY <2>1 DEF PoolInput, InputAt
<1>11. ASSUME NEW t \in Valid PROVE PoolInput(op, iv, t) \in Window
  <2>1. t \in [1 .. 2 -> Nat] /\ t[1] < a.kernel[1] /\ t[2] < a.kernel[2]
    BY <1>t
  <2>2. t[1] \in Nat /\ t[2] \in Nat /\ t \in Nat \X Nat
    <3>1. t[1] \in Nat /\ t[2] \in Nat
      BY <2>1
    <3>2. t = <<t[1], t[2]>>
      BY <2>1
    <3> QED BY <3>1, <3>2
  <2> DEFINE i == PoolInput(op, iv, t)
  <2>3. i \in Tuples(x)
    BY <1>7, ReadsAreIntegers
  <2>4. /\ i[1] = iv[1] /\ i[4] = iv[4] /\ i[2] = iv[2] * a.stride[1] - a.pad[1] + t[1]
        /\ i[3] = iv[3] * a.stride[2] - a.pad[3] + t[2]
    BY <1>10, <2>2
  <2> HIDE DEF i, a
  <2>5. iv[2] * a.stride[1] \in Int /\ iv[3] * a.stride[2] \in Int
    BY <1>4
  <2>6. i[2] + a.pad[1] - iv[2] * a.stride[1] = t[1] /\ i[3] + a.pad[3] - iv[3] * a.stride[2] = t[2]
    <3>1. PICK r \in Int, c \in Int : r = iv[2] * a.stride[1] /\ c = iv[3] * a.stride[2]
      BY <2>5
    <3>2. /\ i[2] = r - a.pad[1] + t[1] /\ i[3] = c - a.pad[3] + t[2]
          /\ a.pad[1] \in Int /\ a.pad[3] \in Int /\ t[1] \in Int /\ t[2] \in Int
      BY <1>4, <2>2, <2>4, <3>1
    <3>3. i[2] + a.pad[1] - r = t[1] /\ i[3] + a.pad[3] - c = t[2]
      BY <3>2
    <3> QED BY <3>1, <3>3
  <2>7. t[1] \in 0 .. (a.kernel[1] - 1) /\ t[2] \in 0 .. (a.kernel[2] - 1)
    BY <1>4, <2>1, <2>2
  <2> QED BY <2>3, <2>4, <2>6, <2>7 DEF i
<1>12. ASSUME NEW j \in Window PROVE \E t \in Valid : PoolInput(op, iv, t) = j
  <2> DEFINE t1 == j[2] + a.pad[1] - iv[2] * a.stride[1]
             t2 == j[3] + a.pad[3] - iv[3] * a.stride[2]
             t == <<t1, t2>>
  <2>1. j \in [1 .. 4 -> Nat] /\ \A d \in 1 .. 4 : j[d] < x[d]
    BY <1>2, TuplesOf
  <2>2. /\ j[2] \in Nat /\ j[3] \in Nat /\ j[2] < x[2] /\ j[3] < x[3]
        /\ j = <<j[1], j[2], j[3], j[4]>>
    BY <2>1
  <2>3. t1 \in 0 .. (a.kernel[1] - 1) /\ t2 \in 0 .. (a.kernel[2] - 1) /\ j[1] = iv[1] /\ j[4] = iv[4]
    OBVIOUS
  <2>4. iv[2] * a.stride[1] \in Int /\ iv[3] * a.stride[2] \in Int
    BY <1>4
  <2>5. iv[2] * a.stride[1] - a.pad[1] + t1 = j[2] /\ iv[3] * a.stride[2] - a.pad[3] + t2 = j[3]
    BY <1>4, <2>2, <2>4
  <2> HIDE DEF t1, t2, a
  <2>6. t1 \in Nat /\ t2 \in Nat /\ t1 < a.kernel[1] /\ t2 < a.kernel[2]
    BY <1>4, <2>3
  <2>7. t[1] = t1 /\ t[2] = t2 /\ t \in [1 .. 2 -> Nat] /\ t \in Nat \X Nat
    BY <2>6
  <2>8. PoolInput(op, iv, t) = <<iv[1], j[2], j[3], iv[4]>>
    BY <1>10, <2>5, <2>7
  <2> HIDE DEF t
  <2>9. PoolInput(op, iv, t) = j
    BY <2>2, <2>3, <2>8
  <2>10. PoolValid(op, in, iv, t)
    BY <2>2, <2>9 DEF PoolValid, IsValid
  <2>11. t \in Valid
    BY <1>t, <2>6, <2>7, <2>10
  <2> QED BY <2>9, <2>11
<1>13. cells = {ContentsOf(in)[1][i] : i \in Window}
  <2> HIDE DEF Valid, InWindow
  <2> QED BY <1>5, <1>11, <1>12
<1> QED BY <1>6, <1>9, <1>13

(* A convolution sums over the kernel positions; TOSA sums over the weights  *)
(* of the output channel, padding included: the same terms, one for one.     *)
LEMMA ConvIsTosa ==
    ASSUME NEW p, NEW op, NEW in, Ready(p, op, in), op.kind = "conv2d", NEW iv \in Iterations(op, in)
    PROVE  Body(op, in, iv) = TosaConv(p, ContentsOf(in), ShapesOf(in), StoreAt(op, iv))
<1> DEFINE a == op.attrs
           x == in[1].shape
           y == in[2].shape
           D == ConvTaps(op, in)
           E == {w \in Tuples(y) : w[1] = iv[4]}
           product(t) == IF ConvValid(op, in, iv, t)
                         THEN Load(in[1], ConvInput(op, iv, t)) * Load(in[2], ConvWeight(iv, t))
                         ELSE 0
           f == [t \in D |-> product(t)]
           padded(w) == Padded(ContentsOf(in)[1], x[2], x[3], a.pad, iv[1],
                               iv[2] * a.stride[1] + w[2] * a.dilation[1],
                               iv[3] * a.stride[2] + w[3] * a.dilation[2], w[4])
           g == [w \in E |-> ContentsOf(in)[2][w] * padded(w)]
           b == [t \in D |-> ConvWeight(iv, t)]
<1>1. ConvFits(p, op, in)
  BY ConvReady
<1>2. /\ DOMAIN in = 1 .. 3 /\ Len(op.shape) = 4 /\ Len(x) = 4 /\ Len(y) = 4 /\ Len(in[3].shape) = 1
      /\ x[1] = op.shape[1] /\ y[4] = x[4] /\ y[1] = op.shape[4] /\ in[3].shape[1] = op.shape[4]
      /\ a.stride \in [1 .. 2 -> Positive] /\ a.dilation \in [1 .. 2 -> Positive] /\ a.pad \in [1 .. 4 -> Nat]
      /\ a.stride = p.attrs.stride /\ a.dilation = p.attrs.dilation /\ a.pad = p.attrs.pad
  BY <1>1 DEF ConvFits
<1>3. /\ x \in Seq(Positive) /\ y \in Seq(Positive) /\ op.shape \in Seq(Positive)
      /\ StoreAt(op, iv) = iv /\ iv \in Tuples(op.shape)
  BY <1>2, ReadyShapes DEF StoreAt, Iterations
<1>4. /\ iv[2] \in Int /\ iv[3] \in Int /\ iv[4] \in Nat /\ iv[4] < y[1]
      /\ a.pad[1] \in Int /\ a.pad[3] \in Int /\ a.stride[1] \in Int /\ a.stride[2] \in Int
      /\ a.dilation[1] \in Int /\ a.dilation[2] \in Int /\ x[2] \in Int /\ x[3] \in Int
  <2>1. 2 \in 1 .. Len(op.shape) /\ 3 \in 1 .. Len(op.shape) /\ 4 \in 1 .. Len(op.shape)
    BY <1>2
  <2>2. iv[2] \in Nat /\ iv[3] \in Nat /\ iv[4] \in Nat /\ iv[4] < op.shape[4]
    BY <1>3, <2>1, IndexAt
  <2>3. /\ a.stride[1] \in Positive /\ a.stride[2] \in Positive
        /\ a.dilation[1] \in Positive /\ a.dilation[2] \in Positive
    BY <1>2
  <2>4. a.pad[1] \in Nat /\ a.pad[3] \in Nat
    BY <1>2
  <2>5. x[2] \in Positive /\ x[3] \in Positive
    BY <1>2, <1>3
  <2> HIDE DEF a, x, y
  <2> QED BY <1>2, <2>2, <2>3, <2>4, <2>5 DEF Positive
<1>5. /\ DOMAIN ContentsOf(in)[1] = Tuples(x) /\ DOMAIN ContentsOf(in)[2] = Tuples(y)
      /\ \A i \in Tuples(x) : ContentsOf(in)[1][i] = Load(in[1], i)
      /\ \A i \in Tuples(y) : ContentsOf(in)[2][i] = Load(in[2], i)
      /\ ShapesOf(in)[1] = x
  BY <1>2, ContentsAt
<1>6. ContentsOf(in)[3][<<iv[4]>>] = Load(in[3], <<iv[4]>>)
  <2>1. <<iv[4]>> \in Tuples(in[3].shape)
    BY ConvReads, ReadsAreIntegers
  <2> QED BY <1>2, <2>1, ContentsAt
<1>7. Body(op, in, iv) = Load(in[3], <<iv[4]>>) + SumFunction(f)
  BY DEF Body, ConvBody
<1>8. TosaConv(p, ContentsOf(in), ShapesOf(in), StoreAt(op, iv)) = Load(in[3], <<iv[4]>>) + SumFunction(g)
  BY <1>2, <1>3, <1>5, <1>6 DEF TosaConv
<1>9. IsFiniteSet(D) /\ \A t : t \in D <=> t \in [1 .. 3 -> Nat] /\ t[1] < y[2] /\ t[2] < y[3] /\ t[3] < y[4]
  BY ConvTapsAre
<1>10. ASSUME NEW t \in D
       PROVE  /\ t[1] \in Nat /\ t[2] \in Nat /\ t[3] \in Nat /\ t = <<t[1], t[2], t[3]>>
              /\ ConvWeight(iv, t) = <<iv[4], t[1], t[2], t[3]>> /\ ConvWeight(iv, t) \in E
              /\ ConvInput(op, iv, t) = <<iv[1], iv[2] * a.stride[1] - a.pad[1] + t[1] * a.dilation[1],
                                          iv[3] * a.stride[2] - a.pad[3] + t[2] * a.dilation[2], t[3]>>
  <2>1. t \in [1 .. 3 -> Nat] /\ t[1] < y[2] /\ t[2] < y[3] /\ t[3] < y[4]
    BY <1>9
  <2>2. t[1] \in Nat /\ t[2] \in Nat /\ t[3] \in Nat /\ t = <<t[1], t[2], t[3]>>
    BY <2>1
  <2>3. ConvWeight(iv, t) = <<iv[4], t[1], t[2], t[3]>>
    BY DEF ConvWeight
  <2>4. <<iv[4], t[1], t[2], t[3]>> \in Tuples(y)
    BY <1>2, <1>3, <1>4, <2>1, <2>2, TuplesOfRank4
  <2>5. ConvInput(op, iv, t) = <<iv[1], iv[2] * a.stride[1] - a.pad[1] + t[1] * a.dilation[1],
                                          iv[3] * a.stride[2] - a.pad[3] + t[2] * a.dilation[2], t[3]>>
    BY DEF ConvInput, InputAt
  <2> QED BY <2>2, <2>3, <2>4, <2>5
<1>11. b \in Bijection(D, E)
  <2> HIDE DEF D, E
  <2>1. b \in [D -> E]
    BY <1>10
  <2>2. \A t, u \in D : b[t] = b[u] => t = u
    <3> SUFFICES ASSUME NEW t \in D, NEW u \in D, b[t] = b[u] PROVE t = u
      OBVIOUS
    <3>1. <<iv[4], t[1], t[2], t[3]>> = <<iv[4], u[1], u[2], u[3]>>
      BY <1>10
    <3>2. t[1] = u[1] /\ t[2] = u[2] /\ t[3] = u[3]
      BY <3>1
    <3> QED BY <1>10, <3>2
  <2>3. \A w \in E : \E t \in D : b[t] = w
    <3> SUFFICES ASSUME NEW w \in E PROVE \E t \in D : b[t] = w
      OBVIOUS
    <3> DEFINE t == <<w[2], w[3], w[4]>>
    <3>1. w \in Tuples(y) /\ w[1] = iv[4]
      BY DEF E
    <3>2. w \in [1 .. 4 -> Nat] /\ \A d \in 1 .. 4 : w[d] < y[d]
      BY <1>2, <1>3, <3>1, TuplesOf
    <3>3. /\ w[2] \in Nat /\ w[3] \in Nat /\ w[4] \in Nat /\ w[2] < y[2] /\ w[3] < y[3] /\ w[4] < y[4]
          /\ w = <<w[1], w[2], w[3], w[4]>>
      BY <3>2
    <3>4. t \in [1 .. 3 -> Nat] /\ t[1] = w[2] /\ t[2] = w[3] /\ t[3] = w[4]
      BY <3>3
    <3> HIDE DEF t
    <3>5. t \in D
      BY <1>9, <3>3, <3>4
    <3>6. b[t] = w
      BY <1>10, <3>1, <3>3, <3>4, <3>5
    <3> QED BY <3>5, <3>6
  <2> HIDE DEF b
  <2> QED BY <2>1, <2>2, <2>3 DEF Bijection, Injection, Surjection, IsInjective
<1>12. ASSUME NEW t \in D
       PROVE  f[t] = g[b[t]] /\ f[t] \in Int
  <2> DEFINE w == ConvWeight(iv, t)
             i == ConvInput(op, iv, t)
             r == iv[2] * a.stride[1] + t[1] * a.dilation[1]
             c == iv[3] * a.stride[2] + t[2] * a.dilation[2]
  <2>1. /\ w[1] = iv[4] /\ w[2] = t[1] /\ w[3] = t[2] /\ w[4] = t[3] /\ w \in E /\ b[t] = w
        /\ w \in Tuples(y)
    BY <1>10
  <2>2. r \in Int /\ c \in Int
    BY <1>4, <1>10
  <2>3. i = <<iv[1], r - a.pad[1], c - a.pad[3], t[3]>>
    <3>1. /\ iv[2] * a.stride[1] - a.pad[1] + t[1] * a.dilation[1] = r - a.pad[1]
          /\ iv[3] * a.stride[2] - a.pad[3] + t[2] * a.dilation[2] = c - a.pad[3]
      <4>1. \A u \in Int, v \in Int : u * v \in Int
        OBVIOUS
      <4>2. /\ iv[2] * a.stride[1] \in Int /\ t[1] * a.dilation[1] \in Int
            /\ iv[3] * a.stride[2] \in Int /\ t[2] * a.dilation[2] \in Int
        BY <1>4, <1>10
      <4> QED BY <1>4, <4>2
    <3> QED BY <1>10, <3>1
  <2>4. ConvValid(op, in, iv, t) <=> r \in a.pad[1] .. (a.pad[1] + x[2] - 1) /\ c \in a.pad[3] .. (a.pad[3] + x[3] - 1)
    <3>1. ConvValid(op, in, iv, t) <=> /\ r - a.pad[1] >= 0 /\ r - a.pad[1] < x[2]
                                       /\ c - a.pad[3] >= 0 /\ c - a.pad[3] < x[3]
      BY <2>3 DEF ConvValid, IsValid
    <3> HIDE DEF r, c, a, x
    <3> QED BY <1>4, <2>2, <3>1
  <2>5. padded(w) = IF ConvValid(op, in, iv, t) THEN ContentsOf(in)[1][i] ELSE 0
    <3>1. padded(w) = Padded(ContentsOf(in)[1], x[2], x[3], a.pad, iv[1], r, c, t[3])
      BY <2>1
    <3> QED BY <2>3, <2>4, <3>1 DEF Padded
  <2>6. g[b[t]] = Load(in[2], w) * padded(w)
    <3> HIDE DEF w, padded, b, E
    <3> QED BY <1>5, <2>1
  <2>7. CASE ConvValid(op, in, iv, t)
    <3>1. /\ i \in Tuples(x) /\ Load(in[1], i) \in Int /\ Load(in[2], w) \in Int
      BY <2>7, ConvReads, ReadsAreIntegers
    <3>2. f[t] = Load(in[1], i) * Load(in[2], w)
      BY <2>7
    <3>3. padded(w) = Load(in[1], i)
      BY <1>5, <2>5, <2>7, <3>1
    <3> HIDE DEF f, w, i, padded, b, g
    <3> QED BY <2>6, <3>1, <3>2, <3>3
  <2>8. CASE ~ConvValid(op, in, iv, t)
    <3>1. f[t] = 0 /\ padded(w) = 0
      BY <2>5, <2>8
    <3>2. Load(in[2], w) \in Int
      <4>1. IsOperand(in[2])
        <5>1. 2 \in DOMAIN in
          BY <1>2
        <5> QED BY <5>1 DEF Ready
      <4> QED BY <2>1, <4>1, LoadOperand
    <3> HIDE DEF f, w, padded, b, g
    <3> QED BY <2>6, <3>1, <3>2
  <2> QED BY <2>7, <2>8
<1>13. f \in [D -> Int]
  <2>1. f = [t \in D |-> f[t]]
    OBVIOUS
  <2> HIDE DEF f
  <2> QED BY <1>12, <2>1
<1>14. g \in [E -> Int]
  <2>1. g = [w \in E |-> g[w]]
    OBVIOUS
  <2>2. \A w \in E : \E t \in D : b[t] = w
    <3> HIDE DEF b, D, E
    <3> QED BY <1>11 DEF Bijection, Surjection
  <2> HIDE DEF f, g, b, D, E
  <2>3. \A w \in E : g[w] \in Int
    BY <1>12, <2>2
  <2> QED BY <2>1, <2>3
<1>15. SumFunction(f) = SumFunction(g)
  <2> HIDE DEF f, g, b, D, E
  <2> QED BY <1>9, <1>11, <1>12, <1>13, <1>14, SumReindexed
<1> QED BY <1>7, <1>8, <1>15

(* A value computed holds what TOSA says. *)
LEMMA ComputedIsTosa ==
    ASSUME NEW p, NEW op, NEW m, NEW in, SameOp(op, p), Computed(op, m, in),
           op.kind \in LoopKinds => Ready(p, op, in),
           op.kind = "reshape" => 1 \in DOMAIN in /\ IsOperand(in[1]),
           op.kind \in Supported
    PROVE  Contents(m) = Tosa(p, ContentsOf(in), ShapesOf(in))
<1> DEFINE x == ContentsOf(in)
           s == ShapesOf(in)
<1>1. op.kind = p.kind /\ op.shape = p.shape /\ m.shape = op.shape
  BY DEF SameOp, Computed
<1>2. ASSUME NEW o \in Tuples(op.shape)
      PROVE  Load(m, o) = TosaValue(p, x, s, o)
  <2>1. CASE op.kind \in Bound
    <3>1. TosaValue(p, x, s, o) = p.data[Rank(o, p.shape) + 1]
      BY <1>1, <2>1 DEF TosaValue, Bound, Constants
    <3> QED BY <2>1, <3>1, BoundIsTosa
  <2>2. CASE op.kind = "reshape"
    <3>1. TosaValue(p, x, s, o) = TosaReshape(p, x, s, o)
      BY <1>1, <2>2 DEF TosaValue, Bound, Constants
    <3> QED BY <2>2, <3>1, ReshapeIsTosa
  <2>3. CASE op.kind \in LoopKinds
    <3>1. Ready(p, op, in)
      BY <2>3
    <3>2. PICK iv \in Iterations(op, in) : StoreAt(op, iv) = o
      BY <3>1, StoresCoverResult
    <3>3. Load(m, o) = Body(op, in, iv)
      BY <2>3, <3>2 DEF Computed
    <3>4. CASE op.kind = "conv2d"
      BY <1>1, <3>1, <3>2, <3>3, <3>4, ConvIsTosa DEF TosaValue, Bound, Constants
    <3>5. CASE op.kind = "clamp"
      BY <1>1, <3>1, <3>2, <3>3, <3>5, ClampIsTosa DEF TosaValue, Bound, Constants
    <3>6. CASE op.kind = "max_pool2d"
      BY <1>1, <3>1, <3>2, <3>3, <3>6, PoolIsTosa DEF TosaValue, Bound, Constants
    <3>7. CASE op.kind = "transpose"
      BY <1>1, <3>1, <3>2, <3>3, <3>7, TransposeIsTosa DEF TosaValue, Bound, Constants
    <3>8. CASE op.kind = "matmul"
      BY <1>1, <3>1, <3>2, <3>3, <3>8, MatmulIsTosa DEF TosaValue, Bound, Constants
    <3>9. CASE op.kind = "add"
      BY <1>1, <3>1, <3>2, <3>3, <3>9, AddIsTosa DEF TosaValue, Bound, Constants
    <3> QED BY <2>3, <3>4, <3>5, <3>6, <3>7, <3>8, <3>9 DEF LoopKinds
  <2> QED BY <2>1, <2>2, <2>3 DEF Supported
<1> HIDE DEF x, s
<1>3. Contents(m) = [o \in Tuples(op.shape) |-> Load(m, o)]
  BY <1>1 DEF Contents
<1>4. Tosa(p, x, s) = [o \in Tuples(op.shape) |-> TosaValue(p, x, s, o)]
  BY <1>1 DEF Tosa
<1> QED BY <1>2, <1>3, <1>4 DEF x, s

(* When the function has returned, the invariant is what TOSA says.          *)
LEMMA InvLoopsMatchTosa == Inv => LoopsMatchTosa
<1> SUFFICES ASSUME Inv, phase = "done", NEW i \in DOMAIN prog
             PROVE  Contents(Memref(i)) =
                Tosa(prog[i], [j \in DOMAIN prog[i].args |-> Contents(Memref(prog[i].args[j]))],
                     [j \in DOMAIN prog[i].args |-> prog[prog[i].args[j]].shape])
  BY DEF LoopsMatchTosa
<1> DEFINE op == code[i]
           in == Operands(op)
<1>1. /\ Started /\ Len(code) = Len(prog) /\ at = Len(prog) + 1 /\ Len(prog) \in Nat
      /\ DOMAIN prog = 1 .. Len(prog)
  BY ProgramFacts DEF Inv, CodeInv, Started
<1>2. i \in 1 .. Len(code) /\ i \in 1 .. (at - 1) /\ i <= at
  BY <1>1
<1>3. SameOp(op, prog[i]) /\ prog[i].kind \in Supported /\ op.kind = prog[i].kind /\ op.args = prog[i].args
  BY <1>2 DEF Inv, CodeInv, SameOp
<1>4. Computed(op, Memref(i), in)
  BY <1>1, <1>2 DEF Inv, ValuesInv
<1>5. op.kind \in LoopKinds => Ready(prog[i], op, in)
  BY <1>1, <1>2, OperandsReady DEF Inv
<1>6. ASSUME NEW k \in DOMAIN op.args
      PROVE  /\ in[k] = Memref(prog[i].args[k]) /\ IsOperand(in[k])
             /\ in[k].shape = prog[prog[i].args[k]].shape
  <2>1. PICK j : j = op.args[k]
    OBVIOUS
  <2>2. /\ j \in 1 .. (i - 1) /\ code[j].shape = prog[prog[i].args[k]].shape /\ in[k] = Memref(j)
    BY <1>2, <2>1, OperandIs DEF Inv
  <2>3. j \in 1 .. (at - 1)
    BY <1>1, <1>2, <2>2
  <2>4. Computed(code[j], Memref(j), Operands(code[j]))
    BY <1>1, <2>3 DEF Inv, ValuesInv
  <2>5. Memref(prog[i].args[k]) = Memref(j)
    BY <1>3, <2>1
  <2> HIDE DEF in
  <2> QED BY <2>2, <2>4, <2>5 DEF Computed
<1>7. op.kind = "reshape" => 1 \in DOMAIN in /\ IsOperand(in[1])
  <2> SUFFICES ASSUME op.kind = "reshape" PROVE 1 \in DOMAIN in /\ IsOperand(in[1])
    OBVIOUS
  <2> DEFINE sh == [k \in DOMAIN prog[i].args |-> prog[prog[i].args[k]].shape]
  <2>1. prog[i].args \in Seq(1 .. (i - 1)) /\ Verified(prog[i], sh)
    BY <1>1, <1>2, ProgramFacts DEF Inv, CodeInv
  <2>2. Len(sh) >= 1
    BY <1>3, <2>1 DEF Verified
  <2>3. Len(sh) = Len(prog[i].args) /\ Len(prog[i].args) \in Nat
    BY <2>1
  <2>4. 1 \in DOMAIN prog[i].args
    BY <2>1, <2>2, <2>3
  <2>5. 1 \in DOMAIN op.args /\ 1 \in DOMAIN in
    BY <1>3, <2>4 DEF Operands
  <2> QED BY <1>6, <2>5
<1>8. Contents(Memref(i)) = Tosa(prog[i], ContentsOf(in), ShapesOf(in))
  BY <1>3, <1>4, <1>5, <1>7, ComputedIsTosa
<1>9. DOMAIN in = DOMAIN prog[i].args
  BY <1>3 DEF Operands
<1> HIDE DEF in
<1>10. ContentsOf(in) = [j \in DOMAIN prog[i].args |-> Contents(Memref(prog[i].args[j]))]
  BY <1>3, <1>6, <1>9 DEF ContentsOf
<1>11. ShapesOf(in) = [j \in DOMAIN prog[i].args |-> prog[prog[i].args[j]].shape]
  BY <1>3, <1>6, <1>9 DEF ShapesOf
<1> QED BY <1>8, <1>10, <1>11

(* The lowering is correct, for every well-formed function: whatever order   *)
(* the iterations take, each value holds what TOSA defines for its operation *)
(* and the contents of its operands, and arguments and constants are intact. *)
THEOREM NpuLoopsMatchTosa == Spec => []LoopsMatchTosa
<1> QED BY InvAlways, InvLoopsMatchTosa, PTL
=============================================================================
