---------------------------- MODULE EotLowering ----------------------------
(* One exported EOT call on its way through the compiler: the torch operator *)
(* becomes a tosa.custom whose attributes are a JSON object, that becomes an *)
(* operation of the eot dialect, its verifier decides, the last pass lowers  *)
(* it to linalg loops, and the loops run on the call's tensors.  A behaviour *)
(* starts at any of the three dialects, as the test inputs do.               *)
EXTENDS EotSemantics, SequencesExt

CONSTANTS
    Scenarios,   \* the calls to compile, each with the operation it enters as
    Dyn,         \* the dynamic extent "?", a negative integer as in MLIR
    Beyond,      \* a JSON number that is not finite once parsed
    Text         \* a JSON value that is not a number

VARIABLES
    call,        \* what is compiled: name, tensors, sizes and the caller's scalars
    op,          \* the operation as the last pass left it
    others,      \* whether a tosa.custom of another domain stands beside it
    strict,      \* the option of convert-tosa-custom-to-eot
    status,      \* "compiling", "failed" or "done"
    result       \* what the loops computed

vars == <<call, op, others, strict, status, result>>

EotNames == {"point_features", "masked_mean", "masked_variance", "masked_max",
             "masked_min", "gru_cell", "gm_parameterize"}
Reductions == {"masked_mean", "masked_variance", "masked_max", "masked_min"}

-----------------------------------------------------------------------------
(* The operand lists: tensors, then scalars, then results. *)
SpecOf(name) ==
    CASE name = "point_features" -> <<2, 2, 1>>
      [] name \in {"masked_mean", "masked_variance"} -> <<2, 0, 1>>
      [] name \in {"masked_max", "masked_min"} -> <<2, 1, 1>>
      [] name = "gru_cell" -> <<6, 0, 1>>
      [] name = "gm_parameterize" -> <<5, 7, 9>>

(* The scalars of the python signature, in its order. *)
Signature(name) ==
    CASE name = "point_features" -> <<"radius_epsilon", "theta_epsilon">>
      [] name \in {"masked_max", "masked_min"} -> <<"empty_value">>
      [] name = "gm_parameterize" ->
            <<"c_min", "c_max", "tau_min", "tau_max", "alpha_base", "logvar_min", "logvar_max">>
      [] OTHER -> << >>

(* The defaults, scaled to integers that keep their order and signs. *)
Default(name) ==
    CASE name = "point_features" -> [radius_epsilon |-> 2, theta_epsilon |-> 1]
      [] name = "masked_max" -> [empty_value |-> -40]
      [] name = "masked_min" -> [empty_value |-> 40]
      [] name = "gm_parameterize" ->
            [c_min |-> 1, c_max |-> 7, tau_min |-> 2, tau_max |-> 20, alpha_base |-> 3,
             logvar_min |-> -6, logvar_max |-> 4]
      [] OTHER -> << >>

Finite(v) == v \notin {Beyond, Text}

EotPrefixes == {"torch.eot.", "torch.eot::", "eot.", "eot::"}

-----------------------------------------------------------------------------
(* Torch to tosa.custom *)
(* Mutant: the JSON keys are alphabetical and the scalars written in order. *)
EncodeInOrder(name, s) ==
    CASE name = "point_features" ->
            [radius_epsilon |-> s[1], schema_version |-> 1, theta_epsilon |-> s[2]]
      [] name \in {"masked_max", "masked_min"} -> [empty_value |-> s[1], schema_version |-> 1]
      [] name = "gm_parameterize" ->
            [alpha_base |-> s[1], c_max |-> s[2], c_min |-> s[3], logvar_max |-> s[4],
             logvar_min |-> s[5], schema_version |-> 1, tau_max |-> s[6], tau_min |-> s[7]]
      [] OTHER -> [schema_version |-> 1]

EncodeAttrs(name, s) ==
    CASE name = "point_features" ->
            [radius_epsilon |-> s[1], schema_version |-> 1, theta_epsilon |-> s[2]]
      [] name \in {"masked_max", "masked_min"} -> [empty_value |-> s[1], schema_version |-> 1]
      [] name = "gm_parameterize" ->
            [alpha_base |-> s[5], c_max |-> s[2], c_min |-> s[1], logvar_max |-> s[7],
             logvar_min |-> s[6], schema_version |-> 1, tau_max |-> s[4], tau_min |-> s[3]]
      [] OTHER -> [schema_version |-> 1]

AllRanked(types) == \A i \in DOMAIN types : types[i].ranked

TorchConverts ==
    /\ op.name \in EotNames
    /\ Len(op.ins) + Len(op.scalars) = SpecOf(op.name)[1] + SpecOf(op.name)[2]
    /\ Len(op.outs) = SpecOf(op.name)[3]
    /\ AllRanked(SubSeq(op.ins, 1, SpecOf(op.name)[1])) /\ AllRanked(op.outs)
    /\ \A i \in DOMAIN op.scalars : Finite(op.scalars[i])

(* A name outside the eot namespace is legal as it stands, and left to the *)
(* passes that follow, which have no lowering for it either.               *)
FromTorch ==
    /\ status = "compiling" /\ op.dialect = "torch"
    /\ IF op.prefix \in EotPrefixes /\ TorchConverts
       THEN /\ op' = [op EXCEPT !.dialect = "tosa", !.scalars = << >>,
                                !.ins = SubSeq(@, 1, SpecOf(op.name)[1]),
                                !.attrs = EncodeAttrs(op.name, op.scalars)]
            /\ UNCHANGED status
       ELSE /\ status' = "failed"
            /\ UNCHANGED op
    /\ UNCHANGED <<call, others, strict, result>>

-----------------------------------------------------------------------------
(* tosa.custom to the eot dialect *)
Field(attrs, key, default) == IF key \in DOMAIN attrs THEN attrs[key] ELSE default

Fields(name) == ToSet(Signature(name))

ParsesAs(attrs, name) ==
    /\ "schema_version" \in DOMAIN attrs /\ attrs["schema_version"] = 1
    /\ DOMAIN attrs \subseteq Fields(name) \union {"schema_version"}
    /\ \A f \in DOMAIN attrs : Finite(attrs[f])

FixedAttrs(name) ==
    CASE name \in Reductions -> [axis |-> 1]
      [] name = "gru_cell" -> [gate_order |-> "rzn", linear_before_reset |-> TRUE]
      [] OTHER -> << >>

(* The parsed fields, the defaults of those left out, and what is fixed. *)
NamedAttrs(attrs, name) ==
    [f \in Fields(name) \union DOMAIN FixedAttrs(name) |->
        IF f \in Fields(name) THEN Field(attrs, f, Default(name)[f]) ELSE FixedAttrs(name)[f]]

Recognised ==
    /\ op.name \in EotNames
    /\ Len(op.ins) = SpecOf(op.name)[1] /\ Len(op.outs) = SpecOf(op.name)[3]
    /\ AllRanked(op.ins)
    /\ ParsesAs(op.attrs, op.name)

(* Every eot custom operation must convert; one of another domain has no    *)
(* pattern, so the option `strict`, which makes it illegal, fails the pass. *)
FromTosa ==
    /\ status = "compiling" /\ op.dialect = "tosa"
    /\ IF Recognised /\ ~(strict /\ others)
       THEN /\ op' = [op EXCEPT !.dialect = "eot",
                                !.attrs = NamedAttrs(@, op.name)]
            /\ UNCHANGED status
       ELSE /\ status' = "failed"
            /\ UNCHANGED op
    /\ UNCHANGED <<call, others, strict, result>>

-----------------------------------------------------------------------------
(* The verifiers of the eot dialect *)
Compatible(l, r) == l = Dyn \/ r = Dyn \/ l = r

RankedAs(t, rank, elem) == t.ranked /\ Len(t.dims) = rank /\ t.elem = elem

HasShape(t, expected, elem) ==
    /\ RankedAs(t, Len(expected), elem)
    /\ \A i \in DOMAIN expected : Compatible(t.dims[i], expected[i])

(* Mutant: the result's channels are not compared with the input's. *)
VerifyNoChannel(ins, outs, a) ==
    LET input == ins[1].dims
        mask == ins[2].dims
    IN  /\ RankedAs(ins[1], 3, "f32") /\ RankedAs(ins[2], 2, "i1") /\ RankedAs(outs[1], 2, "f32")
        /\ a.axis = 1
        /\ Compatible(input[1], mask[1]) /\ Compatible(input[2], mask[2])
        /\ Compatible(input[1], outs[1].dims[1])

VerifyMasked(ins, outs, a) ==
    LET input == ins[1].dims
        mask == ins[2].dims
        out == outs[1].dims
    IN  /\ RankedAs(ins[1], 3, "f32") /\ RankedAs(ins[2], 2, "i1") /\ RankedAs(outs[1], 2, "f32")
        /\ a.axis = 1
        /\ Compatible(input[1], mask[1]) /\ Compatible(input[2], mask[2])
        /\ Compatible(input[1], out[1]) /\ Compatible(input[3], out[2])

VerifyPointFeatures(ins, outs, a) ==
    LET points == ins[1].dims
    IN  /\ RankedAs(ins[1], 3, "f32") /\ RankedAs(ins[2], 2, "i1") /\ RankedAs(outs[1], 3, "f32")
        /\ Compatible(points[3], 2) /\ Compatible(outs[1].dims[3], 9)
        /\ a.radius_epsilon > 0 /\ a.theta_epsilon >= 0
        /\ \A d \in 1 .. 2 : /\ Compatible(points[d], ins[2].dims[d])
                             /\ Compatible(points[d], outs[1].dims[d])

VerifyGruCell(ins, outs, a) ==
    LET x == ins[1].dims
        hidden == ins[2].dims[2]
        gates == 3 * hidden
    IN  /\ \A i \in 1 .. 4 : RankedAs(ins[i], 2, "f32")
        /\ \A i \in 5 .. 6 : RankedAs(ins[i], 1, "f32")
        /\ RankedAs(outs[1], 2, "f32")
        /\ a.gate_order = "rzn" /\ a.linear_before_reset
        /\ x[2] # Dyn /\ hidden # Dyn
        /\ Compatible(x[1], ins[2].dims[1])
        /\ HasShape(ins[3], <<gates, x[2]>>, "f32") /\ HasShape(ins[4], <<gates, hidden>>, "f32")
        /\ HasShape(ins[5], <<gates>>, "f32") /\ HasShape(ins[6], <<gates>>, "f32")
        /\ HasShape(outs[1], <<x[1], hidden>>, "f32")

InWidths == <<4, 1, 2, 2, 1>>
OutWidths == <<4, 1, 4, 1, 1, 2, 2, 2, 2>>

VerifyGmParameterize(ins, outs, a) ==
    /\ \A i \in 1 .. 5 : RankedAs(ins[i], 2, "f32") /\ Compatible(ins[i].dims[2], InWidths[i])
    /\ LET known == {ins[i].dims[1] : i \in 1 .. 5} \ {Dyn}
           batch == IF known = {} THEN Dyn ELSE Min(known)
       IN  /\ Cardinality(known) <= 1
           /\ \A i \in 1 .. 9 : HasShape(outs[i], <<batch, OutWidths[i]>>, "f32")
    /\ a.c_min < a.c_max /\ a.tau_min >= 0 /\ a.tau_max > 0
    /\ a.logvar_min < a.logvar_max

Verified(name, ins, outs, a) ==
    /\ AllRanked(ins) /\ AllRanked(outs)
    /\ CASE name = "point_features" -> VerifyPointFeatures(ins, outs, a)
         [] name = "gru_cell" -> VerifyGruCell(ins, outs, a)
         [] name = "gm_parameterize" -> VerifyGmParameterize(ins, outs, a)
         [] OTHER -> VerifyMasked(ins, outs, a)

Verify ==
    /\ status = "compiling" /\ op.dialect = "eot"
    /\ IF Verified(op.name, op.ins, op.outs, op.attrs)
       THEN op' = [op EXCEPT !.dialect = "verified"] /\ UNCHANGED status
       ELSE status' = "failed" /\ UNCHANGED op
    /\ UNCHANGED <<call, others, strict, result>>

-----------------------------------------------------------------------------
(* The loops the last pass emits.  Buffers are sized by the declared result *)
(* types: a dynamic extent is read off an operand, or a constant width.     *)
(* Mutant: the entries of sourceDims pair up with the dynamic extents only. *)
DynamicDimsInOrder(shape, sourceDims, declared) ==
    [i \in DOMAIN declared |->
        LET k == Cardinality({j \in 1 .. i : declared[j] = Dyn})
        IN  IF declared[i] # Dyn THEN declared[i]
            ELSE IF sourceDims[k] >= 0 THEN shape[sourceDims[k] + 1] ELSE -sourceDims[k]]

DynamicDims(shape, sourceDims, declared) ==
    [i \in DOMAIN declared |->
        IF declared[i] # Dyn THEN declared[i]
        ELSE IF sourceDims[i] >= 0 THEN shape[sourceDims[i] + 1] ELSE -sourceDims[i]]

(* A linalg.generic whose last two loops are parallel. *)
Fill(dims, cell(_, _)) == [b \in 1 .. dims[1] |-> [c \in 1 .. dims[2] |-> cell(b, c)]]

LoweredSigmoid(x) == Div(1, Add(1, Exp(Num(-x))))

PointFeatureLoop(points, mask, dims, a) ==
    [b \in 1 .. dims[1] |-> [n \in 1 .. dims[2] |-> [k \in 1 .. dims[3] |->
        LET x == points[b][n][1]
            y == points[b][n][2]
            r2 == Add(Mul(x, x), Mul(y, y))
            r == Sqrt(Add(r2, a.radius_epsilon))
            nonzero == r2 > a.theta_epsilon
            theta == Atan2(IF nonzero THEN y ELSE 0, IF nonzero THEN x ELSE 1)
            features == <<x, y, Larger(x, -x), Larger(y, -y), r, theta,
                          Mul(x, x), Mul(y, y), Mul(x, y)>>
        IN  IF mask[b][n] THEN features[IF k \in 1 .. 8 THEN k ELSE 9] ELSE 0]]]

MaskedSum(valid, samples) == SumOf([n \in DOMAIN valid |-> IF valid[n] THEN samples[n] ELSE 0])
MaskedCount(valid) == MaskedSum(valid, [n \in DOMAIN valid |-> 1])

DivideByCount(sum, count) == Div(sum, Larger(count, 1))

LoweredMean(input, mask, b, c) ==
    DivideByCount(MaskedSum(mask[b], [n \in DOMAIN mask[b] |-> input[b][n][c]]),
                  MaskedCount(mask[b]))

LoweredVariance(input, mask, b, c) ==
    LET mean == LoweredMean(input, mask, b, c)
        squared(n) == LET delta == Sub(input[b][n][c], mean) IN Mul(delta, delta)
    IN  DivideByCount(MaskedSum(mask[b], [n \in DOMAIN mask[b] |-> squared(n)]),
                      MaskedCount(mask[b]))

(* The accumulator starts at empty_value, which an invalid point also reads. *)
LoweredExtremum(name, input, mask, empty, b, c) ==
    LET better(x, y) == IF name = "masked_max" THEN Larger(x, y) ELSE Smaller(x, y)
        step(acc, n) == better(acc, IF mask[b][n] THEN input[b][n][c] ELSE empty)
    IN  FoldLeft(step, empty, [n \in 1 .. Len(mask[b]) |-> n])

ReductionLoop(name, input, mask, dims, a) ==
    LET cell(b, c) ==
          CASE name = "masked_mean" -> LoweredMean(input, mask, b, c)
            [] name = "masked_variance" -> LoweredVariance(input, mask, b, c)
            [] name \in {"masked_max", "masked_min"} ->
                 LoweredExtremum(name, input, mask, a.empty_value, b, c)
    IN  Fill(dims, cell)

(* lhs times rhs transposed, and the columns of gate 0, 1 or 2 of a row *)
Projection(lhs, rhs, width) ==
    LET cell(b, g) == SumOf([k \in DOMAIN lhs[b] |-> Mul(lhs[b][k], rhs[g][k])])
    IN  Fill(<<Len(lhs), width>>, cell)
Gate(row, gate, width) == SubSeq(row, gate * width + 1, (gate + 1) * width)

(* The result is as wide as the hidden state, whose width is static. *)
GruDims(batch, h, declared) ==
    [d \in DOMAIN declared |-> IF declared[d] # Dyn THEN declared[d]
                               ELSE IF d = 1 THEN batch ELSE h]

GruLoop(ins, h, dims) ==
    LET x == Projection(ins[1], ins[3], 3 * h)
        hp == Projection(ins[2], ins[4], 3 * h)
        cell(b, d) ==
          LET ofX(g) == Add(Gate(x[b], g, h)[d], Gate(ins[5], g, h)[d])
              ofH(g) == Add(Gate(hp[b], g, h)[d], Gate(ins[6], g, h)[d])
              r == LoweredSigmoid(Add(ofX(0), ofH(0)))
              z == LoweredSigmoid(Add(ofX(1), ofH(1)))
              candidate == Tanh(Add(ofX(2), Mul(r, ofH(2))))
          IN  Add(Mul(Sub(1, z), candidate), Mul(z, ins[2][b][d]))
    IN  Fill(dims, cell)

(* reduceRows: one column, from -inf for a maximum and from 0 for a sum.    *)
(* Where its width is declared dynamic there are no loops: CannotLower.     *)
RowMax(t, b) == FoldLeft(Larger, -P, t[b])
RowSum(t, b) == FoldLeft(Add, 0, t[b])

GmLoops(ins, piDims, oneDims, cDims, a) ==
    LET expCell(b, c) == Exp(Sub(ins[1][b][c], RowMax(ins[1], b)))
        expLogits == Fill(piDims, expCell)
        piCell(b, c) == Div(expLogits[b][c], RowSum(expLogits, b))
        pi == Fill(piDims, piCell)
        tauCell(b, c) == Add(a.tau_min, Mul(ins[5][b][c],
                                            Mul(a.tau_max, LoweredSigmoid(ins[2][b][c]))))
        tau == Fill(oneDims, tauCell)
        alphaCell(b, c) == Add(a.alpha_base, Mul(pi[b][c], tau[b][1]))
        alphaPi == Fill(piDims, alphaCell)
        alpha0Cell(b, c) == RowSum(alphaPi, b)
        alpha0 == Fill(oneDims, alpha0Cell)
        denominator == Log1p(4 * a.alpha_base + a.tau_min + a.tau_max)
        sCell(b, c) == Smaller(Larger(Div(Log1p(alpha0[b][c]), denominator), 0), 1)
        between(t, low, high) ==
          LET cell(b, c) == Add(low, Mul(high - low, LoweredSigmoid(t[b][c]))) IN Fill(cDims, cell)
        cLogvar == between(ins[4], a.logvar_min, a.logvar_max)
        varCell(b, c) == Exp(cLogvar[b][c])
        cVar == Fill(cDims, varCell)
        qCell(b, c) == Div(1, Add(1, cVar[b][c]))
    IN  <<pi, tau, alphaPi, alpha0, Fill(oneDims, sCell),
          between(ins[3], a.c_min, a.c_max), cLogvar, cVar, Fill(cDims, qCell)>>

(* `shape` are the extents the operands really have when the loops run. *)
Loops(name, ins, shape, outs, a) ==
    LET dims(sourceDims, r) == DynamicDims(shape[1], sourceDims, outs[r].dims)
    IN  CASE name = "point_features" ->
               <<PointFeatureLoop(ins[1], ins[2], dims(<<0, 1, -9>>, 1), a)>>
          [] name \in Reductions ->
               <<ReductionLoop(name, ins[1], ins[2], dims(<<0, 2>>, 1), a)>>
          [] name = "gru_cell" ->
               LET h == shape[2][2]
               IN  <<GruLoop(ins, h, GruDims(shape[1][1], h, outs[1].dims))>>
          [] name = "gm_parameterize" ->
               GmLoops(ins, dims(<<0, -4>>, 1), dims(<<0, -1>>, 2), dims(<<0, -2>>, 6), a)

(* The GRU pattern needs a static hidden size.  reduceRows makes its column *)
(* of tau's declared type and gives it the size of a dynamic batch only: of *)
(* a dynamic width it leaves a tensor.empty that does not verify.           *)
CannotLower(name, ins, outs) ==
    \/ name = "gru_cell" /\ ins[2].dims[2] = Dyn
    \/ name = "gm_parameterize" /\ outs[2].dims[2] = Dyn

(* Every eot operation is illegal after the last pass.  A remaining         *)
(* tosa.custom stays as it is.                                              *)
Lower ==
    /\ status = "compiling" /\ op.dialect = "verified"
    /\ IF CannotLower(op.name, op.ins, op.outs)
       THEN status' = "failed" /\ UNCHANGED op
       ELSE op' = [op EXCEPT !.dialect = "standard"] /\ UNCHANGED status
    /\ UNCHANGED <<call, others, strict, result>>

(* The tensors an operation runs on are of its declared types. *)
HasType(dims, elem, t) ==
    RankedAs(t, Len(dims), elem) /\ \A d \in DOMAIN dims : t.dims[d] \in {Dyn, dims[d]}

Describes(types, shape, elems) ==
    /\ Len(types) = Len(shape)
    /\ \A i \in DOMAIN shape : HasType(shape[i], elems[i], types[i])

(* What python requires of a call's shapes, at batch B, points N, channels  *)
(* C, input width I and hidden width H.                                     *)
Contract(name, s) ==
    CASE name = "point_features" ->
            [ins |-> <<<<s.B, s.N, 2>>, <<s.B, s.N>>>>, outs |-> <<<<s.B, s.N, 9>>>>]
      [] name \in Reductions ->
            [ins |-> <<<<s.B, s.N, s.C>>, <<s.B, s.N>>>>, outs |-> <<<<s.B, s.C>>>>]
      [] name = "gru_cell" ->
            [ins |-> <<<<s.B, s.I>>, <<s.B, s.H>>, <<3 * s.H, s.I>>, <<3 * s.H, s.H>>,
                       <<3 * s.H>>, <<3 * s.H>>>>, outs |-> <<<<s.B, s.H>>>>]
      [] name = "gm_parameterize" ->
            [ins |-> [i \in 1 .. 5 |-> <<s.B, InWidths[i]>>],
             outs |-> [i \in 1 .. 9 |-> <<s.B, OutWidths[i]>>]]

InElems(name) == IF name \in Reductions \union {"point_features"} THEN <<"f32", "i1">>
                 ELSE [i \in 1 .. SpecOf(name)[1] |-> "f32"]
OutElems(name) == [i \in 1 .. SpecOf(name)[3] |-> "f32"]

Fits(o, s) == /\ Describes(o.ins, Contract(o.name, s).ins, InElems(o.name))
              /\ Describes(o.outs, Contract(o.name, s).outs, OutElems(o.name))

(* The compiled function is called with the tensors of the exported call. *)
Run ==
    /\ status = "compiling" /\ op.dialect = "standard" /\ Fits(op, call.sizes)
    /\ result' = Loops(op.name, call.ins, Contract(op.name, call.sizes).ins, op.outs, op.attrs)
    /\ status' = "done"
    /\ UNCHANGED <<call, op, others, strict>>

(* A behaviour starts with a call of the signature, from torch with its      *)
(* scalars as operands or in a dialect below with its attributes written     *)
(* out; the definitions of the eot dialect fix the number of operands and    *)
(* results of an operation that starts there.                                *)
TensorType == [ranked : BOOLEAN, elem : {"f32", "f64", "i1"}, dims : Seq(Nat \union {Dyn})]

(* The tensors of an extent list; those of rank 1 to 3 occur. *)
TensorsOf(dims, cells) ==
    CASE Len(dims) = 1 -> [1 .. dims[1] -> cells]
      [] Len(dims) = 2 -> [1 .. dims[1] -> [1 .. dims[2] -> cells]]
      [] Len(dims) = 3 -> [1 .. dims[1] -> [1 .. dims[2] -> [1 .. dims[3] -> cells]]]

Cells(elem) == IF elem = "i1" THEN BOOLEAN ELSE Numbers

(* The tensors are those the exported function was called with.  A reduction *)
(* is over at least one point: torch has no maximum of none, and the nested  *)
(* sequences no channels.                                                    *)
WellFormedCall(c) ==
    /\ c.name \in EotNames /\ c.origin \in {"torch", "tosa", "eot"}
    /\ c.sizes \in [B : Nat, N : Nat, C : Nat, I : Nat, H : Nat]
    /\ c.name \in Reductions => c.sizes.N > 0
    /\ c.scalars \in Seq(Int)
    /\ c.origin = "torch" => Len(c.scalars) = SpecOf(c.name)[2]
    /\ \A f \in Fields(c.name) \intersect DOMAIN c.given : c.given[f] \in Int
    /\ c.origin = "eot" => Fields(c.name) \subseteq DOMAIN c.given
    /\ LET shapes == Contract(c.name, c.sizes).ins
       IN  /\ DOMAIN c.ins = DOMAIN shapes
           /\ \A i \in DOMAIN shapes :
                 c.ins[i] \in TensorsOf(shapes[i], Cells(InElems(c.name)[i]))

WellFormedOp(o, c) ==
    /\ DOMAIN o = {"dialect", "prefix", "name", "ins", "outs", "scalars", "attrs"}
    /\ o.dialect = c.origin /\ o.name \in {c.name, "unknown"}
    /\ o.ins \in Seq(TensorType) /\ o.outs \in Seq(TensorType)
    /\ IF o.dialect = "torch" THEN o.scalars = c.scalars ELSE o.attrs = c.given
    /\ o.dialect = "eot" =>
          /\ o.name = c.name
          /\ Len(o.ins) = SpecOf(o.name)[1] /\ Len(o.outs) = SpecOf(o.name)[3]

ASSUME ScenariosAssumption ==
    /\ \A s \in Scenarios : WellFormedCall(s.call) /\ WellFormedOp(s.op, s.call)
    /\ Dyn \in Int \ Nat /\ 1 \notin {Beyond, Text}

Init ==
    /\ \E s \in Scenarios :
          /\ call = s.call /\ op = s.op
          /\ others = s.others /\ strict = s.strict
    /\ status = "compiling"
    /\ result = << >>

Next == FromTorch \/ FromTosa \/ Verify \/ Lower \/ Run

Spec == Init /\ [][Next]_vars

-----------------------------------------------------------------------------
(* Properties *)

(* What the caller meant: the scalars in the order of the python signature, *)
(* or the fields written by hand, the declared default for a missing one.   *)
Arguments ==
    CASE call.origin = "torch" ->
            [f \in Fields(call.name) |->
               call.scalars[CHOOSE i \in DOMAIN call.scalars : Signature(call.name)[i] = f]]
      [] call.origin = "tosa" -> [f \in Fields(call.name) |-> Field(call.given, f, Default(call.name)[f])]
      [] call.origin = "eot" -> call.given

Legal(name, a) ==
    CASE name = "point_features" -> a.radius_epsilon > 0 /\ a.theta_epsilon >= 0
      [] name = "gm_parameterize" -> /\ a.c_min < a.c_max /\ a.tau_min >= 0 /\ a.tau_max > 0
                                     /\ a.logvar_min < a.logvar_max
      [] OTHER -> TRUE

(* No input lies beyond empty_value: the accumulator's start is neutral.    *)
EmptyIsNeutral ==
    call.name \in {"masked_max", "masked_min"} =>
        \A b \in DOMAIN call.ins[1] : \A n \in DOMAIN call.ins[1][b] :
            \A c \in DOMAIN call.ins[1][b][n] :
                IF call.name = "masked_max" THEN call.ins[1][b][n][c] >= Arguments.empty_value
                                            ELSE call.ins[1][b][n][c] <= Arguments.empty_value

Types == ToSet(op.ins) \union ToSet(op.outs)

AllStatic == \A t \in Types : \A d \in DOMAIN t.dims : t.dims[d] # Dyn

(* The declared extents are sizes enough to try: a size that no type names is free. *)
Extents == {1} \union ((UNION {ToSet(type.dims) : type \in Types}) \ {Dyn})

Sizes == [B : Extents, N : Extents, C : Extents, I : Extents, H : Extents]

(* Each dialect reads only what it declares: scalars are gone after torch,  *)
(* and an eot operation carries exactly its attributes.                     *)
TypeOK ==
    /\ op.dialect \in {"torch", "tosa", "eot", "verified", "standard"}
    /\ status \in {"compiling", "failed", "done"}
    /\ others \in BOOLEAN /\ strict \in BOOLEAN
    /\ op.dialect # "torch" => op.scalars = << >>
    /\ op.dialect \in {"eot", "verified", "standard"} =>
          DOMAIN op.attrs = Fields(op.name) \union DOMAIN FixedAttrs(op.name)
    /\ status = "done" => Len(result) = SpecOf(op.name)[3]

(* For every call that compiles, whatever part of its shapes is dynamic,    *)
(* compiled and eager execution agree on every output: attributes keep      *)
(* their names through JSON, loops read the right operands and buffers have *)
(* the right extents.                                                       *)
LowersToReference ==
    status = "done" /\ EmptyIsNeutral => result = Eager(call.name, call.ins, Arguments)

(* The same without the condition on the data.  It fails: a row of valid    *)
(* points that all lie below empty_value has empty_value as its compiled    *)
(* maximum, and its largest point as the eager one.                         *)
AgreesOnAnyData ==
    status = "done" => result = Eager(call.name, call.ins, Arguments)

(* A call eager torch accepts, with constants the operation documents, is   *)
(* never refused on the way down, save where an extent has to be static: the *)
(* widths of a GRU, which its verifier asks for, and the last extent of tau, *)
(* which reduceRows needs and no verifier asks for (the exporter's fake     *)
(* tensors declare it 1, eot_export_ops.py:173).                            *)
ExportCompiles ==
    (/\ call.origin = "torch" /\ op.prefix \in EotPrefixes /\ op.name = call.name
     /\ Fits(op, call.sizes)
     /\ call.name = "gru_cell" => op.ins[1].dims[2] # Dyn /\ op.ins[2].dims[2] # Dyn
     /\ call.name = "gm_parameterize" => op.outs[2].dims[2] # Dyn
     /\ \A i \in DOMAIN call.scalars : Finite(call.scalars[i])
     /\ Legal(call.name, Arguments)
     /\ ~(strict /\ others))
    => status # "failed"

(* The verifier lets a static operation through only if there are tensors   *)
(* that python would accept with those shapes, so the loops it becomes      *)
(* never index out of an operand.                                           *)
SomeTensorsFit == op.dialect = "verified" => \E s \in Sizes : Fits(op, s)
StaticTensorsFit == AllStatic => SomeTensorsFit

=============================================================================
