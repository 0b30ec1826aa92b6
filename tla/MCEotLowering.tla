--------------------------- MODULE MCEotLowering ---------------------------
(* The calls checked: every operator at one size, with every mask, several  *)
(* data sets, every declared type that differs from the true one in up to   *)
(* MaxAltered extents, written-out and malformed attributes.                *)
EXTENDS EotLowering

(* A cfg cannot write a negative integer. *)
MCDyn == -1

CallSizes == [B |-> 2, N |-> 3, C |-> 4, I |-> 1, H |-> 3]
Real(name) == Contract(name, CallSizes)

Datum(seed, i) == ((seed * 17 + 5 * i * i + 3 * i) % 11) - 5
Make(dims, seed) ==
    CASE Len(dims) = 1 -> [a \in 1 .. dims[1] |-> Datum(seed, a)]
      [] Len(dims) = 2 -> [a \in 1 .. dims[1] |-> [b \in 1 .. dims[2] |-> Datum(seed, 7 * a + b)]]
      [] Len(dims) = 3 -> [a \in 1 .. dims[1] |-> [b \in 1 .. dims[2] |->
                              [c \in 1 .. dims[3] |-> Datum(seed, 19 * a + 7 * b + c)]]]

Masks == [1 .. CallSizes.B -> [1 .. CallSizes.N -> BOOLEAN]]
OneMask == [b \in 1 .. CallSizes.B |-> [n \in 1 .. CallSizes.N |-> n # b]]
HasMask(name) == name \in Reductions \union {"point_features"}

Tensors(name, seed, mask) ==
    [i \in 1 .. SpecOf(name)[1] |->
        IF HasMask(name) /\ i = 2 THEN mask ELSE Make(Real(name).ins[i], seed + i)]

Typed(shape, elems) ==
    [i \in DOMAIN shape |-> [ranked |-> TRUE, elem |-> elems[i], dims |-> shape[i]]]

Defaults(name) == [i \in 1 .. SpecOf(name)[2] |-> Default(name)[Signature(name)[i]]]
Other(f) == CASE f = "radius_epsilon" -> 5 [] f = "theta_epsilon" -> 0 [] f = "empty_value" -> 0
              [] f = "c_min" -> -2 [] f = "c_max" -> 11 [] f = "tau_min" -> 0 [] f = "tau_max" -> 9
              [] f = "alpha_base" -> -4 [] f = "logvar_min" -> -3 [] f = "logvar_max" -> 8

Call(name, origin, seed, mask, scalars, given) ==
    [name |-> name, origin |-> origin, ins |-> Tensors(name, seed, mask),
     sizes |-> CallSizes, scalars |-> scalars, given |-> given]

Op(name, dialect, scalars, attrs) ==
    [dialect |-> dialect, prefix |-> "torch.eot.", name |-> name,
     ins |-> Typed(Real(name).ins, InElems(name)),
     outs |-> Typed(Real(name).outs, OutElems(name)), scalars |-> scalars, attrs |-> attrs]

Scenario(c, o) == [call |-> c, op |-> o, others |-> FALSE, strict |-> FALSE]

Exported(name, seed, mask, scalars) ==
    Scenario(Call(name, "torch", seed, mask, scalars, << >>), Op(name, "torch", scalars, << >>))
Plain(name) == Exported(name, 1, OneMask, Defaults(name))

(* Values: every mask, three data sets, default and other scalars. *)
Valued ==
    UNION {{Exported(n, seed, mask, scalars) :
               seed \in 1 .. 2, mask \in IF HasMask(n) THEN Masks ELSE {OneMask},
               scalars \in {Defaults(n), [i \in 1 .. SpecOf(n)[2] |-> Other(Signature(n)[i])]}} :
           n \in EotNames}

(* Types: extents made dynamic or one too large, with and without a dynamic *)
(* batch, and operands of a wrong element type, rank or kind.               *)
Positions(o) == {<<s, i, d>> \in {"ins", "outs"} \X (1 .. 9) \X (1 .. 3) :
                    i \in DOMAIN o[s] /\ d \in DOMAIN o[s][i].dims}
WithDims(o, choice) ==
    LET retype(s) == [i \in DOMAIN o[s] |->
            [o[s][i] EXCEPT !.dims = [d \in DOMAIN @ |->
                IF <<s, i, d>> \in DOMAIN choice
                THEN (IF choice[<<s, i, d>>] = Dyn THEN Dyn ELSE @[d] + 1) ELSE @[d]]]]
    IN  [o EXCEPT !.ins = retype("ins"), !.outs = retype("outs")]
Batches(o) == {p \in Positions(o) : p[3] = 1 /\ Len(o[p[1]][p[2]].dims) > 1
                                   /\ ~(o.name = "gru_cell" /\ p[1] = "ins" /\ p[2] > 2)}
DynamicBatch(o) == WithDims(o, [p \in Batches(o) |-> Dyn])
Alterations(o) == UNION {[{p, q} -> {Dyn, 1}] : p \in Positions(o), q \in Positions(o)}
Odd(o) == {[o EXCEPT !.ins[1].elem = "i1"], [o EXCEPT !.ins[2].elem = "f64"],
           [o EXCEPT !.outs[1].elem = "f64"], [o EXCEPT !.ins[1].ranked = FALSE],
           [o EXCEPT !.outs[1].ranked = FALSE], [o EXCEPT !.ins[1].dims = <<2>>],
           [o EXCEPT !.ins = Tail(@)], [o EXCEPT !.outs = @ \o @]}
Retyped ==
    UNION {LET s == Plain(n) IN
           {[s EXCEPT !.op = o] : o \in {WithDims(b, c) : c \in Alterations(s.op),
                                             b \in {s.op, DynamicBatch(s.op)}}
                                     \union {s.op, DynamicBatch(s.op)} \union Odd(s.op)} :
           n \in EotNames}

(* Attributes written by hand, and the environment of the operation. *)
Payloads(name) ==
    {[f \in D \union {"schema_version"} |-> IF f = "schema_version" THEN 1 ELSE Other(f)] :
        D \in SUBSET Fields(name)}
    \union {[schema_version |-> 2], << >>, [schema_version |-> 1, epsilon |-> 1]}
    \union {[f \in {g, "schema_version"} |-> IF f = g THEN v ELSE 1] :
               g \in Fields(name), v \in {Beyond, Text}}
Written ==
    UNION {{LET c == Call(n, "tosa", 1, OneMask, << >>, a)
            IN  Scenario(c, [Op(n, "tosa", << >>, a) EXCEPT !.outs = x]) :
              a \in Payloads(n), x \in {Typed(Real(n).outs, OutElems(n))}} : n \in EotNames}

HandBuilt(n, a) == Scenario(Call(n, "eot", 1, OneMask, << >>, a), Op(n, "eot", << >>, a))
Built ==
    {HandBuilt("masked_mean", [axis |-> x]) : x \in 0 .. 2}
    \union {HandBuilt("gru_cell", [gate_order |-> g, linear_before_reset |-> l]) :
               g \in {"rzn", "zrn"}, l \in BOOLEAN}
    \union {HandBuilt("point_features", [radius_epsilon |-> r, theta_epsilon |-> t]) :
               r \in -1 .. 1, t \in -1 .. 1}
    \union {HandBuilt("gm_parameterize", [Default("gm_parameterize") EXCEPT ![f] = v]) :
               f \in Fields("gm_parameterize"), v \in {-8, 0, 8}}

Surroundings ==
    {[Plain("gru_cell") EXCEPT !.others = x, !.strict = y] : x \in BOOLEAN, y \in BOOLEAN}
    \union {[Plain("masked_max") EXCEPT !.op.prefix = p] : p \in EotPrefixes \union {"aten."}}
    \union {Exported(n, 1, OneMask, [Defaults(n) EXCEPT ![i] = v]) :
               n \in {"point_features"}, i \in 1 .. 2, v \in {Beyond, Text}}
    \union {[Plain(n) EXCEPT !.op.name = "unknown"] : n \in {"masked_min"}}

MCScenarios == Valued \union Retyped \union Written \union Built \union Surroundings
=============================================================================
