------------------------- MODULE EotLowering_proofs -------------------------
(* What the compiler does to the types and the attributes of a call, and     *)
(* that the loops it ends in compute what eager torch does, for every shape, *)
(* static or dynamic, every tensor and every value of the scalars.           *)
EXTENDS EotLowering, FiniteSetTheorems, WellFoundedInduction, TLAPS

OpFields == {"dialect", "prefix", "name", "ins", "outs", "scalars", "attrs"}
EotDialect == {"eot", "verified", "standard"}

(* The operation keeps its operands and results on the way down. *)
Shaped ==
    /\ WellFormedCall(call)
    /\ DOMAIN op = OpFields
    /\ op.dialect \in {"torch", "tosa"} \union EotDialect
    /\ op.name \in {call.name, "unknown"}
    /\ op.ins \in Seq(TensorType) /\ op.outs \in Seq(TensorType)
    /\ op.dialect \in EotDialect =>
          /\ op.name = call.name
          /\ Len(op.ins) = SpecOf(op.name)[1] /\ Len(op.outs) = SpecOf(op.name)[3]

(* Where the scalars are, dialect by dialect. *)
CarriesScalars ==
    /\ op.dialect = "torch" => call.origin = "torch" /\ op.scalars = call.scalars
    /\ op.dialect = "tosa" =>
          IF call.origin = "torch"
          THEN op.name = call.name /\ op.attrs = EncodeAttrs(call.name, call.scalars)
          ELSE call.origin = "tosa" /\ op.attrs = call.given
    /\ op.dialect \in EotDialect =>
          /\ \A f \in Fields(call.name) : op.attrs[f] = Arguments[f]
          /\ call.origin # "eot" =>
                \A f \in DOMAIN FixedAttrs(call.name) :
                    op.attrs[f] = FixedAttrs(call.name)[f]

(* The verifier passed what is marked so. *)
Checked == op.dialect = "verified" => Verified(op.name, op.ins, op.outs, op.attrs)

IInv == Shaped /\ CarriesScalars /\ Checked

-----------------------------------------------------------------------------
(* Names and signatures *)

LEMMA SpecFacts ==
    ASSUME NEW name \in EotNames
    PROVE  /\ SpecOf(name)[1] \in Nat /\ SpecOf(name)[2] \in Nat /\ SpecOf(name)[3] \in Nat
           /\ Len(Signature(name)) = SpecOf(name)[2]
           /\ DOMAIN Signature(name) = 1 .. SpecOf(name)[2]
<1>1. CASE name = "point_features"
    BY <1>1 DEF SpecOf, Signature
<1>2. CASE name \in {"masked_mean", "masked_variance"}
    BY <1>2 DEF SpecOf, Signature
<1>3. CASE name = "masked_max"
    BY <1>3 DEF SpecOf, Signature
<1>6. CASE name = "masked_min"
    BY <1>6 DEF SpecOf, Signature
<1>4. CASE name = "gru_cell"
    BY <1>4 DEF SpecOf, Signature
<1>5. CASE name = "gm_parameterize"
    BY <1>5 DEF SpecOf, Signature
<1> QED
    BY <1>1, <1>2, <1>3, <1>4, <1>5, <1>6 DEF EotNames

(* No two scalars of a signature have the same name. *)
LEMMA SignatureDistinct ==
    ASSUME NEW name \in EotNames, NEW i \in DOMAIN Signature(name),
           NEW j \in DOMAIN Signature(name), Signature(name)[i] = Signature(name)[j]
    PROVE  i = j
    BY DEF EotNames, Signature

LEMMA FieldsOf ==
    ASSUME NEW name \in EotNames, NEW f \in Fields(name)
    PROVE  \E i \in DOMAIN Signature(name) : Signature(name)[i] = f
    BY DEF Fields, ToSet

(* The JSON object has each scalar under its own name, and nothing is lost. *)
LEMMA Encoded ==
    ASSUME NEW name \in EotNames, NEW s, NEW i \in DOMAIN Signature(name)
    PROVE  LET a == EncodeAttrs(name, s) f == Signature(name)[i]
           IN  f \in DOMAIN a /\ a[f] = s[i] /\ f # "schema_version"
    BY DEF EotNames, Signature, EncodeAttrs

LEMMA EncodedDomain ==
    ASSUME NEW name \in EotNames, NEW s
    PROVE  LET a == EncodeAttrs(name, s)
           IN  /\ DOMAIN a = Fields(name) \union {"schema_version"}
               /\ a["schema_version"] = 1
    BY DEF EotNames, Signature, EncodeAttrs, Fields, ToSet

(* The scalars by name, for a call from torch. *)
LEMMA TorchArguments ==
    ASSUME WellFormedCall(call), call.origin = "torch", NEW i \in DOMAIN Signature(call.name)
    PROVE  /\ Signature(call.name)[i] \in Fields(call.name)
           /\ Arguments[Signature(call.name)[i]] = call.scalars[i]
<1> DEFINE f == Signature(call.name)[i]
           at == CHOOSE j \in DOMAIN call.scalars : Signature(call.name)[j] = f
<1>1. call.name \in EotNames /\ call.scalars \in Seq(Int)
    BY DEF WellFormedCall
<1>2. DOMAIN call.scalars = DOMAIN Signature(call.name)
    BY <1>1, SpecFacts DEF WellFormedCall
<1>3. at \in DOMAIN call.scalars /\ Signature(call.name)[at] = f
    BY <1>2
<1>4. at = i
    BY <1>1, <1>2, <1>3, SignatureDistinct
<1>5. f \in Fields(call.name)
    BY DEF Fields, ToSet
<1>6. Arguments[f] = call.scalars[at]
    BY <1>5 DEF Arguments
<1> QED
    BY <1>4, <1>5, <1>6

(* The attributes of the eot dialect: the JSON fields, the defaults of those *)
(* left out, and the fixed ones, which no field hides.                       *)
LEMMA FixedFacts ==
    ASSUME NEW name \in EotNames
    PROVE  DOMAIN FixedAttrs(name) \intersect Fields(name) = {}
<1>1. CASE name \in Reductions
    BY <1>1 DEF Reductions, FixedAttrs, Fields, ToSet, Signature
<1>2. CASE name = "gru_cell"
    BY <1>2 DEF Reductions, FixedAttrs, Fields, ToSet, Signature
<1>3. CASE name \in {"point_features", "gm_parameterize"}
    BY <1>3 DEF Reductions, FixedAttrs
<1> QED
    BY <1>1, <1>2, <1>3 DEF EotNames, Reductions

LEMMA Attributes ==
    ASSUME NEW name \in EotNames, NEW attrs
    PROVE  LET a == NamedAttrs(attrs, name)
           IN  /\ \A f \in Fields(name) : a[f] = Field(attrs, f, Default(name)[f])
               /\ \A f \in DOMAIN FixedAttrs(name) : a[f] = FixedAttrs(name)[f]
    BY FixedFacts DEF NamedAttrs

(* What a call from torch has arrived with in the eot dialect. *)
LEMMA TorchAttributes ==
    ASSUME WellFormedCall(call), call.origin = "torch"
    PROVE  LET a == NamedAttrs(EncodeAttrs(call.name, call.scalars), call.name)
           IN  \A f \in Fields(call.name) : a[f] = Arguments[f]
<1> DEFINE e == EncodeAttrs(call.name, call.scalars)
<1> SUFFICES ASSUME NEW f \in Fields(call.name)
             PROVE  NamedAttrs(e, call.name)[f] = Arguments[f]
    OBVIOUS
<1>1. call.name \in EotNames
    BY DEF WellFormedCall
<1>2. PICK i \in DOMAIN Signature(call.name) : Signature(call.name)[i] = f
    BY <1>1, FieldsOf
<1>3. f \in DOMAIN e /\ e[f] = call.scalars[i]
    BY <1>1, <1>2, Encoded
<1>4. Field(e, f, Default(call.name)[f]) = call.scalars[i]
    BY <1>3 DEF Field
<1> HIDE DEF e
<1>5. NamedAttrs(e, call.name)[f] = call.scalars[i]
    BY <1>1, <1>4, Attributes
<1>6. Arguments[f] = call.scalars[i]
    BY <1>2, TorchArguments
<1> QED
    BY <1>5, <1>6

-----------------------------------------------------------------------------
(* The way down *)

LEMMA NameFacts ==
    ASSUME Shaped
    PROVE  /\ call.name \in EotNames /\ call.scalars \in Seq(Int)
           /\ call.origin = "torch" => Len(call.scalars) = SpecOf(call.name)[2]
           /\ op.name \in EotNames => op.name = call.name
    BY DEF Shaped, WellFormedCall, EotNames

(* A call with the right number of operands loses none with its scalars. *)
LEMMA TensorsOfTorch ==
    ASSUME Shaped, CarriesScalars, op.dialect = "torch", op.name = call.name,
           Len(op.ins) + Len(op.scalars) = SpecOf(op.name)[1] + SpecOf(op.name)[2]
    PROVE  /\ Len(op.ins) = SpecOf(op.name)[1]
           /\ SubSeq(op.ins, 1, SpecOf(op.name)[1]) = op.ins
<1>1. op.ins \in Seq(TensorType)
    BY DEF Shaped
<1>2. Len(op.scalars) = SpecOf(op.name)[2] /\ SpecOf(op.name)[2] \in Nat
    BY NameFacts, SpecFacts DEF CarriesScalars
<1>3. Len(op.ins) = SpecOf(op.name)[1]
    BY <1>1, <1>2, NameFacts, SpecFacts
<1>4. SubSeq(op.ins, 1, Len(op.ins)) = op.ins
    BY <1>1
<1> QED
    BY <1>3, <1>4

(* Each pass changes the dialect, and only the first two the attributes. *)
LEMMA TorchStep ==
    ASSUME IInv, FromTorch, op' # op
    PROVE  /\ TorchConverts /\ op.name = call.name /\ op.dialect = "torch"
           /\ op.prefix \in EotPrefixes
           /\ DOMAIN op' = OpFields /\ op'.dialect = "tosa"
           /\ op'.name = op.name /\ op'.ins = op.ins /\ op'.outs = op.outs
           /\ op'.prefix = op.prefix
           /\ op'.attrs = EncodeAttrs(op.name, op.scalars)
<1>1. /\ TorchConverts /\ op.dialect = "torch" /\ op.prefix \in EotPrefixes
      /\ op' = [op EXCEPT !.dialect = "tosa", !.scalars = << >>,
                          !.ins = SubSeq(@, 1, SpecOf(op.name)[1]),
                          !.attrs = EncodeAttrs(op.name, op.scalars)]
    BY DEF FromTorch
<1>2. op.name = call.name
    BY <1>1, NameFacts DEF TorchConverts, IInv
<1>3. SubSeq(op.ins, 1, SpecOf(op.name)[1]) = op.ins
    BY <1>1, <1>2, TensorsOfTorch DEF TorchConverts, IInv
<1>4. DOMAIN op = OpFields
    BY DEF IInv, Shaped
<1> QED
    BY <1>1, <1>2, <1>3, <1>4 DEF OpFields

LEMMA TosaStep ==
    ASSUME IInv, FromTosa, op' # op
    PROVE  /\ Recognised /\ op.name = call.name /\ op.dialect = "tosa"
           /\ DOMAIN op' = OpFields /\ op'.dialect = "eot"
           /\ op'.name = op.name /\ op'.ins = op.ins /\ op'.outs = op.outs
           /\ op'.prefix = op.prefix
           /\ op'.attrs = NamedAttrs(op.attrs, op.name)
<1>1. /\ Recognised /\ op.dialect = "tosa"
      /\ op' = [op EXCEPT !.dialect = "eot", !.attrs = NamedAttrs(@, op.name)]
    BY DEF FromTosa
<1>2. op.name = call.name
    BY <1>1, NameFacts DEF Recognised, IInv
<1>3. DOMAIN op = OpFields
    BY DEF IInv, Shaped
<1> QED
    BY <1>1, <1>2, <1>3 DEF OpFields

LEMMA VerifyStep ==
    ASSUME IInv, Verify, op' # op
    PROVE  /\ Verified(op.name, op.ins, op.outs, op.attrs) /\ op.dialect = "eot"
           /\ DOMAIN op' = OpFields /\ op'.dialect = "verified"
           /\ op'.name = op.name /\ op'.ins = op.ins /\ op'.outs = op.outs
           /\ op'.attrs = op.attrs /\ op'.prefix = op.prefix
<1>1. /\ Verified(op.name, op.ins, op.outs, op.attrs) /\ op.dialect = "eot"
      /\ op' = [op EXCEPT !.dialect = "verified"]
    BY DEF Verify
<1>2. DOMAIN op = OpFields
    BY DEF IInv, Shaped
<1> QED
    BY <1>1, <1>2 DEF OpFields

LEMMA LowerStep ==
    ASSUME IInv, Lower, op' # op
    PROVE  /\ op.dialect = "verified"
           /\ DOMAIN op' = OpFields /\ op'.dialect = "standard"
           /\ op'.name = op.name /\ op'.ins = op.ins /\ op'.outs = op.outs
           /\ op'.attrs = op.attrs /\ op'.prefix = op.prefix
<1>1. op.dialect = "verified" /\ op' = [op EXCEPT !.dialect = "standard"]
    BY DEF Lower
<1>2. DOMAIN op = OpFields
    BY DEF IInv, Shaped
<1> QED
    BY <1>1, <1>2 DEF OpFields

LEMMA SameOp == ASSUME IInv, op' = op, call' = call PROVE IInv'
<1>1. Arguments' = Arguments
    BY DEF Arguments
<1>2. Shaped'
    BY DEF IInv, Shaped
<1>3. CarriesScalars'
    BY <1>1 DEF IInv, CarriesScalars
<1>4. Checked'
    BY DEF IInv, Checked
<1> QED
    BY <1>2, <1>3, <1>4 DEF IInv

LEMMA StepKeeps ==
    ASSUME IInv, [Next]_vars
    PROVE  IInv'
<1>1. call' = call
    BY DEF Next, FromTorch, FromTosa, Verify, Lower, Run, vars
<1>2. Arguments' = Arguments
    BY <1>1 DEF Arguments
<1>3. CASE op' = op
    BY <1>1, <1>3, SameOp
<1>4. CASE FromTorch /\ op' # op
    <2>1. op.scalars = call.scalars /\ call.origin = "torch"
        BY <1>4, TorchStep DEF IInv, CarriesScalars
    <2> QED
        BY <1>1, <1>4, <2>1, TorchStep DEF IInv, Shaped, CarriesScalars, Checked, EotDialect
<1>5. CASE FromTosa /\ op' # op
    <2>1. Shaped'
        BY <1>1, <1>5, TosaStep DEF IInv, Shaped, EotDialect, Recognised
    <2>2. call.name \in EotNames /\ WellFormedCall(call)
        BY DEF IInv, Shaped, WellFormedCall
    <2>3. \A f \in DOMAIN FixedAttrs(call.name) : op'.attrs[f] = FixedAttrs(call.name)[f]
        BY <1>5, <2>2, TosaStep, Attributes
    <2>4. \A f \in Fields(call.name) : op'.attrs[f] = Arguments[f]
        <3>1. CASE call.origin = "torch"
            BY <1>5, <2>2, <3>1, TosaStep, TorchAttributes DEF IInv, CarriesScalars
        <3>2. CASE call.origin # "torch"
            <4>1. op.attrs = call.given /\ call.origin = "tosa" /\ op.name = call.name
                BY <1>5, <3>2, TosaStep DEF IInv, CarriesScalars
            <4>2. op'.attrs = NamedAttrs(call.given, call.name)
                BY <1>5, <4>1, TosaStep
            <4>3. ASSUME NEW f \in Fields(call.name)
                  PROVE  op'.attrs[f] = Field(call.given, f, Default(call.name)[f])
                BY <2>2, <4>2, Attributes
            <4>4. ASSUME NEW f \in Fields(call.name)
                  PROVE  Arguments[f] = Field(call.given, f, Default(call.name)[f])
                BY <4>1 DEF Arguments
            <4> QED
                BY <4>3, <4>4
        <3> QED
            BY <3>1, <3>2
    <2> QED
        BY <1>1, <1>2, <1>5, <2>1, <2>3, <2>4, TosaStep
        DEF IInv, CarriesScalars, Checked, EotDialect
<1>6. CASE (Verify \/ Lower) /\ op' # op
    <2>1. /\ op.dialect \in EotDialect /\ op'.dialect \in {"verified", "standard"}
          /\ DOMAIN op' = OpFields
          /\ op'.name = op.name /\ op'.ins = op.ins /\ op'.outs = op.outs
          /\ op'.attrs = op.attrs
          /\ op'.dialect = "verified" => Verified(op.name, op.ins, op.outs, op.attrs)
        BY <1>6, VerifyStep, LowerStep DEF EotDialect
    <2>2. Shaped'
        BY <1>1, <2>1 DEF IInv, Shaped, EotDialect
    <2>3. CarriesScalars'
        BY <1>1, <1>2, <2>1 DEF IInv, CarriesScalars, EotDialect
    <2>4. Checked'
        BY <2>1 DEF Checked
    <2> QED
        BY <2>2, <2>3, <2>4 DEF IInv
<1> QED
    BY <1>3, <1>4, <1>5, <1>6 DEF Next, Run, vars

LEMMA InitHolds == Init => IInv
<1> SUFFICES ASSUME Init PROVE IInv
    OBVIOUS
<1>1. WellFormedCall(call) /\ WellFormedOp(op, call)
    BY ScenariosAssumption DEF Init
<1>2. op.dialect \in {"torch", "tosa", "eot"}
    BY <1>1 DEF WellFormedCall, WellFormedOp
<1>3. Shaped
    BY <1>1, <1>2 DEF Shaped, WellFormedOp, OpFields, EotDialect
<1>4. CarriesScalars
    BY <1>1, <1>2 DEF CarriesScalars, WellFormedOp, EotDialect, Arguments
<1> QED
    BY <1>2, <1>3, <1>4 DEF IInv, Checked

(* The invariant of the way down holds from any of the three dialects. *)
THEOREM LoweringInvariance == Spec => []IInv
<1>1. IInv /\ [Next]_vars => IInv'
    BY StepKeeps
<1> QED
    BY InitHolds, <1>1, PTL DEF Spec

(* Whatever its dialect, an operation carries the scalars the caller meant,  *)
(* each under its own name, through JSON, defaults and fixed attributes.     *)
THEOREM AttributesSurvive ==
    Spec => [](op.dialect \in EotDialect =>
                  \A f \in Fields(call.name) : op.attrs[f] = Arguments[f])
<1>1. IInv => (op.dialect \in EotDialect =>
                  \A f \in Fields(call.name) : op.attrs[f] = Arguments[f])
    BY DEF IInv, CarriesScalars
<1> QED
    BY <1>1, LoweringInvariance, PTL

-----------------------------------------------------------------------------
(* Static operations have tensors *)

LEMMA SizesFromExtents ==
    ASSUME NEW B \in Extents, NEW N \in Extents, NEW C \in Extents,
           NEW I \in Extents, NEW H \in Extents
    PROVE  [B |-> B, N |-> N, C |-> C, I |-> I, H |-> H] \in Sizes
    BY DEF Sizes

(* The dimensions of an operand or a result that a rank check has passed. *)
LEMMA StaticDims ==
    ASSUME Shaped, AllStatic,
           NEW t \in Types, NEW rank, NEW elem,
           RankedAs(t, rank, elem)
    PROVE  /\ t.ranked /\ t.elem = elem /\ Len(t.dims) = rank /\ DOMAIN t.dims = 1 .. rank
           /\ \A d \in 1 .. rank :
                 t.dims[d] # Dyn /\ t.dims[d] \in Extents /\ t.dims[d] \in Nat
<1>1. op.ins \in Seq(TensorType) /\ op.outs \in Seq(TensorType)
    BY DEF Shaped
<1>3. t \in TensorType
    BY <1>1 DEF ToSet, Types
<1>4. t.ranked /\ t.elem = elem /\ Len(t.dims) = rank /\ DOMAIN t.dims = 1 .. rank
    BY <1>3 DEF RankedAs, TensorType
<1>5. ASSUME NEW d \in 1 .. rank
      PROVE  t.dims[d] # Dyn /\ t.dims[d] \in Extents /\ t.dims[d] \in Nat
    <2>1. t.dims[d] # Dyn /\ t.dims[d] \in Nat
        BY <1>3, <1>4 DEF AllStatic, TensorType
    <2>2. t.dims[d] \in ToSet(t.dims)
        BY <1>4 DEF ToSet
    <2>3. t.dims[d] \in UNION {ToSet(type.dims) : type \in Types}
        BY <2>2 DEF Types
    <2>4. t.dims[d] \in (UNION {ToSet(type.dims) : type \in Types}) \ {Dyn}
        BY <2>1, <2>3
    <2>5. t.dims[d] \in Extents
        BY <2>4 DEF Extents
    <2> QED
        BY <2>1, <2>5
<1> QED
    BY <1>4, <1>5

LEMMA MembersOf ==
    ASSUME NEW s, NEW i \in DOMAIN s
    PROVE  s[i] \in ToSet(s)
    BY DEF ToSet

(* A static type of the extents dims. *)
LEMMA VectorType ==
    ASSUME NEW t, NEW elem, NEW a, RankedAs(t, 1, elem), t.dims[1] \in {Dyn, a}
    PROVE  HasType(<<a>>, elem, t)
    BY DEF HasType

LEMMA MatrixType ==
    ASSUME NEW t, NEW elem, NEW a, NEW b, RankedAs(t, 2, elem),
           t.dims[1] \in {Dyn, a}, t.dims[2] \in {Dyn, b}
    PROVE  HasType(<<a, b>>, elem, t)
    BY DEF HasType

LEMMA CubeType ==
    ASSUME NEW t, NEW elem, NEW a, NEW b, NEW c, RankedAs(t, 3, elem),
           t.dims[1] \in {Dyn, a}, t.dims[2] \in {Dyn, b}, t.dims[3] \in {Dyn, c}
    PROVE  HasType(<<a, b, c>>, elem, t)
    BY DEF HasType

(* An operand list, or a result list, of one or two tensors. *)
LEMMA DescribesOne ==
    ASSUME NEW types, Len(types) = 1, NEW dims, NEW elems, HasType(dims, elems[1], types[1])
    PROVE  Describes(types, <<dims>>, elems)
    BY DEF Describes

LEMMA DescribesTwo ==
    ASSUME NEW types, Len(types) = 2, NEW dims1, NEW dims2, NEW elem1, NEW elem2,
           HasType(dims1, elem1, types[1]), HasType(dims2, elem2, types[2])
    PROVE  Describes(types, <<dims1, dims2>>, <<elem1, elem2>>)
    BY DEF Describes

LEMMA MaskedFits ==
    ASSUME Shaped, AllStatic, op.name \in Reductions,
           Len(op.ins) = 2, Len(op.outs) = 1, VerifyMasked(op.ins, op.outs, op.attrs)
    PROVE  \E s \in Sizes : Fits(op, s)
<1> DEFINE input == op.ins[1]
           mask == op.ins[2]
           out == op.outs[1]
           B == input.dims[1]
           N == input.dims[2]
           C == input.dims[3]
           s == [B |-> B, N |-> N, C |-> C, I |-> 1, H |-> 1]
<1>1. DOMAIN op.ins = 1 .. 2 /\ DOMAIN op.outs = 1 .. 1
    BY DEF Shaped
<1>2. input \in Types /\ mask \in Types /\ out \in Types
    BY <1>1, MembersOf DEF Types
<1>13. RankedAs(input, 3, "f32") /\ RankedAs(mask, 2, "i1") /\ RankedAs(out, 2, "f32")
    BY DEF VerifyMasked
<1>3. /\ Compatible(B, mask.dims[1]) /\ Compatible(N, mask.dims[2])
      /\ Compatible(B, out.dims[1]) /\ Compatible(C, out.dims[2])
    BY DEF VerifyMasked
<1> HIDE DEF input, mask, out
<1>4. /\ \A d \in 1 .. 3 : input.dims[d] # Dyn /\ input.dims[d] \in Extents
      /\ \A d \in 1 .. 2 : mask.dims[d] # Dyn /\ out.dims[d] # Dyn
    <2>1. \A d \in 1 .. 3 : input.dims[d] # Dyn /\ input.dims[d] \in Extents
        BY <1>2, <1>13, StaticDims
    <2>2. \A d \in 1 .. 2 : mask.dims[d] # Dyn
        BY <1>2, <1>13, StaticDims
    <2>3. \A d \in 1 .. 2 : out.dims[d] # Dyn
        BY <1>2, <1>13, StaticDims
    <2> QED
        BY <2>1, <2>2, <2>3
<1>5. /\ mask.dims[1] = B /\ mask.dims[2] = N /\ out.dims[1] = B /\ out.dims[2] = C
    <2>1. B # Dyn /\ N # Dyn /\ C # Dyn
        BY <1>4
    <2> HIDE DEF B, N, C
    <2> QED
        BY <1>3, <1>4, <2>1 DEF Compatible
<1>6. s \in Sizes
    <2>1. 1 \in Extents
        BY DEF Extents
    <2> QED
        BY <1>4, <2>1, SizesFromExtents
<1>7. Contract(op.name, s) = [ins |-> <<<<B, N, C>>, <<B, N>>>>, outs |-> <<<<B, C>>>>]
    BY DEF Contract, Reductions
<1>8. InElems(op.name) = <<"f32", "i1">> /\ OutElems(op.name)[1] = "f32"
    BY DEF InElems, OutElems, Reductions, SpecOf
<1>9. /\ HasType(<<B, N, C>>, "f32", input) /\ HasType(<<B, N>>, "i1", mask)
      /\ HasType(<<B, C>>, "f32", out)
    BY <1>5, <1>13, CubeType, MatrixType
<1>10. Describes(op.ins, <<<<B, N, C>>, <<B, N>>>>, <<"f32", "i1">>)
    BY <1>9, DescribesTwo DEF input, mask
<1>11. Describes(op.outs, <<<<B, C>>>>, OutElems(op.name))
    BY <1>8, <1>9, DescribesOne DEF out
<1>12. Fits(op, s)
    <2>1. /\ Contract(op.name, s).ins = <<<<B, N, C>>, <<B, N>>>>
          /\ Contract(op.name, s).outs = <<<<B, C>>>>
        BY <1>7
    <2> HIDE DEF s, B, N, C
    <2> QED
        BY <1>8, <1>10, <1>11, <2>1 DEF Fits
<1> QED
    BY <1>6, <1>12

LEMMA PointFits ==
    ASSUME Shaped, AllStatic, op.name = "point_features",
           Len(op.ins) = 2, Len(op.outs) = 1, VerifyPointFeatures(op.ins, op.outs, op.attrs)
    PROVE  \E s \in Sizes : Fits(op, s)
<1> DEFINE points == op.ins[1]
           mask == op.ins[2]
           out == op.outs[1]
           B == points.dims[1]
           N == points.dims[2]
           s == [B |-> B, N |-> N, C |-> 1, I |-> 1, H |-> 1]
<1>1. DOMAIN op.ins = 1 .. 2 /\ DOMAIN op.outs = 1 .. 1
    BY DEF Shaped
<1>2. points \in Types /\ mask \in Types /\ out \in Types
    BY <1>1, MembersOf DEF Types
<1>13. RankedAs(points, 3, "f32") /\ RankedAs(mask, 2, "i1") /\ RankedAs(out, 3, "f32")
    BY DEF VerifyPointFeatures
<1>3. /\ Compatible(points.dims[3], 2) /\ Compatible(out.dims[3], 9)
      /\ Compatible(B, mask.dims[1]) /\ Compatible(N, mask.dims[2])
      /\ Compatible(B, out.dims[1]) /\ Compatible(N, out.dims[2])
    <2>1. \A d \in 1 .. 2 : /\ Compatible(points.dims[d], mask.dims[d])
                            /\ Compatible(points.dims[d], out.dims[d])
        BY DEF VerifyPointFeatures
    <2>2. Compatible(points.dims[3], 2) /\ Compatible(out.dims[3], 9)
        BY DEF VerifyPointFeatures
    <2> HIDE DEF points, mask, out
    <2>3. 1 \in 1 .. 2 /\ 2 \in 1 .. 2
        OBVIOUS
    <2> QED
        BY <2>1, <2>2, <2>3
<1> HIDE DEF points, mask, out
<1>4. /\ \A d \in 1 .. 3 : points.dims[d] # Dyn /\ points.dims[d] \in Extents
      /\ \A d \in 1 .. 2 : mask.dims[d] # Dyn
      /\ \A d \in 1 .. 3 : out.dims[d] # Dyn
    <2>1. \A d \in 1 .. 3 : points.dims[d] # Dyn /\ points.dims[d] \in Extents
        BY <1>2, <1>13, StaticDims
    <2>2. \A d \in 1 .. 2 : mask.dims[d] # Dyn
        BY <1>2, <1>13, StaticDims
    <2>3. \A d \in 1 .. 3 : out.dims[d] # Dyn
        BY <1>2, <1>13, StaticDims
    <2> QED
        BY <2>1, <2>2, <2>3
<1>5. /\ points.dims[3] = 2 /\ out.dims[3] = 9
      /\ mask.dims[1] = B /\ mask.dims[2] = N /\ out.dims[1] = B /\ out.dims[2] = N
    <2>1. B # Dyn /\ N # Dyn /\ points.dims[3] # Dyn /\ out.dims[3] # Dyn
        BY <1>4
    <2>2. 2 # Dyn /\ 9 # Dyn
        BY ScenariosAssumption
    <2> HIDE DEF B, N
    <2>3. points.dims[3] = 2 /\ out.dims[3] = 9
        BY <1>3, <2>1, <2>2 DEF Compatible
    <2>4. mask.dims[1] = B /\ mask.dims[2] = N /\ out.dims[1] = B /\ out.dims[2] = N
        BY <1>3, <1>4, <2>1 DEF Compatible
    <2> QED
        BY <2>3, <2>4
<1>6. s \in Sizes
    <2>1. 1 \in Extents
        BY DEF Extents
    <2> QED
        BY <1>4, <2>1, SizesFromExtents
<1>7. Contract(op.name, s) = [ins |-> <<<<B, N, 2>>, <<B, N>>>>, outs |-> <<<<B, N, 9>>>>]
    BY DEF Contract, Reductions
<1>8. InElems(op.name) = <<"f32", "i1">> /\ OutElems(op.name)[1] = "f32"
    BY DEF InElems, OutElems, SpecOf
<1>9. /\ HasType(<<B, N, 2>>, "f32", points) /\ HasType(<<B, N>>, "i1", mask)
      /\ HasType(<<B, N, 9>>, "f32", out)
    BY <1>5, <1>13, CubeType, MatrixType
<1>10. Describes(op.ins, <<<<B, N, 2>>, <<B, N>>>>, <<"f32", "i1">>)
    BY <1>9, DescribesTwo DEF points, mask
<1>11. Describes(op.outs, <<<<B, N, 9>>>>, OutElems(op.name))
    BY <1>8, <1>9, DescribesOne DEF out
<1>12. Fits(op, s)
    <2>1. /\ Contract(op.name, s).ins = <<<<B, N, 2>>, <<B, N>>>>
          /\ Contract(op.name, s).outs = <<<<B, N, 9>>>>
        BY <1>7
    <2> HIDE DEF s, B, N
    <2> QED
        BY <1>8, <1>10, <1>11, <2>1 DEF Fits
<1> QED
    BY <1>6, <1>12

(* A declared shape of one or two static extents is the shape itself. *)
LEMMA VectorShape ==
    ASSUME NEW t, NEW a, NEW elem, HasShape(t, <<a>>, elem), a # Dyn, t.dims[1] # Dyn
    PROVE  HasType(<<a>>, elem, t)
    BY DEF HasShape, HasType, Compatible

LEMMA MatrixShape ==
    ASSUME NEW t, NEW a, NEW b, NEW elem, HasShape(t, <<a, b>>, elem),
           a # Dyn, b # Dyn, t.dims[1] # Dyn, t.dims[2] # Dyn
    PROVE  HasType(<<a, b>>, elem, t)
<1>1. RankedAs(t, Len(<<a, b>>), elem) /\ Compatible(t.dims[1], a) /\ Compatible(t.dims[2], b)
    BY DEF HasShape
<1>2. t.dims[1] = a /\ t.dims[2] = b
    BY <1>1 DEF Compatible
<1> QED
    BY <1>1, <1>2 DEF HasType

LEMMA GruFits ==
    ASSUME Shaped, AllStatic, op.name = "gru_cell",
           Len(op.ins) = 6, Len(op.outs) = 1, VerifyGruCell(op.ins, op.outs, op.attrs)
    PROVE  \E s \in Sizes : Fits(op, s)
<1> DEFINE in == op.ins
           out == op.outs[1]
           B == in[1].dims[1]
           I == in[1].dims[2]
           H == in[2].dims[2]
           s == [B |-> B, N |-> 1, C |-> 1, I |-> I, H |-> H]
           shapes == <<<<B, I>>, <<B, H>>, <<3 * H, I>>, <<3 * H, H>>, <<3 * H>>, <<3 * H>>>>
<1>1. DOMAIN in = 1 .. 6 /\ DOMAIN op.outs = 1 .. 1
    BY DEF Shaped
<1>2. /\ \A i \in 1 .. 6 : in[i] \in Types
      /\ out \in Types
    BY <1>1, MembersOf DEF Types
<1>13. /\ \A i \in 1 .. 4 : RankedAs(in[i], 2, "f32")
       /\ \A i \in 5 .. 6 : RankedAs(in[i], 1, "f32")
       /\ RankedAs(out, 2, "f32")
    BY DEF VerifyGruCell
<1>3. /\ Compatible(B, in[2].dims[1])
      /\ HasShape(in[3], <<3 * H, I>>, "f32") /\ HasShape(in[4], <<3 * H, H>>, "f32")
      /\ HasShape(in[5], <<3 * H>>, "f32") /\ HasShape(in[6], <<3 * H>>, "f32")
      /\ HasShape(out, <<B, H>>, "f32")
    BY DEF VerifyGruCell
<1> HIDE DEF in, out
<1>4. /\ \A i \in 1 .. 4 : \A d \in 1 .. 2 :
            in[i].dims[d] # Dyn /\ in[i].dims[d] \in Extents /\ in[i].dims[d] \in Nat
      /\ \A i \in 5 .. 6 : in[i].dims[1] # Dyn
      /\ \A d \in 1 .. 2 : out.dims[d] # Dyn
    <2>1. ASSUME NEW i \in 1 .. 4
          PROVE  \A d \in 1 .. 2 :
                    in[i].dims[d] # Dyn /\ in[i].dims[d] \in Extents /\ in[i].dims[d] \in Nat
        <3>1. in[i] \in Types /\ RankedAs(in[i], 2, "f32")
            BY <1>2, <1>13
        <3> QED
            BY <3>1, StaticDims
    <2>2. ASSUME NEW i \in 5 .. 6
          PROVE  in[i].dims[1] # Dyn
        <3>1. in[i] \in Types /\ RankedAs(in[i], 1, "f32")
            BY <1>2, <1>13
        <3> QED
            BY <3>1, StaticDims
    <2>3. \A d \in 1 .. 2 : out.dims[d] # Dyn
        BY <1>2, <1>13, StaticDims
    <2> QED
        BY <2>1, <2>2, <2>3
<1>5. /\ in[1].dims[1] = B /\ in[1].dims[2] = I
      /\ in[2].dims[1] = B /\ in[2].dims[2] = H
      /\ B # Dyn /\ I # Dyn /\ H # Dyn /\ 3 * H # Dyn
    <2>1. /\ in[1].dims[1] # Dyn /\ in[1].dims[2] # Dyn
          /\ in[2].dims[1] # Dyn /\ in[2].dims[2] # Dyn /\ in[2].dims[2] \in Nat
        BY <1>4
    <2>2. in[2].dims[1] = in[1].dims[1]
        BY <1>3, <2>1 DEF Compatible
    <2>3. H \in Nat
        BY <2>1
    <2> HIDE DEF H
    <2>4. 3 * H # Dyn
        BY <2>3, ScenariosAssumption
    <2> QED
        BY <2>1, <2>2, <2>4 DEF H
<1>6. s \in Sizes
    <2>1. 1 \in Extents
        BY DEF Extents
    <2>2. B \in Extents /\ I \in Extents /\ H \in Extents
        BY <1>4
    <2> QED
        BY <2>1, <2>2, SizesFromExtents
<1>7. Contract(op.name, s) = [ins |-> shapes, outs |-> <<<<B, H>>>>]
    BY DEF Contract, Reductions
<1>8. /\ \A i \in 1 .. 6 : InElems(op.name)[i] = "f32"
      /\ OutElems(op.name)[1] = "f32"
    BY DEF InElems, OutElems, SpecOf, Reductions
<1> HIDE DEF B, I, H
<1>9. /\ HasType(<<B, I>>, "f32", in[1]) /\ HasType(<<B, H>>, "f32", in[2])
      /\ HasType(<<3 * H, I>>, "f32", in[3]) /\ HasType(<<3 * H, H>>, "f32", in[4])
      /\ HasType(<<3 * H>>, "f32", in[5]) /\ HasType(<<3 * H>>, "f32", in[6])
      /\ HasType(<<B, H>>, "f32", out)
    <2>7. /\ in[3].dims[1] # Dyn /\ in[3].dims[2] # Dyn
          /\ in[4].dims[1] # Dyn /\ in[4].dims[2] # Dyn
          /\ in[5].dims[1] # Dyn /\ in[6].dims[1] # Dyn
          /\ out.dims[1] # Dyn /\ out.dims[2] # Dyn
        BY <1>4
    <2>1. HasType(<<B, I>>, "f32", in[1]) /\ HasType(<<B, H>>, "f32", in[2])
        BY <1>5, <1>13, MatrixType
    <2>2. HasType(<<3 * H, I>>, "f32", in[3])
        BY <1>3, <1>5, <2>7, MatrixShape
    <2>3. HasType(<<3 * H, H>>, "f32", in[4])
        BY <1>3, <1>5, <2>7, MatrixShape
    <2>4. HasType(<<3 * H>>, "f32", in[5])
        BY <1>3, <1>5, <2>7, VectorShape
    <2>5. HasType(<<3 * H>>, "f32", in[6])
        BY <1>3, <1>5, <2>7, VectorShape
    <2>6. HasType(<<B, H>>, "f32", out)
        BY <1>3, <1>5, <2>7, MatrixShape
    <2> QED
        BY <2>1, <2>2, <2>3, <2>4, <2>5, <2>6
<1>10. Describes(in, shapes, InElems(op.name))
    <2>1. Len(in) = Len(shapes) /\ DOMAIN shapes = 1 .. 6
        BY DEF in
    <2>2. ASSUME NEW i \in 1 .. 6 PROVE HasType(shapes[i], InElems(op.name)[i], in[i])
        BY <1>8, <1>9
    <2> QED
        BY <2>1, <2>2 DEF Describes
<1>11. Describes(op.outs, <<<<B, H>>>>, OutElems(op.name))
    BY <1>8, <1>9 DEF Describes, out
<1>12. Fits(op, s)
    BY <1>7, <1>10, <1>11 DEF Fits, in
<1> QED
    BY <1>6, <1>12

LEMMA FiniteFive == IsFiniteSet(1 .. 5)
<1>1. 1 \in Int /\ 5 \in Int
    OBVIOUS
<1> QED
    BY <1>1, FS_Interval, Zenon

(* The batch of the gm tensors: the verifier counts the extents it knows. *)
LEMMA OneBatch ==
    ASSUME NEW in, \A i \in 1 .. 5 : in[i].dims[1] # Dyn /\ in[i].dims[1] \in Nat,
           NEW known, known = {in[i].dims[1] : i \in 1 .. 5} \ {Dyn}, Cardinality(known) <= 1
    PROVE  /\ known = {in[1].dims[1]}
           /\ \A i \in 1 .. 5 : in[i].dims[1] = in[1].dims[1]
<1> DEFINE f == [i \in 1 .. 5 |-> in[i].dims[1]]
           all == {f[i] : i \in 1 .. 5}
<1>1. known = all
    OBVIOUS
<1>2. IsFiniteSet(all)
    <2>2. f \in Surjection(1 .. 5, all)
        BY DEF Surjection
    <2> QED
        BY <2>2, FiniteFive, FS_Surjection
<1>3. IsFiniteSet(known) /\ Cardinality(known) \in Nat
    BY <1>1, <1>2, FS_CardinalityType
<1>4. \A i \in 1 .. 5 : in[i].dims[1] \in known
    OBVIOUS
<1>5. Cardinality(known) # 0
    <2>1. in[1].dims[1] \in known
        BY 1 \in 1 .. 5, <1>4
    <2> QED
        BY <1>3, <2>1, FS_EmptySet
<1>6. Cardinality(known) = 1
    BY <1>3, <1>5
<1>7. PICK x : known = {x}
    BY <1>3, <1>6, FS_Singleton
<1>8. \A i \in 1 .. 5 : in[i].dims[1] = x
    BY <1>4, <1>7
<1> QED
    BY <1>7, <1>8

LEMMA MinOfOne == ASSUME NEW n \in Nat PROVE Min({n}) = n
    BY DEF Min

LEMMA GmFits ==
    ASSUME Shaped, AllStatic, op.name = "gm_parameterize",
           Len(op.ins) = 5, Len(op.outs) = 9, VerifyGmParameterize(op.ins, op.outs, op.attrs)
    PROVE  \E s \in Sizes : Fits(op, s)
<1> DEFINE in == op.ins
           out == op.outs
           B == in[1].dims[1]
           s == [B |-> B, N |-> 1, C |-> 1, I |-> 1, H |-> 1]
           known == {in[i].dims[1] : i \in 1 .. 5} \ {Dyn}
           inShape == [i \in 1 .. 5 |-> <<B, InWidths[i]>>]
           outShape == [i \in 1 .. 9 |-> <<B, OutWidths[i]>>]
<1>1. DOMAIN in = 1 .. 5 /\ DOMAIN out = 1 .. 9
    BY DEF Shaped
<1>2. /\ \A i \in 1 .. 5 : in[i] \in Types
      /\ \A i \in 1 .. 9 : out[i] \in Types
    BY <1>1, MembersOf DEF Types
<1>3. /\ \A i \in 1 .. 5 : RankedAs(in[i], 2, "f32") /\ Compatible(in[i].dims[2], InWidths[i])
      /\ Cardinality(known) <= 1
      /\ \A i \in 1 .. 9 :
            HasShape(out[i], <<IF known = {} THEN Dyn ELSE Min(known), OutWidths[i]>>, "f32")
    BY DEF VerifyGmParameterize
<1>4. ASSUME NEW i \in 1 .. 5
      PROVE  \A d \in 1 .. 2 :
                in[i].dims[d] # Dyn /\ in[i].dims[d] \in Extents /\ in[i].dims[d] \in Nat
    BY <1>2, <1>3, StaticDims
<1>0. known = {in[i].dims[1] : i \in 1 .. 5} \ {Dyn}
    OBVIOUS
<1> HIDE DEF in, known
<1>5. known = {B} /\ \A i \in 1 .. 5 : in[i].dims[1] = B
    <2>1. \A i \in 1 .. 5 : in[i].dims[1] # Dyn /\ in[i].dims[1] \in Nat
        BY <1>4
    <2>2. Cardinality(known) <= 1
        BY <1>3
    <2>3. known = {in[1].dims[1]} /\ \A i \in 1 .. 5 : in[i].dims[1] = in[1].dims[1]
        BY <1>0, <2>1, <2>2, OneBatch
    <2> QED
        BY <2>3
<1>6. B \in Nat /\ B \in Extents /\ B # Dyn
    BY <1>4
<1> HIDE DEF B, out
<1>7. \A i \in 1 .. 9 : HasShape(out[i], <<B, OutWidths[i]>>, "f32")
    <2>1. known # {} /\ Min(known) = B
        BY <1>5, <1>6, MinOfOne
    <2> QED
        BY <1>3, <2>1
<1>8. /\ \A i \in 1 .. 5 : InWidths[i] # Dyn
      /\ \A i \in 1 .. 9 : OutWidths[i] # Dyn
    BY ScenariosAssumption DEF InWidths, OutWidths
<1>9. ASSUME NEW i \in 1 .. 5 PROVE HasType(<<B, InWidths[i]>>, "f32", in[i])
    <2>1. in[i].dims[2] = InWidths[i]
        BY <1>3, <1>4, <1>8 DEF Compatible
    <2> QED
        BY <1>3, <1>5, <2>1, MatrixType
<1>10. ASSUME NEW i \in 1 .. 9 PROVE HasType(<<B, OutWidths[i]>>, "f32", out[i])
    <2>1. RankedAs(out[i], 2, "f32")
        BY <1>7 DEF HasShape
    <2>2. out[i].dims[1] # Dyn /\ out[i].dims[2] # Dyn
        BY <1>2, <2>1, StaticDims
    <2> QED
        BY <1>6, <1>7, <1>8, <2>2, MatrixShape
<1>11. s \in Sizes
    <2>1. 1 \in Extents
        BY DEF Extents
    <2> QED
        BY <1>6, <2>1, SizesFromExtents
<1>12. Contract(op.name, s) = [ins |-> inShape, outs |-> outShape]
    BY DEF Contract, Reductions
<1>13. InElems(op.name) = [i \in 1 .. 5 |-> "f32"] /\ OutElems(op.name) = [i \in 1 .. 9 |-> "f32"]
    BY DEF InElems, OutElems, SpecOf, Reductions
<1>14. Describes(in, inShape, [i \in 1 .. 5 |-> "f32"])
    BY <1>9 DEF Describes, in
<1>15. Describes(out, outShape, [i \in 1 .. 9 |-> "f32"])
    BY <1>10 DEF Describes, out
<1> HIDE DEF s, inShape, outShape
<1>16. Contract(op.name, s).ins = inShape /\ Contract(op.name, s).outs = outShape
    BY <1>12
<1>17. Fits(op, s)
    BY <1>13, <1>14, <1>15, <1>16 DEF Fits, in, out
<1> QED
    BY <1>11, <1>17

LEMMA VerifiedFits ==
    ASSUME IInv, AllStatic, op.dialect = "verified"
    PROVE  \E s \in Sizes : Fits(op, s)
<1>1. /\ Shaped /\ op.name \in EotNames
      /\ Len(op.ins) = SpecOf(op.name)[1] /\ Len(op.outs) = SpecOf(op.name)[3]
      /\ Verified(op.name, op.ins, op.outs, op.attrs)
    BY NameFacts DEF IInv, Shaped, Checked, EotDialect
<1>2. CASE op.name = "point_features"
    BY <1>1, <1>2, PointFits DEF Verified, SpecOf
<1>3. CASE op.name = "gru_cell"
    BY <1>1, <1>3, GruFits DEF Verified, SpecOf
<1>4. CASE op.name = "gm_parameterize"
    BY <1>1, <1>4, GmFits DEF Verified, SpecOf
<1>5. CASE op.name \in Reductions
    <2>1. Len(op.ins) = 2 /\ Len(op.outs) = 1
        BY <1>1, <1>5 DEF SpecOf, Reductions
    <2>2. VerifyMasked(op.ins, op.outs, op.attrs)
        BY <1>1, <1>5 DEF Verified, Reductions
    <2> QED
        BY <1>1, <1>5, <2>1, <2>2, MaskedFits
<1> QED
    BY <1>1, <1>2, <1>3, <1>4, <1>5 DEF EotNames, Reductions

(* The verifier lets a static operation through only if there are tensors of *)
(* its types that python accepts: the loops have operands they can run on.   *)
THEOREM VerifierSound == Spec => []StaticTensorsFit
<1>1. IInv => StaticTensorsFit
    BY VerifiedFits DEF StaticTensorsFit, SomeTensorsFit
<1> QED
    BY <1>1, LoweringInvariance, PTL

-----------------------------------------------------------------------------
(* A legal call is never refused *)

(* The premises of ExportCompiles. *)
LegalCall ==
    /\ call.origin = "torch" /\ op.prefix \in EotPrefixes /\ op.name = call.name
    /\ Fits(op, call.sizes)
    /\ call.name = "gru_cell" => op.ins[1].dims[2] # Dyn /\ op.ins[2].dims[2] # Dyn
    /\ call.name = "gm_parameterize" => op.outs[2].dims[2] # Dyn
    /\ \A i \in DOMAIN call.scalars : Finite(call.scalars[i])
    /\ Legal(call.name, Arguments)
    /\ ~(strict /\ others)

LEMMA RankedByShape ==
    ASSUME NEW types, NEW shape, NEW elems, Describes(types, shape, elems),
           DOMAIN types = 1 .. Len(types), DOMAIN shape = 1 .. Len(shape)
    PROVE  AllRanked(types)
    BY DEF Describes, HasType, RankedAs, AllRanked

LEMMA ContractLengths ==
    ASSUME NEW name \in EotNames, NEW s
    PROVE  LET c == Contract(name, s)
           IN  /\ Len(c.ins) = SpecOf(name)[1] /\ DOMAIN c.ins = 1 .. Len(c.ins)
               /\ Len(c.outs) = SpecOf(name)[3] /\ DOMAIN c.outs = 1 .. Len(c.outs)
<1>1. CASE name = "point_features"
    BY <1>1 DEF Contract, SpecOf, Reductions
<1>2. CASE name \in Reductions
    <2>1. SpecOf(name)[1] = 2 /\ SpecOf(name)[3] = 1
        BY <1>2 DEF SpecOf, Reductions
    <2>2. Contract(name, s) = [ins |-> <<<<s.B, s.N, s.C>>, <<s.B, s.N>>>>, outs |-> <<<<s.B, s.C>>>>]
        BY <1>2 DEF Contract, Reductions
    <2> QED
        BY <2>1, <2>2
<1>4. CASE name = "gru_cell"
    BY <1>4 DEF Contract, SpecOf, Reductions
<1>5. CASE name = "gm_parameterize"
    BY <1>5 DEF Contract, SpecOf, Reductions
<1> QED
    BY <1>1, <1>2, <1>4, <1>5 DEF EotNames, Reductions

LEMMA FitsFacts ==
    ASSUME Shaped, NEW s, Fits(op, s), op.name \in EotNames
    PROVE  /\ Len(op.ins) = SpecOf(op.name)[1] /\ Len(op.outs) = SpecOf(op.name)[3]
           /\ DOMAIN op.ins = 1 .. Len(op.ins) /\ DOMAIN op.outs = 1 .. Len(op.outs)
           /\ AllRanked(op.ins) /\ AllRanked(op.outs)
<1> DEFINE c == Contract(op.name, s)
<1>1. /\ Describes(op.ins, c.ins, InElems(op.name))
      /\ Describes(op.outs, c.outs, OutElems(op.name))
    BY DEF Fits
<1>2. /\ Len(c.ins) = SpecOf(op.name)[1] /\ DOMAIN c.ins = 1 .. Len(c.ins)
      /\ Len(c.outs) = SpecOf(op.name)[3] /\ DOMAIN c.outs = 1 .. Len(c.outs)
    BY ContractLengths
<1> HIDE DEF c
<1>3. Len(op.ins) = Len(c.ins) /\ Len(op.outs) = Len(c.outs)
    BY <1>1 DEF Describes
<1>4. DOMAIN op.ins = 1 .. Len(op.ins) /\ DOMAIN op.outs = 1 .. Len(op.outs)
    BY DEF Shaped
<1>5. AllRanked(op.ins) /\ AllRanked(op.outs)
    BY <1>1, <1>2, <1>4, RankedByShape
<1> QED
    BY <1>2, <1>3, <1>4, <1>5

LEMMA TorchAccepts ==
    ASSUME IInv, LegalCall, op.dialect = "torch"
    PROVE  TorchConverts
<1>1. /\ op.name = call.name /\ call.name \in EotNames /\ op.scalars = call.scalars
      /\ Len(call.scalars) = SpecOf(op.name)[2]
    BY NameFacts DEF IInv, LegalCall, CarriesScalars
<1>2. /\ Len(op.ins) = SpecOf(op.name)[1] /\ Len(op.outs) = SpecOf(op.name)[3]
      /\ AllRanked(op.ins) /\ AllRanked(op.outs)
    BY <1>1, FitsFacts DEF IInv, LegalCall
<1>3. SubSeq(op.ins, 1, SpecOf(op.name)[1]) = op.ins
    BY <1>1, <1>2, TensorsOfTorch DEF IInv
<1> QED
    BY <1>1, <1>2, <1>3 DEF TorchConverts, LegalCall

(* What was encoded parses: all the fields, no other, and finite numbers. *)
LEMMA TosaAccepts ==
    ASSUME IInv, LegalCall, op.dialect = "tosa"
    PROVE  Recognised
<1> DEFINE e == EncodeAttrs(call.name, call.scalars)
<1>1. /\ op.name = call.name /\ call.name \in EotNames /\ op.attrs = e
      /\ call.scalars \in Seq(Int) /\ Len(call.scalars) = SpecOf(call.name)[2]
    BY NameFacts DEF IInv, LegalCall, CarriesScalars
<1>2. /\ Len(op.ins) = SpecOf(op.name)[1] /\ Len(op.outs) = SpecOf(op.name)[3]
      /\ AllRanked(op.ins)
    BY <1>1, FitsFacts DEF IInv, LegalCall
<1>3. DOMAIN e = Fields(call.name) \union {"schema_version"} /\ e["schema_version"] = 1
    BY <1>1, EncodedDomain
<1>4. DOMAIN call.scalars = DOMAIN Signature(call.name)
    BY <1>1, SpecFacts
<1>5. ASSUME NEW f \in Fields(call.name) PROVE Finite(e[f])
    <2>1. PICK i \in DOMAIN Signature(call.name) : Signature(call.name)[i] = f
        BY <1>1, FieldsOf
    <2>2. e[f] = call.scalars[i]
        BY <1>1, <2>1, Encoded
    <2> QED
        BY <1>4, <2>1, <2>2 DEF LegalCall
<1>6. Finite(e["schema_version"])
    BY <1>3, ScenariosAssumption DEF Finite
<1> HIDE DEF e
<1>7. ParsesAs(op.attrs, op.name)
    BY <1>1, <1>3, <1>5, <1>6 DEF ParsesAs
<1> QED
    BY <1>1, <1>2, <1>7 DEF Recognised

(* Every declared extent is the one python requires, or dynamic. *)
LEMMA VectorOf ==
    ASSUME NEW t, NEW elem, NEW a, HasType(<<a>>, elem, t)
    PROVE  RankedAs(t, 1, elem) /\ t.dims[1] \in {Dyn, a}
    BY DEF HasType

LEMMA MatrixOf ==
    ASSUME NEW t, NEW elem, NEW a, NEW b, HasType(<<a, b>>, elem, t)
    PROVE  RankedAs(t, 2, elem) /\ t.dims[1] \in {Dyn, a} /\ t.dims[2] \in {Dyn, b}
<1>1. 1 \in DOMAIN <<a, b>> /\ 2 \in DOMAIN <<a, b>> /\ Len(<<a, b>>) = 2
    OBVIOUS
<1> QED
    BY <1>1 DEF HasType

LEMMA CubeOf ==
    ASSUME NEW t, NEW elem, NEW a, NEW b, NEW c, HasType(<<a, b, c>>, elem, t)
    PROVE  /\ RankedAs(t, 3, elem)
           /\ t.dims[1] \in {Dyn, a} /\ t.dims[2] \in {Dyn, b} /\ t.dims[3] \in {Dyn, c}
<1>1. /\ 1 \in DOMAIN <<a, b, c>> /\ 2 \in DOMAIN <<a, b, c>> /\ 3 \in DOMAIN <<a, b, c>>
      /\ Len(<<a, b, c>>) = 3
    OBVIOUS
<1> QED
    BY <1>1 DEF HasType

(* The same, as the shape the verifier expects. *)
LEMMA ShapeFromExtents ==
    ASSUME NEW t, NEW elem, NEW a, NEW b, RankedAs(t, 2, elem),
           Compatible(t.dims[1], a), Compatible(t.dims[2], b)
    PROVE  HasShape(t, <<a, b>>, elem)
    BY DEF HasShape

LEMMA MatrixTypeFitsShape ==
    ASSUME NEW t, NEW elem, NEW a, NEW b, HasType(<<a, b>>, elem, t)
    PROVE  HasShape(t, <<a, b>>, elem)
    BY MatrixOf, ShapeFromExtents DEF Compatible

LEMMA VectorTypeFitsShape ==
    ASSUME NEW t, NEW elem, NEW a, HasType(<<a>>, elem, t)
    PROVE  HasShape(t, <<a>>, elem)
    BY VectorOf DEF HasShape, Compatible

LEMMA MaskedAccepted ==
    ASSUME Shaped, op.name \in Reductions, NEW s, Fits(op, s), op.attrs.axis = 1
    PROVE  VerifyMasked(op.ins, op.outs, op.attrs)
<1>1. Contract(op.name, s) = [ins |-> <<<<s.B, s.N, s.C>>, <<s.B, s.N>>>>, outs |-> <<<<s.B, s.C>>>>]
    BY DEF Contract, Reductions
<1>2. InElems(op.name) = <<"f32", "i1">> /\ OutElems(op.name)[1] = "f32"
    BY DEF InElems, OutElems, Reductions, SpecOf
<1>3. /\ Describes(op.ins, <<<<s.B, s.N, s.C>>, <<s.B, s.N>>>>, <<"f32", "i1">>)
      /\ Describes(op.outs, <<<<s.B, s.C>>>>, OutElems(op.name))
    BY <1>1, <1>2 DEF Fits
<1>4. /\ HasType(<<s.B, s.N, s.C>>, "f32", op.ins[1]) /\ HasType(<<s.B, s.N>>, "i1", op.ins[2])
      /\ HasType(<<s.B, s.C>>, "f32", op.outs[1])
    BY <1>2, <1>3 DEF Describes
<1> QED
    BY <1>4, CubeOf, MatrixOf DEF VerifyMasked, Compatible

LEMMA PointAccepted ==
    ASSUME Shaped, op.name = "point_features", NEW s, Fits(op, s),
           op.attrs.radius_epsilon > 0, op.attrs.theta_epsilon >= 0
    PROVE  VerifyPointFeatures(op.ins, op.outs, op.attrs)
<1>1. Contract(op.name, s) = [ins |-> <<<<s.B, s.N, 2>>, <<s.B, s.N>>>>, outs |-> <<<<s.B, s.N, 9>>>>]
    BY DEF Contract, Reductions
<1>2. InElems(op.name) = <<"f32", "i1">> /\ OutElems(op.name)[1] = "f32"
    BY DEF InElems, OutElems, SpecOf
<1>3. /\ Describes(op.ins, <<<<s.B, s.N, 2>>, <<s.B, s.N>>>>, <<"f32", "i1">>)
      /\ Describes(op.outs, <<<<s.B, s.N, 9>>>>, OutElems(op.name))
    BY <1>1, <1>2 DEF Fits
<1>4. /\ HasType(<<s.B, s.N, 2>>, "f32", op.ins[1]) /\ HasType(<<s.B, s.N>>, "i1", op.ins[2])
      /\ HasType(<<s.B, s.N, 9>>, "f32", op.outs[1])
    BY <1>2, <1>3 DEF Describes
<1>5. /\ RankedAs(op.ins[1], 3, "f32") /\ RankedAs(op.ins[2], 2, "i1")
      /\ RankedAs(op.outs[1], 3, "f32")
      /\ Compatible(op.ins[1].dims[3], 2) /\ Compatible(op.outs[1].dims[3], 9)
    BY <1>4, CubeOf, MatrixOf DEF Compatible
<1>6. /\ Compatible(op.ins[1].dims[1], op.ins[2].dims[1])
      /\ Compatible(op.ins[1].dims[2], op.ins[2].dims[2])
      /\ Compatible(op.ins[1].dims[1], op.outs[1].dims[1])
      /\ Compatible(op.ins[1].dims[2], op.outs[1].dims[2])
    BY <1>4, CubeOf, MatrixOf DEF Compatible
<1>7. \A d \in 1 .. 2 : /\ Compatible(op.ins[1].dims[d], op.ins[2].dims[d])
                        /\ Compatible(op.ins[1].dims[d], op.outs[1].dims[d])
    BY <1>6
<1> QED
    BY <1>5, <1>7 DEF VerifyPointFeatures

LEMMA GruAccepted ==
    ASSUME Shaped, op.name = "gru_cell", NEW s, Fits(op, s),
           op.ins[1].dims[2] # Dyn, op.ins[2].dims[2] # Dyn,
           op.attrs.gate_order = "rzn", op.attrs.linear_before_reset
    PROVE  VerifyGruCell(op.ins, op.outs, op.attrs)
<1> DEFINE in == op.ins
           out == op.outs[1]
           I == in[1].dims[2]
           H == in[2].dims[2]
           shapes == <<<<s.B, s.I>>, <<s.B, s.H>>, <<3 * s.H, s.I>>, <<3 * s.H, s.H>>,
                       <<3 * s.H>>, <<3 * s.H>>>>
<1>1. Contract(op.name, s) = [ins |-> shapes, outs |-> <<<<s.B, s.H>>>>]
    BY DEF Contract, Reductions
<1>2. InElems(op.name) = [i \in 1 .. 6 |-> "f32"] /\ OutElems(op.name)[1] = "f32"
    BY DEF InElems, OutElems, SpecOf, Reductions
<1>3. /\ Describes(in, shapes, [i \in 1 .. 6 |-> "f32"])
      /\ Describes(op.outs, <<<<s.B, s.H>>>>, OutElems(op.name))
    BY <1>1, <1>2 DEF Fits
<1>4. DOMAIN shapes = 1 .. 6
    OBVIOUS
<1>5. \A i \in 1 .. 6 : HasType(shapes[i], "f32", in[i])
    BY <1>3, <1>4 DEF Describes
<1>6. HasType(<<s.B, s.H>>, "f32", out)
    BY <1>2, <1>3 DEF Describes
<1>7. /\ HasType(<<s.B, s.I>>, "f32", in[1]) /\ HasType(<<s.B, s.H>>, "f32", in[2])
      /\ HasType(<<3 * s.H, s.I>>, "f32", in[3]) /\ HasType(<<3 * s.H, s.H>>, "f32", in[4])
      /\ HasType(<<3 * s.H>>, "f32", in[5]) /\ HasType(<<3 * s.H>>, "f32", in[6])
    BY <1>5
<1> HIDE DEF in, out, shapes
<1>8. I = s.I /\ H = s.H /\ I # Dyn
    BY <1>7, MatrixOf DEF in
<1> HIDE DEF I, H
<1>9. /\ \A i \in 1 .. 4 : RankedAs(in[i], 2, "f32")
      /\ \A i \in 5 .. 6 : RankedAs(in[i], 1, "f32")
      /\ RankedAs(out, 2, "f32")
    <2>1. /\ RankedAs(in[1], 2, "f32") /\ RankedAs(in[2], 2, "f32")
          /\ RankedAs(in[3], 2, "f32") /\ RankedAs(in[4], 2, "f32")
        BY <1>7, MatrixOf
    <2>2. RankedAs(in[5], 1, "f32") /\ RankedAs(in[6], 1, "f32")
        BY <1>7, VectorOf
    <2>3. RankedAs(out, 2, "f32")
        BY <1>6, MatrixOf
    <2> QED
        BY <2>1, <2>2, <2>3
<1>10. Compatible(in[1].dims[1], in[2].dims[1])
    BY <1>7, MatrixOf DEF Compatible
<1>11. HasShape(in[3], <<3 * H, I>>, "f32") /\ HasShape(in[4], <<3 * H, H>>, "f32")
    BY <1>7, <1>8, MatrixTypeFitsShape
<1>12. HasShape(in[5], <<3 * H>>, "f32") /\ HasShape(in[6], <<3 * H>>, "f32")
    BY <1>7, <1>8, VectorTypeFitsShape
<1>13. HasShape(out, <<in[1].dims[1], H>>, "f32")
    <2>1. out.dims[1] \in {Dyn, s.B} /\ out.dims[2] \in {Dyn, s.H} /\ in[1].dims[1] \in {Dyn, s.B}
        BY <1>6, <1>7, MatrixOf
    <2> QED
        BY <1>8, <1>9, <2>1, ShapeFromExtents DEF Compatible
<1> QED
    BY <1>8, <1>9, <1>10, <1>11, <1>12, <1>13 DEF VerifyGruCell, in, out, I, H

LEMMA GmAccepted ==
    ASSUME Shaped, op.name = "gm_parameterize", NEW s, s.B \in Nat, Fits(op, s),
           Legal(op.name, op.attrs)
    PROVE  VerifyGmParameterize(op.ins, op.outs, op.attrs)
<1> DEFINE in == op.ins
           out == op.outs
           inShape == [i \in 1 .. 5 |-> <<s.B, InWidths[i]>>]
           outShape == [i \in 1 .. 9 |-> <<s.B, OutWidths[i]>>]
           known == {in[i].dims[1] : i \in 1 .. 5} \ {Dyn}
           batch == IF known = {} THEN Dyn ELSE Min(known)
<1>1. Contract(op.name, s).ins = inShape /\ Contract(op.name, s).outs = outShape
    BY DEF Contract, Reductions
<1>2. InElems(op.name) = [i \in 1 .. 5 |-> "f32"] /\ OutElems(op.name) = [i \in 1 .. 9 |-> "f32"]
    BY DEF InElems, OutElems, SpecOf, Reductions
<1>3. /\ Describes(in, inShape, [i \in 1 .. 5 |-> "f32"])
      /\ Describes(out, outShape, [i \in 1 .. 9 |-> "f32"])
    BY <1>1, <1>2 DEF Fits
<1>4. \A i \in 1 .. 5 : HasType(<<s.B, InWidths[i]>>, "f32", in[i])
    BY <1>3 DEF Describes
<1>5. \A i \in 1 .. 9 : HasType(<<s.B, OutWidths[i]>>, "f32", out[i])
    BY <1>3 DEF Describes
<1>6. ASSUME NEW i \in 1 .. 5
      PROVE  /\ RankedAs(in[i], 2, "f32") /\ in[i].dims[1] \in {Dyn, s.B}
             /\ Compatible(in[i].dims[2], InWidths[i])
    BY <1>4, MatrixOf DEF Compatible
<1>7. ASSUME NEW i \in 1 .. 9
      PROVE  /\ RankedAs(out[i], 2, "f32") /\ out[i].dims[1] \in {Dyn, s.B}
             /\ Compatible(out[i].dims[2], OutWidths[i])
    BY <1>5, MatrixOf DEF Compatible
<1>8. known = {} \/ known = {s.B}
    BY <1>6
<1> HIDE DEF known
<1>9. Cardinality(known) <= 1
    <2>1. Cardinality({}) = 0 /\ Cardinality({s.B}) = 1
        BY FS_EmptySet, FS_Singleton
    <2> QED
        BY <1>8, <2>1
<1>10. batch \in {Dyn, s.B}
    BY <1>8, MinOfOne
<1> HIDE DEF batch
<1>11. \A i \in 1 .. 9 : HasShape(out[i], <<batch, OutWidths[i]>>, "f32")
    BY <1>7, <1>10, ShapeFromExtents DEF Compatible
<1>12. \A i \in 1 .. 5 : RankedAs(in[i], 2, "f32") /\ Compatible(in[i].dims[2], InWidths[i])
    BY <1>6
<1>13. /\ op.attrs.c_min < op.attrs.c_max /\ op.attrs.tau_min >= 0 /\ op.attrs.tau_max > 0
       /\ op.attrs.logvar_min < op.attrs.logvar_max
    BY DEF Legal
<1> QED
    BY <1>9, <1>11, <1>12, <1>13 DEF VerifyGmParameterize, known, batch

LEMMA LegalByName ==
    ASSUME NEW name \in EotNames, NEW a, NEW b, \A f \in Fields(name) : a[f] = b[f],
           Legal(name, a)
    PROVE  Legal(name, b)
<1>1. CASE name = "point_features"
    <2>1. "radius_epsilon" \in Fields(name) /\ "theta_epsilon" \in Fields(name)
        BY <1>1 DEF Fields, Signature, ToSet
    <2> QED
        BY <1>1, <2>1 DEF Legal
<1>2. CASE name = "gm_parameterize"
    <2>1. /\ "c_min" \in Fields(name) /\ "c_max" \in Fields(name)
          /\ "tau_min" \in Fields(name) /\ "tau_max" \in Fields(name)
          /\ "logvar_min" \in Fields(name) /\ "logvar_max" \in Fields(name)
        BY <1>2 DEF Fields, Signature, ToSet
    <2> QED
        BY <1>2, <2>1 DEF Legal
<1> QED
    BY <1>1, <1>2 DEF Legal

LEMMA VerifierAccepts ==
    ASSUME IInv, LegalCall, op.dialect = "eot"
    PROVE  Verified(op.name, op.ins, op.outs, op.attrs)
<1>1. /\ Shaped /\ op.name = call.name /\ call.name \in EotNames
      /\ Fits(op, call.sizes) /\ call.sizes.B \in Nat
    BY NameFacts DEF IInv, LegalCall, Shaped, WellFormedCall
<1>2. AllRanked(op.ins) /\ AllRanked(op.outs)
    BY <1>1, FitsFacts
<1>3. /\ \A f \in Fields(call.name) : Arguments[f] = op.attrs[f]
      /\ \A f \in DOMAIN FixedAttrs(call.name) : op.attrs[f] = FixedAttrs(call.name)[f]
    BY DEF IInv, CarriesScalars, EotDialect, LegalCall
<1>4. Legal(op.name, op.attrs)
    BY <1>1, <1>3, LegalByName DEF LegalCall
<1>5. CASE op.name = "point_features"
    <2>1. op.attrs.radius_epsilon > 0 /\ op.attrs.theta_epsilon >= 0
        BY <1>4, <1>5 DEF Legal
    <2> QED
        BY <1>1, <1>2, <1>5, <2>1, PointAccepted DEF Verified
<1>6. CASE op.name = "gru_cell"
    <2>1. op.attrs.gate_order = "rzn" /\ op.attrs.linear_before_reset
        BY <1>1, <1>3, <1>6 DEF FixedAttrs, Reductions
    <2>2. op.ins[1].dims[2] # Dyn /\ op.ins[2].dims[2] # Dyn
        BY <1>1, <1>6 DEF LegalCall
    <2> QED
        BY <1>1, <1>2, <1>6, <2>1, <2>2, GruAccepted DEF Verified
<1>7. CASE op.name = "gm_parameterize"
    BY <1>1, <1>2, <1>4, <1>7, GmAccepted DEF Verified
<1>8. CASE op.name \in Reductions
    <2>0. FixedAttrs(call.name) = [axis |-> 1]
        BY <1>1, <1>8 DEF FixedAttrs, Reductions
    <2>1. op.attrs.axis = 1
        BY <1>3, <2>0
    <2>2. VerifyMasked(op.ins, op.outs, op.attrs)
        BY <1>1, <1>8, <2>1, MaskedAccepted
    <2> QED
        BY <1>2, <1>8, <2>2 DEF Verified, Reductions
<1> QED
    BY <1>1, <1>5, <1>6, <1>7, <1>8 DEF EotNames, Reductions

(* A call eager torch accepts, with constants the operation documents, the   *)
(* two widths a GRU needs and the last extent of tau that reduceRows needs   *)
(* static, passes all four stages.                                           *)
THEOREM LegalCallsCompile == Spec => []ExportCompiles
<1>1. Init => ExportCompiles
    BY DEF Init, ExportCompiles
<1>2. IInv /\ ExportCompiles /\ [Next]_vars => ExportCompiles'
    <2> SUFFICES ASSUME IInv, ExportCompiles, [Next]_vars, LegalCall'
                 PROVE  status' # "failed"
        BY DEF ExportCompiles, LegalCall
    <2>1. /\ call' = call /\ strict' = strict /\ others' = others
          /\ op'.name = op.name /\ op'.ins = op.ins /\ op'.outs = op.outs
          /\ op'.prefix = op.prefix
        BY TorchStep, TosaStep, VerifyStep, LowerStep
        DEF Next, FromTorch, FromTosa, Verify, Lower, Run, vars
    <2>2. Arguments' = Arguments
        BY <2>1 DEF Arguments
    <2>3. LegalCall
        BY <2>1, <2>2 DEF LegalCall, Fits
    <2>4. status # "failed"
        BY <2>3 DEF ExportCompiles, LegalCall
    <2>5. CASE FromTorch
        BY <2>3, <2>4, <2>5, TorchAccepts DEF FromTorch, LegalCall
    <2>6. CASE FromTosa
        BY <2>3, <2>4, <2>6, TosaAccepts DEF FromTosa, LegalCall
    <2>7. CASE Verify
        BY <2>3, <2>4, <2>7, VerifierAccepts DEF Verify
    <2>8. CASE Lower
        BY <2>3, <2>4, <2>8 DEF Lower, CannotLower, LegalCall
    <2>9. CASE Run \/ UNCHANGED vars
        BY <2>4, <2>9 DEF Run, vars
    <2> QED
        BY <2>5, <2>6, <2>7, <2>8, <2>9 DEF Next
<1> QED
    BY <1>1, <1>2, LoweringInvariance, PTL DEF Spec

-----------------------------------------------------------------------------
(* Numbers modulo a prime *)

(* Division with remainder, and that it is unique.                           *)
LEMMA Quotient ==
    ASSUME NEW m \in Nat \ {0}, NEW x \in Int
    PROVE  \E q \in Int : x = q * m + (x % m) /\ x % m \in 0 .. (m - 1)
<1>1. x = (x \div m) * m + (x % m) /\ x \div m \in Int
  OBVIOUS
<1>2. x % m \in 0 .. (m - 1)
  OBVIOUS
<1> QED BY <1>1, <1>2

(* A remainder is known by the quotient that goes with it.                  *)
LEMMA RemainderIs ==
    ASSUME NEW m \in Nat \ {0}, NEW x \in Int, NEW q \in Int, NEW r \in 0 .. (m - 1), x = q * m + r
    PROVE  x % m = r
<1>1. PICK p \in Int : x = p * m + (x % m) /\ x % m \in 0 .. (m - 1)
  BY Quotient
<1>2. PICK e \in Int : e = x % m
  BY <1>1
<1>3. PICK d \in Int : d = p - q
  OBVIOUS
<1>4. r - e = d * m
  <2>1. p * m + e = q * m + r
    BY <1>1, <1>2
  <2>2. (p - q) * m = p * m - q * m
    OBVIOUS
  <2>3. PICK a \in Int, b \in Int : a = p * m /\ b = q * m
    OBVIOUS
  <2>4. PICK c \in Int : c = d * m
    OBVIOUS
  <2>5. c = a - b /\ a + e = b + r
    BY <1>3, <2>1, <2>2, <2>3, <2>4
  <2>6. r - e = c
    <3>1. r \in Int /\ e \in Int
      BY <1>2
    <3> QED BY <3>1, <2>3, <2>4, <2>5
  <2> QED BY <2>4, <2>6
<1>5. r - e < m /\ e - r < m
  BY <1>1, <1>2
<1>6. d = 0
  <2>1. CASE d >= 1
    <3>1. d * m >= m
      BY <2>1
    <3> QED BY <3>1, <1>4, <1>5, <1>2
  <2>2. CASE d <= -1
    <3>1. d * m <= -m
      BY <2>2
    <3> QED BY <3>1, <1>4, <1>5, <1>2
  <2> QED BY <2>1, <2>2
<1> QED BY <1>2, <1>4, <1>6

(* Half of the odd prime: the largest number.                               *)
Half == P \div 2

LEMMA OddPrime == P \in Nat /\ P > 2 /\ Half \in Nat \ {0} /\ P = 2 * Half + 1
<1>1. P \in Nat /\ P > 2 /\ P % 2 # 0
  BY PrimeAssumption
<1> QED BY <1>1 DEF Half

(* Num picks one representative of each class.                               *)
LEMMA NumIs ==
    ASSUME NEW x \in Int
    PROVE  Num(x) \in Numbers /\ \E k \in Int : Num(x) = x + k * P
<1>0. P \in Nat \ {0} /\ Half \in Nat /\ P = 2 * Half + 1
  BY OddPrime
<1>1. PICK q \in Int : x = q * P + (x % P) /\ x % P \in 0 .. (P - 1)
  BY <1>0, Quotient
<1>2. PICK e \in Int : e = x % P
  BY <1>1
<1>3. Num(x) = IF e > Half THEN e - P ELSE e
  BY <1>2 DEF Num, Half
<1>4. e >= 0 /\ e < P
  BY <1>1, <1>2, <1>0
<1>5. Num(x) \in Numbers
  BY <1>0, <1>3, <1>4 DEF Numbers, Half
<1>6. PICK a \in Int : a = q * P
  BY <1>0
<1>7. x = a + e
  BY <1>1, <1>2, <1>6
<1>8. (-q) * P = -a /\ (-(q + 1)) * P = -a - P
  <2>1. (-q) * P = -(q * P) /\ (-(q + 1)) * P = -(q * P) - P
    BY <1>0
  <2> QED BY <1>6, <2>1
<1>9. CASE e > Half
  <2>1. Num(x) = x + (-(q + 1)) * P
    BY <1>0, <1>3, <1>7, <1>8, <1>9
  <2> QED BY <1>5, <2>1
<1>10. CASE ~ (e > Half)
  <2>1. Num(x) = x + (-q) * P
    BY <1>0, <1>3, <1>7, <1>8, <1>10
  <2> QED BY <1>5, <2>1
<1> QED BY <1>9, <1>10

(* A multiple of P more is the same number.                                 *)
LEMMA NumSame ==
    ASSUME NEW x \in Int, NEW k \in Int
    PROVE  Num(x + k * P) = Num(x)
<1>0. P \in Nat \ {0}
  BY OddPrime
<1>1. PICK q \in Int : x = q * P + (x % P) /\ x % P \in 0 .. (P - 1)
  BY <1>0, Quotient
<1>2. PICK e \in 0 .. (P - 1) : e = x % P
  BY <1>1
<1>3. PICK y \in Int : y = x + k * P
  BY <1>0
<1>4. y = (q + k) * P + e
  <2>1. (q + k) * P = q * P + k * P
    BY <1>0
  <2>2. PICK a \in Int, b \in Int, c \in Int : a = q * P /\ b = k * P /\ c = (q + k) * P
    BY <1>0
  <2>3. x = a + e
    BY <1>1, <1>2, <2>2
  <2>4. y = x + b /\ c = a + b
    BY <1>3, <2>1, <2>2
  <2>5. e \in Int
    BY <1>0
  <2>6. y = c + e
    BY <2>3, <2>4, <2>5, <2>2
  <2> QED BY <2>2, <2>6
<1>5. y % P = e
  BY <1>0, <1>4, RemainderIs
<1> QED BY <1>2, <1>3, <1>5 DEF Num

(* A number stands for itself.                                              *)
LEMMA NumFixed == \A x \in Numbers : x \in Int /\ Num(x) = x
<1> SUFFICES ASSUME NEW x \in Numbers PROVE x \in Int /\ Num(x) = x
  OBVIOUS
<1>0. P \in Nat \ {0} /\ Half \in Nat /\ P = 2 * Half + 1
  BY OddPrime
<1>1. x \in Int /\ -Half <= x /\ x <= Half
  BY <1>0 DEF Numbers, Half
<1>2. PICK k \in Int : Num(x) = x + k * P
  BY <1>1, NumIs
<1>3. Num(x) \in Int /\ -Half <= Num(x) /\ Num(x) <= Half
  BY <1>0, <1>1, NumIs DEF Numbers, Half
<1>4. PICK a \in Int : a = k * P
  BY <1>0
<1>5. a < P /\ a > -P
  BY <1>0, <1>1, <1>2, <1>3, <1>4
<1>6. ~ (k >= 1) /\ ~ (k <= -1)
  <2>1. k >= 1 => k * P >= P
    BY <1>0
  <2>2. k <= -1 => k * P <= -P
    BY <1>0
  <2> QED BY <1>0, <1>4, <1>5, <2>1, <2>2
<1>7. k = 0
  BY <1>6
<1> QED BY <1>0, <1>1, <1>2, <1>7

(* Reducing early changes nothing.                                           *)
LEMMA NumAbsorbs ==
    ASSUME NEW x \in Int, NEW y \in Int
    PROVE  /\ Num(x) \in Int
           /\ Num(Num(x) + y) = Num(x + y) /\ Num(x + Num(y)) = Num(x + y)
           /\ Num(Num(x) * y) = Num(x * y) /\ Num(x * Num(y)) = Num(x * y)
<1>0. P \in Nat \ {0}
  BY OddPrime
<1>1. PICK k \in Int : Num(x) = x + k * P
  BY NumIs
<1>2. PICK j \in Int : Num(y) = y + j * P
  BY NumIs
<1>3. PICK a \in Int, b \in Int : a = k * P /\ b = j * P
  BY <1>0
<1>4. Num(x) + y = (x + y) + k * P /\ x + Num(y) = (x + y) + j * P
  BY <1>1, <1>2, <1>3
<1>5. Num(x) * y = x * y + (k * y) * P
  <2>1. (x + k * P) * y = x * y + (k * y) * P
    BY <1>0
  <2> QED BY <1>1, <2>1
<1>6. x * Num(y) = x * y + (x * j) * P
  <2>1. x * (y + j * P) = x * y + (x * j) * P
    BY <1>0
  <2> QED BY <1>2, <2>1
<1>7. x + y \in Int /\ x * y \in Int /\ k * y \in Int /\ x * j \in Int /\ Num(x) \in Int
  BY <1>0, <1>1, <1>3
<1> QED BY <1>4, <1>5, <1>6, <1>7, NumSame
(* A set of naturals that is not empty has a least element.                  *)
LEMMA LeastNat ==
    ASSUME NEW T, T \subseteq Nat, T # {}
    PROVE  \E x \in T : \A y \in T : x <= y
<1> DEFINE R == OpToRel(<, Nat)
<1>1. IsWellFoundedOn(R, Nat)
  BY NatLessThanWellFounded
<1>2. \E x \in T : \A y \in T : ~ (<<y, x>> \in R)
  <2> HIDE DEF R
  <2> QED BY <1>1, WFMin
<1>3. \A x \in Nat, y \in Nat : y < x => <<y, x>> \in R
  BY DEF OpToRel
<1> HIDE DEF R
<1>4. PICK x \in T : \A y \in T : ~ (<<y, x>> \in R)
  BY <1>2
<1>5. \A y \in T : ~ (y < x)
  BY <1>3, <1>4
<1> QED BY <1>4, <1>5


(* P is prime, so every class but that of 0 has an inverse: the least         *)
(* positive combination of x and P divides P, hence is 1.                    *)
LEMMA InverseExists ==
    ASSUME NEW x \in 1 .. (P - 1)
    PROVE  \E y \in 1 .. (P - 1) : (x * y) % P = 1
<1>0. P \in Nat \ {0} /\ P > 2 /\ x \in Int /\ 1 <= x /\ x < P
  BY OddPrime
<1> DEFINE T == {m \in 1 .. (P - 1) : \E y \in Int, k \in Int : m = x * y + k * P}
<1>1. x \in T
  <2>1. x = x * 1 + 0 * P
    BY <1>0
  <2> QED BY <1>0, <2>1
<1>2. PICK m \in T : \A n \in T : m <= n
  <2>1. T \subseteq 1 .. (P - 1)
    OBVIOUS
  <2>2. 1 .. (P - 1) \subseteq Nat
    BY <1>0
  <2> HIDE DEF T
  <2> QED BY <1>1, <2>1, <2>2, LeastNat
<1>3. m \in Int /\ 1 <= m /\ m < P
  BY <1>0
<1>4. PICK y \in Int, k \in Int : m = x * y + k * P
  OBVIOUS
<1>5. m = 1
  <2> SUFFICES ASSUME m > 1 PROVE FALSE
    BY <1>3
  <2>1. PICK q \in Int : P = q * m + (P % m) /\ P % m \in 0 .. (m - 1)
    <3>1. m \in Nat \ {0} /\ P \in Int
      BY <1>0, <1>3
    <3> HIDE DEF T
    <3> QED BY <3>1, Quotient
  <2>2. PICK r \in 0 .. (m - 1) : r = P % m
    BY <2>1
  <2>3. r # 0
    <3>1. m \in 2 .. (P - 1)
      BY <1>0, <1>3
    <3> HIDE DEF T
    <3> QED BY <2>2, <3>1, PrimeAssumption
  <2>4. r = x * (-(q * y)) + (1 - q * k) * P
    <3>1. PICK a \in Int, b \in Int : a = x * y /\ b = k * P
      BY <1>0
    <3>2. q * m = q * a + q * b
      BY <1>4, <3>1
    <3>3. q * a = x * (q * y)
      BY <1>0, <3>1
    <3>4. q * b = (q * k) * P
      BY <1>0, <3>1
    <3>5. x * (-(q * y)) = -(x * (q * y))
      BY <1>0
    <3>6. (1 - q * k) * P = P - (q * k) * P
      BY <1>0
    <3>7. r \in Int /\ P = q * m + r
      BY <1>3, <2>1, <2>2
    <3>8. PICK c \in Int, d \in Int, f \in Int : c = q * m /\ d = x * (q * y) /\ f = (q * k) * P
      BY <1>0, <1>3
    <3>9. c = d + f
      BY <3>2, <3>3, <3>4, <3>8
    <3>10. x * (-(q * y)) = -d /\ (1 - q * k) * P = P - f
      BY <3>5, <3>6, <3>8
    <3>11. r = -d + (P - f)
      BY <1>0, <3>7, <3>8, <3>9
    <3> QED BY <3>10, <3>11
  <2>5. r \in 1 .. (P - 1) /\ -(q * y) \in Int /\ 1 - q * k \in Int /\ r < m
    BY <1>0, <1>3, <2>3
  <2>6. r \in T
    BY <2>4, <2>5
  <2> HIDE DEF T
  <2> QED BY <1>2, <1>3, <2>5, <2>6
<1> HIDE DEF T
<1>6. PICK t \in Int : y = t * P + (y % P) /\ y % P \in 0 .. (P - 1)
  BY <1>0, Quotient
<1>7. PICK z \in 0 .. (P - 1) : z = y % P
  BY <1>6
<1>8. x * z = (-(k + x * t)) * P + 1
  <2>1. z \in Int /\ y = t * P + z
    BY <1>0, <1>6, <1>7
  <2>2. x * y = (x * t) * P + x * z
    BY <1>0, <2>1
  <2>3. (-(k + x * t)) * P = -(k * P) - (x * t) * P
    BY <1>0
  <2>4. PICK a \in Int, b \in Int, c \in Int, d \in Int : a = x * y /\ b = k * P /\ c = (x * t) * P /\ d = x * z
    BY <1>0, <2>1
  <2>5. 1 = a + b /\ a = c + d
    BY <1>4, <1>5, <2>2, <2>4
  <2>6. (-(k + x * t)) * P = -b - c
    BY <2>3, <2>4
  <2> QED BY <2>4, <2>5, <2>6
<1>9. (x * z) % P = 1
  <2>1. z \in Int /\ x * z \in Int /\ 1 \in 0 .. (P - 1) /\ -(k + x * t) \in Int
    BY <1>0
  <2> QED BY <1>0, <1>8, <2>1, RemainderIs
<1>10. z # 0
  <2> SUFFICES ASSUME z = 0 PROVE FALSE
    OBVIOUS
  <2>1. x * z = 0
    BY <1>0
  <2>2. 0 % P = 0
    BY <1>0
  <2> QED BY <1>9, <2>1, <2>2
<1> QED BY <1>0, <1>9, <1>10

(* A quotient is a number, whatever it divides by.                          *)
LEMMA DivIsNumber ==
    ASSUME NEW a \in Int, NEW b \in Int
    PROVE  Div(a, b) \in Numbers
<1>0. P \in Nat \ {0}
  BY OddPrime
<1>1. b % P \in 0 .. (P - 1)
  BY <1>0, Quotient
<1>2. PICK e \in 0 .. (P - 1) : e = b % P
  BY <1>1
<1>3. Inverses[e] \in Int
  <2>1. CASE e = 0
    BY <2>1, <1>0 DEF Inverses
  <2>2. CASE e # 0
    <3>1. e \in 1 .. (P - 1)
      BY <1>0, <2>2
    <3>2. \E y \in 1 .. (P - 1) : (e * y) % P = 1
      BY <3>1, InverseExists
    <3>3. Inverses[e] = CHOOSE y \in 1 .. (P - 1) : (e * y) % P = 1
      BY <2>2 DEF Inverses
    <3>4. Inverses[e] \in 1 .. (P - 1)
      BY <3>2, <3>3
    <3> QED BY <1>0, <3>4
  <2> QED BY <2>1, <2>2
<1>4. a * Inverses[e] \in Int
  BY <1>3
<1>5. Div(a, b) = Num(a * Inverses[e])
  BY <1>2 DEF Div
<1> QED BY <1>4, <1>5, NumIs

-----------------------------------------------------------------------------
(* Sums and extrema over a finite set *)

(* Induction on the naturals, over a set instead of a predicate.             *)
LEMMA SetInduction ==
    ASSUME NEW S, 0 \in S, \A n \in Nat : n \in S => n + 1 \in S
    PROVE  \A n \in Nat : n \in S
<1> SUFFICES ASSUME NEW m \in Nat, m \notin S PROVE FALSE
  OBVIOUS
<1> DEFINE T == {n \in Nat : n \notin S}
<1>1. T \subseteq Nat /\ T # {}
  OBVIOUS
<1>2. PICK x \in T : \A y \in T : x <= y
  <2> HIDE DEF T
  <2> QED BY <1>1, LeastNat
<1>3. x # 0 /\ x \in Nat
  OBVIOUS
<1>4. x - 1 \in Nat /\ x - 1 \notin T
  BY <1>2, <1>3
<1> QED BY <1>3, <1>4

(* Induction on the subsets of a finite set.                                 *)
LEMMA SubsetInduction ==
    ASSUME NEW D, IsFiniteSet(D), NEW S,
           \A s \in SUBSET D : (\A x \in s : s \ {x} \in S) => s \in S
    PROVE  \A s \in SUBSET D : s \in S
<1> DEFINE T == {k \in Nat : \A s \in SUBSET D : Cardinality(s) = k => s \in S}
<1>1. \A s \in SUBSET D : IsFiniteSet(s) /\ Cardinality(s) \in Nat
  BY FS_Subset, FS_CardinalityType
<1>2. 0 \in T
  <2> SUFFICES ASSUME NEW s \in SUBSET D, Cardinality(s) = 0 PROVE s \in S
    OBVIOUS
  <2>1. s = {}
    BY <1>1, FS_EmptySet
  <2> QED BY <2>1
<1>3. ASSUME NEW k \in Nat, k \in T PROVE k + 1 \in T
  <2> SUFFICES ASSUME NEW s \in SUBSET D, Cardinality(s) = k + 1 PROVE s \in S
    OBVIOUS
  <2>1. ASSUME NEW x \in s PROVE s \ {x} \in S
    <3>1. Cardinality(s \ {x}) = Cardinality(s) - 1
      BY <1>1, FS_RemoveElement
    <3>2. Cardinality(s \ {x}) = k /\ s \ {x} \in SUBSET D
      BY <3>1
    <3> QED BY <1>3, <3>2
  <2> QED BY <2>1
<1>4. \A k \in Nat : k \in T
  <2> HIDE DEF T
  <2> QED BY <1>2, <1>3, SetInduction
<1> TAKE s \in SUBSET D
<1>5. Cardinality(s) \in T
  BY <1>1, <1>4
<1> QED BY <1>5

(* The sum of a function over a set, one chosen element at a time.          *)
Pick(s) == CHOOSE x \in s : TRUE
SumRec(f, g) ==
    g = [s \in SUBSET DOMAIN f |-> IF s = {} THEN 0 ELSE f[Pick(s)] + g[s \ {Pick(s)}]]
Sums(f) == CHOOSE g : SumRec(f, g)

(* SumOf, unfolded to the recursion it chooses.                              *)
LEMMA SumIs == ASSUME NEW f PROVE SumOf(f) = Num(Sums(f)[DOMAIN f])
BY DEF SumOf, MapThenSumSet, MapThenFoldSet, Sums, SumRec, Pick

(* The recursion of a fold over a finite set has a solution.                 *)
LEMMA SumRecExists ==
    ASSUME NEW f, IsFiniteSet(DOMAIN f)
    PROVE  SumRec(f, Sums(f))
<1> DEFINE D == DOMAIN f
           Level(k) == {s \in SUBSET D : Cardinality(s) <= k}
           Value(s, g) == IF s = {} THEN 0 ELSE f[Pick(s)] + g[s \ {Pick(s)}]
           Q(k, g) == g = [s \in Level(k) |-> Value(s, g)]
           T == {k \in Nat : \E g : Q(k, g)}
<1>1. \A s \in SUBSET D : IsFiniteSet(s) /\ Cardinality(s) \in Nat /\ Cardinality(s) <= Cardinality(D)
  BY FS_Subset, FS_CardinalityType
<1>2. \A s \in SUBSET D : s # {} => Pick(s) \in s
  BY DEF Pick
<1>3. \A s \in SUBSET D : s # {} => Cardinality(s \ {Pick(s)}) = Cardinality(s) - 1
  BY <1>1, <1>2, FS_RemoveElement
<1>4. 0 \in T
  <2> DEFINE g == [s \in Level(0) |-> 0]
  <2>1. \A s \in Level(0) : s = {}
    <3> SUFFICES ASSUME NEW s \in Level(0) PROVE s = {}
      OBVIOUS
    <3>1. Cardinality(s) = 0 /\ IsFiniteSet(s)
      BY <1>1
    <3> QED BY <3>1, FS_EmptySet
  <2>2. Q(0, g)
    BY <2>1
  <2> QED BY <2>2
<1>5. ASSUME NEW k \in Nat, k \in T PROVE k + 1 \in T
  <2>1. PICK g : Q(k, g)
    BY <1>5
  <2> DEFINE h == [s \in Level(k + 1) |-> Value(s, g)]
  <2>2. \A s \in Level(k) : s \in Level(k + 1) /\ g[s] = h[s]
    <3> SUFFICES ASSUME NEW s \in Level(k) PROVE s \in Level(k + 1) /\ g[s] = h[s]
      OBVIOUS
    <3>1. s \in Level(k + 1)
      BY <1>1
    <3>2. h[s] = Value(s, g)
      BY <3>1
    <3>3. g[s] = Value(s, g)
      <4> HIDE DEF Value, Level
      <4> QED BY <2>1
    <3> QED BY <3>1, <3>2, <3>3
  <2>3. ASSUME NEW s \in Level(k + 1) PROVE Value(s, g) = Value(s, h)
    <3>1. CASE s = {}
      BY <3>1
    <3>2. CASE s # {}
      <4>1. s \ {Pick(s)} \in Level(k)
        BY <1>1, <1>3, <3>2
      <4>2. g[s \ {Pick(s)}] = h[s \ {Pick(s)}]
        <5> HIDE DEF h, Level
        <5> QED BY <2>2, <4>1
      <4> HIDE DEF h
      <4> QED BY <3>2, <4>2
    <3> QED BY <3>1, <3>2
  <2>4. h = [s \in Level(k + 1) |-> Value(s, h)]
    <3> HIDE DEF Value, Level
    <3> QED BY <2>3
  <2> HIDE DEF h, Value, Level
  <2>5. \E e : Q(k + 1, e)
    BY <2>4
  <2> QED BY <2>5
<1>6. Cardinality(D) \in T
  <2>1. Cardinality(D) \in Nat
    BY FS_CardinalityType
  <2> HIDE DEF T, D
  <2> QED BY <1>4, <1>5, <2>1, SetInduction
<1>7. PICK g : Q(Cardinality(D), g)
  BY <1>6
<1>8. Level(Cardinality(D)) = SUBSET D
  BY <1>1
<1>9. SumRec(f, g)
  <2> HIDE DEF Level
  <2> QED BY <1>7, <1>8 DEF SumRec
<1> QED BY <1>9 DEF Sums

(* A sum over integers may give up any of its terms first.                   *)
LEMMA SumsRecursion ==
    ASSUME NEW f, IsFiniteSet(DOMAIN f), f \in [DOMAIN f -> Int]
    PROVE  /\ Sums(f)[{}] = 0
           /\ \A s \in SUBSET DOMAIN f : Sums(f)[s] \in Int
           /\ \A s \in SUBSET DOMAIN f : \A x \in s : Sums(f)[s] = f[x] + Sums(f)[s \ {x}]
<1> DEFINE D == DOMAIN f
           F == Sums(f)
<1>1. F = [s \in SUBSET D |-> IF s = {} THEN 0 ELSE f[Pick(s)] + F[s \ {Pick(s)}]]
  BY SumRecExists DEF SumRec
<1>0. \A x \in D : f[x] \in Int
  OBVIOUS
<1> HIDE DEF F, D
<1>2. F[{}] = 0
  BY <1>1
<1>3. \A s \in SUBSET D : s # {} => Pick(s) \in s /\ F[s] = f[Pick(s)] + F[s \ {Pick(s)}]
  BY <1>1 DEF Pick
<1>6. \A s \in SUBSET D : F[s] \in Int
  <2> DEFINE S == {s \in SUBSET D : F[s] \in Int}
  <2>1. ASSUME NEW s \in SUBSET D, \A x \in s : s \ {x} \in S PROVE s \in S
    <3>1. CASE s = {}
      BY <1>2, <3>1
    <3>2. CASE s # {}
      <4>1. PICK y \in s : F[s] = f[y] + F[s \ {y}]
        BY <1>3, <3>2
      <4>2. F[s \ {y}] \in Int /\ f[y] \in Int
        BY <1>0, <2>1
      <4> QED BY <4>1, <4>2
    <3> QED BY <3>1, <3>2
  <2>2. \A s \in SUBSET D : s \in S
    <3> HIDE DEF S
    <3> QED BY <2>1, SubsetInduction DEF D
  <2> QED BY <2>2
<1> DEFINE S == {s \in SUBSET D : \A x \in s : F[s] = f[x] + F[s \ {x}]}
<1>4. ASSUME NEW s \in SUBSET D, \A x \in s : s \ {x} \in S PROVE s \in S
  <2>1. CASE s = {}
    BY <1>2, <2>1
  <2>2. CASE s # {}
    <3> DEFINE y == Pick(s)
    <3>1. y \in s /\ F[s] = f[y] + F[s \ {y}] /\ s \ {y} \in S
      BY <1>3, <1>4, <2>2
    <3> HIDE DEF y
    <3>2. F[s \ {y}] \in Int /\ f[y] \in Int
      BY <1>0, <1>6, <3>1
    <3>3. ASSUME NEW x \in s, x # y PROVE F[s] = f[x] + F[s \ {x}]
      <4>1. x \in s \ {y} /\ y \in s \ {x} /\ s \ {x} \in S /\ s \ {y} \in S
        BY <1>4, <3>1, <3>3
      <4>2. F[s \ {y}] = f[x] + F[(s \ {y}) \ {x}]
        BY <4>1
      <4>3. F[s \ {x}] = f[y] + F[(s \ {x}) \ {y}]
        BY <4>1
      <4>4. (s \ {y}) \ {x} = (s \ {x}) \ {y}
        OBVIOUS
      <4>5. (s \ {x}) \ {y} \in SUBSET D /\ f[x] \in Int
        BY <1>0
      <4>6. F[(s \ {x}) \ {y}] \in Int
        BY <1>6, <4>5
      <4>7. F[s] = f[y] + (f[x] + F[(s \ {x}) \ {y}])
        BY <3>1, <4>2, <4>4
      <4>8. PICK p \in Int, q \in Int, r \in Int : p = f[x] /\ q = f[y] /\ r = F[(s \ {x}) \ {y}]
        BY <3>2, <4>5, <4>6
      <4>9. F[s] = q + (p + r) /\ F[s \ {x}] = q + r
        BY <4>3, <4>7, <4>8
      <4> QED BY <4>8, <4>9
    <3> QED BY <3>1, <3>3
  <2> QED BY <2>1, <2>2
<1>5. \A s \in SUBSET D : s \in S
  <2> HIDE DEF S
  <2> QED BY <1>4, SubsetInduction DEF D
<1> QED BY <1>2, <1>5, <1>6 DEF F, D

(* A fold from the left adds modulo P what SumOf adds first and reduces last. *)
TotalRec(v, g) ==
    g = [s \in SUBSET DOMAIN v |-> IF s = {} THEN 0 ELSE Add(g[s \ {Max(s)}], v[Max(s)])]

(* FoldLeft of Add, unfolded to the recursion it chooses.                   *)
LEMMA TotalIs ==
    ASSUME NEW v PROVE FoldLeft(Add, 0, v) = (CHOOSE g : TotalRec(v, g))[DOMAIN v]
BY DEF FoldLeft, MapThenFoldSet, TotalRec

(* The element a fold from the left takes last.                             *)
LEMMA MaxOfFinite ==
    ASSUME NEW n \in Nat, NEW s \in SUBSET (1 .. n), s # {}
    PROVE  Max(s) \in s /\ \A x \in s : x <= Max(s)
<1> DEFINE T == {n - x : x \in s}
<1>1. T \subseteq Nat /\ T # {}
  <2>1. \A x \in s : n - x \in Nat
    OBVIOUS
  <2> QED BY <2>1
<1>2. PICK t \in T : \A y \in T : t <= y
  <2> HIDE DEF T
  <2> QED BY <1>1, LeastNat
<1>3. PICK x \in s : t = n - x
  OBVIOUS
<1>4. \A y \in s : x >= y
  <2> SUFFICES ASSUME NEW y \in s PROVE x >= y
    OBVIOUS
  <2>1. n - x <= n - y
    BY <1>2, <1>3
  <2>2. x \in Int /\ y \in Int
    OBVIOUS
  <2> QED BY <2>1, <2>2
<1>5. Max(s) \in s /\ \A y \in s : Max(s) >= y
  BY <1>4 DEF Max
<1>6. \A y \in s : y \in Int
  OBVIOUS
<1> QED BY <1>5, <1>6

(* reduceRows of a sum: reducing after every addition or once is the same.  *)
LEMMA FoldAdds ==
    ASSUME NEW n \in Nat, NEW v \in [1 .. n -> Int]
    PROVE  FoldLeft(Add, 0, v) = SumOf(v)
<1> DEFINE D == DOMAIN v
           F == Sums(v)
           H == [s \in SUBSET D |-> Num(F[s])]
           G == CHOOSE g : TotalRec(v, g)
<1>1. D = 1 .. n /\ IsFiniteSet(D) /\ \A x \in D : v[x] \in Int
  BY FS_Interval
<1>2. /\ F[{}] = 0 /\ \A s \in SUBSET D : F[s] \in Int
      /\ \A s \in SUBSET D : \A x \in s : F[s] = v[x] + F[s \ {x}]
  BY <1>1, SumsRecursion
<1>3. \A s \in SUBSET D : s # {} => Max(s) \in s
  BY <1>1, MaxOfFinite
<1> HIDE DEF D, F
<1>4. Num(0) = 0
  <2>1. 0 \in Numbers
    BY OddPrime DEF Numbers
  <2> QED BY <2>1, NumFixed
<1>5. ASSUME NEW s \in SUBSET D, s # {}
      PROVE  Num(F[s]) = Add(Num(F[s \ {Max(s)}]), v[Max(s)])
  <2> DEFINE m == Max(s)
  <2>1. m \in s /\ s \ {m} \in SUBSET D
    BY <1>3, <1>5
  <2> HIDE DEF m
  <2>2. PICK a \in Int, b \in Int : a = F[s \ {m}] /\ b = v[m]
    BY <1>1, <1>2, <2>1
  <2>3. F[s] = a + b
    <3>1. F[s] = b + a
      BY <1>2, <2>1, <2>2
    <3> QED BY <3>1
  <2>4. Num(a + b) = Num(Num(a) + b)
    BY NumAbsorbs
  <2> QED BY <2>2, <2>3, <2>4 DEF m, Add
<1>6. TotalRec(v, H)
  <2>1. H = [s \in SUBSET D |-> IF s = {} THEN 0 ELSE Add(H[s \ {Max(s)}], v[Max(s)])]
    <3>1. ASSUME NEW s \in SUBSET D
          PROVE  Num(F[s]) = IF s = {} THEN 0 ELSE Add(H[s \ {Max(s)}], v[Max(s)])
      <4>1. CASE s = {}
        BY <1>2, <1>4, <4>1
      <4>2. CASE s # {}
        <5>1. H[s \ {Max(s)}] = Num(F[s \ {Max(s)}])
          OBVIOUS
        <5> HIDE DEF H
        <5> QED BY <1>5, <4>2, <5>1
      <4> QED BY <4>1, <4>2
    <3> QED BY <3>1
  <2> QED BY <2>1 DEF TotalRec, D
<1>7. TotalRec(v, G)
  BY <1>6
<1>8. \A s \in SUBSET D : G[s] = H[s]
  <2> HIDE DEF G
  <2> DEFINE S == {s \in SUBSET D : G[s] = H[s]}
  <2>1. ASSUME NEW s \in SUBSET D, \A x \in s : s \ {x} \in S PROVE s \in S
    <3>1. /\ G[s] = IF s = {} THEN 0 ELSE Add(G[s \ {Max(s)}], v[Max(s)])
          /\ H[s] = IF s = {} THEN 0 ELSE Add(H[s \ {Max(s)}], v[Max(s)])
      <4> HIDE DEF H
      <4> QED BY <1>6, <1>7 DEF TotalRec, D
    <3> HIDE DEF H
    <3>2. s # {} => G[s \ {Max(s)}] = H[s \ {Max(s)}]
      BY <1>3, <2>1
    <3> QED BY <3>1, <3>2
  <2> HIDE DEF S
  <2>2. \A s \in SUBSET D : s \in S
    BY <1>1, <2>1, SubsetInduction
  <2> QED BY <2>2 DEF S
<1>9. FoldLeft(Add, 0, v) = G[D]
  BY TotalIs DEF D
<1>10. SumOf(v) = Num(F[D])
  BY SumIs DEF D, F
<1>11. G[D] = H[D] /\ H[D] = Num(F[D])
  <2>1. D \in SUBSET D
    OBVIOUS
  <2> HIDE DEF G
  <2> QED BY <1>8, <2>1
<1> HIDE DEF G, H
<1> QED BY <1>9, <1>10, <1>11

-----------------------------------------------------------------------------
(* Maxima and minima: `most` says which of the two is meant.                  *)
Beats(most, x, y) == IF most THEN x >= y ELSE x <= y
Better(most, x, y) == IF most THEN Larger(x, y) ELSE Smaller(x, y)
ExtremeRec(most, base, v, g) ==
    g = [s \in SUBSET DOMAIN v |->
           IF s = {} THEN base ELSE Better(most, g[s \ {Max(s)}], v[Max(s)])]

(* The better of two is one of them and no worse than either.               *)
LEMMA BetterBeats ==
    ASSUME NEW most \in BOOLEAN, NEW x \in Int, NEW y \in Int
    PROVE  /\ Better(most, x, y) \in {x, y}
           /\ Beats(most, Better(most, x, y), x) /\ Beats(most, Better(most, x, y), y)
BY DEF Better, Beats, Larger, Smaller

(* A total order.                                                           *)
LEMMA BeatsOrders ==
    ASSUME NEW most \in BOOLEAN, NEW x \in Int, NEW y \in Int, NEW z \in Int
    PROVE  /\ Beats(most, x, x)
           /\ Beats(most, x, y) /\ Beats(most, y, z) => Beats(most, x, z)
           /\ Beats(most, x, y) /\ Beats(most, y, x) => x = y
BY DEF Beats

(* The row of n integers such a fold runs over. *)
IntegerRow(v, n) == v \in [1 .. n -> Int]

(* Whatever solves the recursion of such a fold is the extremum.             *)
LEMMA ExtremeIs ==
    ASSUME NEW n \in Nat, NEW v, IntegerRow(v, n), NEW base \in Int,
           NEW most \in BOOLEAN, NEW g, ExtremeRec(most, base, v, g)
    PROVE  /\ g[1 .. n] \in {base} \union {v[i] : i \in 1 .. n}
           /\ Beats(most, g[1 .. n], base)
           /\ \A i \in 1 .. n : Beats(most, g[1 .. n], v[i])
<1> DEFINE D == 1 .. n
           S == {s \in SUBSET D :
                   /\ g[s] \in {base} \union {v[i] : i \in s}
                   /\ g[s] \in Int
                   /\ Beats(most, g[s], base) /\ \A i \in s : Beats(most, g[s], v[i])}
<1>1. IsFiniteSet(D) /\ DOMAIN v = D /\ \A i \in D : v[i] \in Int
  BY FS_Interval DEF IntegerRow
<1>2. \A s \in SUBSET D : s # {} => Max(s) \in s
  BY MaxOfFinite
<1> HIDE DEF D
<1>3. \A s \in SUBSET D : g[s] = IF s = {} THEN base ELSE Better(most, g[s \ {Max(s)}], v[Max(s)])
  BY <1>1 DEF ExtremeRec
<1>4. ASSUME NEW s \in SUBSET D, \A x \in s : s \ {x} \in S PROVE s \in S
  <2>1. CASE s = {}
    <3>1. g[s] = base
      BY <1>3, <2>1
    <3> QED BY <2>1, <3>1, BeatsOrders
  <2>2. CASE s # {}
    <3> DEFINE m == Max(s)
               h == g[s \ {m}]
    <3>1. m \in s /\ s \ {m} \in S /\ v[m] \in Int
      BY <1>1, <1>2, <1>4, <2>2
    <3>2. g[s] = Better(most, h, v[m])
      BY <1>3, <2>2
    <3> HIDE DEF m
    <3>3. /\ h \in {base} \union {v[i] : i \in s \ {m}} /\ h \in Int
          /\ Beats(most, h, base) /\ \A i \in s \ {m} : Beats(most, h, v[i])
      BY <3>1
    <3> HIDE DEF h, S
    <3>4. g[s] \in {h, v[m]} /\ Beats(most, g[s], h) /\ Beats(most, g[s], v[m])
      BY <3>1, <3>2, <3>3, BetterBeats
    <3>5. g[s] \in Int
      BY <3>1, <3>3, <3>4
    <3>6. g[s] \in {base} \union {v[i] : i \in s}
      BY <3>1, <3>3, <3>4
    <3>7. Beats(most, g[s], base)
      BY <3>3, <3>4, <3>5, BeatsOrders
    <3>8. ASSUME NEW i \in s PROVE Beats(most, g[s], v[i])
      <4>1. CASE i = m
        BY <3>4, <4>1
      <4>2. CASE i # m
        <5>1. Beats(most, h, v[i]) /\ v[i] \in Int
          BY <1>1, <3>3, <4>2
        <5> QED BY <3>3, <3>4, <3>5, <5>1, BeatsOrders
      <4> QED BY <4>1, <4>2
    <3> QED BY <3>5, <3>6, <3>7, <3>8 DEF S
  <2> QED BY <2>1, <2>2
<1>5. \A s \in SUBSET D : s \in S
  <2> HIDE DEF S
  <2> QED BY <1>1, <1>4, SubsetInduction
<1>6. D \in S
  BY <1>5
<1> QED BY <1>6 DEF D

(* The recursion has a solution.                                             *)
LEMMA ExtremeExists ==
    ASSUME NEW n \in Nat, NEW v, IntegerRow(v, n), NEW base \in Int, NEW most \in BOOLEAN
    PROVE  \E g : ExtremeRec(most, base, v, g)
<1> DEFINE D == 1 .. n
           C(s) == {base} \union {v[i] : i \in s}
           Best(s, x) == x \in C(s) /\ x \in Int /\ \A y \in C(s) : Beats(most, x, y)
           S == {s \in SUBSET D : \E x \in Int : Best(s, x)}
           H == [s \in SUBSET D |-> CHOOSE x \in Int : Best(s, x)]
<1>1. IsFiniteSet(D) /\ DOMAIN v = D /\ \A i \in D : v[i] \in Int
  BY FS_Interval DEF IntegerRow
<1>2. \A s \in SUBSET D : s # {} => Max(s) \in s
  BY MaxOfFinite
<1> HIDE DEF D
<1>3. ASSUME NEW s \in SUBSET D, NEW k \in s, NEW x \in Int, Best(s \ {k}, x)
      PROVE  Best(s, Better(most, x, v[k])) /\ Better(most, x, v[k]) \in Int
  <2> DEFINE z == Better(most, x, v[k])
  <2>1. v[k] \in Int
    BY <1>1
  <2>2. z \in {x, v[k]} /\ Beats(most, z, x) /\ Beats(most, z, v[k])
    BY <2>1, BetterBeats
  <2> HIDE DEF z
  <2>3. z \in Int /\ z \in C(s)
    BY <1>3, <2>1, <2>2
  <2>4. ASSUME NEW y \in C(s) PROVE Beats(most, z, y)
    <3>1. CASE y = v[k]
      BY <2>2, <3>1
    <3>2. CASE y # v[k]
      <4>1. y \in C(s \ {k})
        BY <3>2
      <4>2. Beats(most, x, y) /\ y \in Int
        <5>1. y \in Int
          BY <1>1
        <5> QED BY <1>3, <4>1, <5>1
      <4> QED BY <2>2, <2>3, <4>2, BeatsOrders
    <3> QED BY <3>1, <3>2
  <2> QED BY <2>3, <2>4 DEF z
<1>4. ASSUME NEW s \in SUBSET D, \A x \in s : s \ {x} \in S PROVE s \in S
  <2>1. CASE s = {}
    <3>1. Best(s, base)
      BY <2>1, BeatsOrders
    <3> HIDE DEF Best
    <3> QED BY <3>1
  <2>2. CASE s # {}
    <3>1. PICK k \in s : s \ {k} \in S
      BY <1>4, <2>2
    <3>2. PICK x \in Int : Best(s \ {k}, x)
      BY <3>1
    <3> HIDE DEF Best
    <3> QED BY <1>3, <3>2
  <2> QED BY <2>1, <2>2
<1>5. \A s \in SUBSET D : s \in S
  <2> HIDE DEF S
  <2> QED BY <1>1, <1>4, SubsetInduction
<1>6. ASSUME NEW s \in SUBSET D PROVE Best(s, H[s]) /\ H[s] \in Int
  <2>1. \E x \in Int : Best(s, x)
    <3>1. s \in S
      BY <1>5
    <3> HIDE DEF Best
    <3> QED BY <3>1
  <2>2. H[s] = CHOOSE x \in Int : Best(s, x)
    OBVIOUS
  <2> HIDE DEF Best, H
  <2> QED BY <2>1, <2>2
<1>7. ASSUME NEW s \in SUBSET D, NEW x \in Int, NEW y \in Int, Best(s, x), Best(s, y) PROVE x = y
  <2>1. Beats(most, x, y) /\ Beats(most, y, x)
    BY <1>7
  <2> QED BY <2>1, BeatsOrders
<1>8. ASSUME NEW s \in SUBSET D
      PROVE  H[s] = IF s = {} THEN base ELSE Better(most, H[s \ {Max(s)}], v[Max(s)])
  <2>1. CASE s = {}
    <3>1. H[s] \in C(s)
      BY <1>6
    <3> HIDE DEF H
    <3> QED BY <2>1, <3>1
  <2>2. CASE s # {}
    <3> DEFINE m == Max(s)
    <3>1. m \in s /\ s \ {m} \in SUBSET D
      BY <1>2, <2>2
    <3> HIDE DEF m, H, Best
    <3>2. Best(s \ {m}, H[s \ {m}]) /\ H[s \ {m}] \in Int
      BY <1>6, <3>1
    <3>3. Best(s, Better(most, H[s \ {m}], v[m])) /\ Better(most, H[s \ {m}], v[m]) \in Int
      BY <1>3, <3>1, <3>2
    <3>4. H[s] = Better(most, H[s \ {m}], v[m])
      BY <1>6, <1>7, <3>3
    <3> QED BY <2>2, <3>4 DEF m
  <2> QED BY <2>1, <2>2
<1>9. ExtremeRec(most, base, v, H)
  <2>1. H = [s \in SUBSET D |-> H[s]]
    OBVIOUS
  <2>2. [s \in SUBSET D |-> H[s]] = [s \in SUBSET D |-> IF s = {} THEN base ELSE Better(most, H[s \ {Max(s)}], v[Max(s)])]
    <3> HIDE DEF H
    <3> QED BY <1>8
  <2> HIDE DEF H
  <2> QED BY <1>1, <2>1, <2>2 DEF ExtremeRec
<1> QED BY <1>9

-----------------------------------------------------------------------------
(* Counts, means and variances *)

(* Where the mask is set a factor of 1 changes nothing, elsewhere the term   *)
(* vanishes: the sums of the loops and of python have the same terms.        *)
LEMMA TermsAgree ==
    ASSUME NEW x \in Numbers, NEW valid \in BOOLEAN
    PROVE  Mul(x, Weight(valid)) = (IF valid THEN x ELSE 0)
<1>1. x \in Int /\ Num(x) = x /\ Num(0) = 0
  <2>1. 0 \in Numbers
    BY OddPrime DEF Numbers, Half
  <2> QED BY <2>1, NumFixed
<1>2. x * 1 = x /\ x * 0 = 0
  BY <1>1
<1>3. CASE valid
  BY <1>1, <1>2, <1>3 DEF Mul, Weight
<1>4. CASE ~valid
  BY <1>1, <1>2, <1>4 DEF Mul, Weight
<1> QED BY <1>3, <1>4

(* The points a mask selects, counted by the loop and by eager torch.       *)
LEMMA CountsAgree ==
    ASSUME NEW valid PROVE Larger(MaskedCount(valid), 1) = Count(valid)
<1>1. \A n \in DOMAIN valid :
        (IF valid[n] THEN [k \in DOMAIN valid |-> 1][n] ELSE 0) = Weight(valid[n])
  BY DEF Weight
<1>2. [n \in DOMAIN valid |-> IF valid[n] THEN [k \in DOMAIN valid |-> 1][n] ELSE 0]
        = [n \in DOMAIN valid |-> Weight(valid[n])]
  BY <1>1
<1> QED BY <1>2 DEF MaskedCount, MaskedSum, Count

(* The masked mean: selecting the samples or weighing them by 0 and 1.      *)
LEMMA MeansAgree ==
    ASSUME NEW input, NEW mask, NEW b, NEW c,
           \A n \in DOMAIN mask[b] : mask[b][n] \in BOOLEAN /\ input[b][n][c] \in Numbers
    PROVE  LoweredMean(input, mask, b, c) = MeanOf(input, mask, b, c)
<1> DEFINE D == DOMAIN mask[b]
           samples == [n \in D |-> input[b][n][c]]
<1>1. [n \in D |-> IF mask[b][n] THEN samples[n] ELSE 0]
        = [n \in D |-> Mul(input[b][n][c], Weight(mask[b][n]))]
  <2>1. \A n \in D : (IF mask[b][n] THEN samples[n] ELSE 0) = Mul(input[b][n][c], Weight(mask[b][n]))
    BY TermsAgree
  <2> HIDE DEF samples
  <2> QED BY <2>1
<1>2. MaskedSum(mask[b], samples) = SumOf([n \in D |-> Mul(input[b][n][c], Weight(mask[b][n]))])
  BY <1>1 DEF MaskedSum
<1> QED BY <1>2, CountsAgree DEF LoweredMean, MeanOf, DivideByCount

(* The results of the arithmetic are numbers.                               *)
LEMMA MulIsNumber == ASSUME NEW x \in Int, NEW y \in Int PROVE Mul(x, y) \in Numbers
BY NumIs DEF Mul
LEMMA AddIsNumber == ASSUME NEW x \in Int, NEW y \in Int PROVE Add(x, y) \in Numbers
BY NumIs DEF Add
LEMMA SubIsNumber == ASSUME NEW x \in Int, NEW y \in Int PROVE Sub(x, y) \in Numbers
BY NumIs DEF Sub

(* A sum over a finite row is a number.                                     *)
LEMMA SumIsNumber ==
    ASSUME NEW f, IsFiniteSet(DOMAIN f), f \in [DOMAIN f -> Int]
    PROVE  SumOf(f) \in Numbers
<1>1. Sums(f)[DOMAIN f] \in Int
  BY SumsRecursion
<1> QED BY <1>1, SumIs, NumIs

(* The mean that a variance subtracts is a number.                          *)
LEMMA MeanIsNumber ==
    ASSUME NEW input, NEW mask, NEW b, NEW c, IsFiniteSet(DOMAIN mask[b]),
           \A n \in DOMAIN mask[b] : mask[b][n] \in BOOLEAN /\ input[b][n][c] \in Numbers
    PROVE  MeanOf(input, mask, b, c) \in Int
<1> DEFINE D == DOMAIN mask[b]
           f == [n \in D |-> Mul(input[b][n][c], Weight(mask[b][n]))]
           g == [n \in D |-> Weight(mask[b][n])]
<1>1. f \in [D -> Int] /\ DOMAIN f = D
  <2>1. \A n \in D : Mul(input[b][n][c], Weight(mask[b][n])) \in Int
    BY TermsAgree, NumFixed
  <2> QED BY <2>1
<1>2. g \in [D -> Int] /\ DOMAIN g = D
  BY DEF Weight
<1>3. SumOf(f) \in Int /\ SumOf(g) \in Int
  <2> HIDE DEF f, g
  <2>1. SumOf(f) \in Numbers
    BY <1>1, SumIsNumber
  <2>2. SumOf(g) \in Numbers
    BY <1>2, SumIsNumber
  <2> QED BY <2>1, <2>2, NumFixed
<1>4. Count(mask[b]) \in Int
  BY <1>3 DEF Count, Larger
<1>5. MeanOf(input, mask, b, c) = Div(SumOf(f), Count(mask[b]))
  BY DEF MeanOf
<1> HIDE DEF f, g
<1>6. MeanOf(input, mask, b, c) \in Numbers
  BY <1>3, <1>4, <1>5, DivIsNumber
<1> QED BY <1>6, NumFixed

(* The masked variance, in two passes on both sides.                        *)
LEMMA VariancesAgree ==
    ASSUME NEW input, NEW mask, NEW b, NEW c, IsFiniteSet(DOMAIN mask[b]),
           \A n \in DOMAIN mask[b] : mask[b][n] \in BOOLEAN /\ input[b][n][c] \in Numbers
    PROVE  LoweredVariance(input, mask, b, c) = VarianceOf(input, mask, b, c)
<1> DEFINE D == DOMAIN mask[b]
           m == MeanOf(input, mask, b, c)
           square(n) == Mul(Sub(input[b][n][c], m), Sub(input[b][n][c], m))
           samples == [n \in D |-> square(n)]
<1>1. m \in Int /\ LoweredMean(input, mask, b, c) = m
  BY MeanIsNumber, MeansAgree
<1> HIDE DEF m
<1>2. ASSUME NEW n \in D PROVE square(n) \in Numbers
  <2>1. Sub(input[b][n][c], m) \in Numbers
    BY <1>1, NumFixed, SubIsNumber
  <2>2. Sub(input[b][n][c], m) \in Int
    BY <2>1, NumFixed
  <2> QED BY <2>2, MulIsNumber
<1>3. [n \in D |-> IF mask[b][n] THEN samples[n] ELSE 0]
        = [n \in D |-> Mul(square(n), Weight(mask[b][n]))]
  <2>1. ASSUME NEW n \in D
        PROVE  (IF mask[b][n] THEN samples[n] ELSE 0) = Mul(square(n), Weight(mask[b][n]))
    <3>1. samples[n] = square(n)
      OBVIOUS
    <3> HIDE DEF square, samples
    <3> QED BY <1>2, <3>1, TermsAgree
  <2> HIDE DEF samples, square
  <2> QED BY <2>1
<1>4. LoweredVariance(input, mask, b, c)
        = DivideByCount(MaskedSum(mask[b], samples), MaskedCount(mask[b]))
  BY <1>1 DEF LoweredVariance
<1>5. MaskedSum(mask[b], samples) = SumOf([n \in D |-> Mul(square(n), Weight(mask[b][n]))])
  <2> HIDE DEF square, samples
  <2> QED BY <1>3 DEF MaskedSum
<1>6. VarianceOf(input, mask, b, c)
        = Div(SumOf([n \in D |-> Mul(square(n), Weight(mask[b][n]))]), Count(mask[b]))
  BY DEF VarianceOf, m
<1> HIDE DEF samples, square
<1> QED BY <1>4, <1>5, <1>6, CountsAgree DEF DivideByCount

-----------------------------------------------------------------------------
(* Extrema *)

(* The extremum of a set that has one, whichever fold found it.              *)
LEMMA MaxIs ==
    ASSUME NEW S, S \subseteq Int, NEW x \in S, \A y \in S : x >= y
    PROVE  Max(S) = x
<1>1. Max(S) \in S /\ \A y \in S : Max(S) >= y
  BY DEF Max
<1>2. Max(S) >= x /\ x >= Max(S) /\ Max(S) \in Int /\ x \in Int
  BY <1>1
<1> QED BY <1>2

LEMMA MinIs ==
    ASSUME NEW S, S \subseteq Int, NEW x \in S, \A y \in S : x <= y
    PROVE  Min(S) = x
<1>1. Min(S) \in S /\ \A y \in S : Min(S) <= y
  BY DEF Min
<1>2. Min(S) <= x /\ x <= Min(S) /\ Min(S) \in Int /\ x \in Int
  BY <1>1
<1> QED BY <1>2

(* The fold starts at empty_value.  Where that is neutral its result is the   *)
(* extremum of the column.                                                   *)
LEMMA ExtremaAgree ==
    ASSUME NEW name \in {"masked_max", "masked_min"}, NEW n \in Nat \ {0},
           NEW input, NEW mask, NEW b, NEW c, NEW empty \in Int,
           DOMAIN mask[b] = 1 .. n, Len(mask[b]) = n,
           \A k \in 1 .. n : mask[b][k] \in BOOLEAN /\ input[b][k][c] \in Int,
           \A k \in 1 .. n : Beats(name = "masked_max", input[b][k][c], empty)
    PROVE  LoweredExtremum(name, input, mask, empty, b, c)
             = IF name = "masked_max" THEN Max(Column(input, mask, empty, b, c))
                                      ELSE Min(Column(input, mask, empty, b, c))
<1> DEFINE most == name = "masked_max"
           v == [k \in 1 .. n |-> IF mask[b][k] THEN input[b][k][c] ELSE empty]
           order == [k \in 1 .. n |-> k]
           Solves(g) == g = [s \in SUBSET DOMAIN order |->
                               IF s = {} THEN empty
                               ELSE IF most
                                    THEN Larger(g[s \ {Max(s)}],
                                                IF mask[b][order[Max(s)]] THEN input[b][order[Max(s)]][c] ELSE empty)
                                    ELSE Smaller(g[s \ {Max(s)}],
                                                 IF mask[b][order[Max(s)]] THEN input[b][order[Max(s)]][c] ELSE empty)]
           G == CHOOSE g : Solves(g)
<1>1. LoweredExtremum(name, input, mask, empty, b, c) = G[DOMAIN order]
  BY DEF LoweredExtremum, FoldLeft, MapThenFoldSet
<1>2. DOMAIN order = 1 .. n /\ \A k \in 1 .. n : order[k] = k
  OBVIOUS
<1>3. v \in [1 .. n -> Int] /\ DOMAIN v = 1 .. n
  OBVIOUS
<1>4. \A k \in 1 .. n : v[k] = IF mask[b][k] THEN input[b][k][c] ELSE empty
  OBVIOUS
<1>5. \A s \in SUBSET (1 .. n) : s # {} => Max(s) \in 1 .. n
  BY MaxOfFinite
<1> HIDE DEF v, order
<1>6. ASSUME NEW g PROVE Solves(g) <=> ExtremeRec(most, empty, v, g)
  <2> DEFINE cell(k) == IF mask[b][k] THEN input[b][k][c] ELSE empty
             A(s) == IF s = {} THEN empty
                     ELSE IF most THEN Larger(g[s \ {Max(s)}], cell(order[Max(s)]))
                                  ELSE Smaller(g[s \ {Max(s)}], cell(order[Max(s)]))
             B(s) == IF s = {} THEN empty ELSE Better(most, g[s \ {Max(s)}], v[Max(s)])
  <2>1. ASSUME NEW s \in SUBSET (1 .. n) PROVE A(s) = B(s)
    <3>1. s # {} => order[Max(s)] = Max(s) /\ v[Max(s)] = cell(Max(s))
      BY <1>2, <1>4, <1>5
    <3> HIDE DEF cell
    <3> QED BY <3>1 DEF Better
  <2>2. Solves(g) <=> g = [s \in SUBSET (1 .. n) |-> A(s)]
    BY <1>2
  <2>3. ExtremeRec(most, empty, v, g) <=> g = [s \in SUBSET (1 .. n) |-> B(s)]
    BY <1>3 DEF ExtremeRec
  <2> HIDE DEF A, B, Solves
  <2>4. [s \in SUBSET (1 .. n) |-> A(s)] = [s \in SUBSET (1 .. n) |-> B(s)]
    BY <2>1
  <2> QED BY <2>2, <2>3, <2>4
<1>7. most \in BOOLEAN
  OBVIOUS
<1>8. \E g : Solves(g)
  <2>1. \E g : ExtremeRec(most, empty, v, g)
    <3> HIDE DEF most
    <3> QED BY <1>3, <1>7, ExtremeExists DEF IntegerRow
  <2> HIDE DEF Solves, most
  <2> QED BY <1>6, <2>1
<1>9. Solves(G)
  <2> HIDE DEF Solves
  <2> QED BY <1>8
<1>10. ExtremeRec(most, empty, v, G)
  <2> HIDE DEF Solves, G, most
  <2> QED BY <1>6, <1>9
<1> HIDE DEF Solves, G
<1> DEFINE e == G[1 .. n]
<1>11. /\ e \in {empty} \union {v[i] : i \in 1 .. n}
       /\ Beats(most, e, empty) /\ \A i \in 1 .. n : Beats(most, e, v[i])
  <2> HIDE DEF most
  <2>1. IntegerRow(v, n)
    BY <1>3 DEF IntegerRow
  <2> HIDE DEF e
  <2>2. /\ G[1 .. n] \in {empty} \union {v[i] : i \in 1 .. n}
        /\ Beats(most, G[1 .. n], empty) /\ \A i \in 1 .. n : Beats(most, G[1 .. n], v[i])
    BY ONLY n \in Nat, empty \in Int, <1>7, <1>10, <2>1, ExtremeIs
  <2> QED BY <2>2 DEF e
<1> HIDE DEF e
<1>12. e \in {v[i] : i \in 1 .. n}
  <2> SUFFICES ASSUME e = empty PROVE e \in {v[i] : i \in 1 .. n}
    BY <1>11
  <2>1. 1 \in 1 .. n
    OBVIOUS
  <2>2. Beats(most, v[1], empty)
    <3>1. Beats(most, empty, empty)
      BY <1>7, BeatsOrders
    <3> QED BY <1>4, <2>1, <3>1
  <2>3. Beats(most, empty, v[1]) /\ v[1] \in Int
    BY <1>3, <1>11, <2>1
  <2>4. v[1] = empty
    <3> HIDE DEF most
    <3> QED BY <1>7, <2>2, <2>3, BeatsOrders
  <2> QED BY <2>1, <2>4
<1> DEFINE C == {v[i] : i \in 1 .. n}
<1>13. Column(input, mask, empty, b, c) = C
  BY <1>4 DEF Column
<1>14. C \subseteq Int /\ e \in C
  BY <1>3, <1>12
<1>15. \A y \in C : Beats(most, e, y)
  BY <1>11
<1> HIDE DEF C
<1>16. CASE name = "masked_max"
  <2>1. \A y \in C : e >= y
    BY <1>15, <1>16 DEF Beats
  <2>2. Max(C) = e
    BY <1>14, <2>1, MaxIs
  <2> QED BY <1>1, <1>2, <1>13, <1>16, <2>2 DEF e
<1>17. CASE name = "masked_min"
  <2>1. \A y \in C : e <= y
    BY <1>15, <1>17 DEF Beats
  <2>2. Min(C) = e
    BY <1>14, <2>1, MinIs
  <2> QED BY <1>1, <1>2, <1>13, <1>17, <2>2 DEF e
<1> QED BY <1>16, <1>17

(* A row's maximum, folded from -P, which is below every number.             *)
NumberRow(t, b, n) == t[b] \in [1 .. n -> Numbers]

(* reduceRows of a maximum: it starts below every number.                   *)
LEMMA RowMaxIs ==
    ASSUME NEW n \in Nat \ {0}, NEW t, NEW b, NumberRow(t, b, n)
    PROVE  RowMax(t, b) = Max({t[b][i] : i \in DOMAIN t[b]}) /\ RowMax(t, b) \in Numbers
<1> DEFINE v == t[b]
           base == -P
           Solves(g) == g = [s \in SUBSET DOMAIN v |->
                               IF s = {} THEN base ELSE Larger(g[s \ {Max(s)}], v[Max(s)])]
           G == CHOOSE g : Solves(g)
<1>1. RowMax(t, b) = G[DOMAIN v]
  BY DEF RowMax, FoldLeft, MapThenFoldSet
<1>2. base \in Int /\ \A x \in Numbers : x \in Int /\ x > base
  <2>1. Half \in Nat /\ P = 2 * Half + 1 /\ P \in Nat
    BY OddPrime
  <2>2. Numbers = -Half .. Half
    BY DEF Numbers, Half
  <2> QED BY <2>1, <2>2
<1>3. DOMAIN v = 1 .. n /\ v \in [1 .. n -> Int] /\ \A i \in 1 .. n : v[i] \in Numbers
  BY <1>2 DEF NumberRow
<1> HIDE DEF v, base
<1>4. \A g : Solves(g) <=> ExtremeRec(TRUE, base, v, g)
  BY DEF ExtremeRec, Better
<1>5. \E g : ExtremeRec(TRUE, base, v, g)
  BY <1>2, <1>3, ExtremeExists DEF IntegerRow
<1>6. ExtremeRec(TRUE, base, v, G)
  <2>1. \E g : Solves(g)
    <3> HIDE DEF Solves
    <3> QED BY <1>4, <1>5
  <2>2. Solves(G)
    <3> HIDE DEF Solves
    <3> QED BY <2>1
  <2> HIDE DEF Solves, G
  <2> QED BY <1>4, <2>2
<1> HIDE DEF G
<1> DEFINE e == G[1 .. n]
<1>7. /\ e \in {base} \union {v[i] : i \in 1 .. n}
      /\ Beats(TRUE, e, base) /\ \A i \in 1 .. n : Beats(TRUE, e, v[i])
  BY <1>2, <1>3, <1>6, ExtremeIs DEF IntegerRow
<1> HIDE DEF e
<1>8. e # base
  <2>1. 1 \in 1 .. n /\ v[1] > base /\ v[1] \in Int
    BY <1>2, <1>3
  <2>2. e >= v[1]
    BY <1>7, <2>1 DEF Beats
  <2> QED BY <1>2, <2>1, <2>2
<1>9. e \in {v[i] : i \in 1 .. n} /\ \A y \in {v[i] : i \in 1 .. n} : e >= y
  BY <1>7, <1>8 DEF Beats
<1>10. Max({v[i] : i \in 1 .. n}) = e
  <2>1. {v[i] : i \in 1 .. n} \subseteq Int
    BY <1>3
  <2> QED BY <1>9, <2>1, MaxIs
<1>11. e \in Numbers
  BY <1>3, <1>9
<1> QED BY <1>1, <1>3, <1>10, <1>11 DEF e, v

-----------------------------------------------------------------------------
(* Cells of the other loops *)

(* The nine features: the loop picks one by its index, eager torch stacks them. *)
LEMMA PointFeaturesAgree ==
    ASSUME NEW B, NEW N, NEW points, NEW mask, NEW dims, NEW a,
           DOMAIN points = 1 .. B, \A b \in 1 .. B : DOMAIN points[b] = 1 .. N,
           dims[1] = B, dims[2] = N, dims[3] = 9
    PROVE  PointFeatureLoop(points, mask, dims, a)
             = PointFeatures(points, mask, a.radius_epsilon, a.theta_epsilon)
<1> DEFINE x(b, n) == points[b][n][1]
           y(b, n) == points[b][n][2]
           r2(b, n) == Add(Mul(x(b, n), x(b, n)), Mul(y(b, n), y(b, n)))
           r(b, n) == Sqrt(Add(r2(b, n), a.radius_epsilon))
           theta(b, n) == Atan2(IF r2(b, n) > a.theta_epsilon THEN y(b, n) ELSE 0,
                                IF r2(b, n) > a.theta_epsilon THEN x(b, n) ELSE 1)
           features(b, n) == <<x(b, n), y(b, n), Larger(x(b, n), -x(b, n)), Larger(y(b, n), -y(b, n)),
                               r(b, n), theta(b, n), Mul(x(b, n), x(b, n)), Mul(y(b, n), y(b, n)),
                               Mul(x(b, n), y(b, n))>>
           L(b, n) == [k \in 1 .. 9 |->
                         IF mask[b][n] THEN features(b, n)[IF k \in 1 .. 8 THEN k ELSE 9] ELSE 0]
           E(b, n) == IF mask[b][n] THEN features(b, n) ELSE [k \in 1 .. 9 |-> 0]
<1>1. PointFeatureLoop(points, mask, dims, a) = [b \in 1 .. B |-> [n \in 1 .. N |-> L(b, n)]]
  BY DEF PointFeatureLoop
<1>2. PointFeatures(points, mask, a.radius_epsilon, a.theta_epsilon)
        = [b \in 1 .. B |-> [n \in DOMAIN points[b] |-> E(b, n)]]
  BY DEF PointFeatures
<1>3. ASSUME NEW b \in 1 .. B, NEW n \in 1 .. N PROVE L(b, n) = E(b, n)
  <2> DEFINE f == features(b, n)
  <2>1. f = [k \in 1 .. 9 |-> f[k]]
    <3>1. \A x1, x2, x3, x4, x5, x6, x7, x8, x9 :
            LET t == <<x1, x2, x3, x4, x5, x6, x7, x8, x9>> IN t = [k \in 1 .. 9 |-> t[k]]
      OBVIOUS
    <3> QED BY <3>1
  <2>2. \A k \in 1 .. 9 : (IF k \in 1 .. 8 THEN k ELSE 9) = k
    OBVIOUS
  <2>3. L(b, n) = [k \in 1 .. 9 |-> IF mask[b][n] THEN f[IF k \in 1 .. 8 THEN k ELSE 9] ELSE 0]
    OBVIOUS
  <2>4. E(b, n) = IF mask[b][n] THEN f ELSE [k \in 1 .. 9 |-> 0]
    OBVIOUS
  <2> HIDE DEF f, L, E, features
  <2>5. CASE mask[b][n]
    BY <2>1, <2>2, <2>3, <2>4, <2>5
  <2>6. CASE ~mask[b][n]
    BY <2>3, <2>4, <2>6
  <2> QED BY <2>5, <2>6
<1> HIDE DEF L, E
<1>4. [b \in 1 .. B |-> [n \in 1 .. N |-> L(b, n)]]
        = [b \in 1 .. B |-> [n \in DOMAIN points[b] |-> E(b, n)]]
  <2>1. ASSUME NEW b \in 1 .. B
        PROVE  [n \in 1 .. N |-> L(b, n)] = [n \in DOMAIN points[b] |-> E(b, n)]
    BY <1>3
  <2> QED BY <2>1
<1> QED BY <1>1, <1>2, <1>4

(* Gate g of a row of three gates starts h columns after gate g - 1.         *)
LEMMA GateIs ==
    ASSUME NEW h \in Nat, NEW V, NEW row \in Seq(V), Len(row) = 3 * h, NEW g \in 0 .. 2, NEW d \in 1 .. h
    PROVE  Gate(row, g, h)[d] = row[g * h + d]
<1>2. g \in {0, 1, 2}
  OBVIOUS
<1>3. CASE g = 0
  <2>1. g * h = 0 /\ (g + 1) * h = h
    BY <1>3
  <2> HIDE <1>3
  <2> QED BY <2>1 DEF Gate
<1>4. CASE g = 1
  <2>1. g * h = h /\ (g + 1) * h = 2 * h
    BY <1>4
  <2> HIDE <1>4
  <2> QED BY <2>1 DEF Gate
<1>5. CASE g = 2
  <2>1. g * h = 2 * h /\ (g + 1) * h = 3 * h
    BY <1>5
  <2> HIDE <1>5
  <2> QED BY <2>1 DEF Gate
<1> QED BY <1>2, <1>3, <1>4, <1>5

(* Column d of gate g is column j of the three gates, each h wide.           *)
At(j, g, h, d, width) == width = 3 * h /\ j = g * h + d

(* One row of the left operand times one of the right.                       *)
Dot(x, w) == SumOf([k \in DOMAIN x |-> Mul(x[k], w[k])])

(* A row of the product of the left operand with the right one transposed.  *)
LEMMA ProjectionIs ==
    ASSUME NEW B \in Nat, NEW width \in Nat, NEW lhs, NEW rhs, Len(lhs) = B,
           NEW b \in 1 .. B
    PROVE  Projection(lhs, rhs, width)[b] = [j \in 1 .. width |-> Dot(lhs[b], rhs[j])]
<1>2. Projection(lhs, rhs, width)
        = [i \in 1 .. B |-> [j \in 1 .. width |-> Dot(lhs[i], rhs[j])]]
  BY DEF Projection, Fill, Dot
<1> QED BY <1>2

(* Column d of gate g is one of the three gates' columns.                   *)
LEMMA GateColumn ==
    ASSUME NEW h \in Nat, NEW g \in 0 .. 2, NEW d \in 1 .. h
    PROVE  g * h + d \in 1 .. (3 * h)
<1>1. g \in {0, 1, 2}
  OBVIOUS
<1>2. g = 0 \/ g = 1 \/ g = 2
  BY <1>1
<1>3. g * h = 0 \/ g * h = h \/ g * h = 2 * h
  BY <1>2
<1>4. PICK p \in Int : p = g * h
  OBVIOUS
<1> QED BY <1>3, <1>4

(* Everything a column needs to be inside: the row b and gate g of h columns. *)
Inside(lhs, b, g, h, d, width, j) ==
    /\ h \in Nat /\ Len(lhs) \in Nat /\ b \in 1 .. Len(lhs)
    /\ g \in 0 .. 2 /\ d \in 1 .. h /\ At(j, g, h, d, width)

(* A vector of three gates.                                                 *)
ThreeGates(c, h) == c \in Seq(Numbers) /\ Len(c) = 3 * h

(* What the slice of a projected row holds at column d.                     *)
LEMMA ColumnOfProjection ==
    ASSUME NEW lhs, NEW rhs, NEW b, NEW g, NEW h, NEW d, NEW width, NEW j,
           Inside(lhs, b, g, h, d, width, j)
    PROVE  Gate(Projection(lhs, rhs, width)[b], g, h)[d] = Dot(lhs[b], rhs[j])
<1>0. /\ h \in Nat /\ Len(lhs) \in Nat /\ b \in 1 .. Len(lhs)
      /\ g \in 0 .. 2 /\ d \in 1 .. h
  BY DEF Inside
<1>5. width = 3 * h /\ width \in Nat
  BY DEF Inside, At
<1> DEFINE row == Projection(lhs, rhs, width)[b]
           W == {Dot(lhs[b], rhs[k]) : k \in 1 .. width}
<1>1. row = [k \in 1 .. width |-> Dot(lhs[b], rhs[k])]
  BY <1>0, <1>5, ProjectionIs
<1> HIDE DEF row
<1>2. row \in Seq(W) /\ Len(row) = 3 * h
  <2>1. row \in [1 .. width -> W]
    BY <1>1
  <2>2. row \in Seq(W) /\ Len(row) = width
    <3> HIDE DEF W
    <3> QED BY <1>5, <2>1
  <2> HIDE DEF W
  <2> QED BY <1>5, <2>2
<1> HIDE DEF W
<1>3. Gate(row, g, h)[d] = row[g * h + d]
  BY <1>0, <1>2, GateIs
<1>4. j \in 1 .. width /\ j = g * h + d
  BY <1>0, <1>5, GateColumn DEF At, Inside
<1> QED BY <1>1, <1>3, <1>4 DEF row

(* What the slice of a bias holds there.                                    *)
LEMMA ColumnOfBias ==
    ASSUME NEW lhs, NEW c, NEW b, NEW g, NEW h, NEW d, NEW width, NEW j,
           Inside(lhs, b, g, h, d, width, j), ThreeGates(c, h)
    PROVE  Gate(c, g, h)[d] = c[j]
BY GateIs DEF Inside, ThreeGates, At

(* A gate of the loop is a gate of torch.nn.functional.linear.              *)
LEMMA GateIsLinear ==
    ASSUME NEW x, NEW w, NEW c, NEW b, NEW g, NEW h, NEW d, NEW width, NEW j,
           Inside(x, b, g, h, d, width, j), ThreeGates(c, h)
    PROVE  Add(Gate(Projection(x, w, width)[b], g, h)[d], Gate(c, g, h)[d])
             = Linear(x, w, c, b, j)
<1>1. Gate(Projection(x, w, width)[b], g, h)[d] = Dot(x[b], w[j])
  BY ColumnOfProjection
<1>2. Gate(c, g, h)[d] = c[j]
  BY ColumnOfBias
<1> QED BY <1>1, <1>2 DEF Linear, Dot

(* The operands of a GRU cell: B rows, h wide.                              *)
GruInputs(ins, B, h) ==
    /\ B \in Nat /\ h \in Nat /\ Len(ins[1]) = B /\ Len(ins[2]) = B
    /\ DOMAIN ins[2] = 1 .. B /\ \A b \in 1 .. B : Len(ins[2][b]) = h
    /\ ThreeGates(ins[5], h) /\ ThreeGates(ins[6], h)

(* The extents of a buffer of rank two.                                     *)
Wide(dims, B, width) == dims[1] = B /\ dims[2] = width

(* The GRU cell: slicing before the biases are added, or after.             *)
LEMMA GruAgrees ==
    ASSUME NEW B, NEW h, NEW ins, NEW dims, GruInputs(ins, B, h), Wide(dims, B, h)
    PROVE  GruLoop(ins, h, dims) = GruCell(ins[1], ins[2], ins[3], ins[4], ins[5], ins[6])
<1> DEFINE X == Projection(ins[1], ins[3], 3 * h)
           Y == Projection(ins[2], ins[4], 3 * h)
           ofX(b, d, g) == Add(Gate(X[b], g, h)[d], Gate(ins[5], g, h)[d])
           ofH(b, d, g) == Add(Gate(Y[b], g, h)[d], Gate(ins[6], g, h)[d])
           gi(b, d, g) == Linear(ins[1], ins[3], ins[5], b, g * h + d)
           gh(b, d, g) == Linear(ins[2], ins[4], ins[6], b, g * h + d)
           next(b, d, x0, x1, x2, h0, h1, h2) ==
             LET r == Sigmoid(Add(x0, h0))
                 z == Sigmoid(Add(x1, h1))
                 candidate == Tanh(Add(x2, Mul(r, h2)))
             IN  Add(Mul(Sub(1, z), candidate), Mul(z, ins[2][b][d]))
<1>0. /\ B \in Nat /\ h \in Nat /\ Len(ins[1]) = B /\ Len(ins[2]) = B
      /\ DOMAIN ins[2] = 1 .. B /\ \A b \in 1 .. B : Len(ins[2][b]) = h
      /\ ThreeGates(ins[5], h) /\ ThreeGates(ins[6], h)
      /\ dims[1] = B /\ dims[2] = h
  BY DEF GruInputs, Wide
<1>1. ASSUME NEW b \in 1 .. B, NEW d \in 1 .. h, NEW g \in 0 .. 2
      PROVE  ofX(b, d, g) = gi(b, d, g) /\ ofH(b, d, g) = gh(b, d, g)
  <2>0. PICK w, j : w = 3 * h /\ j = g * h + d /\ At(j, g, h, d, w)
    BY DEF At
  <2>3. gi(b, d, g) = Linear(ins[1], ins[3], ins[5], b, j)
        /\ gh(b, d, g) = Linear(ins[2], ins[4], ins[6], b, j)
    BY <2>0
  <2>1. ofX(b, d, g) = Add(Gate(Projection(ins[1], ins[3], w)[b], g, h)[d], Gate(ins[5], g, h)[d])
    BY <2>0
  <2>2. ofH(b, d, g) = Add(Gate(Projection(ins[2], ins[4], w)[b], g, h)[d], Gate(ins[6], g, h)[d])
    BY <2>0
  <2>4. /\ Inside(ins[1], b, g, h, d, w, j) /\ Inside(ins[2], b, g, h, d, w, j)
        /\ ThreeGates(ins[5], h) /\ ThreeGates(ins[6], h)
    BY <1>0, <2>0 DEF Inside
  <2>5. /\ Add(Gate(Projection(ins[1], ins[3], w)[b], g, h)[d], Gate(ins[5], g, h)[d])
             = Linear(ins[1], ins[3], ins[5], b, j)
        /\ Add(Gate(Projection(ins[2], ins[4], w)[b], g, h)[d], Gate(ins[6], g, h)[d])
             = Linear(ins[2], ins[4], ins[6], b, j)
    BY ONLY <2>4, GateIsLinear
  <2> HIDE DEF X, Y, ofX, ofH, gi, gh
  <2> QED BY ONLY <2>1, <2>2, <2>3, <2>5
<1>2. GruLoop(ins, h, dims)
        = [b \in 1 .. B |-> [d \in 1 .. h |->
             next(b, d, ofX(b, d, 0), ofX(b, d, 1), ofX(b, d, 2),
                  ofH(b, d, 0), ofH(b, d, 1), ofH(b, d, 2))]]
  <2> HIDE DEF X, Y
  <2> QED BY <1>0 DEF GruLoop, Fill, LoweredSigmoid, Sigmoid, X, Y
<1>3. GruCell(ins[1], ins[2], ins[3], ins[4], ins[5], ins[6])
        = [b \in 1 .. B |-> [d \in 1 .. h |->
             next(b, d, gi(b, d, 0), gi(b, d, 1), gi(b, d, 2),
                  gh(b, d, 0), gh(b, d, 1), gh(b, d, 2))]]
  BY <1>0 DEF GruCell
<1> HIDE DEF ofX, ofH, gi, gh, next
<1>4. \A b \in 1 .. B, d \in 1 .. h :
        next(b, d, ofX(b, d, 0), ofX(b, d, 1), ofX(b, d, 2),
             ofH(b, d, 0), ofH(b, d, 1), ofH(b, d, 2))
          = next(b, d, gi(b, d, 0), gi(b, d, 1), gi(b, d, 2),
                 gh(b, d, 0), gh(b, d, 1), gh(b, d, 2))
  BY <1>1
<1> QED BY <1>2, <1>3, <1>4

-----------------------------------------------------------------------------
(* The softmax and what follows from it *)

(* A row of logits, from which a softmax over four columns is taken.         *)
Logits(t, b) == NumberRow(t, b, 4)

(* The functions applied element by element return numbers.                 *)
LEMMA ExpNumber == ASSUME NEW x \in Int PROVE Exp(x) \in Numbers
<1>1. x * x * x + 2 * x + 5 \in Int
  OBVIOUS
<1>2. PICK y \in Int : y = x * x * x + 2 * x + 5
  BY <1>1
<1> QED BY <1>2, NumIs DEF Exp

LEMMA SigmoidNumber == ASSUME NEW x \in Int PROVE Sigmoid(x) \in Numbers
<1>1. Num(-x) \in Int
  BY NumIs, NumFixed
<1>2. Exp(Num(-x)) \in Int
  BY <1>1, ExpNumber, NumFixed
<1>3. Add(1, Exp(Num(-x))) \in Int
  BY <1>2, AddIsNumber, NumFixed
<1> QED BY <1>3, DivIsNumber DEF Sigmoid

(* One row of the softmax, and that its entries are numbers.                *)
LEMMA SoftmaxRow ==
    ASSUME NEW t, NEW b, Logits(t, b)
    PROVE  LET e == [k \in 1 .. 4 |-> Exp(Sub(t[b][k], RowMax(t, b)))]
           IN  /\ Softmax(t[b]) = [k \in 1 .. 4 |-> Div(e[k], FoldLeft(Add, 0, e))]
               /\ \A k \in 1 .. 4 : Div(e[k], FoldLeft(Add, 0, e)) \in Numbers
<1> DEFINE e == [k \in 1 .. 4 |-> Exp(Sub(t[b][k], RowMax(t, b)))]
<1>1. RowMax(t, b) = Max({t[b][i] : i \in DOMAIN t[b]}) /\ RowMax(t, b) \in Numbers
  BY RowMaxIs DEF Logits
<1>2. DOMAIN t[b] = 1 .. 4 /\ \A k \in 1 .. 4 : t[b][k] \in Numbers
  BY DEF Logits, NumberRow
<1>3. \A k \in 1 .. 4 : Exp(Sub(t[b][k], RowMax(t, b))) \in Int
  BY <1>1, <1>2, SubIsNumber, ExpNumber, NumFixed
<1>4. e \in [1 .. 4 -> Int]
  BY <1>3
<1>5. FoldLeft(Add, 0, e) = SumOf(e)
  <2> HIDE DEF e
  <2> QED BY <1>4, FoldAdds
<1>6. Softmax(t[b]) = [k \in 1 .. 4 |-> Div(e[k], SumOf(e))]
  BY <1>1, <1>2 DEF Softmax
<1>7. SumOf(e) \in Int
  <2> HIDE DEF e
  <2>1. DOMAIN e = 1 .. 4
    BY <1>4
  <2>3. IsFiniteSet(1 .. 4)
    <3>1. 1 \in Int /\ 4 \in Int
      OBVIOUS
    <3> QED BY <3>1, FS_Interval, Zenon
  <2>2. e \in [DOMAIN e -> Int]
    BY <1>4
  <2> QED BY <2>1, <2>2, <2>3, SumIsNumber, NumFixed
<1>8. \A k \in 1 .. 4 : Div(e[k], SumOf(e)) \in Numbers
  <2> HIDE DEF e
  <2> QED BY <1>4, <1>7, DivIsNumber
<1> HIDE DEF e
<1>9. /\ Softmax(t[b]) = [k \in 1 .. 4 |-> Div(e[k], FoldLeft(Add, 0, e))]
      /\ \A k \in 1 .. 4 : Div(e[k], FoldLeft(Add, 0, e)) \in Numbers
  BY <1>5, <1>6, <1>8
<1> QED BY <1>9 DEF e

(* Products may be regrouped and turned round.                              *)
LEMMA MulRegroups ==
    ASSUME NEW x \in Int, NEW y \in Int, NEW z \in Int
    PROVE  /\ Mul(Mul(x, y), z) = Mul(x, Mul(y, z))
           /\ Mul(x, y) = Mul(y, x)
<1>1. x * y \in Int /\ y * z \in Int /\ (x * y) * z = x * (y * z) /\ x * y = y * x
  OBVIOUS
<1>2. Num(Num(x * y) * z) = Num((x * y) * z) /\ Num(x * Num(y * z)) = Num(x * (y * z))
  BY <1>1, NumAbsorbs
<1> QED BY <1>1, <1>2 DEF Mul

(* The operands of gm_parameterize, for B rows.                             *)
GmInputs(ins, B) ==
    /\ B \in Nat /\ DOMAIN ins[1] = 1 .. B
    /\ \A b \in 1 .. B : /\ NumberRow(ins[1], b, 4)
                         /\ ins[2][b][1] \in Numbers /\ ins[5][b][1] \in Numbers

(* Its attributes a, which are those of the reference call r.               *)
GmAttrs(a, r) ==
    /\ a.tau_min \in Int /\ a.tau_max \in Int /\ a.alpha_base \in Int
    /\ \A f \in Fields("gm_parameterize") : a[f] = r[f]

(* The same, attribute by attribute.                                        *)
LEMMA GmAttrsAre ==
    ASSUME NEW a, NEW r, GmAttrs(a, r)
    PROVE  /\ a.tau_min \in Int /\ a.tau_max \in Int /\ a.alpha_base \in Int
           /\ a.tau_min = r.tau_min /\ a.tau_max = r.tau_max /\ a.alpha_base = r.alpha_base
           /\ a.c_min = r.c_min /\ a.c_max = r.c_max
           /\ a.logvar_min = r.logvar_min /\ a.logvar_max = r.logvar_max
<1>1. {"c_min", "c_max", "tau_min", "tau_max", "alpha_base", "logvar_min", "logvar_max"}
        \subseteq Fields("gm_parameterize")
  <2> DEFINE sig == Signature("gm_parameterize")
  <2>1. sig = <<"c_min", "c_max", "tau_min", "tau_max", "alpha_base", "logvar_min", "logvar_max">>
    BY DEF Signature
  <2>2. Fields("gm_parameterize") = {sig[i] : i \in DOMAIN sig}
    BY DEF Fields, ToSet
  <2> HIDE DEF sig
  <2>3. DOMAIN sig = 1 .. 7
    BY <2>1
  <2>4. \A i \in 1 .. 7 : sig[i] \in Fields("gm_parameterize")
    BY <2>2, <2>3
  <2> QED BY <2>1, <2>4
<1> QED BY <1>1 DEF GmAttrs

(* The nine results of gm_parameterize: the loops fold each row for its maximum *)
(* and its sums, multiply in another order and materialise every intermediate. *)
LEMMA GmAgrees ==
    ASSUME NEW ins, NEW B, NEW a, NEW r, NEW piDims, NEW oneDims, NEW cDims,
           GmInputs(ins, B), GmAttrs(a, r),
           Wide(piDims, B, 4), Wide(oneDims, B, 1), Wide(cDims, B, 2)
    PROVE  GmLoops(ins, piDims, oneDims, cDims, a)
             = GmParameterize(ins[1], ins[2], ins[3], ins[4], ins[5], r)
<1> DEFINE
      expLogits == [b \in 1 .. piDims[1] |-> [c \in 1 .. piDims[2] |->
                      Exp(Sub(ins[1][b][c], RowMax(ins[1], b)))]]
      pi == [b \in 1 .. piDims[1] |-> [c \in 1 .. piDims[2] |->
                      Div(expLogits[b][c], RowSum(expLogits, b))]]
      tau == [b \in 1 .. oneDims[1] |-> [c \in 1 .. oneDims[2] |->
                Add(a.tau_min, Mul(ins[5][b][c], Mul(a.tau_max, LoweredSigmoid(ins[2][b][c]))))]]
      alphaPi == [b \in 1 .. piDims[1] |-> [c \in 1 .. piDims[2] |->
                Add(a.alpha_base, Mul(pi[b][c], tau[b][1]))]]
      alpha0 == [b \in 1 .. oneDims[1] |-> [c \in 1 .. oneDims[2] |-> RowSum(alphaPi, b)]]
      denominator == Log1p(4 * a.alpha_base + a.tau_min + a.tau_max)
      sPi == [b \in 1 .. oneDims[1] |-> [c \in 1 .. oneDims[2] |->
                Smaller(Larger(Div(Log1p(alpha0[b][c]), denominator), 0), 1)]]
      between(t, low, high) == [b \in 1 .. cDims[1] |-> [c \in 1 .. cDims[2] |->
                Add(low, Mul(high - low, LoweredSigmoid(t[b][c])))]]
      cMean == between(ins[3], a.c_min, a.c_max)
      cLogvar == between(ins[4], a.logvar_min, a.logvar_max)
      cVar == [b \in 1 .. cDims[1] |-> [c \in 1 .. cDims[2] |-> Exp(cLogvar[b][c])]]
      qC == [b \in 1 .. cDims[1] |-> [c \in 1 .. cDims[2] |-> Div(1, Add(1, cVar[b][c]))]]
      rows == DOMAIN ins[1]
      denominator2 == Log1p(4 * r.alpha_base + r.tau_min + r.tau_max)
      pi2 == [b \in rows |-> Softmax(ins[1][b])]
      tau2 == [b \in rows |-> << Add(r.tau_min, Mul(Mul(ins[5][b][1], r.tau_max),
                                                    Sigmoid(ins[2][b][1]))) >>]
      alphaPi2 == [b \in rows |-> [k \in 1 .. 4 |-> Add(r.alpha_base, Mul(tau2[b][1], pi2[b][k]))]]
      alpha02 == [b \in rows |-> << SumOf(alphaPi2[b]) >>]
      sPi2 == [b \in rows |-> << Smaller(Larger(Div(Log1p(alpha02[b][1]), denominator2), 0), 1) >>]
      between2(low, high, t) ==
          [b \in rows |-> [k \in 1 .. 2 |-> Add(low, Mul(high - low, Sigmoid(t[b][k])))]]
      cMean2 == between2(r.c_min, r.c_max, ins[3])
      cLogvar2 == between2(r.logvar_min, r.logvar_max, ins[4])
      cVar2 == [b \in rows |-> [k \in 1 .. 2 |-> Exp(cLogvar2[b][k])]]
      qC2 == [b \in rows |-> [k \in 1 .. 2 |-> Div(1, Add(1, cVar2[b][k]))]]
<1>1. GmLoops(ins, piDims, oneDims, cDims, a)
        = <<pi, tau, alphaPi, alpha0, sPi, cMean, cLogvar, cVar, qC>>
  BY DEF GmLoops, Fill
<1>2. GmParameterize(ins[1], ins[2], ins[3], ins[4], ins[5], r)
        = <<pi2, tau2, alphaPi2, alpha02, sPi2, cMean2, cLogvar2, cVar2, qC2>>
  BY DEF GmParameterize
<1>3. /\ B \in Nat /\ rows = 1 .. B
      /\ piDims[1] = B /\ piDims[2] = 4 /\ oneDims[1] = B /\ oneDims[2] = 1
      /\ cDims[1] = B /\ cDims[2] = 2
  BY DEF GmInputs, Wide
<1>4. \A x : LoweredSigmoid(x) = Sigmoid(x)
  BY DEF LoweredSigmoid, Sigmoid
<1>0. /\ a.tau_min \in Int /\ a.tau_max \in Int /\ a.alpha_base \in Int
      /\ a.tau_min = r.tau_min /\ a.tau_max = r.tau_max /\ a.alpha_base = r.alpha_base
      /\ a.c_min = r.c_min /\ a.c_max = r.c_max
      /\ a.logvar_min = r.logvar_min /\ a.logvar_max = r.logvar_max
  BY GmAttrsAre
<1>5. cMean = cMean2 /\ cLogvar = cLogvar2
  BY <1>0, <1>3, <1>4
<1>18. denominator2 = denominator
  BY <1>0
<1>6. cVar = cVar2
  <2> HIDE DEF cLogvar, cLogvar2
  <2> QED BY <1>3, <1>5
<1>7. qC = qC2
  <2> HIDE DEF cVar, cVar2
  <2> QED BY <1>3, <1>6
<1> DEFINE row(b) == [k \in 1 .. 4 |-> Exp(Sub(ins[1][b][k], RowMax(ins[1], b)))]
<1>8. \A b \in 1 .. B : expLogits[b] = row(b)
  BY <1>3
<1>9. ASSUME NEW b \in 1 .. B
      PROVE  pi[b] = pi2[b] /\ \A k \in 1 .. 4 : pi[b][k] \in Numbers
  <2>1. Logits(ins[1], b)
    BY DEF GmInputs, Logits
  <2>2. /\ Softmax(ins[1][b]) = [k \in 1 .. 4 |-> Div(row(b)[k], FoldLeft(Add, 0, row(b)))]
        /\ \A k \in 1 .. 4 : Div(row(b)[k], FoldLeft(Add, 0, row(b))) \in Numbers
    BY <2>1, SoftmaxRow
  <2>3. expLogits[b] = row(b)
    BY <1>8
  <2> HIDE DEF row, expLogits
  <2>4. RowSum(expLogits, b) = FoldLeft(Add, 0, row(b))
    BY <2>3 DEF RowSum
  <2>5. pi[b] = [k \in 1 .. 4 |-> Div(expLogits[b][k], RowSum(expLogits, b))]
    BY <1>3
  <2>6. pi[b] = [k \in 1 .. 4 |-> Div(row(b)[k], FoldLeft(Add, 0, row(b)))]
    BY <2>3, <2>4, <2>5
  <2>7. pi2[b] = Softmax(ins[1][b])
    BY <1>3
  <2>8. \A k \in 1 .. 4 : pi[b][k] = Div(row(b)[k], FoldLeft(Add, 0, row(b)))
    <3> HIDE DEF pi
    <3> QED BY <2>6
  <2> HIDE DEF pi, pi2
  <2> QED BY <2>2, <2>6, <2>7, <2>8
<1> HIDE DEF expLogits, row
<1>10. pi = pi2
  <2>1. pi = [b \in 1 .. B |-> pi[b]]
    BY <1>3
  <2>2. pi2 = [b \in 1 .. B |-> pi2[b]]
    BY <1>3
  <2> HIDE DEF pi, pi2
  <2> QED BY <1>9, <2>1, <2>2
<1>11. ASSUME NEW b \in 1 .. B
       PROVE  tau[b] = tau2[b] /\ tau[b][1] \in Int
  <2> DEFINE s == Sigmoid(ins[2][b][1])
             q == ins[5][b][1]
  <2>1. s \in Int /\ q \in Int /\ a.tau_max \in Int /\ a.tau_min \in Int
    BY <1>0, SigmoidNumber, NumFixed DEF GmInputs
  <2>2. Mul(q, Mul(a.tau_max, s)) = Mul(Mul(q, a.tau_max), s) /\ Mul(q, Mul(a.tau_max, s)) \in Int
    <3> HIDE DEF s, q
    <3>1. Mul(a.tau_max, s) \in Int
      <4>1. Mul(a.tau_max, s) \in Numbers
        BY <2>1, MulIsNumber
      <4> QED BY <4>1, NumFixed
    <3>2. Mul(q, Mul(a.tau_max, s)) = Mul(Mul(q, a.tau_max), s)
      BY <2>1, MulRegroups
    <3>3. Mul(q, Mul(a.tau_max, s)) \in Numbers
      BY <2>1, <3>1, MulIsNumber
    <3> QED BY <3>2, <3>3, NumFixed
  <2>3. Add(a.tau_min, Mul(q, Mul(a.tau_max, s))) \in Int
    BY <2>1, <2>2, AddIsNumber, NumFixed
  <2> DEFINE cell(c) == Add(a.tau_min, Mul(ins[5][b][c], Mul(a.tau_max, Sigmoid(ins[2][b][c]))))
  <2>4. tau[b] = [c \in 1 .. 1 |-> cell(c)]
    BY <1>3, <1>4
  <2>8. cell(1) = Add(a.tau_min, Mul(q, Mul(a.tau_max, s)))
    OBVIOUS
  <2> HIDE DEF cell
  <2>5. tau[b] = <<cell(1)>>
    <3> HIDE DEF tau
    <3> QED BY <2>4
  <2>6. tau2[b] = <<Add(a.tau_min, Mul(Mul(q, a.tau_max), s))>>
    BY <1>0, <1>3
  <2> HIDE DEF tau, tau2, s, q
  <2> QED BY <2>2, <2>3, <2>5, <2>6, <2>8
<1>12. tau = tau2
  <2>1. tau = [b \in 1 .. B |-> tau[b]] /\ tau2 = [b \in 1 .. B |-> tau2[b]]
    BY <1>3
  <2> HIDE DEF tau, tau2
  <2> QED BY <1>11, <2>1
<1> HIDE DEF pi, pi2, tau, tau2
<1>13. ASSUME NEW b \in 1 .. B
       PROVE  alphaPi[b] = alphaPi2[b] /\ alphaPi[b] \in [1 .. 4 -> Int]
  <2>1. \A k \in 1 .. 4 : Mul(pi[b][k], tau[b][1]) = Mul(tau[b][1], pi[b][k])
                           /\ Mul(pi[b][k], tau[b][1]) \in Int
    <3>1. \A k \in 1 .. 4 : pi[b][k] \in Int
      BY <1>9, NumFixed
    <3> QED BY <3>1, <1>11, MulRegroups, MulIsNumber, NumFixed
  <2>2. \A k \in 1 .. 4 : Add(a.alpha_base, Mul(pi[b][k], tau[b][1])) \in Int
    BY <1>0, <2>1, AddIsNumber, NumFixed
  <2>3. alphaPi[b] = [k \in 1 .. 4 |-> Add(a.alpha_base, Mul(pi[b][k], tau[b][1]))]
    BY <1>3
  <2>4. alphaPi2[b] = [k \in 1 .. 4 |-> Add(a.alpha_base, Mul(tau[b][1], pi[b][k]))]
    BY <1>0, <1>3, <1>10, <1>12
  <2> HIDE DEF alphaPi, alphaPi2
  <2> QED BY <2>1, <2>2, <2>3, <2>4
<1>14. alphaPi = alphaPi2
  <2>1. alphaPi = [b \in 1 .. B |-> alphaPi[b]] /\ alphaPi2 = [b \in 1 .. B |-> alphaPi2[b]]
    BY <1>3
  <2> HIDE DEF alphaPi, alphaPi2
  <2> QED BY <1>13, <2>1
<1> HIDE DEF alphaPi, alphaPi2
<1>15. ASSUME NEW b \in 1 .. B
       PROVE  alpha0[b] = alpha02[b]
  <2>1. RowSum(alphaPi, b) = SumOf(alphaPi[b])
    BY <1>13, FoldAdds DEF RowSum
  <2>2. alpha0[b] = [c \in 1 .. 1 |-> RowSum(alphaPi, b)]
    BY <1>3
  <2>3. alpha02[b] = <<SumOf(alphaPi[b])>>
    BY <1>3, <1>14
  <2> HIDE DEF alpha0, alpha02
  <2> QED BY <2>1, <2>2, <2>3
<1>16. alpha0 = alpha02
  <2>1. alpha0 = [b \in 1 .. B |-> alpha0[b]] /\ alpha02 = [b \in 1 .. B |-> alpha02[b]]
    BY <1>3
  <2> HIDE DEF alpha0, alpha02
  <2> QED BY <1>15, <2>1
<1> HIDE DEF alpha0, alpha02, denominator, denominator2
<1>17. sPi = sPi2
  <2>1. ASSUME NEW b \in 1 .. B PROVE sPi[b] = sPi2[b]
    <3>1. sPi[b] = [c \in 1 .. 1 |-> Smaller(Larger(Div(Log1p(alpha0[b][c]), denominator), 0), 1)]
      BY <1>3
    <3>2. sPi2[b] = <<Smaller(Larger(Div(Log1p(alpha0[b][1]), denominator), 0), 1)>>
      BY <1>3, <1>16, <1>18
    <3> HIDE DEF sPi, sPi2
    <3> QED BY <3>1, <3>2
  <2>2. sPi = [b \in 1 .. B |-> sPi[b]] /\ sPi2 = [b \in 1 .. B |-> sPi2[b]]
    BY <1>3
  <2> HIDE DEF sPi, sPi2
  <2> QED BY <2>1, <2>2
<1> HIDE DEF sPi, sPi2, cMean, cMean2, cLogvar, cLogvar2, cVar, cVar2, qC, qC2
<1> QED BY <1>1, <1>2, <1>5, <1>6, <1>7, <1>10, <1>12, <1>14, <1>16, <1>17

-----------------------------------------------------------------------------
(* The reductions, whole *)

(* A tensor of B by N by C numbers and a mask of B by N, N at least one. *)
MaskedInputs(input, mask, B, N, C) ==
    /\ B \in Nat /\ N \in Nat \ {0} /\ C \in Nat /\ DOMAIN input = 1 .. B
    /\ \A b \in 1 .. B :
          /\ DOMAIN mask[b] = 1 .. N /\ Len(mask[b]) = N /\ DOMAIN input[b][1] = 1 .. C
          /\ \A n \in 1 .. N : mask[b][n] \in BOOLEAN
          /\ \A n \in 1 .. N, c \in 1 .. C : input[b][n][c] \in Numbers

(* The value of an invalid point is no better than any number of the tensor. *)
EmptyBeaten(name, input, B, N, C, empty) ==
    /\ empty \in Int
    /\ \A b \in 1 .. B, n \in 1 .. N, c \in 1 .. C :
          Beats(name = "masked_max", input[b][n][c], empty)

(* The eager reduction of a name.                                           *)
EagerReduction(name, input, mask, empty) ==
    CASE name = "masked_mean" -> MaskedMean(input, mask)
      [] name = "masked_variance" -> MaskedVariance(input, mask)
      [] name = "masked_max" -> MaskedMax(input, mask, empty)
      [] name = "masked_min" -> MaskedMin(input, mask, empty)

(* The four reductions, every cell of them.                                 *)
LEMMA ReductionsAgree ==
    ASSUME NEW name \in Reductions, NEW input, NEW mask, NEW B, NEW N, NEW C, NEW dims, NEW a,
           MaskedInputs(input, mask, B, N, C), Wide(dims, B, C),
           name \in {"masked_max", "masked_min"} =>
               EmptyBeaten(name, input, B, N, C, a.empty_value)
    PROVE  ReductionLoop(name, input, mask, dims, a)
             = EagerReduction(name, input, mask, a.empty_value)
<1>1. name \in {"masked_mean", "masked_variance", "masked_max", "masked_min"}
  BY DEF Reductions
<1>2. dims[1] = B /\ dims[2] = C /\ DOMAIN input = 1 .. B
      /\ \A b \in 1 .. B : DOMAIN input[b][1] = 1 .. C
  BY DEF Wide, MaskedInputs
<1>3. ASSUME NEW b \in 1 .. B, NEW c \in 1 .. C
      PROVE  /\ IsFiniteSet(DOMAIN mask[b])
             /\ \A n \in DOMAIN mask[b] : mask[b][n] \in BOOLEAN /\ input[b][n][c] \in Numbers
  <2>1. N \in Nat /\ DOMAIN mask[b] = 1 .. N
    BY DEF MaskedInputs
  <2>2. IsFiniteSet(1 .. N)
    BY <2>1, FS_Interval
  <2> QED BY <2>1, <2>2 DEF MaskedInputs
<1>4. CASE name = "masked_mean"
  <2>1. ReductionLoop(name, input, mask, dims, a)
          = [b \in 1 .. B |-> [c \in 1 .. C |-> LoweredMean(input, mask, b, c)]]
    BY <1>2, <1>4 DEF ReductionLoop, Fill
  <2>2. MaskedMean(input, mask) = [b \in 1 .. B |-> [c \in 1 .. C |-> MeanOf(input, mask, b, c)]]
    BY <1>2 DEF MaskedMean, Masked
  <2>3. \A b \in 1 .. B, c \in 1 .. C : LoweredMean(input, mask, b, c) = MeanOf(input, mask, b, c)
    BY <1>3, MeansAgree
  <2> QED BY <1>4, <2>1, <2>2, <2>3 DEF EagerReduction
<1>5. CASE name = "masked_variance"
  <2>1. ReductionLoop(name, input, mask, dims, a)
          = [b \in 1 .. B |-> [c \in 1 .. C |-> LoweredVariance(input, mask, b, c)]]
    BY <1>2, <1>5 DEF ReductionLoop, Fill
  <2>2. MaskedVariance(input, mask)
          = [b \in 1 .. B |-> [c \in 1 .. C |-> VarianceOf(input, mask, b, c)]]
    BY <1>2 DEF MaskedVariance, Masked
  <2>3. \A b \in 1 .. B, c \in 1 .. C :
          LoweredVariance(input, mask, b, c) = VarianceOf(input, mask, b, c)
    BY <1>3, VariancesAgree
  <2> QED BY <1>5, <2>1, <2>2, <2>3 DEF EagerReduction
<1>6. CASE name \in {"masked_max", "masked_min"}
  <2> DEFINE empty == a.empty_value
             extremum(b, c) == IF name = "masked_max" THEN Max(Column(input, mask, empty, b, c))
                                                      ELSE Min(Column(input, mask, empty, b, c))
  <2>1. ReductionLoop(name, input, mask, dims, a)
          = [b \in 1 .. B |-> [c \in 1 .. C |-> LoweredExtremum(name, input, mask, empty, b, c)]]
    BY <1>2, <1>6 DEF ReductionLoop, Fill
  <2>2. /\ MaskedMax(input, mask, empty)
             = [b \in 1 .. B |-> [c \in 1 .. C |-> Max(Column(input, mask, empty, b, c))]]
        /\ MaskedMin(input, mask, empty)
             = [b \in 1 .. B |-> [c \in 1 .. C |-> Min(Column(input, mask, empty, b, c))]]
    BY <1>2 DEF MaskedMax, MaskedMin, Masked
  <2>3. ASSUME NEW b \in 1 .. B, NEW c \in 1 .. C
        PROVE  LoweredExtremum(name, input, mask, empty, b, c) = extremum(b, c)
    <3>1. /\ N \in Nat \ {0} /\ empty \in Int
          /\ DOMAIN mask[b] = 1 .. N /\ Len(mask[b]) = N
      BY <1>6 DEF MaskedInputs, EmptyBeaten
    <3>2. \A k \in 1 .. N : mask[b][k] \in BOOLEAN /\ input[b][k][c] \in Int
      BY NumFixed DEF MaskedInputs
    <3>3. \A k \in 1 .. N : Beats(name = "masked_max", input[b][k][c], empty)
      BY <1>6 DEF EmptyBeaten
    <3> HIDE DEF empty
    <3> QED BY <1>6, <3>1, <3>2, <3>3, ExtremaAgree
  <2> HIDE DEF empty
  <2>4. CASE name = "masked_max"
    <3>1. \A b \in 1 .. B, c \in 1 .. C :
            LoweredExtremum(name, input, mask, empty, b, c) = Max(Column(input, mask, empty, b, c))
      BY <2>3, <2>4
    <3> QED BY <2>1, <2>2, <2>4, <3>1 DEF empty, EagerReduction
  <2>5. CASE name = "masked_min"
    <3>1. \A b \in 1 .. B, c \in 1 .. C :
            LoweredExtremum(name, input, mask, empty, b, c) = Min(Column(input, mask, empty, b, c))
      BY <2>3, <2>5
    <3> QED BY <2>1, <2>2, <2>5, <3>1 DEF empty, EagerReduction
  <2> QED BY <1>6, <2>4, <2>5
<1> QED BY <1>1, <1>4, <1>5, <1>6

-----------------------------------------------------------------------------
(* Buffers, tensors and one operator after the other *)

(* The buffer of a result: a static extent is its own, a dynamic one is read *)
(* off the first operand or is a constant.                                   *)
Source(shape, source, extent) ==
    source \in Int /\ IF source >= 0 THEN shape[source + 1] = extent ELSE -source = extent

(* A negative source is a constant width.                                   *)
LEMMA ConstantSource ==
    ASSUME NEW shape, NEW m \in Int, NEW n \in Int, m < 0, m + n = 0
    PROVE  Source(shape, m, n)
<1>1. m \in Int /\ ~(m >= 0) /\ -m = n
  OBVIOUS
<1> QED BY <1>1 DEF Source

(* The buffer of a result has the extents the contract gives it, whether they *)
(* are declared or read at run time.                                        *)
LEMMA BufferOf ==
    ASSUME NEW t \in TensorType, NEW elem, NEW x, NEW y, HasType(<<x, y>>, elem, t),
           NEW shape, NEW src, Source(shape, src[1], x), Source(shape, src[2], y)
    PROVE  Wide(DynamicDims(shape, src, t.dims), x, y)
<1>1. Len(t.dims) = 2 /\ t.dims[1] \in {Dyn, x} /\ t.dims[2] \in {Dyn, y}
  BY MatrixOf DEF RankedAs
<1>2. DOMAIN t.dims = 1 .. 2
  BY <1>1 DEF TensorType
<1> QED BY <1>1, <1>2 DEF DynamicDims, Wide, Source

(* The same for a result of rank three.                                     *)
LEMMA CubeBufferOf ==
    ASSUME NEW t \in TensorType, NEW elem, NEW x, NEW y, NEW z, HasType(<<x, y, z>>, elem, t),
           NEW shape, NEW src,
           Source(shape, src[1], x), Source(shape, src[2], y), Source(shape, src[3], z)
    PROVE  LET dims == DynamicDims(shape, src, t.dims)
           IN  dims[1] = x /\ dims[2] = y /\ dims[3] = z
<1>1. Len(t.dims) = 3 /\ t.dims[1] \in {Dyn, x} /\ t.dims[2] \in {Dyn, y} /\ t.dims[3] \in {Dyn, z}
  BY CubeOf DEF RankedAs
<1>2. DOMAIN t.dims = 1 .. 3
  BY <1>1 DEF TensorType
<1> QED BY <1>1, <1>2 DEF DynamicDims, Source

(* The tensors and results of an operation fit the contract at sizes s.      *)
TensorsFit(name, s, ins) ==
    \A i \in DOMAIN Contract(name, s).ins :
        ins[i] \in TensorsOf(Contract(name, s).ins[i], Cells(InElems(name)[i]))

(* The results, and the sizes themselves.                                   *)
ResultsFit(name, s, outs) ==
    outs \in Seq(TensorType) /\ Describes(outs, Contract(name, s).outs, OutElems(name))

SizesAre(s) == s \in [B : Nat, N : Nat, C : Nat, I : Nat, H : Nat]

(* The type of one result.                                                  *)
LEMMA ResultType ==
    ASSUME NEW name, NEW s, NEW outs, ResultsFit(name, s, outs),
           NEW i \in DOMAIN Contract(name, s).outs, DOMAIN Contract(name, s).outs = 1 .. SpecOf(name)[3],
           Len(Contract(name, s).outs) = SpecOf(name)[3]
    PROVE  outs[i] \in TensorType /\ HasType(Contract(name, s).outs[i], "f32", outs[i])
<1> DEFINE given == Contract(name, s).outs
<1>1. /\ outs \in Seq(TensorType) /\ Len(outs) = SpecOf(name)[3]
      /\ HasType(given[i], OutElems(name)[i], outs[i])
  BY DEF ResultsFit, Describes
<1>2. i \in 1 .. SpecOf(name)[3]
  OBVIOUS
<1>3. OutElems(name)[i] = "f32"
  BY <1>2 DEF OutElems
<1>4. outs[i] \in TensorType
  BY <1>1, <1>2
<1> QED BY <1>1, <1>3, <1>4

(* point_features: the loop on the call's tensors is the eager operator.    *)
LEMMA PointLowered ==
    ASSUME NEW s, SizesAre(s), NEW ins, NEW outs, NEW a, NEW r,
           TensorsFit("point_features", s, ins), ResultsFit("point_features", s, outs),
           a.radius_epsilon = r.radius_epsilon, a.theta_epsilon = r.theta_epsilon
    PROVE  Loops("point_features", ins, Contract("point_features", s).ins, outs, a)
             = Eager("point_features", ins, r)
<1> DEFINE shape == Contract("point_features", s).ins
           dims == DynamicDims(shape[1], <<0, 1, -9>>, outs[1].dims)
<1>1. /\ shape = <<<<s.B, s.N, 2>>, <<s.B, s.N>>>>
      /\ Contract("point_features", s).outs = <<<<s.B, s.N, 9>>>>
  <2>1. Contract("point_features", s)
          = [ins |-> <<<<s.B, s.N, 2>>, <<s.B, s.N>>>>, outs |-> <<<<s.B, s.N, 9>>>>]
    BY DEF Contract, Reductions
  <2> QED BY <2>1
<1>2. outs[1] \in TensorType /\ HasType(<<s.B, s.N, 9>>, "f32", outs[1])
  <2>1. SpecOf("point_features")[3] = 1
    BY DEF SpecOf
  <2> QED BY <1>1, <2>1, ResultType
<1>3. dims[1] = s.B /\ dims[2] = s.N /\ dims[3] = 9
  <2> DEFINE src == <<0, 1, -9>>
  <2>1. shape[1] = <<s.B, s.N, 2>>
    BY <1>1
  <2>2. Source(shape[1], src[1], s.B) /\ Source(shape[1], src[2], s.N) /\ Source(shape[1], src[3], 9)
    <3> HIDE DEF shape
    <3>1. Source(shape[1], 0, s.B) /\ Source(shape[1], 1, s.N)
      BY <2>1 DEF Source
    <3>2. Source(shape[1], -9, 9)
      BY ConstantSource
    <3> QED BY <3>1, <3>2
  <2> HIDE DEF shape, src
  <2>3. LET ds == DynamicDims(shape[1], src, outs[1].dims)
        IN  ds[1] = s.B /\ ds[2] = s.N /\ ds[3] = 9
    BY <1>2, <2>2, CubeBufferOf
  <2> QED BY <2>3 DEF src
<1>4. /\ DOMAIN ins[1] = 1 .. s.B
      /\ \A b \in 1 .. s.B : DOMAIN ins[1][b] = 1 .. s.N
  <2>1. ins[1] \in TensorsOf(<<s.B, s.N, 2>>, Cells(InElems("point_features")[1]))
    BY <1>1 DEF TensorsFit
  <2>2. ins[1] \in [1 .. s.B -> [1 .. s.N -> [1 .. 2 -> Cells(InElems("point_features")[1])]]]
    BY <2>1 DEF TensorsOf
  <2> QED BY <2>2
<1>5. Loops("point_features", ins, shape, outs, a) = <<PointFeatureLoop(ins[1], ins[2], dims, a)>>
  BY DEF Loops, Reductions
<1>6. Eager("point_features", ins, r)
        = <<PointFeatures(ins[1], ins[2], a.radius_epsilon, a.theta_epsilon)>>
  BY DEF Eager
<1> HIDE DEF shape, dims
<1>7. PointFeatureLoop(ins[1], ins[2], dims, a)
        = PointFeatures(ins[1], ins[2], a.radius_epsilon, a.theta_epsilon)
  BY <1>3, <1>4, PointFeaturesAgree
<1> QED BY <1>5, <1>6, <1>7 DEF shape

(* No value of the first tensor beats an invalid point's.                    *)
NeutralIn(name, input, empty) ==
    \A b \in DOMAIN input : \A n \in DOMAIN input[b] : \A c \in DOMAIN input[b][n] :
        Beats(name = "masked_max", input[b][n][c], empty)

(* What the tensors of a reduction hold, and those of the other two.        *)
LEMMA MaskedCells ==
    ASSUME NEW name \in Reductions
    PROVE  Cells(InElems(name)[1]) = Numbers /\ Cells(InElems(name)[2]) = BOOLEAN
<1>1. InElems(name) = <<"f32", "i1">>
  BY DEF InElems
<1> QED BY <1>1 DEF Cells

LEMMA FloatCells ==
    ASSUME NEW name \in {"gru_cell", "gm_parameterize"}, NEW i \in 1 .. SpecOf(name)[1]
    PROVE  Cells(InElems(name)[i]) = Numbers
<1>1. InElems(name)[i] = "f32"
  BY DEF InElems, Reductions
<1> QED BY <1>1 DEF Cells

(* The reductions, likewise.                                                *)
LEMMA ReductionLowered ==
    ASSUME NEW name \in Reductions, NEW s, SizesAre(s), s.N > 0, NEW ins, NEW outs, NEW a, NEW r,
           TensorsFit(name, s, ins), ResultsFit(name, s, outs),
           name \in {"masked_max", "masked_min"} =>
               /\ a.empty_value = r.empty_value /\ r.empty_value \in Int
               /\ NeutralIn(name, ins[1], r.empty_value)
    PROVE  Loops(name, ins, Contract(name, s).ins, outs, a) = Eager(name, ins, r)
<1> DEFINE shape == Contract(name, s).ins
           src == <<0, 2>>
           dims == DynamicDims(shape[1], src, outs[1].dims)
<1>1. /\ shape = <<<<s.B, s.N, s.C>>, <<s.B, s.N>>>>
      /\ Contract(name, s).outs = <<<<s.B, s.C>>>>
  <2>1. Contract(name, s)
          = [ins |-> <<<<s.B, s.N, s.C>>, <<s.B, s.N>>>>, outs |-> <<<<s.B, s.C>>>>]
    BY DEF Contract, Reductions
  <2> QED BY <2>1
<1>2. outs[1] \in TensorType /\ HasType(<<s.B, s.C>>, "f32", outs[1])
  <2>1. SpecOf(name)[3] = 1
    BY DEF SpecOf, Reductions
  <2> HIDE DEF shape
  <2>2. /\ DOMAIN Contract(name, s).outs = 1 .. 1 /\ Len(Contract(name, s).outs) = 1
        /\ Contract(name, s).outs[1] = <<s.B, s.C>>
    BY <1>1
  <2>4. /\ 1 \in DOMAIN Contract(name, s).outs
        /\ DOMAIN Contract(name, s).outs = 1 .. SpecOf(name)[3]
        /\ Len(Contract(name, s).outs) = SpecOf(name)[3]
    BY <2>1, <2>2
  <2>3. outs[1] \in TensorType /\ HasType(Contract(name, s).outs[1], "f32", outs[1])
    BY ONLY <2>4, ResultsFit(name, s, outs), ResultType
  <2> QED BY <2>2, <2>3
<1>3. Wide(dims, s.B, s.C)
  <2>1. shape[1] = <<s.B, s.N, s.C>>
    BY <1>1
  <2>2. Source(shape[1], src[1], s.B) /\ Source(shape[1], src[2], s.C)
    <3> HIDE DEF shape
    <3> QED BY <2>1 DEF Source
  <2> HIDE DEF shape, src
  <2> QED BY <1>2, <2>2, BufferOf
<1>4. /\ ins[1] \in [1 .. s.B -> [1 .. s.N -> [1 .. s.C -> Numbers]]]
      /\ ins[2] \in [1 .. s.B -> [1 .. s.N -> BOOLEAN]]
  <2>1. /\ ins[1] \in TensorsOf(<<s.B, s.N, s.C>>, Numbers)
        /\ ins[2] \in TensorsOf(<<s.B, s.N>>, BOOLEAN)
    BY <1>1, MaskedCells DEF TensorsFit
  <2> QED BY <2>1 DEF TensorsOf
<1>5. MaskedInputs(ins[1], ins[2], s.B, s.N, s.C)
  <2>1. s.B \in Nat /\ s.N \in Nat \ {0} /\ s.C \in Nat
    BY DEF SizesAre
  <2>2. 1 \in 1 .. s.N
    BY <2>1
  <2>3. \A b \in 1 .. s.B : ins[2][b] \in [1 .. s.N -> BOOLEAN]
    BY <1>4
  <2>4. \A b \in 1 .. s.B : DOMAIN ins[2][b] = 1 .. s.N /\ Len(ins[2][b]) = s.N
    BY <2>1, <2>3
  <2>5. /\ DOMAIN ins[1] = 1 .. s.B
        /\ \A b \in 1 .. s.B : DOMAIN ins[1][b][1] = 1 .. s.C
        /\ \A b \in 1 .. s.B, n \in 1 .. s.N, c \in 1 .. s.C : ins[1][b][n][c] \in Numbers
    <3>1. DOMAIN ins[1] = 1 .. s.B
          /\ \A b \in 1 .. s.B : ins[1][b] \in [1 .. s.N -> [1 .. s.C -> Numbers]]
      BY <1>4
    <3>2. \A b \in 1 .. s.B, n \in 1 .. s.N : ins[1][b][n] \in [1 .. s.C -> Numbers]
      BY <3>1
    <3>3. \A b \in 1 .. s.B : DOMAIN ins[1][b][1] = 1 .. s.C
      BY <2>2, <3>2
    <3> QED BY <3>1, <3>2, <3>3
  <2>6. \A b \in 1 .. s.B, n \in 1 .. s.N : ins[2][b][n] \in BOOLEAN
    BY <1>4
  <2> QED BY <2>1, <2>4, <2>5, <2>6 DEF MaskedInputs
<1>6. name \in {"masked_max", "masked_min"} =>
          EmptyBeaten(name, ins[1], s.B, s.N, s.C, a.empty_value)
  <2>1. ASSUME NEW b \in 1 .. s.B, NEW n \in 1 .. s.N, NEW c \in 1 .. s.C
        PROVE  b \in DOMAIN ins[1] /\ n \in DOMAIN ins[1][b] /\ c \in DOMAIN ins[1][b][n]
    <3>1. b \in DOMAIN ins[1] /\ ins[1][b] \in [1 .. s.N -> [1 .. s.C -> Numbers]]
      BY <1>4
    <3>2. n \in DOMAIN ins[1][b] /\ ins[1][b][n] \in [1 .. s.C -> Numbers]
      BY <3>1
    <3> QED BY <3>1, <3>2
  <2> QED BY <2>1 DEF EmptyBeaten, NeutralIn
<1>7. Loops(name, ins, shape, outs, a) = <<ReductionLoop(name, ins[1], ins[2], dims, a)>>
  <2> HIDE DEF shape
  <2> QED BY DEF Loops, Reductions
<1>8. Eager(name, ins, r) = <<EagerReduction(name, ins[1], ins[2], a.empty_value)>>
  BY DEF Eager, EagerReduction, Reductions
<1>9. ReductionLoop(name, ins[1], ins[2], dims, a)
        = EagerReduction(name, ins[1], ins[2], a.empty_value)
  <2> HIDE DEF dims
  <2> QED BY <1>3, <1>5, <1>6, ReductionsAgree
<1> HIDE DEF dims, shape
<1> QED BY <1>7, <1>8, <1>9 DEF shape

(* gm_parameterize, likewise: the batch of every result is read off the logits. *)
LEMMA GmLowered ==
    ASSUME NEW s, SizesAre(s), NEW ins, NEW outs, NEW a, NEW r,
           TensorsFit("gm_parameterize", s, ins), ResultsFit("gm_parameterize", s, outs),
           GmAttrs(a, r)
    PROVE  Loops("gm_parameterize", ins, Contract("gm_parameterize", s).ins, outs, a)
             = Eager("gm_parameterize", ins, r)
<1> DEFINE shape == Contract("gm_parameterize", s).ins
           given == Contract("gm_parameterize", s).outs
           src(w) == <<0, -w>>
           dims(w, k) == DynamicDims(shape[1], src(w), outs[k].dims)
<1>1. /\ shape = [i \in 1 .. 5 |-> <<s.B, InWidths[i]>>]
      /\ given = [i \in 1 .. 9 |-> <<s.B, OutWidths[i]>>]
  <2>1. Contract("gm_parameterize", s)
          = [ins |-> [i \in 1 .. 5 |-> <<s.B, InWidths[i]>>],
             outs |-> [i \in 1 .. 9 |-> <<s.B, OutWidths[i]>>]]
    BY DEF Contract, Reductions
  <2> QED BY <2>1
<1>2. SpecOf("gm_parameterize")[1] = 5 /\ SpecOf("gm_parameterize")[3] = 9
  BY DEF SpecOf
<1>3. \A i \in 1 .. 9 : outs[i] \in TensorType /\ HasType(<<s.B, OutWidths[i]>>, "f32", outs[i])
  <2>1. DOMAIN given = 1 .. 9 /\ Len(given) = 9 /\ \A i \in 1 .. 9 : given[i] = <<s.B, OutWidths[i]>>
    BY <1>1
  <2> HIDE DEF given
  <2>2. \A i \in DOMAIN given : outs[i] \in TensorType /\ HasType(given[i], "f32", outs[i])
    BY <1>2, <2>1, ResultType DEF given
  <2> QED BY <2>1, <2>2
<1>4. Wide(dims(4, 1), s.B, 4) /\ Wide(dims(1, 2), s.B, 1) /\ Wide(dims(2, 6), s.B, 2)
  <2>1. OutWidths[1] = 4 /\ OutWidths[2] = 1 /\ OutWidths[6] = 2
    BY DEF OutWidths
  <2>2. shape[1] = <<s.B, InWidths[1]>>
    BY <1>1
  <2> HIDE DEF shape
  <2>3. Source(shape[1], 0, s.B)
    BY <2>2 DEF Source
  <2>4. ASSUME NEW w \in {1, 2, 4} PROVE Source(shape[1], -w, w)
    BY ConstantSource
  <2>5. ASSUME NEW w \in {1, 2, 4}
        PROVE  Source(shape[1], src(w)[1], s.B) /\ Source(shape[1], src(w)[2], w)
    BY <2>3, <2>4
  <2> HIDE DEF src
  <2>6. ASSUME NEW w \in {1, 2, 4}, NEW k \in 1 .. 9, OutWidths[k] = w
        PROVE  Wide(dims(w, k), s.B, w)
    <3>1. outs[k] \in TensorType /\ HasType(<<s.B, w>>, "f32", outs[k])
      BY <1>3, <2>6
    <3> QED BY <2>5, <3>1, BufferOf
  <2> HIDE DEF dims
  <2> QED BY <2>1, <2>6
<1>5. GmInputs(ins, s.B)
  <2>1. ASSUME NEW i \in 1 .. 5
        PROVE  ins[i] \in [1 .. s.B -> [1 .. InWidths[i] -> Numbers]]
    <3>1. ins[i] \in TensorsOf(<<s.B, InWidths[i]>>, Numbers)
      <4>1. i \in DOMAIN shape /\ shape[i] = <<s.B, InWidths[i]>>
        BY <1>1
      <4> HIDE DEF shape
      <4>2. ins[i] \in TensorsOf(shape[i], Cells(InElems("gm_parameterize")[i]))
        BY <4>1 DEF TensorsFit, shape
      <4> QED BY <1>2, <4>1, <4>2, FloatCells
    <3> QED BY <3>1 DEF TensorsOf
  <2>2. InWidths[1] = 4 /\ InWidths[2] = 1 /\ InWidths[5] = 1 /\ s.B \in Nat
    BY DEF InWidths, SizesAre
  <2>3. /\ ins[1] \in [1 .. s.B -> [1 .. 4 -> Numbers]]
        /\ ins[2] \in [1 .. s.B -> [1 .. 1 -> Numbers]]
        /\ ins[5] \in [1 .. s.B -> [1 .. 1 -> Numbers]]
    <3>1. /\ ins[1] \in [1 .. s.B -> [1 .. InWidths[1] -> Numbers]]
          /\ ins[2] \in [1 .. s.B -> [1 .. InWidths[2] -> Numbers]]
          /\ ins[5] \in [1 .. s.B -> [1 .. InWidths[5] -> Numbers]]
      BY <2>1
    <3> QED BY <2>2, <3>1
  <2> QED BY <2>2, <2>3 DEF GmInputs, NumberRow
<1>6. Loops("gm_parameterize", ins, shape, outs, a)
        = GmLoops(ins, dims(4, 1), dims(1, 2), dims(2, 6), a)
  <2> HIDE DEF shape
  <2> QED BY DEF Loops, Reductions
<1>7. Eager("gm_parameterize", ins, r)
        = GmParameterize(ins[1], ins[2], ins[3], ins[4], ins[5], r)
  BY DEF Eager
<1> HIDE DEF shape, dims
<1>8. GmLoops(ins, dims(4, 1), dims(1, 2), dims(2, 6), a)
        = GmParameterize(ins[1], ins[2], ins[3], ins[4], ins[5], r)
  BY <1>4, <1>5, GmAgrees
<1> QED BY <1>6, <1>7, <1>8 DEF shape

(* gru_cell, likewise: the hidden width is read off the previous state.     *)
LEMMA GruLowered ==
    ASSUME NEW s, SizesAre(s), NEW ins, NEW outs, NEW a, NEW r,
           TensorsFit("gru_cell", s, ins), ResultsFit("gru_cell", s, outs)
    PROVE  Loops("gru_cell", ins, Contract("gru_cell", s).ins, outs, a)
             = Eager("gru_cell", ins, r)
<1> DEFINE shape == Contract("gru_cell", s).ins
           given == Contract("gru_cell", s).outs
           h == shape[2][2]
           declared == outs[1].dims
           dims == GruDims(shape[1][1], h, declared)
<1>1. /\ shape = <<<<s.B, s.I>>, <<s.B, s.H>>, <<3 * s.H, s.I>>, <<3 * s.H, s.H>>,
                   <<3 * s.H>>, <<3 * s.H>>>>
      /\ given = <<<<s.B, s.H>>>>
  <2>1. Contract("gru_cell", s)
          = [ins |-> <<<<s.B, s.I>>, <<s.B, s.H>>, <<3 * s.H, s.I>>, <<3 * s.H, s.H>>,
                       <<3 * s.H>>, <<3 * s.H>>>>, outs |-> <<<<s.B, s.H>>>>]
    BY DEF Contract, Reductions
  <2> QED BY <2>1
<1>2. SpecOf("gru_cell")[1] = 6 /\ SpecOf("gru_cell")[3] = 1
  BY DEF SpecOf
<1>3. outs[1] \in TensorType /\ HasType(<<s.B, s.H>>, "f32", outs[1])
  <2>1. DOMAIN given = 1 .. 1 /\ Len(given) = 1 /\ given[1] = <<s.B, s.H>>
    <3> HIDE DEF given
    <3> QED BY <1>1
  <2> HIDE DEF given
  <2>2. \A i \in DOMAIN given : outs[i] \in TensorType /\ HasType(given[i], "f32", outs[i])
    BY <1>2, <2>1, ResultType DEF given
  <2> QED BY <2>1, <2>2
<1>4. h = s.H /\ shape[1][1] = s.B /\ DOMAIN shape = 1 .. 6
  <2> HIDE DEF shape
  <2> QED BY <1>1
<1> HIDE DEF shape
<1>5. Wide(dims, s.B, s.H)
  <2>1. Len(declared) = 2 /\ declared[1] \in {Dyn, s.B} /\ declared[2] \in {Dyn, s.H}
    BY <1>3, MatrixOf DEF RankedAs
  <2>2. DOMAIN declared = 1 .. 2
    BY <1>3, <2>1 DEF TensorType
  <2> HIDE DEF declared, h
  <2> QED BY <1>4, <2>1, <2>2 DEF Wide, GruDims
<1>6. GruInputs(ins, s.B, s.H)
  <2>0. s.B \in Nat /\ s.H \in Nat
    BY DEF SizesAre
  <2>1. \A i \in 1 .. 6 : ins[i] \in TensorsOf(shape[i], Numbers)
    <3>1. \A i \in 1 .. 6 : ins[i] \in TensorsOf(shape[i], Cells(InElems("gru_cell")[i]))
      BY <1>4 DEF TensorsFit, shape
    <3> QED BY <1>2, <3>1, FloatCells
  <2>2. /\ ins[1] \in TensorsOf(<<s.B, s.I>>, Numbers)
        /\ ins[2] \in TensorsOf(<<s.B, s.H>>, Numbers)
        /\ ins[5] \in TensorsOf(<<3 * s.H>>, Numbers)
        /\ ins[6] \in TensorsOf(<<3 * s.H>>, Numbers)
    <3>1. /\ shape[1] = <<s.B, s.I>> /\ shape[2] = <<s.B, s.H>>
          /\ shape[5] = <<3 * s.H>> /\ shape[6] = <<3 * s.H>>
      BY <1>1
    <3>2. /\ ins[1] \in TensorsOf(shape[1], Numbers) /\ ins[2] \in TensorsOf(shape[2], Numbers)
          /\ ins[5] \in TensorsOf(shape[5], Numbers) /\ ins[6] \in TensorsOf(shape[6], Numbers)
      BY <2>1
    <3> QED BY <3>1, <3>2
  <2>3. /\ ins[1] \in [1 .. s.B -> [1 .. s.I -> Numbers]]
        /\ ins[2] \in [1 .. s.B -> [1 .. s.H -> Numbers]]
        /\ ins[5] \in [1 .. (3 * s.H) -> Numbers]
        /\ ins[6] \in [1 .. (3 * s.H) -> Numbers]
    BY <2>2 DEF TensorsOf
  <2>4. Len(ins[1]) = s.B /\ Len(ins[2]) = s.B /\ DOMAIN ins[2] = 1 .. s.B
    BY <2>0, <2>3
  <2>5. \A b \in 1 .. s.B : Len(ins[2][b]) = s.H
    <3>1. \A b \in 1 .. s.B : ins[2][b] \in [1 .. s.H -> Numbers]
      BY <2>3
    <3> QED BY <2>0, <3>1
  <2>6. ThreeGates(ins[5], s.H) /\ ThreeGates(ins[6], s.H)
    <3>1. PICK w \in Nat : w = 3 * s.H
      BY <2>0
    <3>2. PICK c, e : c = ins[5] /\ e = ins[6]
      OBVIOUS
    <3>3. c \in [1 .. w -> Numbers] /\ e \in [1 .. w -> Numbers]
      BY <2>3, <3>1, <3>2
    <3>4. c \in Seq(Numbers) /\ Len(c) = w /\ e \in Seq(Numbers) /\ Len(e) = w
      BY <3>3
    <3> QED BY <3>1, <3>2, <3>4 DEF ThreeGates
  <2> QED BY <2>0, <2>4, <2>5, <2>6 DEF GruInputs
<1>7. Loops("gru_cell", ins, shape, outs, a) = <<GruLoop(ins, h, dims)>>
  BY DEF Loops, Reductions
<1>8. Eager("gru_cell", ins, r)
        = <<GruCell(ins[1], ins[2], ins[3], ins[4], ins[5], ins[6])>>
  BY DEF Eager, Reductions
<1> HIDE DEF dims, h
<1>9. GruLoop(ins, h, dims) = GruCell(ins[1], ins[2], ins[3], ins[4], ins[5], ins[6])
  BY <1>4, <1>5, <1>6, GruAgrees
<1> QED BY <1>7, <1>8, <1>9 DEF shape

-----------------------------------------------------------------------------
(* The loops are the eager operators *)

(* What a finished run has computed. *)
Ran == status = "done" =>
    /\ op.dialect = "standard" /\ Fits(op, call.sizes)
    /\ result = Loops(op.name, call.ins, Contract(op.name, call.sizes).ins, op.outs, op.attrs)

(* A default is a number, so is every argument of a call.                   *)
LEMMA DefaultsAreNumbers ==
    ASSUME NEW name \in EotNames, NEW f \in Fields(name) PROVE Default(name)[f] \in Int
<1>1. PICK i \in DOMAIN Signature(name) : Signature(name)[i] = f
  BY FieldsOf
<1>2. CASE name = "point_features"
  BY <1>1, <1>2 DEF Signature, Default
<1>3. CASE name = "masked_max"
  BY <1>1, <1>3 DEF Signature, Default
<1>4. CASE name = "masked_min"
  BY <1>1, <1>4 DEF Signature, Default
<1>5. CASE name = "gm_parameterize"
  BY <1>1, <1>5 DEF Signature, Default
<1>6. CASE name \in {"masked_mean", "masked_variance", "gru_cell"}
  BY <1>1, <1>6 DEF Signature
<1> QED BY <1>2, <1>3, <1>4, <1>5, <1>6 DEF EotNames

LEMMA ArgumentsAreNumbers ==
    ASSUME WellFormedCall(call), NEW f \in Fields(call.name)
    PROVE  Arguments[f] \in Int
<1>0. call.name \in EotNames
  BY DEF WellFormedCall
<1>1. call.origin \in {"torch", "tosa", "eot"}
  BY DEF WellFormedCall
<1>5. PICK i \in DOMAIN Signature(call.name) : Signature(call.name)[i] = f
  BY <1>0, FieldsOf
<1>2. CASE call.origin = "torch"
  <2>1. call.scalars \in Seq(Int) /\ Len(call.scalars) = SpecOf(call.name)[2]
    BY <1>2 DEF WellFormedCall
  <2>2. Arguments[f] = call.scalars[i]
    BY <1>2, <1>5, TorchArguments
  <2>3. DOMAIN Signature(call.name) = 1 .. SpecOf(call.name)[2]
    BY <1>0, SpecFacts
  <2>4. i \in 1 .. Len(call.scalars)
    BY <2>1, <2>3
  <2> QED BY <2>1, <2>2, <2>4
<1>3. CASE call.origin = "tosa"
  <2>1. Arguments[f] = Field(call.given, f, Default(call.name)[f])
    BY <1>3 DEF Arguments
  <2>2. f \in DOMAIN call.given => call.given[f] \in Int
    BY DEF WellFormedCall
  <2>3. Default(call.name)[f] \in Int
    BY <1>0, DefaultsAreNumbers
  <2> QED BY <2>1, <2>2, <2>3 DEF Field
<1>4. CASE call.origin = "eot"
  <2>1. Arguments[f] = call.given[f]
    BY <1>4 DEF Arguments
  <2>2. f \in DOMAIN call.given
    BY <1>4 DEF WellFormedCall
  <2>3. f \in DOMAIN call.given => call.given[f] \in Int
    BY DEF WellFormedCall
  <2> QED BY <2>1, <2>2, <2>3
<1> QED BY <1>1, <1>2, <1>3, <1>4

(* The seven operators together.                                            *)
LEMMA RanAgrees ==
    ASSUME IInv, Ran
    PROVE  LowersToReference
<1> SUFFICES ASSUME status = "done", EmptyIsNeutral
             PROVE  result = Eager(call.name, call.ins, Arguments)
  BY DEF LowersToReference
<1> DEFINE name == call.name
           s == call.sizes
           ins == call.ins
           outs == op.outs
           a == op.attrs
           r == Arguments
<1>1. /\ op.name = name /\ name \in EotNames /\ outs \in Seq(TensorType)
      /\ WellFormedCall(call)
      /\ \A f \in Fields(name) : a[f] = r[f]
      /\ result = Loops(name, ins, Contract(name, s).ins, outs, a)
  BY DEF Ran, IInv, Shaped, CarriesScalars, EotDialect, WellFormedCall
<1>2. \A f \in Fields(name) : r[f] \in Int
  BY <1>1, ArgumentsAreNumbers
<1>3. /\ SizesAre(s) /\ TensorsFit(name, s, ins)
      /\ name \in Reductions => s.N > 0
  <2>1. SizesAre(s) /\ (name \in Reductions => s.N > 0)
    BY <1>1 DEF WellFormedCall, SizesAre
  <2>2. TensorsFit(name, s, ins)
    BY <1>1 DEF WellFormedCall, TensorsFit
  <2> QED BY <2>1, <2>2
<1>4. ResultsFit(name, s, outs)
  BY <1>1 DEF Ran, Fits, ResultsFit
<1>5. name \in {"masked_max", "masked_min"} => NeutralIn(name, ins[1], r.empty_value)
  BY DEF EmptyIsNeutral, NeutralIn, Beats
<1> HIDE DEF name, s, ins, outs, a, r
<1>6. CASE name = "point_features"
  <2>1. "radius_epsilon" \in Fields(name) /\ "theta_epsilon" \in Fields(name)
    BY <1>6 DEF Fields, ToSet, Signature
  <2>2. a.radius_epsilon = r.radius_epsilon /\ a.theta_epsilon = r.theta_epsilon
    BY <1>1, <2>1
  <2>3. Loops("point_features", ins, Contract("point_features", s).ins, outs, a)
          = Eager("point_features", ins, r)
    BY <1>3, <1>4, <1>6, <2>2, PointLowered
  <2> QED BY <1>1, <1>6, <2>3 DEF name, ins, r
<1>7. CASE name \in Reductions
  <2>1. name \in {"masked_max", "masked_min"} =>
          a.empty_value = r.empty_value /\ r.empty_value \in Int
    <3>1. name \in {"masked_max", "masked_min"} => "empty_value" \in Fields(name)
      BY DEF Fields, ToSet, Signature
    <3> QED BY <1>1, <1>2, <3>1
  <2>2. Loops(name, ins, Contract(name, s).ins, outs, a) = Eager(name, ins, r)
    BY <1>3, <1>4, <1>5, <1>7, <2>1, ReductionLowered
  <2> QED BY <1>1, <2>2 DEF name, ins, r
<1>8. CASE name = "gru_cell"
  <2>1. Loops("gru_cell", ins, Contract("gru_cell", s).ins, outs, a) = Eager("gru_cell", ins, r)
    BY <1>3, <1>4, <1>8, GruLowered
  <2> QED BY <1>1, <1>8, <2>1 DEF name, ins, r
<1>9. CASE name = "gm_parameterize"
  <2>1. {"tau_min", "tau_max", "alpha_base"} \subseteq Fields(name)
    BY <1>9 DEF Fields, ToSet, Signature
  <2>2. GmAttrs(a, r)
    BY <1>1, <1>2, <1>9, <2>1 DEF GmAttrs
  <2>3. Loops("gm_parameterize", ins, Contract("gm_parameterize", s).ins, outs, a)
          = Eager("gm_parameterize", ins, r)
    BY <1>3, <1>4, <1>9, <2>2, GmLowered
  <2> QED BY <1>1, <1>9, <2>3 DEF name, ins, r
<1> QED BY <1>1, <1>6, <1>7, <1>8, <1>9 DEF EotNames, Reductions

(* Only Run finishes, and it computes the loops of the operation it finds.  *)
LEMMA RanKept ==
    ASSUME IInv, Ran, [Next]_vars
    PROVE  Ran'
<1>1. CASE Run
  BY <1>1 DEF Run, Ran
<1>2. CASE FromTorch
  BY <1>2 DEF FromTorch, Ran
<1>3. CASE FromTosa
  BY <1>3 DEF FromTosa, Ran
<1>4. CASE Verify
  BY <1>4 DEF Verify, Ran
<1>5. CASE Lower
  BY <1>5 DEF Lower, Ran
<1>6. CASE UNCHANGED vars
  BY <1>6 DEF vars, Ran, Fits
<1> QED BY <1>1, <1>2, <1>3, <1>4, <1>5, <1>6 DEF Next

(* For every call that compiles, every shape, tensor and attribute, and     *)
(* every prime: what the compiled function computes is what the exported    *)
(* program computes eagerly, as long as empty_value is neutral for the data *)
(* (python/eot_export_ops.py against ConvertEotToStandard.cpp).             *)
THEOREM LoopsAreEager == Spec => []LowersToReference
<1>1. Init => Ran
  BY DEF Init, Ran
<1>2. IInv /\ Ran /\ [Next]_vars => Ran'
  BY RanKept
<1>3. IInv /\ Ran => LowersToReference
  BY RanAgrees
<1> QED BY <1>1, <1>2, <1>3, LoweringInvariance, PTL DEF Spec
=============================================================================
