---------------------------- MODULE NpuLowering ----------------------------
(* A TOSA function converted to the npu dialect, then to loops over memrefs, *)
(* then run.  The iterations of an scf.parallel run in any order; the        *)
(* reductions inside one iteration are sequential scf.for loops.  A memref   *)
(* is a buffer seen through a shape and strides, so npu.reshape is a second  *)
(* view of its operand's buffer.  Indices count from 0, as in the code.      *)
(* Elements are f32, abstracted to integers (no rounding, no overflow).      *)
EXTENDS Integers, Sequences, FiniteSets, FiniteSetsExt, SequencesExt, Functions

CONSTANTS
    Programs,    \* sets of TOSA functions, each a sequence of operations
    Undef,       \* what a cell holds before it is written
    Lowest,      \* -inf, where a maximum starts: below every element
    Taken        \* symbols the module already defines

VARIABLES
    prog,        \* the TOSA function: value i is the result of operation i
    code,        \* the function as converted so far
    phase,       \* "tosa", "npu", "running", "done" or "failed"
    at,          \* the operation being converted or executed
    globals,     \* memref.global: symbol to contents
    next,        \* nextSymbolId of the two constant patterns
    env,         \* the memrefs of the values computed so far
    mem,         \* buffers, in order of allocation
    done         \* iterations of the current scf.parallel that have run

vars == <<prog, code, phase, at, globals, next, env, mem, done>>

Tuples(shape) ==
    IF shape = << >> THEN {<< >>}
    ELSE {t \in [DOMAIN shape -> 0 .. (Max(Range(shape)) - 1)] :
            \A d \in DOMAIN shape : t[d] < shape[d]}

(* Row-major strides, as the loop of the code runs: from the last dimension, *)
(* whose stride is 1, each earlier one the next one times the next extent.   *)
RowMajor(shape) ==
    LET stride[d \in 1 .. (Len(shape) + 1)] ==
            IF d = Len(shape) + 1 THEN 1 ELSE shape[d] * stride[d + 1]
    IN  stride
Product(shape) == RowMajor(shape)[1]
Strides(shape) == [d \in DOMAIN shape |-> RowMajor(shape)[d + 1]]

Offset(m, idx) ==
    LET from[d \in 1 .. (Len(m.shape) + 1)] ==
            IF d = Len(m.shape) + 1 THEN 0 ELSE idx[d] * m.strides[d] + from[d + 1]
    IN  from[1]

View(buf, shape) == [buf |-> buf, shape |-> shape, strides |-> Strides(shape)]

(* The memref of value i with the cells of its buffer, and one of its cells. *)
Memref(i) == [buf |-> env[i].buf, shape |-> env[i].shape, strides |-> env[i].strides,
              cells |-> mem[env[i].buf]]
Load(m, idx) ==
    IF Offset(m, idx) \in DOMAIN m.cells THEN m.cells[Offset(m, idx)] ELSE Undef
Contents(m) == [idx \in Tuples(m.shape) |-> Load(m, idx)]

-----------------------------------------------------------------------------
(* What the functions given to the lowering satisfy: extents are static and  *)
(* positive, operands are earlier values, and the operations pass the        *)
(* verifiers of the tosa dialect, which relate the shapes of an operation to *)
(* its attributes: a clamp has a range, a pooling window reaches the image,  *)
(* and the bias of a convolution has an element per output channel.          *)
LoopKinds == {"conv2d", "clamp", "max_pool2d", "transpose", "matmul", "add"}
Constants == {"const", "const_shape"}
Bound == {"arg"} \union Constants
Supported == LoopKinds \union Bound \union {"reshape"}
OpFields == {"kind", "args", "shape", "attrs", "data", "symbol"}
Positive == Nat \ {0}

Verified(op, in) ==
    LET a == op.attrs
    IN  /\ op.kind \in Bound =>
              op.data \in Seq(Int) /\ Len(op.data) = Product(op.shape)
        /\ op.kind = "reshape" => Len(in) >= 1 /\ Product(op.shape) = Product(in[1])
        /\ op.kind = "clamp" =>
              /\ Len(in) = 1 /\ op.shape = in[1]
              /\ a.min \in Int /\ a.max \in Int /\ a.min <= a.max
        /\ op.kind = "transpose" =>
              /\ Len(in) = 1 /\ Len(in[1]) = Len(op.shape)
              /\ DOMAIN a.perms = DOMAIN op.shape
              /\ \A d \in DOMAIN op.shape : a.perms[d] + 1 \in DOMAIN op.shape /\ op.shape[d] = in[1][a.perms[d] + 1]
              /\ \A d \in DOMAIN op.shape : \E e \in DOMAIN op.shape : a.perms[e] + 1 = d
        /\ op.kind = "add" =>
              /\ Len(in) = 2
              /\ \A k \in 1 .. 2 : /\ Len(in[k]) = Len(op.shape)
                                   /\ \A d \in DOMAIN op.shape : in[k][d] \in {1, op.shape[d]}
        /\ op.kind = "matmul" =>
              /\ Len(in) = 2 /\ Len(op.shape) = 3 /\ Len(in[1]) = 3
              /\ in[1][1] = op.shape[1] /\ in[1][2] = op.shape[2]
              /\ in[2] = <<op.shape[1], in[1][3], op.shape[3]>>
        /\ op.kind = "max_pool2d" =>
              /\ Len(in) = 1 /\ Len(in[1]) = 4 /\ Len(op.shape) = 4
              /\ in[1][1] = op.shape[1] /\ in[1][4] = op.shape[4]
              /\ a.kernel \in [1 .. 2 -> Positive] /\ a.stride \in [1 .. 2 -> Positive]
              /\ a.pad \in [1 .. 4 -> Nat]
              /\ \A d \in 1 .. 2 :
                    /\ a.pad[2 * d - 1] < a.kernel[d] /\ a.pad[2 * d] < a.kernel[d]
                    /\ (op.shape[d + 1] - 1) * a.stride[d]
                          <= in[1][d + 1] + a.pad[2 * d - 1] + a.pad[2 * d] - a.kernel[d]
        /\ op.kind = "conv2d" =>
              /\ Len(in) = 3 /\ Len(in[1]) = 4 /\ Len(in[2]) = 4 /\ Len(op.shape) = 4
              /\ in[1][1] = op.shape[1] /\ in[2][4] = in[1][4]
              /\ in[2][1] = op.shape[4] /\ in[3] = <<op.shape[4]>>
              /\ a.stride \in [1 .. 2 -> Positive] /\ a.dilation \in [1 .. 2 -> Positive]
              /\ a.pad \in [1 .. 4 -> Nat]

WellFormed(p) ==
    /\ p \in Seq(Range(p))
    /\ \A i \in DOMAIN p :
          /\ DOMAIN p[i] = OpFields
          /\ p[i].shape \in Seq(Positive)
          /\ p[i].args \in Seq(1 .. (i - 1))
          /\ Verified(p[i], [k \in DOMAIN p[i].args |-> p[p[i].args[k]].shape])

ASSUME ProgramsAssumption == \A p \in Programs : WellFormed(p)
ASSUME TakenAssumption == IsFiniteSet(Taken)
ASSUME UndefAssumption == Undef \notin Int

-----------------------------------------------------------------------------
(* tosa to npu: attributes are passed by position to the npu builders.      *)
NpuAttrs(kind, a) ==
    CASE kind = "conv2d" -> [pad |-> a.pad, stride |-> a.stride, dilation |-> a.dilation]
      [] kind = "max_pool2d" -> [kernel |-> a.kernel, stride |-> a.stride, pad |-> a.pad]
      [] kind = "transpose" -> [perms |-> a.perms]
      [] kind = "clamp" -> [min |-> a.min, max |-> a.max]
      [] OTHER -> << >>

(* An operation without a pattern stays illegal and fails the conversion.   *)
ToNpu ==
    /\ phase = "tosa" /\ at <= Len(prog)
    /\ IF prog[at].kind \in Supported
       THEN /\ code' = Append(code, [prog[at] EXCEPT !.attrs = NpuAttrs(prog[at].kind, @)])
            /\ at' = at + 1
            /\ UNCHANGED phase
       ELSE phase' = "failed" /\ UNCHANGED <<code, at>>
    /\ UNCHANGED <<prog, globals, next, env, mem, done>>

NpuDone ==
    /\ phase = "tosa" /\ at > Len(prog)
    /\ phase' = "npu" /\ at' = 1
    /\ UNCHANGED <<prog, code, globals, next, env, mem, done>>

-----------------------------------------------------------------------------
(* npu to loops: a constant becomes a private global under a fresh symbol.  *)
FreshIdUnchecked(kind, from) == from
FreshId(kind, from) ==
    Min({k \in from .. (from + Cardinality(Taken) + Len(prog)) :
            <<kind, k>> \notin Taken \union DOMAIN globals})

ConstantToGlobal ==
    /\ phase = "npu" /\ at <= Len(code) /\ code[at].kind \in Constants
    /\ LET kind == code[at].kind
           k == FreshId(kind, next[kind])
       IN  /\ globals' = [s \in DOMAIN globals \union {<<kind, k>>} |->
                             IF s = <<kind, k>> THEN code[at].data ELSE globals[s]]
           /\ next' = [next EXCEPT ![kind] = k + 1]
           /\ code' = [code EXCEPT ![at].symbol = <<kind, k>>]
    /\ at' = at + 1
    /\ UNCHANGED <<prog, phase, env, mem, done>>

OpToLoops ==
    /\ phase = "npu" /\ at <= Len(code) /\ code[at].kind \notin Constants
    /\ at' = at + 1
    /\ UNCHANGED <<prog, code, phase, globals, next, env, mem, done>>

LoopsDone ==
    /\ phase = "npu" /\ at > Len(code)
    /\ phase' = "running" /\ at' = 1
    /\ UNCHANGED <<prog, code, globals, next, env, mem, done>>

-----------------------------------------------------------------------------
(* The loop nests: where an iteration stores, what it reads, what it stores *)
(* The operands in[1] .. in[k] of an operation are memrefs with their cells.  *)
Operands(op) == [k \in DOMAIN op.args |-> Memref(op.args[k])]

Iterations(op, in) == IF op.kind = "transpose" THEN Tuples(in[1].shape) ELSE Tuples(op.shape)

StoreAt(op, iv) ==
    IF op.kind = "transpose" THEN [d \in DOMAIN iv |-> iv[op.attrs.perms[d] + 1]] ELSE iv

(* The input row and column that kernel position <<kh, kw>> reads.          *)
InputAtPairedPads(iv, pad, stride, dilation, kh, kw) ==
    <<iv[2] * stride[1] - pad[1] + kh * dilation[1],
      iv[3] * stride[2] - pad[2] + kw * dilation[2]>>
InputAt(iv, pad, stride, dilation, kh, kw) ==
    <<iv[2] * stride[1] - pad[1] + kh * dilation[1],
      iv[3] * stride[2] - pad[3] + kw * dilation[2]>>
IsValidOneMore(p, shape) == p[1] >= 0 /\ p[1] <= shape[2] /\ p[2] >= 0 /\ p[2] < shape[3]
IsValid(p, shape) == p[1] >= 0 /\ p[1] < shape[2] /\ p[2] >= 0 /\ p[2] < shape[3]

ConvTaps(op, in) == LET w == in[2].shape IN Tuples(<<w[2], w[3], w[4]>>)
ConvInput(op, iv, t) ==
    LET p == InputAt(iv, op.attrs.pad, op.attrs.stride, op.attrs.dilation, t[1], t[2])
    IN  <<iv[1], p[1], p[2], t[3]>>
ConvValid(op, in, iv, t) ==
    LET i == ConvInput(op, iv, t) IN IsValid(<<i[2], i[3]>>, in[1].shape)
ConvWeight(iv, t) == <<iv[4], t[1], t[2], t[3]>>

ConvBody(op, in, iv) ==
    LET product(t) == IF ConvValid(op, in, iv, t)
                      THEN Load(in[1], ConvInput(op, iv, t)) * Load(in[2], ConvWeight(iv, t))
                      ELSE 0
    IN  Load(in[3], <<iv[4]>>) + SumFunction([t \in ConvTaps(op, in) |-> product(t)])

PoolInput(op, iv, t) ==
    LET p == InputAt(iv, op.attrs.pad, op.attrs.stride, <<1, 1>>, t[1], t[2])
    IN  <<iv[1], p[1], p[2], iv[4]>>
PoolValid(op, in, iv, t) ==
    LET i == PoolInput(op, iv, t) IN IsValid(<<i[2], i[3]>>, in[1].shape)
PoolBody(op, in, iv) ==
    LET cells == {Load(in[1], PoolInput(op, iv, t)) :
                    t \in {u \in Tuples(op.attrs.kernel) : PoolValid(op, in, iv, u)}}
    IN  IF cells = {} THEN Lowest ELSE Max(cells)

MatmulBody(op, in, iv) ==
    LET term(k) == Load(in[1], <<iv[1], iv[2], k>>) * Load(in[2], <<iv[1], k, iv[3]>>)
    IN  SumFunction([k \in 0 .. (in[1].shape[3] - 1) |-> term(k)])

BroadcastIndices(m, iv) == [d \in DOMAIN m.shape |-> IF m.shape[d] = 1 THEN 0 ELSE iv[d]]

ClampBody(op, in, iv) ==
    LET x == Load(in[1], iv)
        low == IF x > op.attrs.min THEN x ELSE op.attrs.min
    IN  IF low < op.attrs.max THEN low ELSE op.attrs.max

Body(op, in, iv) ==
    CASE op.kind = "conv2d" -> ConvBody(op, in, iv)
      [] op.kind = "max_pool2d" -> PoolBody(op, in, iv)
      [] op.kind = "matmul" -> MatmulBody(op, in, iv)
      [] op.kind = "transpose" -> Load(in[1], iv)
      [] op.kind = "clamp" -> ClampBody(op, in, iv)
      [] op.kind = "add" -> Load(in[1], BroadcastIndices(in[1], iv))
                              + Load(in[2], BroadcastIndices(in[2], iv))

-----------------------------------------------------------------------------
(* Running *)
Running(kinds) == phase = "running" /\ at <= Len(code) /\ code[at].kind \in kinds

(* An argument, or memref.get_global: the contents are there already.       *)
Bind ==
    /\ Running(Bound)
    /\ LET op == code[at]
           data == IF op.kind = "arg" THEN op.data ELSE globals[op.symbol]
       IN  /\ mem' = Append(mem, [i \in 0 .. (Len(data) - 1) |-> data[i + 1]])
           /\ env' = Append(env, View(Len(mem) + 1, op.shape))
    /\ at' = at + 1
    /\ UNCHANGED <<prog, code, phase, globals, next, done>>

(* memref.reinterpret_cast at offset 0 *)
Reshape ==
    /\ Running({"reshape"})
    /\ env' = Append(env, View(env[code[at].args[1]].buf, code[at].shape))
    /\ at' = at + 1
    /\ UNCHANGED <<prog, code, phase, globals, next, mem, done>>

Alloc ==
    /\ Running(LoopKinds) /\ Len(env) < at
    /\ mem' = Append(mem, [i \in 0 .. (Product(code[at].shape) - 1) |-> Undef])
    /\ env' = Append(env, View(Len(mem) + 1, code[at].shape))
    /\ done' = {}
    /\ UNCHANGED <<prog, code, phase, at, globals, next>>

Iterate(iv) ==
    /\ Running(LoopKinds) /\ Len(env) = at /\ iv \notin done
    /\ LET out == Memref(at)
           o == Offset(out, StoreAt(code[at], iv))
       IN  mem' = IF o \in DOMAIN out.cells
                  THEN [mem EXCEPT ![out.buf][o] = Body(code[at], Operands(code[at]), iv)] ELSE mem
    /\ done' = done \union {iv}
    /\ UNCHANGED <<prog, code, phase, at, globals, next, env>>

Leave ==
    /\ Running(LoopKinds) /\ Len(env) = at /\ done = Iterations(code[at], Operands(code[at]))
    /\ at' = at + 1 /\ done' = {}
    /\ UNCHANGED <<prog, code, phase, globals, next, env, mem>>

Return ==
    /\ phase = "running" /\ at > Len(code)
    /\ phase' = "done"
    /\ UNCHANGED <<prog, code, at, globals, next, env, mem, done>>

Init ==
    /\ prog \in Programs
    /\ code = << >> /\ phase = "tosa" /\ at = 1
    /\ globals = << >> /\ next = [const |-> 0, const_shape |-> 0]
    /\ env = << >> /\ mem = << >> /\ done = {}

Next ==
    \/ ToNpu \/ NpuDone \/ ConstantToGlobal \/ OpToLoops \/ LoopsDone
    \/ Bind \/ Reshape \/ Alloc \/ Leave \/ Return
    \/ phase = "running" /\ Len(env) = at /\ \E iv \in Iterations(code[at], Operands(code[at])) : Iterate(iv)

Spec == Init /\ [][Next]_vars

-----------------------------------------------------------------------------
(* What TOSA says each operation computes, from its operands' contents in[1] *)
(* .. in[k], functions of the index tuples of their shapes.                  *)
Before(i, j) == \E d \in DOMAIN i : i[d] < j[d] /\ \A e \in 1 .. (d - 1) : i[e] = j[e]
Rank(i, shape) == Cardinality({j \in Tuples(shape) : Before(j, i)})

(* The operand with pad[1] rows above and pad[3] columns left of zeros.     *)
Padded(x, H, W, pad, n, r, c, k) ==
    IF r \in pad[1] .. (pad[1] + H - 1) /\ c \in pad[3] .. (pad[3] + W - 1)
    THEN x[<<n, r - pad[1], c - pad[3], k>>] ELSE 0

TosaReshape(op, in, shapes, o) ==
    in[1][CHOOSE i \in DOMAIN in[1] : Rank(i, shapes[1]) = Rank(o, op.shape)]

TosaTranspose(op, in, o) ==
    in[1][CHOOSE i \in DOMAIN in[1] : \A d \in DOMAIN o : i[op.attrs.perms[d] + 1] = o[d]]

TosaClamp(op, in, o) ==
    LET a == op.attrs
    IN  CHOOSE v \in {in[1][o], a.min, a.max} :
           v >= a.min /\ v <= a.max /\ (in[1][o] \in a.min .. a.max => v = in[1][o])
           /\ (in[1][o] > a.max => v = a.max) /\ (in[1][o] < a.min => v = a.min)

TosaAdd(in, shapes, o) ==
    in[1][[d \in DOMAIN o |-> o[d] % shapes[1][d]]] + in[2][[d \in DOMAIN o |-> o[d] % shapes[2][d]]]

TosaMatmul(in, shapes, o) ==
    SumFunction([k \in 0 .. (shapes[1][3] - 1) |-> in[1][<<o[1], o[2], k>>] * in[2][<<o[1], k, o[3]>>]])

TosaMaxPool(op, in, o) ==
    LET a == op.attrs
    IN  Max({in[1][i] : i \in {j \in DOMAIN in[1] :
                /\ j[1] = o[1] /\ j[4] = o[4]
                /\ j[2] + a.pad[1] - o[2] * a.stride[1] \in 0 .. (a.kernel[1] - 1)
                /\ j[3] + a.pad[3] - o[3] * a.stride[2] \in 0 .. (a.kernel[2] - 1)}})

TosaConv(op, in, shapes, o) ==
    LET a == op.attrs
        padded(w) == Padded(in[1], shapes[1][2], shapes[1][3], a.pad, o[1],
                            o[2] * a.stride[1] + w[2] * a.dilation[1],
                            o[3] * a.stride[2] + w[3] * a.dilation[2], w[4])
    IN  in[3][<<o[4]>>]
          + SumFunction([w \in {v \in DOMAIN in[2] : v[1] = o[4]} |-> in[2][w] * padded(w)])

TosaValue(op, in, shapes, o) ==
    CASE op.kind \in Bound -> op.data[Rank(o, op.shape) + 1]
      [] op.kind = "reshape" -> TosaReshape(op, in, shapes, o)
      [] op.kind = "transpose" -> TosaTranspose(op, in, o)
      [] op.kind = "clamp" -> TosaClamp(op, in, o)
      [] op.kind = "add" -> TosaAdd(in, shapes, o)
      [] op.kind = "matmul" -> TosaMatmul(in, shapes, o)
      [] op.kind = "max_pool2d" -> TosaMaxPool(op, in, o)
      [] op.kind = "conv2d" -> TosaConv(op, in, shapes, o)

Tosa(op, in, shapes) == [o \in Tuples(op.shape) |-> TosaValue(op, in, shapes, o)]

-----------------------------------------------------------------------------
(* Properties *)

(* The cells one iteration loads, as operand and index.                     *)
Reads(op, in, iv) ==
    CASE op.kind = "conv2d" ->
            {<<3, <<iv[4]>>>>} \union
            UNION {{<<1, ConvInput(op, iv, t)>>, <<2, ConvWeight(iv, t)>>} :
                      t \in {u \in ConvTaps(op, in) : ConvValid(op, in, iv, u)}}
      [] op.kind = "max_pool2d" ->
            {<<1, PoolInput(op, iv, t)>> :
                t \in {u \in Tuples(op.attrs.kernel) : PoolValid(op, in, iv, u)}}
      [] op.kind = "matmul" ->
            UNION {{<<1, <<iv[1], iv[2], k>>>>, <<2, <<iv[1], k, iv[3]>>>>} :
                      k \in 0 .. (in[1].shape[3] - 1)}
      [] op.kind = "add" -> {<<i, BroadcastIndices(in[i], iv)>> : i \in 1 .. 2}
      [] OTHER -> {<<1, iv>>}

Inside(m, idx) == \A d \in DOMAIN m.shape : idx[d] \in 0 .. (m.shape[d] - 1)

(* No two memref.global share a symbol, with each other or with what the    *)
(* module had; a running function has a memref for every value before `at`. *)
TypeOK ==
    /\ phase \in {"tosa", "npu", "running", "done", "failed"}
    /\ at \in 1 .. (Len(prog) + 1)
    /\ DOMAIN globals \intersect Taken = {}
    /\ phase \in {"running", "done"} =>
          /\ Cardinality(DOMAIN globals) =
                Cardinality({i \in DOMAIN code : code[i].kind \in Constants})
          /\ Len(env) \in {at - 1, at}
          /\ \A i \in DOMAIN env : env[i].buf \in DOMAIN mem

(* Whatever order the iterations take, none of those still to run loads or  *)
(* stores outside a memref, reads a cell nobody wrote, or reads the buffer  *)
(* the loop is writing, and no two of them store to the same cell.          *)
AccessesSafe ==
    phase = "running" /\ at <= Len(code) /\ Len(env) = at /\ code[at].kind \in LoopKinds =>
        LET op == code[at]
            in == Operands(op)
            pending == Iterations(op, in) \ done
        IN  /\ \A iv \in pending :
                  /\ Inside(env[at], StoreAt(op, iv))
                  /\ \A r \in Reads(op, in, iv) : /\ Inside(in[r[1]], r[2])
                                                  /\ Load(in[r[1]], r[2]) # Undef
                                                  /\ in[r[1]].buf # env[at].buf
            /\ Cardinality({StoreAt(op, iv) : iv \in pending}) = Cardinality(pending)

(* When the function returns, every value it computed is the one TOSA       *)
(* defines for that operation and the contents of its operands, and the     *)
(* arguments and constants still hold what they held.                       *)
LoopsMatchTosa ==
    phase = "done" => \A i \in DOMAIN prog :
        Contents(Memref(i)) =
            Tosa(prog[i], [j \in DOMAIN prog[i].args |-> Contents(Memref(prog[i].args[j]))],
                 [j \in DOMAIN prog[i].args |-> prog[prog[i].args[j]].shape])
=============================================================================
