--------------------------- MODULE MCNpuLowering ---------------------------
(* The functions run: the network of mlir_file/simple_cnn_tosa.mlir with its *)
(* extents shrunk, and single operations over the attributes that decide    *)
(* which cells are read: padding on each side, strides, dilations, kernels,  *)
(* every permutation of three axes, and every broadcast of two axes.         *)
EXTENDS NpuLowering

Datum(seed, i) == ((seed * 13 + 5 * i * i + 3 * i) % 17) - 8
Data(shape, seed) == [i \in 1 .. Product(shape) |-> Datum(seed, i)]

Op(kind, args, shape, attrs, data) ==
    [kind |-> kind, args |-> args, shape |-> shape, attrs |-> attrs, data |-> data,
     symbol |-> << >>]
Input(shape) == Op("arg", << >>, shape, << >>, Data(shape, 1))
Const(shape, seed) == Op("const", << >>, shape, << >>, Data(shape, seed))
Shape(to) == Op("const_shape", << >>, <<Len(to)>>, << >>, to)
Compute(kind, args, shape, attrs) == Op(kind, args, shape, attrs, << >>)

Network == <<
    Input(<<1, 1, 2, 2>>), Shape(<<1, 2, 2, 1>>), Compute("reshape", <<1, 2>>, <<1, 2, 2, 1>>, << >>),
    Const(<<2, 2, 2, 1>>, 2), Const(<<2>>, 3),
    Compute("conv2d", <<3, 4, 5>>, <<1, 2, 2, 2>>,
            [pad |-> <<1, 0, 0, 1>>, stride |-> <<1, 1>>, dilation |-> <<1, 1>>]),
    Compute("clamp", <<6>>, <<1, 2, 2, 2>>, [min |-> 0, max |-> 90]),
    Compute("max_pool2d", <<7>>, <<1, 1, 1, 2>>,
            [kernel |-> <<2, 2>>, stride |-> <<2, 2>>, pad |-> <<0, 0, 0, 0>>]),
    Compute("transpose", <<8>>, <<1, 2, 1, 1>>, [perms |-> <<0, 3, 1, 2>>]),
    Shape(<<1, 1, 2>>), Compute("reshape", <<9, 10>>, <<1, 1, 2>>, << >>),
    Const(<<1, 2, 3>>, 4), Compute("matmul", <<11, 12>>, <<1, 1, 3>>, << >>),
    Shape(<<1, 3>>), Compute("reshape", <<13, 14>>, <<1, 3>>, << >>),
    Const(<<3>>, 5), Compute("reshape", <<16, 14>>, <<1, 3>>, << >>),
    Compute("add", <<15, 17>>, <<1, 3>>, << >>)>>

Extent(in, before, after, window, stride) == (in + before + after - window) \div stride + 1

Conv(pad, stride, dilation) ==
    <<Input(<<1, 3, 2, 2>>), Const(<<1, 2, 2, 2>>, 6), Const(<<1>>, 7),
      Compute("conv2d", <<1, 2, 3>>,
              <<1, Extent(3, pad[1], pad[2], dilation[1] + 1, stride[1]),
                Extent(2, pad[3], pad[4], dilation[2] + 1, stride[2]), 1>>,
              [pad |-> pad, stride |-> stride, dilation |-> dilation])>>

Pool(kernel, stride, pad) ==
    <<Input(<<1, 3, 2, 1>>),
      Compute("max_pool2d", <<1>>,
              <<1, Extent(3, pad[1], pad[2], kernel[1], stride[1]),
                Extent(2, pad[3], pad[4], kernel[2], stride[2]), 1>>,
              [kernel |-> kernel, stride |-> stride, pad |-> pad])>>

Transpose(perms) ==
    <<Input(<<1, 2, 3>>),
      Compute("transpose", <<1>>, [d \in 1 .. 3 |-> <<1, 2, 3>>[perms[d] + 1]], [perms |-> perms])>>

Sum(s, t) ==
    <<Input(s), Const(t, 8),
      Compute("add", <<1, 2>>, [d \in 1 .. 2 |-> IF s[d] > t[d] THEN s[d] ELSE t[d]], << >>)>>

(* A pooling window reaches the image: TOSA wants each pad below the kernel. *)
Pads == {<<0, 0, 0, 0>>, <<1, 0, 0, 1>>, <<0, 1, 0, 0>>, <<0, 0, 1, 0>>, <<0, 1, 1, 1>>}
MCPrograms ==
    {Network}
    \union {p \in {Conv(pad, s, d) : pad \in Pads, s \in {<<1, 1>>, <<2, 1>>}, d \in {<<1, 1>>, <<2, 1>>}} :
              \A d \in 1 .. 4 : p[4].shape[d] > 0}
    \union {p \in {Pool(k, s, pad) : k \in {<<2, 2>>, <<2, 1>>}, s \in {<<1, 1>>, <<2, 1>>}, pad \in Pads} :
              /\ \A d \in 1 .. 4 : p[2].shape[d] > 0
              /\ \A d \in 1 .. 4 : p[2].attrs.pad[d] < p[2].attrs.kernel[(d + 1) \div 2]}
    \union {Transpose(p) : p \in {q \in [1 .. 3 -> 0 .. 2] : Range(q) = 0 .. 2}}
    \union {Sum(<<2, 2>>, <<2, 2>>), Sum(<<2, 2>>, <<1, 2>>), Sum(<<2, 1>>, <<1, 2>>), Sum(<<1, 1>>, <<2, 2>>)}
    \union {<<Input(<<2, 2, 2>>), Const(<<2, 2, 1>>, 9), Compute("matmul", <<1, 2>>, <<2, 2, 1>>, << >>)>>,
            <<Input(<<2, 1>>), Compute("mul", <<1, 1>>, <<2, 1>>, << >>)>>}
MCTaken == {<<"const", 0>>, <<"const", 2>>, <<"const_shape", 1>>}
=============================================================================
