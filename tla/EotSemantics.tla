--------------------------- MODULE EotSemantics ---------------------------
(* What the seven EOT operators compute, as python/eot_export_ops.py states *)
(* it in eager torch.  A tensor is a nested sequence; a mask holds BOOLEANs. *)
(*                                                                           *)
(* Numbers are the integers modulo the prime P, written -P/2 .. P/2.  The    *)
(* ring laws and division are exact there, so a lowering that computes the   *)
(* same algebra agrees and one that does not differs; rounding, and the      *)
(* order of the additions of a reduction, are abstracted.  exp, log1p, tanh, *)
(* sqrt and atan2 are fixed functions of which nothing else is used.         *)
EXTENDS Integers, Sequences, FiniteSets, FiniteSetsExt

CONSTANT P

ASSUME PrimeAssumption == P \in Nat /\ P > 2 /\ \A d \in 2 .. (P - 1) : P % d # 0

Numbers == -(P \div 2) .. (P \div 2)
Num(x) == LET r == x % P IN IF r > P \div 2 THEN r - P ELSE r
Inverses == [x \in 0 .. (P - 1) |->
               IF x = 0 THEN 0 ELSE CHOOSE y \in 1 .. (P - 1) : (x * y) % P = 1]

Add(a, b) == Num(a + b)
Sub(a, b) == Num(a - b)
Mul(a, b) == Num(a * b)
Div(a, b) == Num(a * Inverses[b % P])
Larger(a, b) == IF a > b THEN a ELSE b
Smaller(a, b) == IF a < b THEN a ELSE b

SumOf(seq) == LET at(n) == seq[n] IN Num(MapThenSumSet(at, DOMAIN seq))

Exp(x)      == Num(x * x * x + 2 * x + 5)
Log1p(x)    == Num(x * x * x + 7 * x * x + 3)
Tanh(x)     == Num(2 * x * x * x + x + 11)
Sqrt(x)     == Num(3 * x * x + x + 13)
Atan2(y, x) == Num(y * y * x + 5 * y + 2 * x * x)
Sigmoid(x)  == Div(1, Add(1, Exp(Num(-x))))

-----------------------------------------------------------------------------
(* point_features(points, mask, radius_epsilon, theta_epsilon) *)
PointFeatures(points, mask, radiusEpsilon, thetaEpsilon) ==
    [b \in DOMAIN points |-> [n \in DOMAIN points[b] |->
        LET x  == points[b][n][1]
            y  == points[b][n][2]
            r2 == Add(Mul(x, x), Mul(y, y))
            validAngle == r2 > thetaEpsilon
            theta == Atan2(IF validAngle THEN y ELSE 0, IF validAngle THEN x ELSE 1)
        IN  IF mask[b][n]
            THEN << x, y, Larger(x, -x), Larger(y, -y), Sqrt(Add(r2, radiusEpsilon)),
                    theta, Mul(x, x), Mul(y, y), Mul(x, y) >>
            ELSE [k \in 1 .. 9 |-> 0]]]

Weight(valid) == IF valid THEN 1 ELSE 0

Count(row) == Larger(SumOf([n \in DOMAIN row |-> Weight(row[n])]), 1)

MeanOf(input, mask, b, c) ==
    Div(SumOf([n \in DOMAIN mask[b] |-> Mul(input[b][n][c], Weight(mask[b][n]))]),
        Count(mask[b]))

VarianceOf(input, mask, b, c) ==
    LET delta(n) == Sub(input[b][n][c], MeanOf(input, mask, b, c))
        weighted(n) == Mul(Mul(delta(n), delta(n)), Weight(mask[b][n]))
    IN  Div(SumOf([n \in DOMAIN mask[b] |-> weighted(n)]), Count(mask[b]))

(* torch.where(mask, input, fill), the values of one column of one batch *)
Column(input, mask, empty, b, c) ==
    {IF mask[b][n] THEN input[b][n][c] ELSE empty : n \in DOMAIN mask[b]}

Masked(input, cell(_, _)) ==
    [b \in DOMAIN input |-> [c \in DOMAIN input[b][1] |-> cell(b, c)]]

MaskedMean(input, mask) ==
    LET cell(b, c) == MeanOf(input, mask, b, c) IN Masked(input, cell)
MaskedVariance(input, mask) ==
    LET cell(b, c) == VarianceOf(input, mask, b, c) IN Masked(input, cell)
MaskedMax(input, mask, empty) ==
    LET cell(b, c) == Max(Column(input, mask, empty, b, c)) IN Masked(input, cell)
MaskedMin(input, mask, empty) ==
    LET cell(b, c) == Min(Column(input, mask, empty, b, c)) IN Masked(input, cell)

(* torch.nn.functional.linear and chunk(3, 1): gate g of H columns *)
Linear(x, w, bias, b, j) ==
    Add(SumOf([k \in DOMAIN x[b] |-> Mul(x[b][k], w[j][k])]), bias[j])

GruCell(x, hPrev, wIh, wHh, bIh, bHh) ==
    [b \in DOMAIN hPrev |-> LET H == Len(hPrev[b]) IN [d \in 1 .. H |->
        LET gi(g) == Linear(x, wIh, bIh, b, g * H + d)
            gh(g) == Linear(hPrev, wHh, bHh, b, g * H + d)
            reset == Sigmoid(Add(gi(0), gh(0)))
            update == Sigmoid(Add(gi(1), gh(1)))
            candidate == Tanh(Add(gi(2), Mul(reset, gh(2))))
        IN  Add(Mul(Sub(1, update), candidate), Mul(update, hPrev[b][d]))]]

(* torch.softmax(x, 1), which subtracts the row's maximum before exp *)
Softmax(row) ==
    LET e == [k \in DOMAIN row |-> Exp(Sub(row[k], Max({row[i] : i \in DOMAIN row})))]
    IN  [k \in DOMAIN row |-> Div(e[k], SumOf(e))]

GmParameterize(piLogits, tauLogits, cXi, rawLogvar, qN, a) ==
    LET rows == DOMAIN piLogits
        pi == [b \in rows |-> Softmax(piLogits[b])]
        tau == [b \in rows |-> << Add(a.tau_min, Mul(Mul(qN[b][1], a.tau_max),
                                                    Sigmoid(tauLogits[b][1]))) >>]
        alphaPi == [b \in rows |-> [k \in 1 .. 4 |-> Add(a.alpha_base, Mul(tau[b][1], pi[b][k]))]]
        alpha0 == [b \in rows |-> << SumOf(alphaPi[b]) >>]
        denominator == Log1p(4 * a.alpha_base + a.tau_min + a.tau_max)
        sPi == [b \in rows |-> << Smaller(Larger(Div(Log1p(alpha0[b][1]), denominator), 0), 1) >>]
        between(low, high, t) ==
            [b \in rows |-> [k \in 1 .. 2 |-> Add(low, Mul(high - low, Sigmoid(t[b][k])))]]
        cMean == between(a.c_min, a.c_max, cXi)
        cLogvar == between(a.logvar_min, a.logvar_max, rawLogvar)
        cVar == [b \in rows |-> [k \in 1 .. 2 |-> Exp(cLogvar[b][k])]]
        qC == [b \in rows |-> [k \in 1 .. 2 |-> Div(1, Add(1, cVar[b][k]))]]
    IN  << pi, tau, alphaPi, alpha0, sPi, cMean, cLogvar, cVar, qC >>

(* The operator `name` of the exported program, applied eagerly. *)
Eager(name, ins, a) ==
    CASE name = "point_features" ->
            << PointFeatures(ins[1], ins[2], a.radius_epsilon, a.theta_epsilon) >>
      [] name = "masked_mean" -> << MaskedMean(ins[1], ins[2]) >>
      [] name = "masked_variance" -> << MaskedVariance(ins[1], ins[2]) >>
      [] name = "masked_max" -> << MaskedMax(ins[1], ins[2], a.empty_value) >>
      [] name = "masked_min" -> << MaskedMin(ins[1], ins[2], a.empty_value) >>
      [] name = "gru_cell" -> << GruCell(ins[1], ins[2], ins[3], ins[4], ins[5], ins[6]) >>
      [] name = "gm_parameterize" -> GmParameterize(ins[1], ins[2], ins[3], ins[4], ins[5], a)
=============================================================================
