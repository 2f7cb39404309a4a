--------------------------- MODULE PointwiseKernels ---------------------------
(***************************************************************************)
(* The pointwise kernels of the Generic carrier (carriers/generic/ops.py,  *)
(* ternary_ops.py, predicate_ops.py) and of the CPU carrier                *)
(* (carriers/cpu/native/_cpu_operation.hpp, _cpu_binary.hpp,               *)
(* _cpu_extrema.hpp, ops/).  Numbers are integers; NaN and a zero with its *)
(* sign set are apart.  A kernel answers with its result and the tensors   *)
(* it saves, or refuses.                                                   *)
(***************************************************************************)
EXTENDS Tensors
LOCAL INSTANCE SequencesExt

CONSTANTS NaN, NegativeZero

Refused == [ok |-> FALSE]
Answer(out, saved) == [ok |-> TRUE, out |-> out, saved |-> saved]

Number(x) == IF x = NegativeZero THEN 0 ELSE x
Above(x, y) == NaN \notin {x, y} /\ Number(x) > Number(y)
Equal(x, y) == NaN \notin {x, y} /\ Number(x) = Number(y)
Lifted2(x, y, f(_, _)) == IF NaN \in {x, y} THEN NaN ELSE f(Number(x), Number(y))
Plus(x, y) == Lifted2(x, y, LAMBDA a, b : a + b)
Times(x, y) == Lifted2(x, y, LAMBDA a, b : a * b)
Minus(x) == Times(-1, x)
Over(x, y) == Lifted2(x, y, LAMBDA a, b : a \div b)
Truncated(x, y) == IF (x < 0) = (y < 0) THEN (IF x < 0 THEN -x ELSE x) \div (IF y < 0 THEN -y ELSE y)
                   ELSE -((IF x < 0 THEN -x ELSE x) \div (IF y < 0 THEN -y ELSE y))
Remainder(x, y) == Lifted2(x, y, LAMBDA a, b : a - b * Truncated(a, b))
Truth(b) == IF b THEN 1 ELSE 0
-----------------------------------------------------------------------------
(* Operands.                                                               *)

(* _align_binary_operands: the operands that change are broadcast, and the *)
(* result is canonical.                                                    *)
Aligned(a, b) ==
    IF ~Compatible(a.modes, b.modes) THEN Refused
    ELSE LET shape == CommonShape(a.modes, b.modes)
         IN Answer(Canonical(shape), <<WidenedTo(a, shape), WidenedTo(b, shape)>>)

(* _align_ternary_operands: all operands against one shape.                *)
AlignedAtOnce(ts) ==
    LET shape == FoldLeft(LAMBDA ms, t : CommonShape(ms, t.modes), ts[1].modes, ts)
        leaf(t, j) == Infix(t.modes)[j].s
    IN IF /\ \A i \in 1 .. Len(ts) : SameProfile(ts[1].modes, ts[i].modes)
          /\ \A j \in 1 .. Len(Infix(ts[1].modes)) :
                \A i, h \in 1 .. Len(ts) : leaf(ts[i], j) = leaf(ts[h], j) \/ 1 \in {leaf(ts[i], j), leaf(ts[h], j)}
       THEN Answer(Canonical(shape), [i \in 1 .. Len(ts) |-> WidenedTo(ts[i], shape)])
       ELSE Refused

(* align_ternary_operands: pair after pair.                                *)
AlignedInPairs(first, second, third) ==
    LET again(one, two, three) == IF three.ok THEN Answer(three.out, <<three.saved[2], three.saved[1], two.saved[2]>>) ELSE Refused
        next(one, two) == IF two.ok THEN again(one, two, Aligned(one.saved[2], two.saved[1])) ELSE Refused
        start(one) == IF one.ok THEN next(one, Aligned(one.saved[1], third)) ELSE Refused
    IN start(Aligned(first, second))
-----------------------------------------------------------------------------
(* The loops: by ordinal and by key.                                       *)
ByOrdinal(ms, ts, f(_)) == Placed(ms, [k \in 0 .. Size(ms) - 1 |-> f([i \in 1 .. Len(ts) |-> Element(ts[i], k)])])
ByKey(ms, ts, f(_)) == Written(ms, LAMBDA key : f([i \in 1 .. Len(ts) |-> Read(ts[i], key)]))

(* _unary_elementwise_operation and CpuUnaryElementwiseOperation           *)
GenericUnary(t, f(_)) == Answer(ByOrdinal(Canonical(t.modes), <<t>>, f), <<t>>)
CpuUnary(t, f(_)) == Answer(ByKey(OwnLayout(t.modes), <<t>>, f), <<t>>)

(* _binary_elementwise_result and cpu_binary_elementwise_forward           *)
Ordinally(all, f(_)) == IF all.ok THEN Answer(ByOrdinal(all.out, all.saved, f), all.saved) ELSE Refused
Keyed(all, f(_)) == IF all.ok THEN Answer(ByKey(all.out, all.saved, f), all.saved) ELSE Refused
GenericBinary(a, b, f(_)) == Ordinally(Aligned(a, b), f)
CpuBinary(a, b, f(_)) == Keyed(Aligned(a, b), f)

(* The gradients of saved operands: shape checks, then a loop for each.    *)
GenericGradients(saved, g, n, f(_)) ==
    [i \in 1 .. n |-> ByOrdinal(OwnLayout(saved[i].modes), Append(saved, g), LAMBDA xs : f(xs)[i])]
CpuGradients(saved, g, n, f(_)) ==
    [i \in 1 .. n |-> ByKey(OwnLayout(saved[i].modes), Append(saved, g), LAMBDA xs : f(xs)[i])]
-----------------------------------------------------------------------------
(* One operand.                                                            *)
Sign(x) == IF x = NaN THEN NaN ELSE Truth(Above(x, 0)) - Truth(Above(0, x))

UnaryValue(op, x) ==
    CASE op = "neg" -> Minus(x)
      [] op = "abs" -> IF x = NaN THEN NaN ELSE Times(x, Sign(x))
      [] op = "sign" -> Sign(x)
      [] op = "relu" -> IF Above(x, 0) THEN x ELSE 0
      [] op = "logical_not" -> Truth(Equal(x, 0))

(* gradient_multiplier of each                                             *)
GenericSlope(op, x) ==
    CASE op = "neg" -> -1
      [] op = "abs" -> IF Equal(x, 0) THEN 0 ELSE Sign(x)
      [] op = "sign" -> 0
      [] op = "relu" -> Truth(Above(x, 0))

(* CpuAbsScalar; CpuReLUOperation has a loop of its own.                   *)
CpuSlope(op, x) == IF op = "abs" THEN Truth(Above(x, 0)) - Truth(Above(0, x)) ELSE GenericSlope(op, x)
CpuReluGradient(x, g) == IF Above(x, 0) THEN g ELSE 0

(* A scalar operand: mul and pow.                                          *)
Power(x, n) == IF n = 0 THEN 1 ELSE IF x = NaN THEN NaN ELSE Number(x)^n
ScalarValue(op, x, n) == IF op = "scale" THEN Times(x, n) ELSE Power(x, n)
GenericScalarGradient(op, x, n, g) == IF op = "scale" THEN Times(g, n) ELSE Times(Times(g, n), Power(x, n - 1))
CpuScaleGradient(g, n) == Times(g, n)
CpuPowGradient(x, n, g) == Times(Times(g, n), Power(x, n - 1))
-----------------------------------------------------------------------------
(* Two operands.                                                           *)

(* safe_maximum, safe_minimum: NumPy keeps a NaN and tells the zeros apart.*)
Extremum(max, x, y) ==
    IF NaN \in {x, y} THEN NaN
    ELSE IF Number(x) # 0 \/ Number(y) # 0 THEN (IF Above(x, y) = max THEN x ELSE y)
    ELSE IF max THEN (IF 0 \in {x, y} THEN 0 ELSE NegativeZero)
    ELSE IF NegativeZero \in {x, y} THEN NegativeZero ELSE 0

(* cpu_extrema_value *)
CpuExtremum(max, x, y) ==
    LET negative(z) == z = NegativeZero
    IN IF x = NaN \/ y = NaN THEN NaN
       ELSE IF Equal(x, y) /\ Equal(x, 0)
       THEN IF (IF max THEN negative(x) /\ negative(y) ELSE negative(x) \/ negative(y)) THEN NegativeZero ELSE 0
       ELSE IF max THEN (IF Above(x, y) THEN x ELSE y) ELSE (IF Above(y, x) THEN x ELSE y)

(* _extrema_gradient_multiplier *)
ExtremaShare(max, x, y, lhs, g) ==
    IF NaN \in {x, y, g} THEN NaN
    ELSE IF Equal(x, y) THEN g \div 2
    ELSE IF (IF max THEN Above(x, y) ELSE Above(y, x)) = lhs THEN g ELSE 0

(* Mutant: an exact tie goes to the first operand.                         *)
CpuExtremaVjpFirst(max, x, y, g) ==
    IF NaN \in {x, y} THEN <<NaN, NaN>>
    ELSE IF Equal(x, y) \/ (max /\ Above(x, y)) \/ (~max /\ Above(y, x)) THEN <<g, 0>> ELSE <<0, g>>

(* cpu_extrema_vjp: the side that is not selected gets 0, also of a        *)
(* cotangent that is NaN.                                                  *)
CpuExtremaVjp(max, x, y, g) ==
    IF NaN \in {x, y} THEN <<NaN, NaN>>
    ELSE IF Equal(x, y) THEN <<Over(g, 2), Over(g, 2)>>
    ELSE IF (max /\ Above(x, y)) \/ (~max /\ Above(y, x)) THEN <<g, 0>> ELSE <<0, g>>

BinaryValue(op, x, y) ==
    CASE op = "add" -> Plus(x, y)
      [] op = "sub" -> Plus(x, Minus(y))
      [] op = "mul" -> Times(x, y)
      [] op = "div" -> Over(x, y)
      [] op = "rem" -> Remainder(x, y)
      [] op = "eq" -> Truth(Equal(x, y))
      [] op = "ne" -> Truth(~Equal(x, y))
      [] op = "lt" -> Truth(Above(y, x))
      [] op = "le" -> Truth(Above(y, x) \/ Equal(x, y))
GenericBinaryValue(op, x, y) == IF op \in {"maximum", "minimum"} THEN Extremum(op = "maximum", x, y) ELSE BinaryValue(op, x, y)
CpuBinaryValue(op, x, y) == IF op \in {"maximum", "minimum"} THEN CpuExtremum(op = "maximum", x, y) ELSE BinaryValue(op, x, y)

GenericAddGradients(g) == <<g, g>>
GenericSubGradients(g) == <<g, Minus(g)>>
GenericMulGradients(x, y, g) == <<Times(g, y), Times(g, x)>>
GenericDivGradients(x, y, g) == <<Over(g, y), Over(Times(Minus(g), x), Times(y, y))>>
GenericRemGradients(x, y, g) == <<g, Times(g, Minus(Lifted2(x, y, Truncated)))>>
GenericBinaryGradients(op, x, y, g) ==
    CASE op = "add" -> GenericAddGradients(g)
      [] op = "sub" -> GenericSubGradients(g)
      [] op = "mul" -> GenericMulGradients(x, y, g)
      [] op = "div" -> GenericDivGradients(x, y, g)
      [] op = "rem" -> GenericRemGradients(x, y, g)
      [] op \in {"maximum", "minimum"} -> <<ExtremaShare(op = "maximum", x, y, TRUE, g), ExtremaShare(op = "maximum", x, y, FALSE, g)>>

CpuMulGradients(x, y, g) == <<Times(g, y), Times(g, x)>>
CpuDivGradients(x, y, g) == <<Over(g, y), Over(Times(Minus(g), x), Times(y, y))>>
CpuRemGradients(x, y, g) == <<g, Times(Minus(g), Lifted2(x, y, Truncated))>>
CpuBinaryGradients(op, x, y, g) ==
    CASE op = "add" -> <<g, g>>
      [] op = "sub" -> <<g, Minus(g)>>
      [] op = "mul" -> CpuMulGradients(x, y, g)
      [] op = "div" -> CpuDivGradients(x, y, g)
      [] op = "rem" -> CpuRemGradients(x, y, g)
      [] op \in {"maximum", "minimum"} -> CpuExtremaVjp(op = "maximum", x, y, g)
-----------------------------------------------------------------------------
(* Select and clamp.                                                       *)
GenericSelect(c, a, b) == Ordinally(AlignedAtOnce(<<c, a, b>>), LAMBDA xs : IF xs[1] # 0 THEN xs[2] ELSE xs[3])
GenericSelectGradients(x, g) == IF x # 0 THEN <<g, 0>> ELSE <<0, g>>

CpuSelect(c, a, b) == Keyed(AlignedInPairs(c, a, b), LAMBDA xs : IF xs[1] # 0 THEN xs[2] ELSE xs[3])
CpuSelectGradients(x, g) == IF x # 0 THEN <<g, 0>> ELSE <<0, g>>

(* A bound is a scalar or the next tensor.                                 *)
Lower(xs, arg) == IF arg.low = <<>> THEN xs[2] ELSE arg.low[1]
Upper(xs, arg) == IF arg.high # <<>> THEN arg.high[1] ELSE IF arg.low = <<>> THEN xs[3] ELSE xs[2]
Bounds(arg) == Truth(arg.low = <<>>) + Truth(arg.high = <<>>)
OfBounds(arg, gs) == <<gs[1]>> \o (IF arg.low = <<>> THEN <<gs[2]>> ELSE <<>>) \o (IF arg.high = <<>> THEN <<gs[3]>> ELSE <<>>)

GenericClamp(ts, arg) ==
    Ordinally(AlignedAtOnce(ts), LAMBDA xs : Extremum(FALSE, Extremum(TRUE, xs[1], Lower(xs, arg)), Upper(xs, arg)))
GenericClampGradients(xs, arg, g) ==
    LET middle == Extremum(TRUE, xs[1], Lower(xs, arg))
        down == ExtremaShare(FALSE, middle, Upper(xs, arg), TRUE, g)
    IN OfBounds(arg, <<ExtremaShare(TRUE, xs[1], Lower(xs, arg), TRUE, down), ExtremaShare(TRUE, xs[1], Lower(xs, arg), FALSE, down),
                       ExtremaShare(FALSE, middle, Upper(xs, arg), FALSE, g)>>)

CpuClamp(ts, arg) ==
    LET all == CASE Len(ts) = 1 -> Answer(Canonical(ts[1].modes), ts)
                 [] Len(ts) = 2 -> Aligned(ts[1], ts[2])
                 [] Len(ts) = 3 -> AlignedInPairs(ts[1], ts[2], ts[3])
    IN Keyed(all, LAMBDA xs : CpuExtremum(FALSE, CpuExtremum(TRUE, xs[1], Lower(xs, arg)), Upper(xs, arg)))
CpuClampGradients(xs, arg, g) ==
    LET middle == CpuExtremum(TRUE, xs[1], Lower(xs, arg))
        top == CpuExtremaVjp(FALSE, middle, Upper(xs, arg), g)
        bottom == CpuExtremaVjp(TRUE, xs[1], Lower(xs, arg), top[1])
    IN OfBounds(arg, <<bottom[1], bottom[2], top[2]>>)
=============================================================================
