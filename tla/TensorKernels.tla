----------------------------- MODULE TensorKernels -----------------------------
(***************************************************************************)
(* One call of a tensor operation on the Generic carrier, whose kernels    *)
(* are the reference, and on the CPU carrier, and its backward on each     *)
(* with the same cotangent (carriers/generic/, carriers/cpu/native/).      *)
(***************************************************************************)
EXTENDS ContractionKernels
LOCAL INSTANCE SequencesExt
LOCAL INSTANCE FiniteSetsExt

CONSTANT Calls           \* a set of sets of calls: [op, operands, arg]

VARIABLES call,          \* the call
          made,          \* the answer of each carrier
          given          \* the gradients each carrier returns

kernelVars == <<call, made, given>>

Carriers == {"generic", "cpu"}
Pending == [ok |-> FALSE, pending |-> TRUE]

Unary == {"neg", "abs", "sign", "relu", "logical_not"}
Arithmetic == {"add", "sub", "mul", "div", "rem", "maximum", "minimum"}
Comparisons == {"eq", "ne", "lt", "le"}
Reductions == {"reduce_sum", "reduce_prod", "reduce_max", "reduce_min", "argmax", "argmin"}
NotDifferentiable == {"logical_not", "argmax", "argmin"} \cup Comparisons
-----------------------------------------------------------------------------
GenericForward(c) ==
    LET ts == c.operands
    IN CASE c.op \in Unary -> GenericUnary(ts[1], LAMBDA xs : UnaryValue(c.op, xs[1]))
         [] c.op \in {"scale", "pow"} -> GenericUnary(ts[1], LAMBDA xs : ScalarValue(c.op, xs[1], c.arg))
         [] c.op \in Arithmetic \cup Comparisons -> GenericBinary(ts[1], ts[2], LAMBDA xs : GenericBinaryValue(c.op, xs[1], xs[2]))
         [] c.op = "select" -> GenericSelect(ts[1], ts[2], ts[3])
         [] c.op = "clamp" -> GenericClamp(ts, c.arg)
         [] c.op \in Reductions -> GenericReduce(c.op, ts[1])
         [] c.op = "cumsum" -> GenericCumsum(ts[1], c.arg)
         [] c.op = "select_k" -> GenericSelection(ts[1], c.arg)
         [] c.op = "gather" -> GenericGather(ts[1], ts[2], c.arg)
         [] c.op = "scatter" -> GenericScatter(c.arg.add, ts[1], ts[2], ts[3], c.arg.axis)
         [] c.op = "matmul" -> GenericMatmul(ts[1], ts[2])
         [] c.op = "conv_general" -> GenericConv(ts[1], ts[2], c.arg)

CpuForward(c) ==
    LET ts == c.operands
    IN CASE c.op \in Unary -> CpuUnary(ts[1], LAMBDA xs : UnaryValue(c.op, xs[1]))
         [] c.op \in {"scale", "pow"} -> CpuUnary(ts[1], LAMBDA xs : ScalarValue(c.op, xs[1], c.arg))
         [] c.op \in Arithmetic \cup Comparisons -> CpuBinary(ts[1], ts[2], LAMBDA xs : CpuBinaryValue(c.op, xs[1], xs[2]))
         [] c.op = "select" -> CpuSelect(ts[1], ts[2], ts[3])
         [] c.op = "clamp" -> CpuClamp(ts, c.arg)
         [] c.op \in Reductions -> CpuReduce(c.op, ts[1])
         [] c.op = "cumsum" -> CpuCumsum(ts[1], c.arg)
         [] c.op = "select_k" -> CpuSelection(ts[1], c.arg)
         [] c.op = "gather" -> CpuGather(ts[1], ts[2], c.arg)
         [] c.op = "scatter" -> CpuScatter(c.arg.add, ts[1], ts[2], ts[3], c.arg.axis)
         [] c.op = "matmul" -> CpuMatmul(ts[1], ts[2])
         [] c.op = "conv_general" -> CpuConv(ts[1], ts[2], c.arg)

(* The operands that get a gradient, in the order of the gradients.        *)
Slots(c) ==
    CASE c.op = "select" -> <<2, 3>>
      [] c.op = "scatter" -> <<1, 3>>
      [] c.op = "gather" -> <<1>>
      [] OTHER -> [i \in 1 .. Len(c.operands) |-> i]

Differentiable(c) == c.op \notin NotDifferentiable /\ ~(c.op = "select_k" /\ c.arg.indices)

(* The backward of each: it sees what the forward saved.                   *)
GenericBackward(c, ts, g) ==
    LET last(xs) == xs[Len(xs)]
    IN CASE c.op \in Unary -> GenericGradients(ts, g, 1, LAMBDA xs : <<Times(last(xs), GenericSlope(c.op, xs[1]))>>)
         [] c.op \in {"scale", "pow"} -> GenericGradients(ts, g, 1, LAMBDA xs : <<GenericScalarGradient(c.op, xs[1], c.arg, last(xs))>>)
         [] c.op \in Arithmetic -> GenericGradients(ts, g, 2, LAMBDA xs : GenericBinaryGradients(c.op, xs[1], xs[2], last(xs)))
         [] c.op = "select" -> Tail(GenericGradients(ts, g, 3, LAMBDA xs : <<0>> \o GenericSelectGradients(xs[1], last(xs))))
         [] c.op = "clamp" -> GenericGradients(ts, g, Len(ts), LAMBDA xs : GenericClampGradients(xs, c.arg, last(xs)))
         [] c.op \in Reductions -> <<GenericReduceGradient(c.op, ts[1], g)>>
         [] c.op = "cumsum" -> <<GenericCumsumGradient(ts[1], g, c.arg)>>
         [] c.op = "select_k" -> <<GenericSelectionGradient(ts[1], c.arg, g)>>
         [] c.op = "gather" -> <<GenericGatherGradient(ts[1], ts[2], c.arg, g)>>
         [] c.op = "scatter" -> IF c.arg.add THEN GenericScatterAddGradients(ts[1], ts[2], ts[3], c.arg.axis, g)
                                ELSE GenericScatterGradients(ts[1], ts[2], ts[3], c.arg.axis, g)
         [] c.op = "matmul" -> GenericMatmulGradients(ts[1], ts[2], g)
         [] c.op = "conv_general" -> GenericConvGradients(ts[1], ts[2], c.arg, g)

CpuBackward(c, ts, g) ==
    LET last(xs) == xs[Len(xs)]
    IN CASE c.op = "relu" -> CpuGradients(ts, g, 1, LAMBDA xs : <<CpuReluGradient(xs[1], last(xs))>>)
         [] c.op \in Unary \ {"relu"} -> CpuGradients(ts, g, 1, LAMBDA xs : <<Times(last(xs), CpuSlope(c.op, xs[1]))>>)
         [] c.op = "scale" -> CpuGradients(ts, g, 1, LAMBDA xs : <<CpuScaleGradient(last(xs), c.arg)>>)
         [] c.op = "pow" -> CpuGradients(ts, g, 1, LAMBDA xs : <<CpuPowGradient(xs[1], c.arg, last(xs))>>)
         [] c.op \in Arithmetic -> CpuGradients(ts, g, 2, LAMBDA xs : CpuBinaryGradients(c.op, xs[1], xs[2], last(xs)))
         [] c.op = "select" -> Tail(CpuGradients(ts, g, 3, LAMBDA xs : <<0>> \o CpuSelectGradients(xs[1], last(xs))))
         [] c.op = "clamp" -> CpuGradients(ts, g, Len(ts), LAMBDA xs : CpuClampGradients(xs, c.arg, last(xs)))
         [] c.op \in Reductions -> <<CpuReduceGradient(c.op, ts[1], g)>>
         [] c.op = "cumsum" -> <<CpuCumsumGradient(ts[1], g, c.arg)>>
         [] c.op = "select_k" -> <<CpuSelectionGradient(ts[1], c.arg, g)>>
         [] c.op = "gather" -> <<CpuGatherGradient(ts[1], ts[2], c.arg, g)>>
         [] c.op = "scatter" -> CpuScatterGradients(c.arg.add, ts[1], ts[2], ts[3], c.arg.axis, g)
         [] c.op = "matmul" -> CpuMatmulGradients(ts[1], ts[2], g)
         [] c.op = "conv_general" -> CpuConvGradients(ts[1], ts[2], c.arg, g)
-----------------------------------------------------------------------------
TensorKernelsInit ==
    /\ \E family \in Calls : call \in family
    /\ made = [c \in Carriers |-> Pending]
    /\ given = [c \in Carriers |-> <<>>]

Compute(carrier) ==
    /\ made[carrier] = Pending
    /\ made' = [made EXCEPT ![carrier] = IF carrier = "generic" THEN GenericForward(call) ELSE CpuForward(call)]
    /\ UNCHANGED <<call, given>>

(* The cotangent is laid out like the result: a number for each element    *)
(* that halves, thirds and quarters divide.                                *)
Cotangent(out) == Placed(out.modes, [k \in 0 .. Size(out.modes) - 1 |-> 12 * (k + 1)])

Differentiate(carrier) ==
    /\ made[carrier].ok /\ Differentiable(call) /\ given[carrier] = <<>>
    /\ LET g == Cotangent(made[carrier].out)
           ts == made[carrier].saved
       IN given' = [given EXCEPT ![carrier] = IF carrier = "generic" THEN GenericBackward(call, ts, g) ELSE CpuBackward(call, ts, g)]
    /\ UNCHANGED <<call, made>>

TensorKernelsNext == \E carrier \in Carriers : Compute(carrier) \/ Differentiate(carrier)
TensorKernelsSpec == TensorKernelsInit /\ [][TensorKernelsNext]_kernelVars
-----------------------------------------------------------------------------
(* Carriers.                                                               *)

Values(t) == {Element(t, k) : k \in DOMAIN Elements(t)}

(* Zeros of both signs, and the NaN of a sum, are one number.              *)
Same(x, y) == x = y \/ Equal(x, y)

(* reduce_max of the CPU carrier gives +0 for zeros of either sign,        *)
(* reduce_min -0, and its gradient of abs at NaN is 0.                     *)
SignsDiffer == call.op \in {"reduce_max", "reduce_min"}
NaNSlope == call.op = "abs" /\ NaN \in Values(call.operands[1])

(* Where the upper bound of a clamp is NaN its gradient is NaN; the CPU    *)
(* carrier still returns 0 to the side that the lower bound left out.      *)
NaNCap == /\ call.op = "clamp"
          /\ call.arg.high = <<NaN>> \/ (call.arg.high = <<>> /\ NaN \in Values(call.operands[Len(call.operands)]))
SameGradient(x, y) == x = y \/ (NaNCap /\ x = NaN /\ y = 0)

(* The carriers refuse the same calls, answer the same elements in tensors *)
(* of one shape, and return the same gradients, one per slot and laid out  *)
(* alike, although one goes by ordinals and the other by keys and through  *)
(* padded, nested, transposed and broadcast layouts.                       *)
KernelsAgree ==
    LET a == made["generic"]
        b == made["cpu"]
    IN Pending \notin {a, b} =>
         /\ \A c \in Carriers : given[c] # <<>> => Len(given[c]) = Len(Slots(call))
         /\ a.ok = b.ok
         /\ a.ok => /\ SameShape(a.out.modes, b.out.modes)
                    /\ \A k \in DOMAIN Elements(a.out) :
                          LET x == Element(a.out, k)
                              y == Element(b.out, k)
                          IN IF SignsDiffer THEN Same(x, y) ELSE x = y
         /\ <<>> \notin {given[c] : c \in Carriers} /\ ~NaNSlope =>
              \A i \in 1 .. Len(Slots(call)) :
                 /\ given["generic"][i].modes = given["cpu"][i].modes
                 /\ \A k \in DOMAIN Elements(given["generic"][i]) :
                       SameGradient(Element(given["generic"][i], k), Element(given["cpu"][i], k))

(* "MAXIMUM and MINIMUM SHALL apply the reference Float32 NaN and          *)
(* signed-zero rules in logical order" (operation-dtype-policy).           *)
ZerosFollowReference ==
    (call.op \in {"reduce_max", "reduce_min"} /\ \A c \in Carriers : made[c].ok) =>
        Elements(made["generic"].out) = Elements(made["cpu"].out)
-----------------------------------------------------------------------------
(* Derivatives.                                                            *)
Step == 2
Changed(t, n, delta) == Placed(Canonical(t.modes), [k \in 0 .. Size(t.modes) - 1 |-> Element(t, k) + (IF k = n THEN delta ELSE 0)])

(* Twice the step times the change of the answer, weighed by the cotangent,*)
(* when one element of a saved operand moves.                              *)
Change(ts, i, n) ==
    LET answer(delta) == GenericForward([call EXCEPT !.operands = [ts EXCEPT ![i] = Changed(ts[i], n, delta)]]).out
        up == answer(Step)
        down == answer(-Step)
    IN SumOver(0 .. Size(up.modes) - 1, LAMBDA k : 12 * (k + 1) * (Element(up, k) - Element(down, k)))

(* Where a call is not locally linear or quadratic: a quotient by its      *)
(* divisor, the sign or the slope at zero, equal values that a sort tells  *)
(* apart by their order, more than two equal extremes, a clamp to a point. *)
Ties(t, x) == Cardinality({k \in DOMAIN Elements(t) : Equal(Element(t, k), x)})
Smooth(i) ==
    LET ts == call.operands
    IN /\ \A j \in 1 .. Len(ts) : {NaN, NegativeZero} \cap Values(ts[j]) = {}
       /\ call.op \in {"sign", "relu"} => 0 \notin Values(ts[1])
       /\ call.op = "div" => i = 1
       /\ call.op = "select_k" => \A x \in Values(ts[1]) : Ties(ts[1], x) = 1
       /\ call.op \in {"reduce_max", "reduce_min"} => \A x \in Values(ts[1]) : Ties(ts[1], x) <= 2
       /\ call.op = "clamp" => <<NaN>> \notin {call.arg.low, call.arg.high} /\ call.arg.low # call.arg.high

(* What the reference returns is the derivative of what it computes, by    *)
(* every element of every operand, each as if it were stored on its own;   *)
(* and a gradient is laid out as its operand, or in order when elements of *)
(* the operand share storage.                                              *)
KernelsAdjoint ==
    given["generic"] # <<>> =>
        LET ts == made["generic"].saved
        IN \A s \in 1 .. Len(Slots(call)) :
              LET i == Slots(call)[s]
                  g == given["generic"][s]
              IN /\ g.modes = OwnLayout(ts[i].modes)
                 /\ Smooth(i) => \A n \in DOMAIN Elements(ts[i]) : 2 * Step * Element(g, n) = Change(ts, i, n)
=============================================================================
