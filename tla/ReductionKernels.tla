--------------------------- MODULE ReductionKernels ---------------------------
(***************************************************************************)
(* The reductions of the second mode of a tensor and the running sums      *)
(* along a mode: carriers/generic/reduction_ops.py and execution.py,       *)
(* carriers/cpu/native/_cpu_reduction.hpp, ops/reduce_sum.cpp and          *)
(* ops/cumsum.cpp.                                                         *)
(***************************************************************************)
EXTENDS PointwiseKernels
LOCAL INSTANCE SequencesExt

Folded(f(_, _), first, values) == FoldLeft(LAMBDA a, v : f(a, v), first, values)
Kept(ms) == Canonical(Mode(ms[1]))
Rows(ms) == Size(Mode(ms[1]))
Columns(ms) == Size(Mode(ms[2]))

(* A fiber, without the j-th element when j is one of it.                  *)
Fiber(t, i, j) == LET others == SelectSeq([k \in 1 .. Columns(t.modes) |-> k - 1], LAMBDA k : k # j)
                  IN [k \in 1 .. Len(others) |-> ElementAt(t, <<i, others[k]>>)]
KeyFiber(t, i, j) == LET others == SelectSeq([k \in 1 .. Columns(t.modes) |-> k - 1], LAMBDA k : k # j)
                     IN [k \in 1 .. Len(others) |-> ReadAt(t, <<i, others[k]>>)]
All == -1
-----------------------------------------------------------------------------
(* Generic.                                                                *)
Sum(values) == Folded(Plus, 0, values)
Prod(values) == Folded(Times, 1, values)

(* extrema_total: the first NaN, or the first winner, except that a zero   *)
(* of the right sign beats the other one.                                  *)
PrefersZero(max, v, w) ==
    /\ Number(v) = 0 /\ Number(w) = 0
    /\ IF max THEN v = 0 /\ w = NegativeZero ELSE v = NegativeZero /\ w = 0
Total1(max, values) ==
    Folded(LAMBDA w, v : IF w = NaN THEN w
                         ELSE IF v = NaN THEN v
                         ELSE IF (IF max THEN Above(v, w) ELSE Above(w, v)) \/ PrefersZero(max, v, w) THEN v ELSE w,
           Head(values), Tail(values))

(* _select_arg *)
Arg(max, values) ==
    Folded(LAMBDA w, k : IF values[w] = NaN THEN w
                         ELSE IF values[k] = NaN \/ (IF max THEN Above(values[k], values[w]) ELSE Above(values[w], values[k]))
                         THEN k ELSE w,
           1, [k \in 1 .. Len(values) |-> k]) - 1

Combined(op, values) ==
    CASE op = "reduce_sum" -> Sum(values)
      [] op = "reduce_prod" -> Prod(values)
      [] op \in {"reduce_max", "reduce_min"} -> Total1(op = "reduce_max", values)
      [] op \in {"argmax", "argmin"} -> Arg(op = "argmax", values)

(* _reduce_forward *)
GenericReduce(op, t) ==
    IF Len(t.modes) # 2 THEN Refused
    ELSE Answer(Placed(Kept(t.modes), [i \in 0 .. Rows(t.modes) - 1 |-> Combined(op, Fiber(t, i, All))]), <<t>>)

(* The backward of each: a gradient for the element j of the fiber i.      *)
GenericSumGradient(g, i) == Element(g, i)
GenericProdGradient(t, g, i, j) == Times(Element(g, i), Prod(Fiber(t, i, j)))
GenericExtremeGradient(max, t, g, i, j) ==
    LET values == Fiber(t, i, All)
        result == Total1(max, values)
        winners == SelectSeq(values, LAMBDA v : Equal(v, result))
    IN IF result = NaN THEN NaN
       ELSE IF Equal(ElementAt(t, <<i, j>>), result) THEN Element(g, i) \div Len(winners) ELSE 0

GenericReduceGradient(op, t, g) ==
    LET n == Rows(t.modes)
        each(i, j) == CASE op = "reduce_sum" -> GenericSumGradient(g, i)
                        [] op = "reduce_prod" -> GenericProdGradient(t, g, i, j)
                        [] OTHER -> GenericExtremeGradient(op = "reduce_max", t, g, i, j)
    IN Detached(t.modes, [k \in 0 .. Size(t.modes) - 1 |-> each(k % n, k \div n)])

(* _fiber_keys: the elements along the axis, the other modes fixed.        *)
Along(sizes, axis, k, positions) == [p \in 1 .. Len(positions) |-> [ModeOrdinals(sizes, k) EXCEPT ![axis] = positions[p]]]
UpTo(sizes, axis, k) == [p \in 1 .. Digit(sizes, axis, k) + 1 |-> p - 1]

(* Mutant: the gradient runs the same way as the sums.                     *)
DownToFirst(sizes, axis, k) == UpTo(sizes, axis, k)

DownTo(sizes, axis, k) == [p \in 1 .. sizes[axis] - Digit(sizes, axis, k) |-> sizes[axis] - p]

GenericCumsum(t, axis) ==
    LET sizes == ModeExtents(t.modes)
        keys(k) == Along(sizes, axis, k, UpTo(sizes, axis, k))
    IN IF axis > Len(t.modes) THEN Refused
       ELSE Answer(Placed(Canonical(t.modes),
                          [k \in 0 .. Size(t.modes) - 1 |-> Folded(LAMBDA a, ns : Plus(a, ElementAt(t, ns)), 0, keys(k))]), <<t>>)
GenericCumsumGradient(t, g, axis) ==
    LET sizes == ModeExtents(t.modes)
        keys(k) == Along(sizes, axis, k, DownTo(sizes, axis, k))
    IN Detached(t.modes, [k \in 0 .. Size(t.modes) - 1 |-> Folded(LAMBDA a, ns : Plus(a, ElementAt(g, ns)), 0, keys(k))])
-----------------------------------------------------------------------------
(* CPU.                                                                    *)

(* cpu_reduce_max_value, cpu_reduce_min_value                              *)
CpuBest(max, x, y) ==
    IF x = NaN \/ y = NaN THEN NaN
    ELSE IF Equal(x, y) /\ Equal(x, 0) THEN (IF max THEN 0 ELSE NegativeZero)
    ELSE IF max THEN (IF Above(x, y) THEN x ELSE y) ELSE (IF Above(y, x) THEN x ELSE y)
CpuExtreme(max, values) == Folded(LAMBDA a, v : CpuBest(max, a, v), Head(values), Tail(values))

CpuArg(max, values) ==
    Folded(LAMBDA best, k :
              LET nan(n) == values[n] = NaN
              IN IF \/ nan(k) /\ ~nan(best)
                    \/ nan(k) = nan(best) /\ (IF max THEN Above(values[k], values[best]) ELSE Above(values[best], values[k]))
                 THEN k ELSE best,
           1, [k \in 1 .. Len(values) |-> k]) - 1

CpuCombined(op, values) ==
    CASE op = "reduce_sum" -> Sum(values)
      [] op = "reduce_prod" -> Prod(values)
      [] op \in {"reduce_max", "reduce_min"} -> CpuExtreme(op = "reduce_max", values)
      [] op \in {"argmax", "argmin"} -> CpuArg(op = "argmax", values)

(* CpuFloatReductionOperation and CpuReduceSumOperation: rows in the order *)
(* of the first mode, each into the next key of the result.                *)
CpuReduce(op, t) ==
    IF Len(t.modes) # 2 THEN Refused
    ELSE LET row(key) == OrdinalOf(Extents(Kept(t.modes)), key)
         IN Answer(Written(Kept(t.modes), LAMBDA key : CpuCombined(op, KeyFiber(t, row(key), All))), <<t>>)

CpuSumGradient(g, i) == Read(g, KeyOf(g.modes, i))
CpuFloatReductionGradient(op, t, g, i, j) ==
    LET given == Read(g, KeyOf(g.modes, i))
        values == KeyFiber(t, i, All)
        reduced == CpuExtreme(op = "reduce_max", values)
        winners == SelectSeq(values, LAMBDA v : Equal(v, reduced))
    IN IF op = "reduce_prod" THEN Times(given, Prod(KeyFiber(t, i, j)))
       ELSE IF reduced = NaN THEN NaN
       ELSE IF Equal(ReadAt(t, <<i, j>>), reduced) THEN given \div Len(winners) ELSE 0

CpuReduceGradient(op, t, g) ==
    WrittenByMode(OwnLayout(t.modes), LAMBDA ns : IF op = "reduce_sum" THEN CpuSumGradient(g, ns[1])
                                                 ELSE CpuFloatReductionGradient(op, t, g, ns[1], ns[2]))

CpuCumsum(t, axis) ==
    LET run(ns) == Folded(LAMBDA a, p : Plus(a, ReadAt(t, [ns EXCEPT ![axis] = p - 1])), 0, [p \in 1 .. ns[axis] + 1 |-> p])
    IN IF axis > Len(t.modes) THEN Refused ELSE Answer(WrittenByMode(Canonical(t.modes), run), <<t>>)
CpuCumsumGradient(t, g, axis) ==
    LET extent == Size(Mode(t.modes[axis]))
        run(ns) == Folded(LAMBDA a, p : Plus(a, ReadAt(g, [ns EXCEPT ![axis] = extent - p])), 0, [p \in 1 .. extent - ns[axis] |-> p])
    IN WrittenByMode(OwnLayout(t.modes), run)
=============================================================================
