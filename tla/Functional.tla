------------------------------- MODULE Functional -------------------------------
(***************************************************************************)
(* Calls of the functions on tensors (functional/api.py, einops, friendly, *)
(* nn): each is lowered to operations of the carriers, which are performed *)
(* in order, recorded, and gone back through with a cotangent.             *)
(***************************************************************************)
EXTENDS TensorViews, TensorKernels, Descriptions
LOCAL INSTANCE SequencesExt
LOCAL INSTANCE FiniteSetsExt

CONSTANT Requests        \* a set of sets of calls: [name, operands, arg]

VARIABLES request,       \* the call
          held,          \* its operands and what each operation returned
          recorded,      \* the operations performed
          owed,          \* the cotangent of each of the held tensors
          phase          \* "forward", "returned", "refused", "backward", "done" or "rejected"

functionalVars == <<request, held, recorded, owed, phase>>

Do(op, ins, arg) == [op |-> op, ins |-> ins, arg |-> arg]
Raises == <<Do("raise", <<1>>, 0)>>
PlannedIf(ok, plan) == IF ok THEN plan ELSE Raises

(* Operand i, and what the j-th operation returned, among the held.        *)
Made(r, j) == Len(r.operands) + j
ModesOf(r, i) == r.operands[i].modes
Rank(r) == Len(ModesOf(r, 1))
-----------------------------------------------------------------------------
(* Calls that dispatch one operation of the carrier.                       *)
Sums == {"add", "sub", "neg", "elementwise_mul", "mul", "div"}
Extremes == {"maximum", "minimum", "rem"}
Predicates == {"eq", "ne", "lt", "le"}
Roots == {"logical_not", "exp", "abs", "sign", "recip", "sqrt"}
Waves == {"rsqrt", "exp2", "log", "log2", "sin", "cos"}
Roundings == {"erf", "floor", "ceil", "round"}
Gates == {"relu", "sigmoid", "tanh", "gelu"}
SmoothGates == {"silu", "softplus", "elu", "leaky_relu"}
Dispatched == Sums \cup Extremes \cup Predicates \cup Roots \cup Waves \cup Roundings \cup Gates \cup SmoothGates

(* Functions that are not evaluated: a value is the name with the argument.*)
Unevaluated == (Roots \cup Waves \cup Roundings \cup Gates \cup SmoothGates) \ Unary

(* _dispatch_unary, _dispatch_binary, _dispatch_ternary: all the operands. *)
Dispatch(op, r, arg) == <<Do(op, [i \in 1 .. Len(r.operands) |-> i], arg)>>

(* mul and pow: with a tensor or with a number.                            *)
MulPlan(r) == IF Len(r.operands) = 2 THEN Dispatch("mul", r, 0) ELSE Dispatch("scale", r, r.arg)
PowPlan(r) == IF Len(r.operands) = 2 THEN Dispatch("power", r, 0) ELSE Dispatch("pow", r, r.arg)

(* A condition and two tensors; a tensor and bounds; rows with rows.       *)
SelectPlan(r) == Dispatch("select", r, 0)
ClampPlan(r) == Dispatch("clamp", r, r.arg)
MatmulPlan(r) == Dispatch("matmul", r, 0)

(* gt and ge exchange the operands of lt and le.                           *)
SwappedPlan(r) == <<Do(IF r.name = "gt" THEN "lt" ELSE "le", <<2, 1>>, 0)>>

(* _normalize_top_level_axis: negative from the end; 0 when out of range.  *)
Axis(n, rank) == IF n \in 0 .. rank - 1 THEN n + 1 ELSE IF n \in -rank .. -1 THEN n + rank + 1 ELSE 0
OnAxis(op, r, n, arg(_)) == PlannedIf(Axis(n, Rank(r)) # 0, Dispatch(op, r, arg(Axis(n, Rank(r)))))

GatherPlan(r) == OnAxis("gather", r, r.arg, LAMBDA a : a)
ScatterPlan(r) == OnAxis("scatter", r, r.arg, LAMBDA a : [add |-> FALSE, axis |-> a])
ScatterAddPlan(r) == OnAxis("scatter", r, r.arg, LAMBDA a : [add |-> TRUE, axis |-> a])
CumsumPlan(r) == OnAxis("cumsum", r, r.arg, LAMBDA a : a)

(* sort and topk dispatch one operation for the values and one for the     *)
(* indices.                                                                *)
Selections(r, count, largest) ==
    LET a == Axis(r.arg.axis, Rank(r))
        pick(indices) == Do("select_k", <<1>>, [axis |-> a, count |-> count, largest |-> largest, indices |-> indices])
    IN PlannedIf(a # 0, <<pick(FALSE), pick(TRUE)>>)
SortPlan(r) == Selections(r, 0, r.arg.descending)
TopkPlan(r) == PlannedIf(r.arg.k >= 1, Selections(r, r.arg.k, r.arg.largest))
-----------------------------------------------------------------------------
(* Calls with a description.                                               *)
RearrangePlan(r) ==
    LET spec == RearrangeSpec(r.arg)
    IN PlannedIf(spec.ok, <<Do("rearrange", <<1>>, <<spec.output, spec.selection>>)>>)

(* einops.reduce rearranges and sums the second mode away; the reductions  *)
(* by name (_reduce_description) rearrange only a layout that changes.     *)
SecondMode(op, r, spec) == PlannedIf(spec.ok, <<Do("rearrange", <<1>>, <<spec.output, spec.selection>>), Do(op, <<Made(r, 1)>>, 0)>>)
EinopsReducePlan(r) == SecondMode("reduce_sum", r, ReduceSpec(r.arg))
Maintains(ms, spec) == RearrangedLayout(ms, spec.output, spec.selection) = ms
DescribedBy(op, r, spec) ==
    IF spec.ok /\ Maintains(ModesOf(r, 1), spec) THEN <<Do(op, <<1>>, 0)>> ELSE SecondMode(op, r, spec)
Described(op, r) == DescribedBy(op, r, ReduceSpec(r.arg))
ReducePlan(r) == Described(r.name, r)

(* _validate_einsum_shared_symbol_sizes *)
SharedSizesAgree(r, spec) ==
    /\ \A i \in 1 .. 2 : Matches(ModesOf(r, i), spec.selections[i])
    /\ \A n \in 1 .. Len(spec.shared) :
          Size(Selected(ModesOf(r, 1), spec.selections[1])[spec.shared[n][1]])
            = Size(Selected(ModesOf(r, 2), spec.selections[2])[spec.shared[n][2]])
Contract(r, spec) ==
    LET at(j) == Made(r, j)
        aligned == [i \in 1 .. 2 |-> Do("rearrange", <<i>>, <<spec.operands[i], spec.selections[i]>>)]
        joined == Append(aligned, Do(IF spec.batched THEN "elementwise_mul" ELSE "matmul", <<at(1), at(2)>>, 0))
        twoModes == <<Node(spec.output), Node(spec.contracted)>>
        summed == spec.batched /\ spec.contracted # <<>>
    IN PlannedIf(spec.ok /\ SharedSizesAgree(r, spec),
                 IF summed THEN joined \o <<Do("rearrange", <<at(3)>>, <<twoModes, spec.product>>), Do("reduce_sum", <<at(4)>>, 0)>>
                 ELSE Append(joined, Do("rearrange", <<at(3)>>, <<spec.output, spec.product>>)))
EinsumPlan(r) == Contract(r, EinsumSpec(r.arg))
-----------------------------------------------------------------------------
Identity(n) == [i \in 1 .. n |-> i]

(* Mutant: from right to left.                                             *)
FromTheRight(target, dims) ==
    SelectSeq([n \in 1 .. Len(target) |-> Len(target) + 1 - n], LAMBDA d : \A i \in 1 .. Len(dims) : dims[i] # d)

(* broadcast_in_dim: insert the modes that the positions leave out, from   *)
(* left to right, then broadcast.  Positions count from one.               *)
LeftOut(target, dims) == SelectSeq(Identity(Len(target)), LAMBDA d : \A i \in 1 .. Len(dims) : dims[i] # d)
BroadcastInDimPlan(r) ==
    LET target == r.arg.target
        dims == r.arg.dims
        inserted == LeftOut(target, dims)
        from(j) == IF j = 1 THEN 1 ELSE Made(r, j - 1)
    IN PlannedIf(/\ Len(dims) = Rank(r)
                 /\ \A i \in 1 .. Len(dims) : dims[i] \in 1 .. Len(target)
                 /\ \A i \in 2 .. Len(dims) : dims[i - 1] < dims[i],
                 Append([j \in 1 .. Len(inserted) |-> Do("unsqueeze", <<from(j)>>, inserted[j])],
                        Do("broadcast_to", <<from(Len(inserted) + 1)>>, target)))

(* conv_general: modes named by permutations; the operation gets them in   *)
(* the order of their roles.                                               *)
IsPermutation(order, n) == Len(order) = n /\ {order[i] : i \in 1 .. Len(order)} = 1 .. n
ConvPlan(r) ==
    LET n == Rank(r)
        m == Len(ModesOf(r, 2))
        conv == [strides |-> r.arg.strides, padding |-> r.arg.padding, spread |-> r.arg.spread, dilation |-> r.arg.dilation,
                 groups |-> r.arg.groups, xs |-> Identity(n), ws |-> Identity(m)]
        whole == <<Do("permute", <<1>>, r.arg.lhs), Do("permute", <<2>>, r.arg.kernel),
                   Do("conv_general", <<Made(r, 1), Made(r, 2)>>, conv)>>
    IN PlannedIf(IsPermutation(r.arg.lhs, n) /\ IsPermutation(r.arg.kernel, m) /\ IsPermutation(r.arg.output, n),
                 IF r.arg.output = Identity(n) THEN whole ELSE Append(whole, Do("permute", <<Made(r, 3)>>, r.arg.output)))
-----------------------------------------------------------------------------
(* friendly: sum and mean of a flat tensor, by a description that keeps    *)
(* nothing.                                                                *)
IsFlat(ms) == \A i \in 1 .. Len(ms) : AtLeaf(ms[i])
SumPlan(r) ==
    LET n == Rank(r)
    IN PlannedIf(IsFlat(ModesOf(r, 1)), Described("reduce_sum", [r EXCEPT !.arg = SubSeq(<<"a", "b", "c">>, 1, n) \o <<"->", "1">>]))
Divided(r, sum) == IF sum = Raises THEN Raises ELSE Append(sum, Do("shrink", <<Made(r, Len(sum))>>, Size(ModesOf(r, 1))))
MeanPlan(r) ==
    Divided(r, SumPlan(r))

(* nn.Linear: an input, a weight and perhaps a bias in one column.         *)
Flat2(ms) == Len(ms) = 2 /\ IsFlat(ms)
LinearPlan(r) ==
    LET product == <<Do("matmul", <<1, 2>>, 0)>>
        shape == <<ModesOf(r, 1)[1], ModesOf(r, 2)[1]>>
        at(j) == Made(r, j)
    IN PlannedIf(Flat2(ModesOf(r, 1)) /\ Columns(ModesOf(r, 1)) = Columns(ModesOf(r, 2)),
                 IF Len(r.operands) = 2 THEN product
                 ELSE product \o <<Do("permute", <<3>>, <<2, 1>>), Do("broadcast_to", <<at(2)>>, shape), Do("add", <<at(1), at(3)>>, 0)>>)

(* nn.MSELoss: the mean of the squared differences.                        *)
Later(plan, n) == [j \in 1 .. Len(plan) |-> [plan[j] EXCEPT !.ins = <<@[1] + n>>]]
MSELossPlan(r) ==
    LET squared == [r EXCEPT !.operands = <<[@[1] EXCEPT !.modes = Canonical(@)]>>]
    IN PlannedIf(Flat2(ModesOf(r, 1)) /\ ModesOf(r, 1) = ModesOf(r, 2),
                 <<Do("sub", <<1, 2>>, 0), Do("pow", <<Made(r, 1)>>, 2)>> \o Later(MeanPlan(squared), 3))
-----------------------------------------------------------------------------
Plan(r) ==
    CASE r.name = "mul" -> MulPlan(r)
      [] r.name = "pow" -> PowPlan(r)
      [] r.name \in Dispatched \ {"mul"} -> Dispatch(r.name, r, 0)
      [] r.name \in {"gt", "ge"} -> SwappedPlan(r)
      [] r.name = "select" -> SelectPlan(r)
      [] r.name = "clamp" -> ClampPlan(r)
      [] r.name = "matmul" -> MatmulPlan(r)
      [] r.name \in {"broadcast_to", "permute", "reshape", "tensor"} -> Dispatch(r.name, r, r.arg)
      [] r.name = "unsqueeze" -> Dispatch("unsqueeze", r, Axis(r.arg, Rank(r) + 1))
      [] r.name = "squeeze" -> Dispatch("squeeze", r, Axis(r.arg, Rank(r)))
      [] r.name = "gather" -> GatherPlan(r)
      [] r.name = "scatter" -> ScatterPlan(r)
      [] r.name = "scatter_add" -> ScatterAddPlan(r)
      [] r.name = "cumsum" -> CumsumPlan(r)
      [] r.name = "sort" -> SortPlan(r)
      [] r.name = "topk" -> TopkPlan(r)
      [] r.name = "rearrange" -> RearrangePlan(r)
      [] r.name = "reduce" -> EinopsReducePlan(r)
      [] r.name \in Reductions -> ReducePlan(r)
      [] r.name = "einsum" -> EinsumPlan(r)
      [] r.name = "broadcast_in_dim" -> BroadcastInDimPlan(r)
      [] r.name = "conv_general" -> ConvPlan(r)
      [] r.name = "sum" -> SumPlan(r)
      [] r.name = "mean" -> MeanPlan(r)
      [] r.name = "linear" -> LinearPlan(r)
      [] r.name = "mse_loss" -> MSELossPlan(r)
-----------------------------------------------------------------------------
(* Performing an operation.                                                *)
OfViews == {"broadcast_to", "reshape", "unsqueeze", "squeeze", "rearrange", "permute"}
CanSqueeze(ms, dim) == dim \in 1 .. Len(ms) /\ Len(ms) > 1 /\ AtLeaf(ms[dim]) /\ ms[dim].s = 1
ViewTaken(op, arg, ms) ==
    CASE op = "rearrange" -> RearrangedLayout(ms, arg[1], arg[2])
      [] op = "permute" -> IF IsPermutation(arg, Len(ms)) THEN RearrangedLayout(ms, PermuteTree(arg), Flat(Len(ms))) ELSE Failed
      [] op = "reshape" -> Reshaped(ms, arg)
      [] op = "squeeze" -> IF CanSqueeze(ms, arg) THEN RearrangedLayout(ms, SqueezeTree(Len(ms), arg), Flat(Len(ms))) ELSE Failed
      [] op = "unsqueeze" -> IF arg \in 1 .. Len(ms) + 1 THEN RearrangedLayout(ms, UnsqueezeTree(Len(ms), arg), Flat(Len(ms))) ELSE Failed
      [] op = "broadcast_to" -> IF CanWiden(ms, arg) THEN Widened(ms, arg) ELSE Failed

On(carrier, t) == [modes |-> t.modes, cells |-> t.cells, carrier |-> carrier]

(* friendly.tensor: numbers in nested lists, the outermost first, written  *)
(* to coordinates counted from the last mode of a CPU tensor in order.     *)
IsList(v) == "items" \in DOMAIN v
RECURSIVE Inferred(_)
Inferred(v) == IF ~IsList(v) THEN <<>> ELSE IF v.items = <<>> THEN <<0>> ELSE <<Len(v.items)>> \o Inferred(v.items[1])
Ragged == [items |-> <<>>]
RECURSIVE Flattened(_, _)
Flattened(v, extents) ==
    LET parts == [i \in 1 .. Len(v.items) |-> Flattened(v.items[i], Tail(extents))]
    IN IF extents = <<>> THEN <<v>>
       ELSE IF ~IsList(v) THEN <<Ragged>>
       ELSE IF Len(v.items) # extents[1] THEN <<Ragged>>
       ELSE FlattenSeq(parts)
Advanced(coordinate, extents) ==
    LET open == {a \in 1 .. Len(extents) : coordinate[a] + 1 < extents[a]}
        axis == IF open = {} THEN 0 ELSE Max(open)
    IN [a \in 1 .. Len(extents) |-> IF a < axis THEN coordinate[a] ELSE IF a = axis THEN coordinate[a] + 1 ELSE 0]
ColumnMajor(extents) == Canonical([a \in 1 .. Len(extents) |-> Leaf(extents[a], 0)])
Created(values) ==
    LET extents == Inferred(values)
        flattened == Flattened(values, extents)
        ms == ColumnMajor(extents)
        write(t, v) == [at |-> Advanced(t.at, extents), cells |-> [t.cells EXCEPT ![Offset(ms, OrdinalOf(extents, t.at))] = v.value]]
    IN IF extents = <<>> \/ (\E i \in 1 .. Len(extents) : extents[i] = 0)
            \/ (\E i \in 1 .. Len(flattened) : IsList(flattened[i])) THEN Refused
       ELSE Answer(On("cpu", [modes |-> ms, cells |-> FoldLeft(write, [at |-> [a \in 1 .. Len(extents) |-> 0],
                                                                       cells |-> [a \in 0 .. Cosize(ms) - 1 |-> 0]], flattened).cells]), <<>>)

(* The kernels of the carrier of the operands.                             *)
KernelOf(op) == IF op = "elementwise_mul" THEN "mul" ELSE op
KernelCall(step, ts) == [op |-> KernelOf(step.op), operands |-> ts, arg |-> step.arg]
Computed(carrier, step, ts) ==
    CASE step.op \in Unevaluated -> GenericUnary(ts[1], LAMBDA xs : <<step.op, xs[1]>>)
      [] step.op = "power" -> GenericBinary(ts[1], ts[2], LAMBDA xs : <<step.op, xs[1], xs[2]>>)
      [] step.op = "shrink" -> GenericUnary(ts[1], LAMBDA xs : Over(xs[1], step.arg))
      [] OTHER -> IF carrier = "generic" THEN GenericForward(KernelCall(step, ts)) ELSE CpuForward(KernelCall(step, ts))

Answered(carrier, done) == IF done.ok THEN Answer(On(carrier, done.out), done.saved) ELSE Refused
Performed(step, ts) ==
    LET carrier == IF ts = <<>> THEN "cpu" ELSE ts[1].carrier
        seen == ViewTaken(step.op, step.arg, ts[1].modes)
    IN IF step.op = "tensor" THEN Created(step.arg)
       ELSE IF step.op = "raise" \/ \E i \in 1 .. Len(ts) : ts[i].carrier # carrier THEN Refused
       ELSE IF step.op \in OfViews THEN IF seen = Failed THEN Refused ELSE Answer([ts[1] EXCEPT !.modes = seen], ts)
       ELSE Answered(carrier, Computed(carrier, step, ts))

FunctionalInit ==
    /\ \E family \in Requests : request \in family
    /\ held = request.operands /\ recorded = <<>> /\ owed = <<>> /\ phase = "forward"

(* The next operation of a plan: its result is held, or the call refused.  *)
Inputs(step) == [i \in 1 .. Len(step.ins) |-> held[step.ins[i]]]
Record(step, result, last) ==
    IF ~result.ok THEN phase' = "refused" /\ UNCHANGED <<held, recorded>>
    ELSE /\ held' = Append(held, result.out)
         /\ recorded' = Append(recorded, [step |-> step, saved |-> result.saved])
         /\ phase' = IF last THEN "returned" ELSE "forward"
PerformOf(plan) ==
    LET n == Len(recorded) + 1 IN Record(plan[n], Performed(plan[n], Inputs(plan[n])), n = Len(plan))
Perform ==
    /\ phase = "forward"
    /\ PerformOf(Plan(request))
    /\ UNCHANGED <<request, owed>>

(* Gradients.  What an operation returns for each of its operands; one     *)
(* that it broadcast gets its own back through the broadcast.              *)
TapeEntry(step, input, output) ==
    [op |-> step.op, input |-> input, output |-> output,
     arg |-> CASE step.op = "unsqueeze" -> UnsqueezeTree(Len(input), step.arg)
               [] step.op = "squeeze" -> SqueezeTree(Len(input), step.arg)
               [] OTHER -> step.arg]
Narrowed(input, saved, g) == IF saved.modes = input THEN g ELSE Detached(input, BroadcastGradient([input |-> input, arg |-> saved.modes], g))
StepSlots(step) == IF step.op = "shrink" THEN <<1>> ELSE Slots(KernelCall(step, step.ins))
KernelReturns(carrier, step, saved, g) ==
    IF step.op = "shrink" THEN GenericGradients(saved, g, 1, LAMBDA xs : <<Over(xs[2], step.arg)>>)
    ELSE IF carrier = "generic" THEN GenericBackward(KernelCall(step, saved), saved, g) ELSE CpuBackward(KernelCall(step, saved), saved, g)
EachNarrowed(slots, inputs, saved, kernel) == [s \in 1 .. Len(kernel) |-> Narrowed(inputs[slots[s]].modes, saved[slots[s]], kernel[s])]
ReturnedBy(entry, inputs, output, g) ==
    IF entry.step.op \in OfViews THEN <<InputGradient(TapeEntry(entry.step, inputs[1].modes, output.modes), g)>>
    ELSE EachNarrowed(StepSlots(entry.step), inputs, entry.saved, KernelReturns(output.carrier, entry.step, entry.saved, g))

HasGradient(step) == step.op \in OfViews \cup {"shrink"} \/ (step.op \notin Unevaluated \cup {"power", "tensor"} /\ Differentiable(KernelCall(step, step.ins)))

BeginBackward ==
    /\ phase = "returned" /\ \A n \in 1 .. Len(recorded) : HasGradient(recorded[n].step)
    /\ owed' = [i \in 1 .. Len(held) |->
                  IF i = Len(held) THEN Detached(held[i].modes, [k \in 0 .. Size(held[i].modes) - 1 |-> 12 * (k + 1)]) ELSE <<>>]
    /\ phase' = "backward"
    /\ UNCHANGED <<request, held, recorded>>

(* Back through the operation that made a tensor: it may reject the        *)
(* cotangent, and so may an operand what is returned for it.               *)
StepAccepts(step, at) == step.op \in OfViews => Accepts(TapeEntry(step, held[step.ins[1]].modes, held[at].modes), owed[at])
GiveBack(step, at, slots, gradients) ==
    LET for(i) == {s \in 1 .. Len(slots) : step.ins[slots[s]] = i}
    IN IF \E s \in 1 .. Len(slots) : ~ValidFor(held[step.ins[slots[s]]].modes, gradients[s])
       THEN phase' = "rejected" /\ UNCHANGED owed
       ELSE /\ owed' = [i \in 1 .. Len(held) |-> IF i = at THEN <<>> ELSE IF for(i) = {} THEN owed[i] ELSE gradients[Min(for(i))]]
            /\ UNCHANGED phase
BackThrough(entry, at) ==
    IF ~StepAccepts(entry.step, at) THEN phase' = "rejected" /\ UNCHANGED owed
    ELSE GiveBack(entry.step, at, IF entry.step.op \in OfViews THEN <<1>> ELSE StepSlots(entry.step),
                  ReturnedBy(entry, Inputs(entry.step), held[at], owed[at]))

(* The latest of the tensors that are owed comes first; no plan uses one   *)
(* for two operands.                                                       *)
GoBack ==
    /\ phase = "backward"
    /\ LET at == Max({i \in 1 .. Len(held) : owed[i] # <<>>})
           which == at - Len(request.operands)
       IN IF which <= 0 THEN phase' = "done" /\ UNCHANGED owed ELSE BackThrough(recorded[which], at)
    /\ UNCHANGED <<request, held, recorded>>

FunctionalNext == Perform \/ BeginBackward \/ GoBack
FunctionalSpec == FunctionalInit /\ [][FunctionalNext]_functionalVars
-----------------------------------------------------------------------------
(* What calls mean: a function on the ordinals of each result; nothing for *)
(* a call that is to be refused.                                           *)
Meant(ok, n, value(_)) == IF ok THEN <<[k \in 0 .. n - 1 |-> value(k)]>> ELSE <<>>
SameCarrier(r) == \A i, j \in 1 .. Len(r.operands) : r.operands[i].carrier = r.operands[j].carrier

(* The grammar of a reference to a layout, and the extents that it names:  *)
(* zero among them where the layout is another.                            *)
RECURSIVE WellFormed(_)
WellFormed(s) ==
    \/ Len(s) = 1 /\ s[1] \notin Brackets \cup Separators
    \/ Len(s) > 2 /\ s[1] = "(" /\ s[Len(s)] = ")" /\ WellFormed(SubSeq(s, 2, Len(s) - 1))
    \/ \E n \in 1 .. Len(s) - 1 : WellFormed(SubSeq(s, 1, n)) /\ WellFormed(SubSeq(s, n + 1, Len(s)))

RECURSIVE Dimensions(_, _)
Dimensions(ms, s) ==
    LET count(n, b) == Len(SelectSeq(SubSeq(s, 1, n), LAMBDA t : t = b))
        n == Min({m \in 1 .. Len(s) : count(m, "(") = count(m, ")")})
        item == IF n = 1 THEN <<Size(Mode(ms[1]))>> ELSE Dimensions(Mode(ms[1]), SubSeq(s, 2, n - 1))
    IN IF <<>> \in {ms, s} THEN IF ms = s THEN <<>> ELSE <<0>>
       ELSE item \o Dimensions(Tail(ms), SubSeq(s, n + 1, Len(s)))
Fits(ms, s) == \A i \in 1 .. Len(Dimensions(ms, s)) : Dimensions(ms, s)[i] # 0
NamesOf(s) == DOMAIN Places(Names(s))
WellDescribed(inputs, output) ==
    /\ \A i \in 1 .. Len(inputs) : WellFormed(inputs[i]) /\ ~Repeats(inputs[i])
    /\ WellFormed(output) /\ ~Repeats(output)
    /\ NamesOf(output) \subseteq UNION {NamesOf(inputs[i]) : i \in 1 .. Len(inputs)}

(* The element of a tensor where each dimension has an ordinal.            *)
Nth(t, s, at(_)) == Element(t, OrdinalOf(Dimensions(t.modes, s), [n \in 1 .. Len(Markers(s)) |-> at(n)]))

(* Each element of a reduction is made of the fiber that is left out.      *)
ReductionMeans(op, r, whole) ==
    LET input == Ahead(r.arg, Arrow(r.arg))
        output == Beyond(r.arg, Arrow(r.arg))
        t == r.operands[1]
        ms == Markers(input)
        sizes == Dimensions(t.modes, input)
        kept == [j \in 1 .. Len(Markers(output)) |-> IF Markers(output)[j] = "1" THEN 1 ELSE sizes[Places(ms)[Markers(output)[j]]]]
        omitted == SelectSeq(Identity(Len(ms)), LAMBDA n : ms[n] = "1" \/ ms[n] \notin NamesOf(output))
        left == [q \in 1 .. Len(omitted) |-> sizes[omitted[q]]]
        digit(k, f, n) == IF \E q \in 1 .. Len(omitted) : omitted[q] = n THEN Digit(left, Places(omitted)[n], f)
                           ELSE Digit(kept, Places(Markers(output))[ms[n]], k)
        value(k, f) == Nth(t, input, LAMBDA n : digit(k, f, n))
    IN Meant(/\ Arrow(r.arg) # 0 /\ WellDescribed(<<input>>, output) /\ Fits(t.modes, input)
             /\ IF whole THEN Product(left) = 1 ELSE omitted # <<>>,
             Product(kept), LAMBDA k : IF whole THEN value(k, 0) ELSE Combined(op, [f \in 1 .. Product(left) |-> value(k, f - 1)]))

(* A contraction sums over the dimensions that the output omits.  With a   *)
(* batch the operands are multiplied element by element, so that a shared  *)
(* dimension is the same hierarchy in both and a free one has no hierarchy.*)
EinsumMeans(r) ==
    LET arrow == Arrow(r.arg)
        comma == Comma(r.arg)
        inputs == <<Ahead(r.arg, comma), SubSeq(r.arg, comma + 1, arrow - 1)>>
        output == Beyond(r.arg, arrow)
        sizes(i) == Dimensions(ModesOf(r, i), inputs[i])
        source(i, s) == Selected(ModesOf(r, i), SelectionTree(inputs[i]))[SourceIds(inputs[i])[s]]
        extent(s) == LET i == IF s \in NamesOf(inputs[1]) THEN 1 ELSE 2 IN Size(source(i, s))
        shared == NamesOf(inputs[1]) \cap NamesOf(inputs[2])
        free == (NamesOf(inputs[1]) \cup NamesOf(inputs[2])) \ shared
        summed == SelectSeq(Names(inputs[1]), LAMBDA s : s \in shared \ NamesOf(output))
        kept == [j \in 1 .. Len(Markers(output)) |-> IF Markers(output)[j] = "1" THEN 1 ELSE extent(Markers(output)[j])]
        left == [q \in 1 .. Len(summed) |-> extent(summed[q])]
        digit(s, k, f) == IF s = "1" THEN 0 ELSE IF s \in NamesOf(output) THEN Digit(kept, Places(Markers(output))[s], k)
                          ELSE Digit(left, Places(summed)[s], f)
        factor(i, k, f) == Nth(r.operands[i], inputs[i], LAMBDA n : digit(Markers(inputs[i])[n], k, f))
        alike == /\ \A s \in shared : SameProfile(source(1, s), source(2, s))
                 /\ \A s \in free : IsLeaf(source(IF s \in NamesOf(inputs[1]) THEN 1 ELSE 2, s))
    IN Meant(/\ arrow # 0 /\ comma # 0 /\ WellDescribed(inputs, output)
             /\ \A i \in 1 .. 2 : Fits(ModesOf(r, i), inputs[i]) /\ \A n \in 1 .. Len(sizes(i)) : Markers(inputs[i])[n] = "1" => sizes(i)[n] = 1
             /\ shared # {} /\ free \subseteq NamesOf(output)
             /\ \A s \in shared : Size(source(1, s)) = Size(source(2, s))
             /\ shared \cap NamesOf(output) # {} => alike
             /\ SameCarrier(r),
             Product(kept), LAMBDA k : Sum([f \in 1 .. Product(left) |-> Times(factor(1, k, f - 1), factor(2, k, f - 1))]))

(* The ordinal, in modes of which some have extent one, of an ordinal in   *)
(* modes they are broadcast to.                                            *)
Narrow(ms, target, k) == OrdinalOf(Extents(ms), [j \in 1 .. Len(Extents(ms)) |-> IF Extents(ms)[j] = 1 THEN 0 ELSE Digit(Extents(target), j, k)])
ElementOf(r, i, target, k) == Element(r.operands[i], Narrow(ModesOf(r, i), target, k))

Scalars(name, x, y) ==
    CASE name = "add" -> Plus(x, y)
      [] name = "sub" -> Plus(x, Minus(y))
      [] name \in {"mul", "elementwise_mul"} -> Times(x, y)
      [] name = "maximum" -> IF Above(y, x) THEN y ELSE x
      [] name = "minimum" -> IF Above(x, y) THEN y ELSE x
      [] name = "lt" -> Truth(Above(y, x))
      [] name = "le" -> Truth(Above(y, x) \/ Equal(x, y))
      [] name = "gt" -> Truth(Above(x, y))
      [] name = "ge" -> Truth(Above(x, y) \/ Equal(x, y))
      [] name = "eq" -> Truth(Equal(x, y))
      [] name = "ne" -> Truth(~Equal(x, y))
      [] name = "div" -> Over(x, y)
      [] name = "rem" -> Remainder(x, y)
      [] name = "pow" -> <<"power", x, y>>
Together(r, value(_)) ==
    LET all == 1 .. Len(r.operands)
        target == FoldLeft(LAMBDA ms, t : CommonShape(ms, t.modes), ModesOf(r, 1), Tail(r.operands))
    IN Meant(SameCarrier(r) /\ \A i, j \in all : Compatible(ModesOf(r, i), ModesOf(r, j)), Size(target),
             LAMBDA k : value([i \in all |-> ElementOf(r, i, target, k)]))
UnaryMeans(r) ==
    LET value(x) == CASE r.name \in Unary -> UnaryValue(r.name, x)
                      [] r.name = "mul" -> Times(x, r.arg)
                      [] r.name = "pow" -> Product([i \in 1 .. r.arg |-> x])
                      [] OTHER -> <<r.name, x>>
    IN Meant(TRUE, Size(ModesOf(r, 1)), LAMBDA k : value(Element(r.operands[1], k)))
(* Each mode of the operand is a mode of the target.                       *)
BroadcastInDimMeans(r) ==
    LET ms == ModesOf(r, 1)
        target == r.arg.target
        dims == r.arg.dims
        sizes == ModeExtents(target)
    IN Meant(/\ Len(dims) = Len(ms) /\ IsInjective(dims)
             /\ \A i \in 1 .. Len(dims) : dims[i] \in 1 .. Len(target) /\ \A j \in 1 .. i : dims[j] <= dims[i]
             /\ \A i \in 1 .. Len(dims) : CanWiden(<<ms[i]>>, <<target[dims[i]]>>)
             /\ \A d \in 1 .. Len(target) : d \in {dims[i] : i \in 1 .. Len(dims)} \/ AtLeaf(target[d]),
             Product(sizes),
             LAMBDA k : Element(r.operands[1], OrdinalOf(ModeExtents(ms), [i \in 1 .. Len(ms) |-> Narrow(Mode(ms[i]), Mode(target[dims[i]]), Digit(sizes, dims[i], k))])))

(* The same convolution when the operation is told the roles of the modes. *)
ConvMeans(r) ==
    LET n == Rank(r)
        ok == IsPermutation(r.arg.lhs, n) /\ IsPermutation(r.arg.kernel, Len(ModesOf(r, 2))) /\ IsPermutation(r.arg.output, n) /\ SameCarrier(r)
        direct == GenericConv(r.operands[1], r.operands[2],
                              [strides |-> r.arg.strides, padding |-> r.arg.padding, spread |-> r.arg.spread, dilation |-> r.arg.dilation,
                               groups |-> r.arg.groups, xs |-> r.arg.lhs, ws |-> r.arg.kernel])
        sizes == ModeExtents(direct.out.modes)
        sorted == [i \in 1 .. n |-> sizes[r.arg.output[i]]]
    IN Meant(ok /\ direct.ok, Product(sorted),
             LAMBDA k : Element(direct.out, OrdinalOf(sizes, AsModes(r.arg.output, ModeOrdinals(sorted, k)))))
PermuteMeans(r) ==
    LET n == Rank(r)
        sizes == ModeExtents(ModesOf(r, 1))
        sorted == [i \in 1 .. n |-> sizes[r.arg[i]]]
    IN Meant(IsPermutation(r.arg, n), Size(ModesOf(r, 1)),
             LAMBDA k : Element(r.operands[1], OrdinalOf(sizes, AsModes(r.arg, ModeOrdinals(sorted, k)))))

(* A mode of extent one comes or goes; elements at even distances get any  *)
(* shape of as many.                                                       *)
InOrderMeans(r) ==
    LET t == r.operands[1]
        rank == Rank(r)
        even == \E d \in 0 .. Cosize(t.modes) : \A k \in 0 .. Size(t.modes) - 1 : Offset(t.modes, k) = d * k
    IN Meant(CASE r.name = "unsqueeze" -> r.arg \in -(rank + 1) .. rank
               [] r.name = "squeeze" -> r.arg \in -rank .. rank - 1 /\ rank > 1 /\ t.modes[(r.arg % rank) + 1] \in {Leaf(1, d) : d \in 0 .. Cosize(t.modes)}
               [] r.name = "reshape" -> Size(r.arg) = Size(t.modes) /\ even,
             Size(t.modes), LAMBDA k : Element(t, k))

(* Lists of lists of one length at each level, a mode for each level.      *)
RECURSIVE Levels(_)
Levels(v) == IF IsList(v) THEN 1 + Max({0} \cup {Levels(v.items[i]) : i \in 1 .. Len(v.items)}) ELSE 0
RECURSIVE At(_, _)
At(v, path) == IF path = <<>> THEN {v} ELSE IF ~IsList(v) THEN {}
               ELSE IF path[1] >= Len(v.items) THEN {} ELSE At(v.items[path[1] + 1], Tail(path))
NestedMeans(v) ==
    LET depth == Levels(v)
        first(a) == CHOOSE w \in At(v, [b \in 1 .. a |-> 0]) : TRUE
        extents == [a \in 1 .. depth |-> Len(first(a - 1).items)]
        paths(a) == {p \in [1 .. a -> 0 .. 9] : \A b \in 1 .. a : p[b] < extents[b]}
        rectangular == \A a \in 1 .. depth : /\ At(v, [b \in 1 .. a - 1 |-> 0]) # {}
                                             /\ \A p \in paths(a - 1) : \A w \in At(v, p) : IsList(w) /\ Len(w.items) = Len(first(a - 1).items) /\ w.items # <<>>
    IN Meant(depth > 0 /\ rectangular, Product(extents), LAMBDA k : (CHOOSE w \in At(v, ModeOrdinals(extents, k)) : TRUE).value)

(* Along an axis, counted from the end when negative: running sums, what   *)
(* a list of indices takes or replaces, and the elements in order.         *)
Length(r, a) == Size(Mode(ModesOf(r, 1)[a]))
AlongAxis(r, axis, ok(_), length(_), value(_, _)) ==
    LET a == (axis % Rank(r)) + 1
        sizes == [i \in 1 .. Rank(r) |-> IF i = a THEN length(a) ELSE Length(r, i)]
    IN Meant(axis >= -Rank(r) /\ axis < Rank(r) /\ SameCarrier(r) /\ ok(a), Product(sizes), LAMBDA k : value(a, ModeOrdinals(sizes, k)))
Listed(r) == [q \in 1 .. Size(ModesOf(r, 2)) |-> Element(r.operands[2], q - 1)]
InReach(r, a) == \A q \in 1 .. Len(Listed(r)) : Listed(r)[q] \in 0 .. Length(r, a) - 1
CumsumMeans(r) ==
    AlongAxis(r, r.arg, LAMBDA a : TRUE, LAMBDA a : Length(r, a),
              LAMBDA a, ns : SumOver(0 .. ns[a], LAMBDA p : ElementAt(r.operands[1], [ns EXCEPT ![a] = p])))
GatherMeans(r) ==
    AlongAxis(r, r.arg, LAMBDA a : InReach(r, a), LAMBDA a : Len(Listed(r)),
              LAMBDA a, ns : ElementAt(r.operands[1], [ns EXCEPT ![a] = Listed(r)[@ + 1]]))
ScatterMeans(r, add) ==
    LET hits(n) == {q \in 1 .. Len(Listed(r)) : Listed(r)[q] = n}
        fits(a) == ModeExtents(ModesOf(r, 3)) = [ModeExtents(ModesOf(r, 1)) EXCEPT ![a] = Len(Listed(r))]
        update(a, ns, q) == ElementAt(r.operands[3], [ns EXCEPT ![a] = q - 1])
    IN AlongAxis(r, r.arg, LAMBDA a : InReach(r, a) /\ (add \/ IsInjective(Listed(r))) /\ fits(a), LAMBDA a : Length(r, a),
                 LAMBDA a, ns : (IF add \/ hits(ns[a]) = {} THEN ElementAt(r.operands[1], ns) ELSE 0)
                                  + SumOver(hits(ns[a]), LAMBDA q : update(a, ns, q)))
SelectionMeans(r, count(_), largest) ==
    LET at(ns, a, p) == ElementAt(r.operands[1], [ns EXCEPT ![a] = p])
        ahead(ns, a, p, q) == IF at(ns, a, p) = at(ns, a, q) THEN p < q ELSE (at(ns, a, p) > at(ns, a, q)) = largest
        all(a) == 0 .. Length(r, a) - 1
        source(ns, a) == CHOOSE p \in all(a) : Cardinality({q \in all(a) : ahead(ns, a, q, p)}) = ns[a]
        ranked(value(_, _)) == AlongAxis(r, r.arg.axis, LAMBDA a : count(a) \in 1 .. Length(r, a), count, value)
    IN ranked(LAMBDA a, ns : at(ns, a, source(ns, a))) \o ranked(LAMBDA a, ns : source(ns, a))

(* Products of rows with rows, and a bias for each row of the second.      *)
ProductMeans(r, flat) ==
    LET x == r.operands[1]
        w == r.operands[2]
        term(i, j) == Sum([c \in 1 .. Columns(x.modes) |-> Times(ElementAt(x, <<i, c - 1>>), ElementAt(w, <<j, c - 1>>))])
        bias(j) == IF Len(r.operands) = 3 THEN ElementAt(r.operands[3], <<j, 0>>) ELSE 0
    IN Meant(Len(x.modes) = 2 /\ Columns(x.modes) = Columns(w.modes) /\ (flat => IsFlat(x.modes)) /\ SameCarrier(r),
             Rows(x.modes) * Rows(w.modes), LAMBDA k : Plus(term(k % Rows(x.modes), k \div Rows(x.modes)), bias(k \div Rows(x.modes))))
MeanMeans(r, divisor) ==
    Meant(IsFlat(ModesOf(r, 1)), 1, LAMBDA k : SumOver(0 .. Size(ModesOf(r, 1)) - 1, LAMBDA n : Element(r.operands[1], n)) \div divisor)
LossMeans(r) ==
    LET difference(n) == Element(r.operands[1], n) - Element(r.operands[2], n)
        size == Size(ModesOf(r, 1))
    IN Meant(Flat2(ModesOf(r, 1)) /\ ModesOf(r, 1) = ModesOf(r, 2) /\ SameCarrier(r), 1,
             LAMBDA k : SumOver(0 .. size - 1, LAMBDA n : difference(n) * difference(n)) \div size)

Meaning(r) ==
    CASE r.name = "rearrange" -> ReductionMeans("none", r, TRUE)
      [] r.name = "reduce" -> ReductionMeans("reduce_sum", r, FALSE)
      [] r.name \in Reductions -> ReductionMeans(r.name, r, FALSE)
      [] r.name = "einsum" -> EinsumMeans(r)
      [] r.name = "broadcast_in_dim" -> BroadcastInDimMeans(r)
      [] r.name = "broadcast_to" -> BroadcastInDimMeans([r EXCEPT !.arg = [target |-> r.arg, dims |-> Identity(Len(r.arg))]])
      [] r.name = "permute" -> PermuteMeans(r)
      [] r.name \in {"unsqueeze", "squeeze", "reshape"} -> InOrderMeans(r)
      [] r.name = "tensor" -> NestedMeans(r.arg)
      [] r.name = "conv_general" -> ConvMeans(r)
      [] r.name = "cumsum" -> CumsumMeans(r)
      [] r.name = "gather" -> GatherMeans(r)
      [] r.name \in {"scatter", "scatter_add"} -> ScatterMeans(r, r.name = "scatter_add")
      [] r.name = "sort" -> SelectionMeans(r, LAMBDA a : Length(r, a), r.arg.descending)
      [] r.name = "topk" -> SelectionMeans(r, LAMBDA a : r.arg.k, r.arg.largest)
      [] r.name = "select" -> Together(r, LAMBDA xs : IF xs[1] = 1 THEN xs[2] ELSE xs[3])
      [] r.name = "clamp" -> Together(r, LAMBDA xs : Scalars("minimum", Scalars("maximum", xs[1], Lower(xs, r.arg)), Upper(xs, r.arg)))
      [] r.name \in {"matmul", "linear"} -> ProductMeans(r, r.name = "linear")
      [] r.name \in {"sum", "mean"} -> MeanMeans(r, IF r.name = "sum" THEN 1 ELSE Size(ModesOf(r, 1)))
      [] r.name = "mse_loss" -> LossMeans(r)
      [] Len(r.operands) = 2 -> Together(r, LAMBDA xs : Scalars(r.name, xs[1], xs[2]))
      [] OTHER -> UnaryMeans(r)

(* What the answer changes by, twice the step apart, weighed by the        *)
(* cotangent, when one element of an operand moves.                        *)
Linearly == {"rearrange", "reduce", "reduce_sum", "reduce_prod", "einsum", "broadcast_in_dim", "broadcast_to", "permute", "reshape", "unsqueeze", "squeeze", "conv_general",
             "cumsum", "gather", "scatter", "scatter_add", "matmul", "linear", "sum", "mean", "mse_loss", "add", "sub", "mul", "elementwise_mul", "pow", "neg"}
Shifted(t, n, delta) == IF IsInjectiveLayout(t.modes) THEN [t EXCEPT !.cells[Offset(t.modes, n)] = @ + delta] ELSE On(t.carrier, Changed(t, n, delta))
Weighed(up, down) == SumOver(DOMAIN up, LAMBDA k : 12 * (k + 1) * (up[k] - down[k]))
AnswerTo(i, n, delta) == Meaning([request EXCEPT !.operands[i] = Shifted(@, n, delta)])[1]
Response(i, n) == Weighed(AnswerTo(i, n, Step), AnswerTo(i, n, -Step))

GradientsOf(operand, n) == owed[operand] # <<>> => 2 * Step * Element(owed[operand], n) = Response(operand, n)
Inserting == "unsqueeze" \in {recorded[n].step.op : n \in 1 .. Len(recorded)}
AsMeant(results) ==
    /\ phase = "refused" => results = <<>>
    /\ phase = "returned" => results # <<>> /\ \A i \in 1 .. Len(results) : Elements(held[Len(held) - Len(results) + i]) = results[i]
    /\ phase = "rejected" => Inserting /\ \E i \in 1 .. Len(held) : ~IsInjectiveLayout(held[i].modes)
    /\ phase = "done" /\ request.name \in Linearly =>
          \A i \in 1 .. Len(request.operands) : \A n \in 0 .. Size(ModesOf(request, i)) - 1 : GradientsOf(i, n)

(* A call is refused exactly when it is ill-formed: a description that is  *)
(* none or is of another layout, an axis or positions out of range,        *)
(* extents that do not meet, operands of two carriers.  Otherwise it       *)
(* returns what it names, whatever operations it is lowered to and however *)
(* its operands are laid out; and the gradients that come back through     *)
(* those operations are the derivatives of what it names.                  *)
CallsMeanWhatTheySay == AsMeant(Meaning(request))
=============================================================================
