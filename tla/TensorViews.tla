------------------------------ MODULE TensorViews ------------------------------
(***************************************************************************)
(* Views of a tensor and the way a gradient takes back through them        *)
(* (carriers/shared_ops.py, carriers/generic/as_strided_ops.py, the        *)
(* gradient checks of core/native/_tensor.cpp).                            *)
(*                                                                         *)
(* A program takes view after view of a base tensor and then sends a       *)
(* cotangent back.  Beside each view the model keeps which element of the  *)
(* base each of its elements is, computed from what the views mean.        *)
(***************************************************************************)
EXTENDS Tensors
LOCAL INSTANCE SequencesExt
LOCAL INSTANCE FiniteSetsExt

CONSTANTS Bases,         \* the layouts of the base tensor
          Keys,          \* the keys it is sliced by
          Shapes,        \* the targets of broadcasts and reshapes
          Orders,        \* the permutations of modes
          Trees,         \* the output trees of rearrangements
          Selectors,     \* the mappings of as_strided
          BaseOffset,    \* where the base starts in its carrier
          MaxViews       \* bound on the views

VARIABLES base,          \* the layout of the base tensor
          tape,          \* the recorded operations
          view,          \* the offset and the layout of the latest view
          origin,        \* history: the element of the base at each ordinal
          gradient,      \* the cotangent of the tensor the traversal is at
          back,          \* the operations it has yet to go through
          traversal      \* "none", "running", "returned" or "refused"

ASSUME TensorViewsAssumption == {BaseOffset, MaxViews} \subseteq Nat

viewVars == <<base, tape, view, origin, gradient, back, traversal>>
-----------------------------------------------------------------------------
(* Layouts of views.                                                       *)

(* A key for a mode: one ordinal, a range of a leaf, or all of it.         *)
Item == [kind |-> "all", at |-> 0, stop |-> 0, step |-> 1]
Only(n) == [Item EXCEPT !.kind = "one", !.at = n]
Span(start, stop, step) == [kind |-> "span", at |-> start, stop |-> stop, step |-> step]

(* _normalize_leaf_slice: slice.indices clips to the extent.               *)
Clipped(k, s) == IF k.kind = "all" THEN Span(0, s, 1)
                 ELSE Span(Min({k.at, s}), Min({k.stop, s}), k.step)

CanSlice(ms, key) ==
    /\ Len(key) = Len(ms)
    /\ \E i \in 1 .. Len(ms) : key[i].kind # "one"
    /\ \A i \in 1 .. Len(ms) :
          IF key[i].kind = "one" THEN key[i].at < Size(Mode(ms[i]))
          ELSE IF ~AtLeaf(ms[i]) THEN key[i].kind = "all"
          ELSE LET k == Clipped(key[i], ms[i].s)
               IN k.at < k.stop /\ (k.stop - k.at) % k.step = 0

(* _view_layout_and_mapping *)
SliceOffset(ms, key) ==
    Total(Len(ms), LAMBDA i : IF key[i].kind = "one" THEN Offset(Mode(ms[i]), key[i].at)
                              ELSE IF AtLeaf(ms[i]) THEN Clipped(key[i], ms[i].s).at * ms[i].d ELSE 0)
SliceModes(ms, key) ==
    LET mode(i) == LET k == Clipped(key[i], ms[i].s)
                   IN IF key[i].kind = "one" THEN <<>>
                      ELSE IF ~AtLeaf(ms[i]) THEN <<ms[i]>>
                      ELSE <<Leaf((k.stop - k.at) \div k.step, ms[i].d * k.step)>>
    IN FlattenSeq([i \in 1 .. Len(ms) |-> mode(i)])

(* _reshape_layout *)
Reshaped(ms, target) ==
    IF Size(target) = Size(ms) /\ Len(Infix(Coalesce(ms))) = 1
    THEN Compact(target, Infix(Coalesce(ms))[1].d) ELSE Failed

(* reverse_rearrange: the selection with the place of each source in the   *)
(* output, and the output without names.                                   *)
RECURSIVE Inverted(_, _, _)
Inverted(selection, names, first) ==
    LET before(i) == Len(Infix(SubSeq(selection, 1, i - 1)))
        place(n) == {j \in 1 .. Len(names) : names[j] = Named(n)}
        marker(n) == IF place(n) = {} THEN Inserted ELSE Named(Max(place(n)))
    IN [i \in 1 .. Len(selection) |->
          IF AtLeaf(selection[i]) THEN marker(first + before(i))
          ELSE Node(Inverted(selection[i].modes, names, first + before(i)))]
ReverseOutput(output, selection) == Inverted(selection, Infix(output), 1)

(* _unsqueeze_trees, _squeeze_trees, permute *)
UnsqueezeTree(n, dim) == [i \in 1 .. n + 1 |-> IF i < dim THEN Named(i) ELSE IF i = dim THEN Inserted ELSE Named(i - 1)]
SqueezeTree(n, dim) == [i \in 1 .. n - 1 |-> Named(IF i < dim THEN i ELSE i + 1)]
PermuteTree(order) == [i \in 1 .. Len(order) |-> Named(order[i])]

(* _nested_stride: the shape of ms with a stride for each leaf.            *)
RECURSIVE Restrided(_, _)
Restrided(ms, ds) ==
    LET before(i) == Len(Infix(SubSeq(ms, 1, i - 1)))
    IN [i \in 1 .. Len(ms) |-> IF AtLeaf(ms[i]) THEN Leaf(ms[i].s, ds[before(i) + 1])
                               ELSE Node(Restrided(ms[i].modes, SubSeq(ds, before(i) + 1, Len(ds))))]
Strides(ms) == [i \in 1 .. Len(Infix(ms)) |-> Infix(ms)[i].d]

(* IndexMap.compose for two layouts; Failed also for a map that is not one.*)
ComposedMap(a, b) ==
    LET identity(ms) == Cosize(ms) = Size(ms) /\ OrdinalScale(ms) \in {0, 1}
    IN IF identity(b) /\ SameShape(a, b) THEN a
       ELSE IF identity(a) /\ Cosize(b) = Cosize(a) THEN b
       ELSE Lowered(a, b)
SameExtents(ms, b) == ms # Failed /\ SameShape(ms, b)

(* _compose_layout *)
ComposedLayout(a, b) ==
    LET direct == ComposedMap(a, b)
        flat == ComposedMap(Infix(a), Infix(b))
        lead == Infix(Coalesce(Infix(a)))[1]
    IN IF SameExtents(direct, b) THEN direct
       ELSE IF SameExtents(flat, Infix(b)) THEN Restrided(b, Strides(flat))
       ELSE IF Cosize(b) <= lead.s THEN Restrided(b, [i \in 1 .. Len(Infix(b)) |-> Infix(b)[i].d * lead.d])
       ELSE Failed
-----------------------------------------------------------------------------
(* Taking views.                                                           *)
TensorViewsInit ==
    /\ base \in Bases
    /\ tape = <<>> /\ view = [offset |-> BaseOffset, modes |-> base]
    /\ origin = [k \in 0 .. Size(base) - 1 |-> k]
    /\ gradient = [modes |-> <<>>, cells |-> <<>>] /\ back = 0 /\ traversal = "none"

(* An operation saves its input and its argument and returns a tensor on   *)
(* the same carrier.                                                       *)
Takes(op, arg, delta, modes, meaning) ==
    /\ traversal = "none" /\ Len(tape) < MaxViews
    /\ modes # Failed
    /\ tape' = Append(tape, [op |-> op, arg |-> arg, input |-> view.modes, output |-> modes])
    /\ view' = [offset |-> view.offset + delta, modes |-> modes]
    /\ origin' = [k \in DOMAIN meaning |-> origin[meaning[k]]]
    /\ UNCHANGED <<base, gradient, back, traversal>>

Unmoved == [k \in DOMAIN origin |-> k]

ViewSlice(key) ==
    LET ms == view.modes
        kept == SelectSeq([i \in 1 .. Len(ms) |-> i], LAMBDA i : key[i].kind # "one")
        sizes == ModeExtents(SliceModes(ms, key))
        place(i) == CHOOSE j \in 1 .. Len(kept) : kept[j] = i
        digit(i, k) == IF key[i].kind = "one" THEN key[i].at
                       ELSE IF AtLeaf(ms[i]) THEN Clipped(key[i], ms[i].s).at + key[i].step * Digit(sizes, place(i), k)
                       ELSE Digit(sizes, place(i), k)
    IN /\ CanSlice(ms, key)
       /\ Takes("view", key, SliceOffset(ms, key), SliceModes(ms, key),
                [k \in 0 .. Product(sizes) - 1 |-> Total(Len(ms), LAMBDA i : Radix(ModeExtents(ms), i) * digit(i, k))])

ViewBroadcast(target) ==
    LET sizes == Extents(view.modes)
        narrow(k) == Total(Len(sizes), LAMBDA j : IF sizes[j] = 1 THEN 0 ELSE Radix(sizes, j) * Digit(Extents(target), j, k))
    IN /\ CanWiden(view.modes, target)
       /\ Takes("broadcast_to", target, 0, Widened(view.modes, target), [k \in 0 .. Size(target) - 1 |-> narrow(k)])

ViewReshape(target) == Takes("reshape", target, 0, Reshaped(view.modes, target), Unmoved)

(* Where the elements of the sources go that an output names in order.     *)
Moved(sources, order) ==
    LET sizes == [n \in 1 .. Len(sources) |-> Size(sources[n])]
        sorted == [j \in 1 .. Len(order) |-> sizes[order[j]]]
    IN [k \in DOMAIN origin |-> Total(Len(order), LAMBDA j : Radix(sizes, order[j]) * Digit(sorted, j, k))]

(* The default selection names every leaf, within the modes it is in.      *)
ViewRearrange(output, byLeaf) ==
    LET selection == IF byLeaf THEN Unnamed(view.modes) ELSE Flat(Len(view.modes))
    IN Takes("rearrange", <<output, selection>>, 0, RearrangedLayout(view.modes, output, selection),
             Moved(Selected(view.modes, selection), Used(output)))

ViewPermute(order) ==
    /\ {order[i] : i \in 1 .. Len(order)} = 1 .. Len(view.modes) /\ Len(order) = Len(view.modes)
    /\ Takes("permute", order, 0, RearrangedLayout(view.modes, PermuteTree(order), Flat(Len(order))),
             Moved(Selected(view.modes, Flat(Len(order))), order))

ViewUnsqueeze(dim) ==
    LET n == Len(view.modes)
    IN Takes("unsqueeze", UnsqueezeTree(n, dim), 0, RearrangedLayout(view.modes, UnsqueezeTree(n, dim), Flat(n)), Unmoved)

ViewSqueeze(dim) ==
    LET n == Len(view.modes)
    IN /\ AtLeaf(view.modes[dim]) /\ view.modes[dim].s = 1
       /\ Takes("squeeze", SqueezeTree(n, dim), 0, RearrangedLayout(view.modes, SqueezeTree(n, dim), Flat(n)), Unmoved)

ViewAsStrided(mapping) ==
    LET modes == ComposedLayout(view.modes, mapping)
    IN /\ IsInjectiveLayout(mapping) /\ Cosize(mapping) <= Size(view.modes)
       /\ modes # Failed /\ IsInjectiveLayout(modes)
       /\ Takes("as_strided", mapping, 0, modes, LayoutImage(mapping))
-----------------------------------------------------------------------------
(* Sending a cotangent back.                                               *)
(* What the operation of an entry demands of the cotangent of its output.  *)
Accepts(e, g) ==
    CASE e.op = "broadcast_to" -> SameShape(g.modes, e.output) /\ IsInjectiveLayout(g.modes)
      [] e.op = "rearrange" -> SameShape(g.modes, e.output)
      [] OTHER -> g.modes = e.output

BroadcastGradient(e, g) ==
    LET mapping == Widened(Canonical(e.input), e.arg)
    IN [n \in 0 .. Size(e.input) - 1 |->
          SumOver({k \in 0 .. Size(g.modes) - 1 : Offset(mapping, k) = n}, LAMBDA k : Element(g, k))]

(* Carrier.scatter onto zeros laid out like the input: the mapping, which  *)
(* numbers the elements of the input, is taken for places in its storage.  *)
SliceGradient(e, g) ==
    LET onto == Placed(OwnLayout(e.input), [k \in 0 .. Size(e.input) - 1 |-> 0])
        mapping == SliceModes(Canonical(e.input), e.arg)
        place(k) == SliceOffset(Canonical(e.input), e.arg) + Offset(mapping, k)
    IN FoldLeft(LAMBDA t, k : [t EXCEPT !.cells[place(k - 1)] = Element(g, k - 1)],
                onto, [k \in 1 .. Size(mapping) |-> k])

AsStridedGradient(e, g) ==
    FoldLeft(LAMBDA values, k : [values EXCEPT ![Offset(e.arg, k - 1)] = Element(g, k - 1)],
             [n \in 0 .. Size(e.input) - 1 |-> 0], [k \in 1 .. Size(e.arg) |-> k])

(* The cotangent seen through the inverse rearrangement.                   *)
Through(g, output, selection) ==
    [g EXCEPT !.modes = RearrangedLayout(g.modes, ReverseOutput(output, selection), Unnamed(output))]

(* Mutant: the order itself.                                               *)
SameOrder(order) == order

(* permute: the inverse order.                                             *)
InverseOrder(order) == [i \in 1 .. Len(order) |-> CHOOSE j \in 1 .. Len(order) : order[j] = i]

InverseView(e, g) ==
    CASE e.op = "reshape" -> [g EXCEPT !.modes = Reshaped(g.modes, e.input)]
      [] e.op = "rearrange" -> Through(g, e.arg[1], e.arg[2])
      [] e.op = "permute" -> [g EXCEPT !.modes = RearrangedLayout(g.modes, PermuteTree(InverseOrder(e.arg)), Flat(Len(e.arg)))]
      [] e.op \in {"squeeze", "unsqueeze"} -> Through(g, e.arg, Flat(Len(e.input)))

InputGradient(e, g) ==
    CASE e.op = "broadcast_to" -> Detached(e.input, BroadcastGradient(e, g))
      [] e.op = "view" -> SliceGradient(e, g)
      [] e.op = "as_strided" -> Detached(e.input, AsStridedGradient(e, g))
      [] OTHER -> Detached(e.input, Elements(InverseView(e, g)))

(* validate_gradient *)
ValidFor(ms, g) == IF IsInjectiveLayout(ms) THEN g.modes = ms
                   ELSE OnlyBroadcastAliasing(ms) /\ SameShape(g.modes, ms) /\ IsInjectiveLayout(g.modes)

(* The cotangent of the last view: a different power of two at each place. *)
Seed(k) == 2^k

StartTraversal ==
    /\ traversal = "none" /\ tape # <<>>
    /\ gradient' = Detached(view.modes, [k \in DOMAIN origin |-> Seed(k)])
    /\ ValidFor(view.modes, gradient')
    /\ traversal' = "running" /\ back' = Len(tape)
    /\ UNCHANGED <<base, tape, view, origin>>

(* run_backward: the operation returns the gradient of its input, which    *)
(* has to be one for that tensor.                                          *)
PropagateBack ==
    /\ traversal = "running" /\ Accepts(tape[back], gradient)
    /\ gradient' = InputGradient(tape[back], gradient)
    /\ back' = back - 1
    /\ traversal' = IF ~ValidFor(tape[back].input, gradient') THEN "refused"
                    ELSE IF back = 1 THEN "returned" ELSE "running"
    /\ UNCHANGED <<base, tape, view, origin>>

(* The operation raises.                                                   *)
RefuseGradient ==
    /\ traversal = "running" /\ ~Accepts(tape[back], gradient)
    /\ traversal' = "refused"
    /\ UNCHANGED <<base, tape, view, origin, gradient, back>>

TensorViewsNext ==
    \/ \E key \in Keys : ViewSlice(key)
    \/ \E target \in Shapes : ViewBroadcast(target) \/ ViewReshape(target)
    \/ \E output \in Trees, byLeaf \in BOOLEAN : ViewRearrange(output, byLeaf)
    \/ \E order \in Orders : ViewPermute(order)
    \/ \E dim \in 1 .. Len(view.modes) + 1 : ViewUnsqueeze(dim)
    \/ \E dim \in 1 .. Len(view.modes) : ViewSqueeze(dim)
    \/ \E mapping \in Selectors : ViewAsStrided(mapping)
    \/ StartTraversal \/ PropagateBack \/ RefuseGradient

TensorViewsSpec == TensorViewsInit /\ [][TensorViewsNext]_viewVars

-----------------------------------------------------------------------------
(* Each element of a view is the element of the base that the sequence of  *)
(* views selects.                                                          *)
ViewsAlias == \A k \in DOMAIN origin : view.offset + Offset(view.modes, k) = BaseOffset + Offset(base, origin[k])

(* The gradient of an element of the base is the sum of the cotangents of  *)
(* the elements of the last view that alias it.                            *)
Adjoint == \A n \in 0 .. Size(base) - 1 :
               Element(gradient, n) = SumOver({k \in DOMAIN origin : origin[k] = n}, Seed)

(* A slice of a tensor whose elements are not stored in order; and a view  *)
(* of a broadcast tensor that insists on the layout of its output.         *)
SliceOfStrided(e) == e.op = "view" /\ IsInjectiveLayout(e.input) /\ \E k \in 0 .. Size(e.input) - 1 : Offset(e.input, k) # k
ViewOfBroadcast(e) == e.op \notin {"broadcast_to", "rearrange"} /\ ~IsInjectiveLayout(e.output)

(* Any sequence of views aliases the base as the views say.  A cotangent   *)
(* that the tensor accepts comes back as the adjoint of the sequence, laid *)
(* out like the base, unless some slice is of a strided tensor; and it is  *)
(* refused only by a view of a broadcast one.                              *)
ViewsReturnGradients ==
    /\ ViewsAlias
    /\ traversal = "returned" /\ (\A i \in 1 .. Len(tape) : ~SliceOfStrided(tape[i])) => gradient.modes = base /\ Adjoint
    /\ traversal = "refused" => ViewOfBroadcast(tape[back])

(* core-tensor-views: "Slice indexing and `as_strided` SHALL scatter       *)
(* cotangent values to the selected source ordinals".                      *)
SlicesScatterBack == traversal = "returned" => Adjoint
=============================================================================
