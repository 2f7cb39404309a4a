---------------------------- MODULE MCTensorKernels ----------------------------
(***************************************************************************)
(* Calls for TensorKernels: small operands in order, transposed, padded,   *)
(* nested and broadcast, with equal, opposite, zero and NaN elements.      *)
(***************************************************************************)
EXTENDS TensorKernels

(* A tensor of a layout with the elements listed in order.                 *)
T(ms, values) == Placed(ms, [k \in 0 .. Size(ms) - 1 |-> values[(k % Len(values)) + 1]])
Call(op, operands, arg) == [op |-> op, operands |-> operands, arg |-> arg]

InOrder == <<Leaf(2, 1), Leaf(2, 2)>>
Transposed == <<Leaf(2, 2), Leaf(2, 1)>>
Padded == <<Leaf(2, 1), Leaf(2, 3)>>
Repeated == <<Leaf(2, 1), Leaf(2, 0)>>
Slim == <<Leaf(2, 1), Leaf(1, 0)>>
Flat3 == <<Leaf(1, 0), Leaf(3, 2)>>
Broad == <<Leaf(2, 3), Leaf(3, 1)>>
Nested == <<Node(<<Leaf(2, 4), Leaf(2, 1)>>), Leaf(2, 2)>>
NestedLast == <<Leaf(2, 1), Node(<<Leaf(2, 4), Leaf(2, 2)>>)>>
Squares == {InOrder, Transposed, Padded, Repeated}
All2 == Squares \cup {Slim, Broad, Nested, NestedLast}

Mixed == <<4, -4, 0, 8, 20, -12>>
Odd == <<NaN, -4, NegativeZero, 4>>
Tied == <<4, 8, 8, 4, 12, -20>>
Zeroes == <<NegativeZero, NegativeZero, 0, 8, NegativeZero>>
Two(f) == {T(ms, f) : ms \in All2}

UnaryCalls == {Call(op, <<t>>, 0) : op \in Unary, t \in Two(Mixed) \cup Two(Odd)}
ScalarCalls == {Call(op, <<t>>, n) : op \in {"scale", "pow"}, n \in {1, 2}, t \in Two(Mixed) \cup Two(Odd)}
BinaryCalls ==
    {Call(op, <<T(a, <<33, -33, 4>>), T(b, y)>>, 0) : op \in (Arithmetic \ {"div"}) \cup Comparisons, a \in {Transposed, Repeated, Slim},
                                                     b \in {InOrder, Padded, Slim, Broad}, y \in {<<20, -20>>, <<50, -20, 60>>}}
      \cup {Call(op, <<T(a, x), T(InOrder, <<NegativeZero, 4, 0, 8>>)>>, 0) :
              op \in (Arithmetic \ {"div", "rem"}) \cup Comparisons, a \in Squares, x \in {Mixed, Odd}}
      \cup {Call("div", <<T(a, <<48, -24, 96>>), T(b, <<2, -1>>)>>, 0) : a \in Squares, b \in {InOrder, Slim}}
SelectCalls ==
    {Call("select", <<T(c, <<1, 0, 0, 1>>), T(a, <<5, 6, 7>>), T(b, <<-5, -6, -7, NaN>>)>>, 0) :
        c \in {Slim, Transposed}, a \in {Flat3, Padded, Slim}, b \in {Flat3, Broad, InOrder, Nested}}
Bound(v) == <<v>>
ClampCalls ==
    {Call("clamp", <<T(a, x)>>, [low |-> Bound(l), high |-> Bound(4)]) : a \in All2, x \in {Mixed, Odd}, l \in {-4, 0, 4, NaN}}
      \cup {Call("clamp", <<T(a, x)>>, [low |-> Bound(l), high |-> Bound(NaN)]) : a \in Squares, x \in {Mixed, Odd}, l \in {0, NaN}}
      \cup {Call("clamp", <<T(a, Mixed), T(b, <<12, NaN>>)>>, [low |-> Bound(4), high |-> <<>>]) : a \in Squares, b \in {Slim, Transposed}}
      \cup {Call("clamp", <<T(a, Mixed), T(b, <<0, 4, NegativeZero>>)>>, [low |-> <<>>, high |-> Bound(8)]) : a \in Squares, b \in {Slim, InOrder, Broad}}
      \cup {Call("clamp", <<T(a, Mixed), T(b, <<12, 4>>)>>, [low |-> Bound(-4), high |-> <<>>]) : a \in Squares, b \in {Slim, Transposed}}
      \cup {Call("clamp", <<T(a, Mixed), T(b, <<0, 4>>), T(c, <<8, 20, y>>)>>, [low |-> <<>>, high |-> <<>>]) : y \in {0, NaN},
               a \in {Transposed, Slim}, b \in {Slim, InOrder}, c \in {Padded, Flat3}}
ReduceCalls == {Call(op, <<t>>, 0) : op \in Reductions, t \in Two(Mixed) \cup Two(Odd) \cup Two(Tied) \cup Two(Zeroes) \cup {T(<<Leaf(4, 1)>>, Mixed)}}
CumsumCalls == {Call("cumsum", <<t>>, axis) : axis \in 1 .. 3, t \in Two(Mixed)}

(* A count of zero sorts.                                                  *)
SelectionCalls ==
    {Call("select_k", <<t>>, [axis |-> axis, count |-> n, largest |-> l, indices |-> i]) :
        axis \in 1 .. 2, n \in 0 .. 3, l \in BOOLEAN, i \in BOOLEAN,
        t \in {T(ms, f) : ms \in {Transposed, Broad, Nested, Repeated}, f \in {Mixed, Odd, Tied, <<3, NaN, NaN, 0, NegativeZero>>}}}

Index(ms, values) == T(ms, values)
Indices == {Index(<<Leaf(2, 1)>>, <<1, 0>>), Index(<<Leaf(3, 2)>>, <<1, 1, 0>>), Index(<<Leaf(2, 1), Leaf(1, 0)>>, <<1, 2>>),
            Index(<<Node(<<Leaf(1, 0), Leaf(2, 1)>>)>>, <<2, 0>>)}
IndexingBases == {T(ms, <<5, 7, 9, 11, 13, 17, 19, 23>>) : ms \in {Broad, Transposed, Nested, NestedLast, Repeated}}
GatherCalls == {Call("gather", <<t, ix>>, axis) : t \in IndexingBases, ix \in Indices, axis \in 1 .. 2}
Updates(t, ix, axis) ==
    LET ms == Canonical(IndexedModes(t.modes, ix, axis))
    IN {T(ms, <<100, 200, 300, 400, 500>>), T([i \in 1 .. Len(ms) |-> IF AtLeaf(ms[i]) THEN Leaf(ms[i].s, 0) ELSE ms[i]], <<100>>)}
ScatterCalls ==
    UNION {{Call("scatter", <<t, ix, u>>, [add |-> add, axis |-> axis]) : add \in BOOLEAN, u \in Updates(t, ix, axis)} :
              t \in IndexingBases, ix \in Indices, axis \in 1 .. 2}

Rows3 == <<Leaf(3, 1), Leaf(2, 3)>>
MatmulCalls ==
    {Call("matmul", <<T(a, <<1, 2, -3, 4>>), T(b, <<5, -6, 7, 8, 9>>)>>, 0) :
        a \in {InOrder, Transposed, Padded, Repeated, Nested, Slim}, b \in {InOrder, Rows3, Transposed, Nested, NestedLast, Slim}}

Signal == <<Leaf(1, 0), Leaf(2, 4), Leaf(4, 1)>>
SignalLast == <<Leaf(4, 2), Leaf(2, 1), Leaf(1, 0)>>
Batches == <<Leaf(2, 6), Node(<<Leaf(2, 3)>>), Leaf(3, 1)>>
Taps == <<Leaf(2, 1), Leaf(1, 0), Leaf(2, 2)>>
TapsOf2 == <<Leaf(2, 4), Leaf(2, 2), Leaf(2, 1)>>
Conv == [strides |-> <<1>>, padding |-> <<<<0, 0>>>>, spread |-> <<1>>, dilation |-> <<1>>, groups |-> 1, xs |-> <<1, 2, 3>>, ws |-> <<1, 2, 3>>]
ConvCalls ==
    {Call("conv_general", <<T(x, <<1, -2, 3, 4, 5>>), T(w, <<2, 3, -1>>)>>, arg) :
        x \in {Signal, Batches}, w \in {Taps, TapsOf2},
        arg \in {Conv, [Conv EXCEPT !.strides = <<2>>, !.padding = <<<<1, 2>>>>], [Conv EXCEPT !.groups = 2],
                 [Conv EXCEPT !.groups = 2, !.spread = <<2>>, !.padding = <<<<1, 0>>>>], [Conv EXCEPT !.dilation = <<3>>],
                 [Conv EXCEPT !.dilation = <<4>>]}}
      \cup {Call("conv_general", <<T(SignalLast, <<1, -2, 3, 4, 5>>), T(TapsOf2, <<2, 3, -1>>)>>,
                 [Conv EXCEPT !.xs = <<3, 2, 1>>, !.ws = <<2, 3, 1>>, !.dilation = <<2>>])}

MCCalls == {UnaryCalls, ScalarCalls, BinaryCalls, SelectCalls, ClampCalls, ReduceCalls, CumsumCalls, SelectionCalls,
            GatherCalls, ScatterCalls, MatmulCalls, ConvCalls}
=============================================================================
