------------------------------ MODULE MCFunctional ------------------------------
(***************************************************************************)
(* Calls for Functional: every short description, well-formed or not, and  *)
(* chosen ones, on small tensors in order, transposed, nested and          *)
(* broadcast; axes, positions and permutations in and out of range.        *)
(***************************************************************************)
EXTENDS MCTensorKernels, Functional

Request(c, name, ts, arg) == [name |-> name, operands |-> [i \in 1 .. Len(ts) |-> On(c, ts[i])], arg |-> arg]
OfTwoCarriers(name, x, y, arg) == [name |-> name, operands |-> <<On("generic", x), On("cpu", y)>>, arg |-> arg]

Row3 == T(Broad, <<1, 2, 3, 4, 5, 6>>)
Turned == T(<<Leaf(2, 1), Leaf(3, 2)>>, <<3, -1, 4, 1, -5, 9>>)
Layered == T(Nested, <<1, 2, 3, 4, 5, 6, 7, 8>>)
LayeredLast == T(NestedLast, <<2, 7, 1, 8, -2, 8, 1, 8>>)
Thin == T(Slim, <<2, 3>>)
Square == T(Transposed, <<1, 2, 3, 4>>)
Spread == T(<<Leaf(2, 1), Leaf(2, 0)>>, <<5, 6>>)

(* Every description with up to four tokens on one side.                   *)
Tokens == {"(", ")", "a", "b", "1"}
Short == UNION {[1 .. n -> Tokens] : n \in 0 .. 4}
EveryDescription(c, name) ==
    {Request(c, name, <<Row3>>, left \o <<"->", "b", "a">>) : left \in Short}
      \cup {Request(c, name, <<Row3>>, <<"a", "b", "->">> \o right) : right \in Short}

Regroupings ==
    {Request(c, name, <<t>>, d) :
       c \in Carriers, name \in {"rearrange", "reduce"} \cup Reductions, t \in {Layered, LayeredLast, Turned, Thin, Spread},
       d \in {<<"(", "a", "b", ")", "c", "->", "c", "(", "b", "a", ")">>, <<"a", "(", "b", "c", ")", "->", "(", "a", "c", ")", "1", "b">>,
              <<"a", "(", "b", "c", ")", "->", "b">>, <<"(", "a", "b", ")", "c", "->", "(", "c", "1", ")", "a">>,
              <<"a", "b", "->", "(", "b", "a", ")">>, <<"a", "b", "->", "1">>, <<"a", "b", "->", "a">>, <<"a", "b", "->", "b">>,
              <<"a", "1", "->", "a">>, <<"a", "1", "->", "1", "a">>, <<"a", "b", "c", "->", "b">>, <<"a", "->", "b", "->", "a">>,
              <<"a", "b">>, <<"a", ",", "b", "->", "a">>}}

(* Without a batch, with one, with nothing contracted, and ill-formed.     *)
Contracted == {<<"a", "b", ",", "c", "b", "->", "a", "c">>, <<"b", "a", ",", "b", "c", "->", "c", "a">>, <<"a", "b", ",", "a", "b", "->", "1">>,
               <<"a", "b", ",", "b", "a", "->", "1">>,                <<"a", "b", ",", "b", "c", "->", "(", "c", "a", ")">>, <<"a", "b", ",", "b", "1", "->", "a", "1">>}
Batched == {<<"a", "b", ",", "a", "b", "->", "b">>, <<"a", "b", ",", "a", "b", "->", "b", "a">>, <<"a", "b", ",", "a", "c", "->", "b", "a", "c">>,
            <<"a", "b", ",", "b", "a", "->", "(", "a", "b", ")">>, <<"a", "1", ",", "a", "b", "->", "b">>, <<"a", "1", ",", "a", "b", "->", "a", "b">>}
IllFormed == {<<"a", "b", ",", "b", "c", "->", "a">>, <<"a", "b", ",", "c", "d", "->", "a", "b", "c", "d">>, <<"a", "b", ",", "b", "c", "->", "a", "d">>,
              <<"a", "b", "->", "b">>, <<"a", ",", "b", ",", "c", "->", "a">>, <<"a", "a", ",", "a", "b", "->", "b">>}
Hierarchical == {<<"(", "a", "b", ")", "c", ",", "c", "d", "->", "d", "(", "a", "b", ")">>, <<"(", "a", "b", ")", "c", ",", "(", "a", "b", ")", "d", "->", "d", "c">>,
                 <<"(", "a", "b", ")", "c", ",", "c", "(", "a", "d", ")", "->", "a", "b", "d">>, <<"a", "b", ",", "a", "b", "->", "a">>,
                 <<"a", "b", ",", "b", "c", "->", "a", "c">>, <<"a", "b", ",", "a", "c", "->", "a", "c", "b">>}
Contractions ==
    {Request(c, "einsum", <<x, y>>, d) : c \in Carriers, x \in {Turned, Square, Spread, Thin}, y \in {Row3, Square, Spread, Thin},
                                         d \in Contracted \cup Batched \cup IllFormed}
NestedContractions ==
    {Request(c, "einsum", <<x, y>>, d) : c \in Carriers, x \in {Layered, LayeredLast, Square}, y \in {Layered, LayeredLast, Row3}, d \in Hierarchical}
Strangers == {OfTwoCarriers("einsum", Square, Square, d) : d \in Contracted \cup Batched}

BroadcastsInDim ==
    {Request(c, "broadcast_in_dim", <<t>>, [target |-> target, dims |-> dims]) :
       c \in Carriers, t \in {T(<<Leaf(2, 1)>>, <<5, 7>>), Thin, Spread, Row3},
       target \in {<<Leaf(2, 1), Leaf(3, 2)>>, <<Leaf(2, 0), Leaf(2, 0), Leaf(2, 0)>>, <<Leaf(3, 0), Node(<<Leaf(2, 0), Leaf(2, 0)>>)>>},
       dims \in {<<1>>, <<2>>, <<3>>, <<0>>, <<1, 2>>, <<2, 1>>, <<1, 3>>, <<2, 3>>, <<2, 2>>}}
Broadcasts == {Request(c, "broadcast_to", <<t>>, target) :
                 c \in Carriers, t \in {Thin, Spread, Layered}, target \in {<<Leaf(2, 0), Leaf(4, 0)>>, <<Leaf(2, 0), Leaf(2, 0)>>, <<Leaf(2, 0)>>, Nested}}
ThreeOrders == {<<1, 2, 3>>, <<3, 1, 2>>, <<2, 3, 1>>, <<3, 2, 1>>, <<1, 1, 2>>, <<1, 2>>}
Permutes == {Request(c, "permute", <<t>>, order) :
               c \in Carriers, t \in {Row3, Layered, T(SignalLast, <<1, -2, 3, 4, 5>>)}, order \in ThreeOrders \cup {<<2, 1>>}}
Convolutions ==
    {Request(c, "conv_general", <<T(SignalLast, <<1, -2, 3, 4, 5>>), T(TapsOf2, <<2, 3, -1>>)>>,
             [strides |-> <<s>>, padding |-> <<<<1, 0>>>>, spread |-> <<1>>, dilation |-> <<1>>, groups |-> 1,
              lhs |-> lhs, kernel |-> kernel, output |-> output]) :
       c \in Carriers, s \in {1, 2}, lhs \in {<<3, 2, 1>>, <<2, 1, 3>>, <<1, 1, 2>>}, kernel \in {<<1, 2, 3>>, <<2, 3, 1>>}, output \in ThreeOrders}

Axes == -3 .. 2
Picks == {T(<<Leaf(2, 1)>>, <<1, 0>>), T(<<Leaf(3, 2)>>, <<1, 1, 2>>)}
RunningSums == {Request(c, "cumsum", <<t>>, n) : c \in Carriers, t \in {Row3, Layered, Spread}, n \in Axes}
Gathers == {Request(c, "gather", <<t, ix>>, n) : c \in Carriers, t \in {Row3, Layered, Spread}, ix \in Picks, n \in Axes}
Scatters ==
    {Request(c, name, <<t, ix, T(<<Leaf(a, 1), Leaf(b, a)>>, <<10, 20, 30, 40>>)>>, n) :
       c \in Carriers, name \in {"scatter", "scatter_add"}, t \in {Turned, Square}, a \in 2 .. 3, b \in 2 .. 3, n \in Axes, ix \in Picks}
Sorts == {Request(c, "sort", <<t>>, [axis |-> n, descending |-> d]) : c \in Carriers, t \in {Turned, Spread}, n \in Axes, d \in BOOLEAN}
Topks == {Request(c, "topk", <<t>>, [axis |-> n, k |-> k, largest |-> d]) : c \in Carriers, t \in {Turned, Spread}, n \in Axes, d \in BOOLEAN, k \in 0 .. 3}

Pairwise ==
    {Request(c, name, <<x, y>>, 0) :
       c \in Carriers, name \in ((Sums \cup Extremes \cup Predicates) \ {"neg", "div", "rem"}) \cup {"gt", "ge", "pow"},
       x \in {Turned, Thin, T(Padded, Mixed)}, y \in {Row3, Spread, Thin, T(InOrder, Mixed), Layered}}
      \cup {Request(c, "rem", <<T(Padded, <<33, -33, 4>>), T(InOrder, <<20, -20>>)>>, 0) : c \in Carriers}
      \cup {Request(c, "div", <<T(Padded, <<48, -24, 96>>), T(Slim, <<2, -1>>)>>, 0) : c \in Carriers}
      \cup {OfTwoCarriers("add", Square, Square, 0)}
Single ==
    {Request(c, name, <<t>>, 2) : c \in Carriers, name \in {"mul", "pow", "neg"} \cup Roots \cup Waves \cup Roundings \cup Gates \cup SmoothGates,
                                  t \in {T(Transposed, Mixed), Spread, Layered}}
Choices == {Request(c, "select", <<T(ms, <<1, 0, 0, 1>>), Thin, y>>, 0) :
              c \in Carriers, ms \in {Slim, Transposed, Broad}, y \in {Square, Spread, Row3, Layered}}

Clamps == {Request(c, "clamp", <<x, T(b, <<0, 4, 8>>)>>, [low |-> <<>>, high |-> <<8>>]) :
             c \in Carriers, x \in {Thin, T(Padded, Mixed), Spread}, b \in {Slim, InOrder, Broad, Nested}}
            \cup {OfTwoCarriers("clamp", Square, Thin, [low |-> <<-4>>, high |-> <<>>])}

Products == {Request(c, "matmul", <<x, w>>, 0) : c \in Carriers, x \in {Row3, Turned, Square, LayeredLast}, w \in {Square, Row3, Thin, Turned}}

(* The parameters of a layer are of the CPU carrier and in order.          *)
Linear(x, parameters) == [name |-> "linear", operands |-> <<x>> \o [i \in 1 .. Len(parameters) |-> On("cpu", parameters[i])], arg |-> 0]
Weights == {T(Canonical(ms), <<1, -2, 3, 4, 5, -6>>) : ms \in {InOrder, Broad, Slim}}
Layers == {Linear(On(c, x), <<w>> \o b) : c \in Carriers, x \in {Row3, Square, Turned, LayeredLast, Layered}, w \in Weights, b \in {<<>>, <<T(Canonical(Slim), <<100, 200>>)>>}}
Totals == {Request(c, "sum", <<t>>, 0) : c \in Carriers, t \in {Turned, Row3, Spread, Layered}}
Means == {Request(c, "mean", <<t>>, 0) : c \in Carriers, t \in {T(Padded, <<4, 8, -12, 20>>), T(<<Leaf(4, 1)>>, <<4, 8>>), Layered}}
Losses == {Request(c, "mse_loss", <<T(Padded, <<4, 8, -12, 20>>), y>>, 0) : c \in Carriers, y \in {T(Padded, <<0, 2, 4, 6>>), T(InOrder, <<0, 2, 4, 6>>), Thin}}

(* Modes that come and go, other shapes, and nested lists.                 *)
Units == {Request(c, name, <<t>>, n) : c \in Carriers, name \in {"unsqueeze", "squeeze"}, n \in -4 .. 3,
                                      t \in {Row3, Thin, Spread, Layered, T(<<Leaf(1, 0), Leaf(2, 1), Leaf(1, 0)>>, <<8, 9>>), T(<<Leaf(1, 0)>>, <<7>>)}}
Reshapes == {Request(c, "reshape", <<t>>, target) : c \in Carriers, t \in {Row3, Turned, Square, Layered, T(InOrder, Mixed), T(<<Leaf(6, 2)>>, Mixed)},
                                                   target \in {<<Leaf(2, 0), Leaf(3, 0)>>, <<Leaf(6, 0)>>, <<Leaf(2, 0), Leaf(2, 0)>>, <<Leaf(4, 0)>>,
                                                               <<Leaf(2, 0), Node(<<Leaf(1, 0), Leaf(3, 0)>>)>>, <<Leaf(2, 0), Node(<<Leaf(2, 0), Leaf(2, 0)>>)>>}}
Bare(n) == [value |-> n]
Listing(values) == [items |-> values]
Rows2 == {Listing([i \in 1 .. n |-> Bare(m + i)]) : n \in 0 .. 3, m \in {0, 10}} \cup {Bare(5)}
Lists2 == {Listing(rows) : rows \in UNION {[1 .. n -> Rows2] : n \in 0 .. 3}}
Cube(values) == Listing(<<values, values>>)
Creations == {[name |-> "tensor", operands |-> <<>>, arg |-> v] : v \in Rows2 \cup Lists2 \cup {Cube(v) : v \in Lists2}}

MCRequests == {EveryDescription("generic", "rearrange"), EveryDescription("cpu", "reduce_sum"), Regroupings, Contractions, NestedContractions, Strangers,
               BroadcastsInDim, Broadcasts, Permutes, Convolutions, RunningSums, Gathers, Scatters, Sorts, Topks, Pairwise, Single, Choices, Clamps,
               Units, Reshapes, Creations, Products, Layers, Totals, Means, Losses}
=============================================================================
