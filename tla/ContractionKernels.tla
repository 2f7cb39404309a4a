-------------------------- MODULE ContractionKernels --------------------------
(***************************************************************************)
(* Matrix products and grouped convolutions with strides, padding and      *)
(* dilations, their modes in any roles: carriers/generic/ops.py and        *)
(* convolution_ops.py, carriers/cpu/native/ops/matmul.cpp and              *)
(* conv_general.cpp.                                                       *)
(***************************************************************************)
EXTENDS SelectionKernels
LOCAL INSTANCE SequencesExt

(* Sums of products of two sequences, in order.                            *)
Dot(xs, ys) == Folded(LAMBDA a, n : Plus(a, Times(xs[n], ys[n])), 0, [n \in 1 .. Len(xs) |-> n])
-----------------------------------------------------------------------------
(* Matrix products: [n, k] with [m, k].                                    *)
CanMultiply(a, b) == Len(a.modes) = 2 /\ Len(b.modes) = 2 /\ Columns(a.modes) = Columns(b.modes)
ProductLayout(a, b) == Canonical(<<a.modes[1], b.modes[1]>>)

(* Row i, column j of an operand.                                          *)
Row(t, i) == [j \in 1 .. Columns(t.modes) |-> ElementAt(t, <<i, j - 1>>)]
Column(t, j) == [i \in 1 .. Rows(t.modes) |-> ElementAt(t, <<i - 1, j>>)]
ByRows(n, ms, f(_, _)) == [k \in 0 .. Size(ms) - 1 |-> f(k % n, k \div n)]

GenericMatmul(a, b) ==
    IF CanMultiply(a, b)
    THEN Answer(Placed(ProductLayout(a, b), ByRows(Rows(a.modes), ProductLayout(a, b), LAMBDA i, j : Dot(Row(a, i), Row(b, j)))), <<a, b>>)
    ELSE Refused
GenericMatmulGradients(a, b, g) ==
    <<Detached(a.modes, ByRows(Rows(a.modes), a.modes, LAMBDA i, k : Dot(Row(g, i), Column(b, k)))),
      Detached(b.modes, ByRows(Rows(b.modes), b.modes, LAMBDA j, k : Dot(Column(g, j), Column(a, k))))>>

(* floating_dot: both keys advance along a mode of theirs.                 *)
CpuDot(a, ns, p, b, ms, q, length) ==
    Folded(LAMBDA sum, k : Plus(sum, Times(ReadAt(a, [ns EXCEPT ![p] = k - 1]), ReadAt(b, [ms EXCEPT ![q] = k - 1]))),
           0, [k \in 1 .. length |-> k])
CpuMatmul(a, b) ==
    IF CanMultiply(a, b)
    THEN Answer(WrittenByMode(ProductLayout(a, b), LAMBDA ns : CpuDot(a, <<ns[1], 0>>, 2, b, <<ns[2], 0>>, 2, Columns(a.modes))), <<a, b>>)
    ELSE Refused
CpuMatmulGradients(a, b, g) ==
    <<WrittenByMode(OwnLayout(a.modes), LAMBDA ns : CpuDot(g, <<ns[1], 0>>, 2, b, <<0, ns[2]>>, 1, Rows(b.modes))),
      WrittenByMode(OwnLayout(b.modes), LAMBDA ns : CpuDot(g, <<0, ns[1]>>, 1, a, <<0, ns[2]>>, 1, Rows(a.modes)))>>
-----------------------------------------------------------------------------
(* Convolutions.  arg has strides, padding, spread (the dilation of the    *)
(* input), dilation (of the kernel), groups, and the roles of the modes of *)
(* the input and of the kernel: batch or output feature, feature, space.   *)
SpatialRank(t) == Len(t.modes) - 2
RoleExtents(t, roles) == [i \in 1 .. Len(roles) |-> Size(Mode(t.modes[roles[i]]))]

(* Coordinates in the order of the roles as those of the modes.            *)
AsModes(roles, cs) == [m \in 1 .. Len(roles) |-> cs[CHOOSE i \in 1 .. Len(roles) : roles[i] = m]]
ReadRole(t, roles, cs) == Element(t, OrdinalOf(ModeExtents(t.modes), AsModes(roles, cs)))
CpuReadRole(t, roles, cs) == ReadAt(t, AsModes(roles, cs))

ConvExtent(arg, x, w, d) ==
    LET reach(n, spread) == (n - 1) * spread + 1
    IN (arg.padding[d][1] + reach(x, arg.spread[d]) + arg.padding[d][2] - reach(w, arg.dilation[d])) \div arg.strides[d] + 1
ConvSpace(x, w, arg) ==
    [d \in 1 .. SpatialRank(x) |-> ConvExtent(arg, RoleExtents(x, arg.xs)[d + 2], RoleExtents(w, arg.ws)[d + 2], d)]
Features(x, w, arg) == RoleExtents(x, arg.xs)[2] \div arg.groups

CanConvolve(x, w, arg) ==
    /\ SpatialRank(x) >= 1 /\ SpatialRank(w) = SpatialRank(x)
    /\ arg.groups > 0
    /\ \A d \in 3 .. Len(x.modes) : AtLeaf(x.modes[arg.xs[d]]) /\ AtLeaf(w.modes[arg.ws[d]])
    /\ RoleExtents(x, arg.xs)[2] % arg.groups = 0 /\ RoleExtents(w, arg.ws)[1] % arg.groups = 0
    /\ RoleExtents(w, arg.ws)[2] = Features(x, w, arg)
    /\ \A d \in 1 .. SpatialRank(x) : ConvSpace(x, w, arg)[d] > 0
ConvLayout(x, w, arg) ==
    Canonical(<<x.modes[arg.xs[1]], w.modes[arg.ws[1]]>> \o [d \in 1 .. SpatialRank(x) |-> Leaf(ConvSpace(x, w, arg)[d], 0)])

(* Where an element of the output and one of the kernel meet the input:    *)
(* Hole in the padding and between spread elements.                        *)
Hole == <<>>
ConvPlace(x, w, arg, ys, ks) ==
    LET group == ys[2] \div (RoleExtents(w, arg.ws)[1] \div arg.groups)
        spread(d) == ys[d + 2] * arg.strides[d] + ks[d + 1] * arg.dilation[d] - arg.padding[d][1]
    IN IF \E d \in 1 .. SpatialRank(x) :
              \/ spread(d) < 0 \/ spread(d) % arg.spread[d] # 0
              \/ spread(d) \div arg.spread[d] >= RoleExtents(x, arg.xs)[d + 2]
       THEN Hole
       ELSE <<ys[1], group * Features(x, w, arg) + ks[1]>> \o [d \in 1 .. SpatialRank(x) |-> spread(d) \div arg.spread[d]]

(* The coordinates of a kernel element in a contraction, by ordinal, the   *)
(* channel first.                                                          *)
ConvKernelSizes(x, w, arg) == <<Features(x, w, arg)>> \o SubSeq(RoleExtents(w, arg.ws), 3, Len(w.modes))
ConvOver(x, w, arg) ==
    LET sizes == ConvKernelSizes(x, w, arg) IN [k \in 1 .. Product(sizes) |-> ModeOrdinals(sizes, k - 1)]

ConvValue(x, w, arg, ys, ks) ==
    LET at == ConvPlace(x, w, arg, ys, ks) IN IF at = Hole THEN 0 ELSE ReadRole(x, arg.xs, at)
ConvWeight(ys, ks) == <<ys[2]>> \o ks

GenericConv(x, w, arg) ==
    IF ~CanConvolve(x, w, arg) THEN Refused
    ELSE LET out == ConvLayout(x, w, arg)
             over == ConvOver(x, w, arg)
             total(ys) == Dot([k \in 1 .. Len(over) |-> ConvValue(x, w, arg, ys, over[k])],
                              [k \in 1 .. Len(over) |-> ReadRole(w, arg.ws, ConvWeight(ys, over[k]))])
         IN Answer(Placed(out, [k \in 0 .. Size(out) - 1 |-> total(ModeOrdinals(ModeExtents(out), k))]), <<x, w>>)

(* Each meeting of an output and a kernel element adds to the gradient of  *)
(* the element of the input, unless it is a hole, and of the kernel's.     *)
GenericConvGradients(x, w, arg, g) ==
    LET over == ConvOver(x, w, arg)
        meetings == [n \in 1 .. Size(g.modes) * Len(over) |->
                       [y |-> (n - 1) \div Len(over), ks |-> over[((n - 1) % Len(over)) + 1]]]
        ys(m) == ModeOrdinals(ModeExtents(g.modes), m.y)
        ordinal(t, roles, cs) == OrdinalOf(ModeExtents(t.modes), AsModes(roles, cs))
        add(acc, m) ==
            LET at == ConvPlace(x, w, arg, ys(m), m.ks)
                weight == ordinal(w, arg.ws, ConvWeight(ys(m), m.ks))
                given == Element(g, m.y)
            IN [x |-> IF at = Hole THEN acc.x
                      ELSE [acc.x EXCEPT ![ordinal(x, arg.xs, at)] = Plus(@, Times(given, Element(w, weight)))],
                w |-> [acc.w EXCEPT ![weight] = Plus(@, Times(given, ConvValue(x, w, arg, ys(m), m.ks)))]]
        both == FoldLeft(add, [x |-> Zeros(Size(x.modes)), w |-> Zeros(Size(w.modes))], meetings)
    IN <<Detached(x.modes, both.x), Detached(w.modes, both.w)>>

(* The native checks: roles and extents of the modes as it goes, and each  *)
(* extent of the output by a division that rounds down.                    *)
CpuCanConvolve(x, w, arg) ==
    LET xs == RoleExtents(x, arg.xs)
        ws == RoleExtents(w, arg.ws)
        leaves(t, m) == Len(Infix(Mode(t.modes[m])))
    IN /\ Len(x.modes) >= 3 /\ Len(w.modes) = Len(x.modes) /\ arg.groups > 0
       /\ \A d \in 3 .. Len(x.modes) : leaves(x, arg.xs[d]) = 1 /\ leaves(w, arg.ws[d]) = 1
       /\ xs[2] % arg.groups = 0 /\ ws[1] % arg.groups = 0 /\ ws[2] = xs[2] \div arg.groups
       /\ \A d \in 1 .. SpatialRank(x) : ConvExtent(arg, xs[d + 2], ws[d + 2], d) > 0

(* The digits of a kernel element, its space first, and the key of the     *)
(* input that it meets in an output, Hole if some digit has none.          *)
CpuConvKey(x, w, arg, ys, ks) ==
    LET xs == RoleExtents(x, arg.xs)
        u(d) == ys[d + 2] * arg.strides[d] + ks[d + 1] * arg.dilation[d] - arg.padding[d][1]
        valid == \A d \in 1 .. SpatialRank(x) :
                    u(d) >= 0 /\ u(d) % arg.spread[d] = 0 /\ u(d) \div arg.spread[d] < xs[d + 2]
        channel == (ys[2] \div (RoleExtents(w, arg.ws)[1] \div arg.groups)) * (xs[2] \div arg.groups) + ks[1]
        roles == <<ys[1], channel>> \o [d \in 1 .. SpatialRank(x) |-> u(d) \div arg.spread[d]]
    IN IF valid THEN FlattenSeq([m \in 1 .. Len(x.modes) |-> Decoded(Infix(Mode(x.modes[m])), AsModes(arg.xs, roles)[m])])
       ELSE Hole

(* The native loops: the kernel's space outside, its channel inside, and   *)
(* every element by key.                                                   *)
CpuConvTerms(x, w, arg, ys) ==
    LET sizes == ConvKernelSizes(x, w, arg)
        space == Product(Tail(sizes))
    IN [n \in 1 .. space * sizes[1] |-> <<(n - 1) % sizes[1]>> \o ModeOrdinals(Tail(sizes), (n - 1) \div sizes[1])]
CpuConv(x, w, arg) ==
    IF ~CpuCanConvolve(x, w, arg) THEN Refused
    ELSE LET term(ys, ks) == LET at == CpuConvKey(x, w, arg, ys, ks)
                             IN Times(IF at = Hole THEN 0 ELSE Read(x, at), CpuReadRole(w, arg.ws, ConvWeight(ys, ks)))
             sum(ys) == Folded(LAMBDA a, ks : Plus(a, term(ys, ks)), 0, CpuConvTerms(x, w, arg, ys))
         IN Answer(WrittenByMode(ConvLayout(x, w, arg), sum), <<x, w>>)
CpuConvGradients(x, w, arg, g) ==
    LET sizes == ModeExtents(g.modes)
        outputs == [k \in 1 .. Size(g.modes) |-> ModeOrdinals(sizes, k - 1)]
        put(t, key, v) == [t EXCEPT !.cells[Expanded(t.modes, key)] = Plus(@, v)]
        meet(acc, ys, ks) ==
            LET at == CpuConvKey(x, w, arg, ys, ks)
                given == ReadAt(g, ys)
                value == IF at = Hole THEN 0 ELSE Read(x, at)
            IN <<IF at = Hole THEN acc[1] ELSE put(acc[1], at, Times(given, CpuReadRole(w, arg.ws, ConvWeight(ys, ks)))),
                 put(acc[2], ModeKey(w.modes, AsModes(arg.ws, ConvWeight(ys, ks))), Times(given, value))>>
    IN FoldLeft(LAMBDA acc, ys : FoldLeft(LAMBDA a, ks : meet(a, ys, ks), acc, CpuConvTerms(x, w, arg, ys)),
                <<Written(OwnLayout(x.modes), LAMBDA key : 0), Written(OwnLayout(w.modes), LAMBDA key : 0)>>, outputs)
=============================================================================
