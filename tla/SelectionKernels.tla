--------------------------- MODULE SelectionKernels ---------------------------
(***************************************************************************)
(* Sort and top-k along a mode, and gather and scatter by the indices of   *)
(* a tensor: carriers/generic/selection_ops.py and indexing_ops.py,        *)
(* carriers/cpu/native/ops/sort.cpp, gather.cpp and scatter.cpp.           *)
(***************************************************************************)
EXTENDS ReductionKernels
LOCAL INSTANCE SequencesExt
LOCAL INSTANCE FiniteSetsExt

(* The values put one after the other at their places.                     *)
Updated(onto, places, values, f(_, _)) ==
    FoldLeft(LAMBDA acc, n : [acc EXCEPT ![places[n - 1]] = f(@, values[n - 1])],
             onto, [n \in 1 .. Cardinality(DOMAIN places) |-> n])
Latest(old, new) == new
Zeros(n) == [k \in 0 .. n - 1 |-> 0]
-----------------------------------------------------------------------------
(* Sort and top-k; a count of zero sorts.                                  *)

(* _compare_values *)
GenericBefore(values, descending, p, q) ==
    IF NaN \in {values[p], values[q]}
    THEN IF values[p] = values[q] THEN p < q ELSE (values[p] = NaN) = descending
    ELSE IF Equal(values[p], values[q]) THEN p < q ELSE Above(values[p], values[q]) = descending

(* The comparison of std::stable_sort.                                     *)
CpuBefore(values, largest, p, q) ==
    LET nan(n) == values[n] = NaN
    IN IF nan(p) # nan(q) THEN nan(p) = largest
       ELSE IF nan(p) \/ Equal(values[p], values[q]) THEN p < q
       ELSE IF largest THEN Above(values[p], values[q]) ELSE Above(values[q], values[p])

(* _selection_shape *)
SelectionLayout(ms, axis, count) == Canonical(IF count = 0 THEN ms ELSE [ms EXCEPT ![axis] = Leaf(count, 0)])
CanSelect(ms, arg) == arg.axis <= Len(ms) /\ arg.count <= Size(Mode(ms[arg.axis]))

(* _selection_forward: where each element of the result comes from.        *)
GenericSources(t, arg) ==
    LET sizes == ModeExtents(t.modes)
        out == SelectionLayout(t.modes, arg.axis, arg.count)
        fiber(ns) == [p \in 1 .. sizes[arg.axis] |-> ElementAt(t, [ns EXCEPT ![arg.axis] = p - 1])]
        order(values) == SetToSortSeq(1 .. Len(values), LAMBDA p, q : GenericBefore(values, arg.largest, p, q))
        source(ns) == [ns EXCEPT ![arg.axis] = order(fiber(ns))[@ + 1] - 1]
    IN [k \in 0 .. Size(out) - 1 |-> source(ModeOrdinals(ModeExtents(out), k))]

GenericSelection(t, arg) ==
    IF ~CanSelect(t.modes, arg) THEN Refused
    ELSE LET from == GenericSources(t, arg)
             value(ns) == IF arg.indices THEN ns[arg.axis] ELSE ElementAt(t, ns)
         IN Answer(Placed(SelectionLayout(t.modes, arg.axis, arg.count), [k \in DOMAIN from |-> value(from[k])]), <<t>>)

(* _backward_values *)
GenericSelectionGradient(t, arg, g) ==
    LET from == GenericSources(t, arg)
        places == [k \in DOMAIN from |-> OrdinalOf(ModeExtents(t.modes), from[k])]
    IN Detached(t.modes, Updated(Zeros(Size(t.modes)), places, Elements(g), Latest))

(* The entry that the loop over the fibers finds for each position.        *)
CpuSource(t, arg, ns) ==
    LET size == Size(Mode(t.modes[arg.axis]))
        entries == [p \in 1 .. size |-> ReadAt(t, [ns EXCEPT ![arg.axis] = p - 1])]
        order == SetToSortSeq(1 .. size, LAMBDA p, q : CpuBefore(entries, arg.largest, p, q))
    IN [ns EXCEPT ![arg.axis] = order[@ + 1] - 1]

CpuSelection(t, arg) ==
    LET value(ns) == LET from == CpuSource(t, arg, ns) IN IF arg.indices THEN from[arg.axis] ELSE ReadAt(t, from)
    IN IF CanSelect(t.modes, arg)
       THEN Answer(WrittenByMode(SelectionLayout(t.modes, arg.axis, arg.count), value), <<t>>) ELSE Refused

CpuSelectionGradient(t, arg, g) ==
    LET ms == OwnLayout(t.modes)
        place(k) == Expanded(ms, ModeKey(ms, CpuSource(t, arg, ModeOrdinals(ModeExtents(g.modes), k))))
    IN [modes |-> ms,
        cells |-> Updated(Zeros(Cosize(ms)), [k \in 0 .. Size(g.modes) - 1 |-> place(k)],
                          [k \in 0 .. Size(g.modes) - 1 |-> Read(g, KeyOf(g.modes, k))], Plus)]
-----------------------------------------------------------------------------
(* Gather and scatter.                                                     *)

(* _output_shape: the modes of the indices in place of the axis.           *)
IndexedModes(ms, ix, axis) == SubSeq(ms, 1, axis - 1) \o ix.modes \o SubSeq(ms, axis + 1, Len(ms))

(* _validate_indices *)
ValidIndices(ms, ix, axis, unique) ==
    /\ axis <= Len(ms)
    /\ \A k \in DOMAIN Elements(ix) : Element(ix, k) \in 0 .. Size(Mode(ms[axis])) - 1
    /\ unique => \A j, k \in DOMAIN Elements(ix) : Element(ix, j) = Element(ix, k) => j = k

(* The same by key, mode by mode (validate_indices, the set of the seen).  *)
CpuValidIndices(ms, ix, axis, unique) ==
    LET read == {<<k, Read(ix, KeyOf(ix.modes, k))>> : k \in 0 .. Size(ix.modes) - 1}
    IN /\ axis <= Len(ms)
       /\ \A r \in read : r[2] >= 0 /\ r[2] < Size(Mode(ms[axis]))
       /\ unique => Cardinality({r[2] : r \in read}) = Size(ix.modes)

(* The coordinates of the base that coordinates of the output select.      *)
Chosen(ix, axis, ns) ==
    LET last == axis + Len(ix.modes) - 1
        at == OrdinalOf(ModeExtents(ix.modes), SubSeq(ns, axis, last))
    IN SubSeq(ns, 1, axis - 1) \o <<Element(ix, at)>> \o SubSeq(ns, last + 1, Len(ns))
ChosenAt(ms, ix, axis) ==
    LET sizes == ModeExtents(IndexedModes(ms, ix, axis))
    IN [k \in 0 .. Product(sizes) - 1 |-> Chosen(ix, axis, ModeOrdinals(sizes, k))]

(* _gather_values *)
Gathered(t, ix, axis) == LET from == ChosenAt(t.modes, ix, axis) IN [k \in DOMAIN from |-> ElementAt(t, from[k])]
Destinations(ms, ix, axis) == LET to == ChosenAt(ms, ix, axis) IN [k \in DOMAIN to |-> OrdinalOf(ModeExtents(ms), to[k])]

GenericGather(t, ix, axis) ==
    IF ValidIndices(t.modes, ix, axis, FALSE)
    THEN Answer(Placed(Canonical(IndexedModes(t.modes, ix, axis)), Gathered(t, ix, axis)), <<t, ix>>) ELSE Refused
GenericGatherGradient(t, ix, axis, g) ==
    Detached(t.modes, Updated(Zeros(Size(t.modes)), Destinations(t.modes, ix, axis), Elements(g), Plus))

(* _scatter_values *)
GenericScatter(add, t, ix, u, axis) ==
    IF ValidIndices(t.modes, ix, axis, ~add) /\ SameShape(u.modes, IndexedModes(t.modes, ix, axis))
    THEN LET put(old, new) == IF add THEN Plus(old, new) ELSE new
         IN Answer(Placed(Canonical(t.modes), Updated(Elements(t), Destinations(t.modes, ix, axis), Elements(u), put)), <<t, ix, u>>)
    ELSE Refused
GenericScatterGradients(t, ix, u, axis, g) ==
    LET to == Destinations(t.modes, ix, axis)
        kept == Updated(Elements(g), to, [k \in DOMAIN to |-> 0], Latest)
    IN <<Detached(t.modes, kept), Detached(u.modes, Gathered(g, ix, axis))>>

GenericScatterAddGradients(t, ix, u, axis, g) == <<Detached(t.modes, Elements(g)), Detached(u.modes, Gathered(g, ix, axis))>>

(* The key of the base that a key of the output selects: its leaves before *)
(* the axis, those of the ordinal read by the leaves of the index, and the *)
(* leaves after.                                                           *)
CpuChosen(ms, ix, axis, key) ==
    LET before == Len(Infix(SubSeq(ms, 1, axis - 1)))
        last == before + Len(Infix(ix.modes))
    IN SubSeq(key, 1, before) \o Decoded(Infix(Mode(ms[axis])), Read(ix, SubSeq(key, before + 1, last)))
          \o SubSeq(key, last + 1, Len(key))

CpuGather(t, ix, axis) ==
    IF CpuValidIndices(t.modes, ix, axis, FALSE)
    THEN Answer(Written(Canonical(IndexedModes(t.modes, ix, axis)), LAMBDA key : Read(t, CpuChosen(t.modes, ix, axis, key))), <<t, ix>>)
    ELSE Refused

(* Writes at the keys that a tensor selects, with what it holds there.     *)
CpuPut(onto, ix, axis, u, f(_, _)) ==
    LET key(k) == KeyOf(u.modes, k)
        all == 0 .. Size(u.modes) - 1
    IN [onto EXCEPT !.cells = Updated(@, [k \in all |-> Expanded(onto.modes, CpuChosen(onto.modes, ix, axis, key(k)))],
                                      [k \in all |-> Read(u, key(k))], f)]
CpuGatherGradient(t, ix, axis, g) == CpuPut(Written(OwnLayout(t.modes), LAMBDA key : 0), ix, axis, g, Plus)

CpuScatter(add, t, ix, u, axis) ==
    IF SameShape(u.modes, IndexedModes(t.modes, ix, axis)) /\ CpuValidIndices(t.modes, ix, axis, ~add)
    THEN LET put(old, new) == IF add THEN Plus(old, new) ELSE new
         IN Answer(CpuPut(Written(Canonical(t.modes), LAMBDA key : Read(t, key)), ix, axis, u, put), <<t, ix, u>>)
    ELSE Refused
CpuScatterGradients(add, t, ix, u, axis, g) ==
    LET copied == Written(OwnLayout(t.modes), LAMBDA key : Read(g, key))
        erase(old, new) == 0
    IN <<IF add THEN copied ELSE CpuPut(copied, ix, axis, u, erase),
         Written(OwnLayout(u.modes), LAMBDA key : Read(g, CpuChosen(t.modes, ix, axis, key)))>>
=============================================================================
