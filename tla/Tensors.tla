-------------------------------- MODULE Tensors --------------------------------
(***************************************************************************)
(* Tensors: a layout and the cells of a carrier it maps coordinates to     *)
(* (tensor.py, carriers/operation_helpers.py), read by ordinal, by an      *)
(* ordinal for each mode, as Python does, and by a key with a digit for    *)
(* each leaf, as the native kernels do (core/native/_layout_index.hpp,     *)
(* carriers/cpu/native/_cpu_layout.hpp).                                   *)
(***************************************************************************)
EXTENDS LayoutAlgebra, Integers
LOCAL INSTANCE SequencesExt
LOCAL INSTANCE FiniteSetsExt

SumOver(S, f(_)) == MapThenSumSet(f, S)

ModeExtents(ms) == [i \in 1 .. Len(ms) |-> Size(Mode(ms[i]))]
-----------------------------------------------------------------------------
(* Layouts of results.                                                     *)

(* _canonical_stride_level: compact strides, the first mode fastest.       *)
RECURSIVE Compact(_, _)
Compact(ms, d) ==
    FoldLeft(LAMBDA acc, t : [modes |-> Append(acc.modes, IF AtLeaf(t) THEN Leaf(t.s, acc.d)
                                                          ELSE Node(Compact(t.modes, acc.d))),
                              d |-> acc.d * Size(Mode(t))],
             [modes |-> <<>>, d |-> d], ms).modes
Canonical(ms) == Compact(ms, 1)

(* _detached_tensor_like keeps an injective layout and makes any other     *)
(* canonical.                                                              *)
OwnLayout(ms) == IF IsInjectiveLayout(ms) THEN ms ELSE Canonical(ms)

(* _has_only_broadcast_aliasing *)
RECURSIVE Collapsed(_)
Collapsed(ms) == [i \in 1 .. Len(ms) |-> IF ~AtLeaf(ms[i]) THEN Node(Collapsed(ms[i].modes))
                                         ELSE IF ms[i].d = 0 THEN Leaf(1, 0) ELSE ms[i]]
OnlyBroadcastAliasing(ms) == ~IsInjectiveLayout(ms) /\ IsInjectiveLayout(Collapsed(ms))

(* _common_level of _align_binary_operands: a leaf of extent one takes the *)
(* extent of the other; no two extents differ otherwise.                   *)
RECURSIVE CommonShape(_, _)
CommonShape(ms, ts) ==
    [i \in 1 .. Len(ms) |-> IF ~AtLeaf(ms[i]) THEN Node(CommonShape(ms[i].modes, ts[i].modes))
                            ELSE IF ms[i].s = 1 THEN ts[i] ELSE ms[i]]
Compatible(ms, ts) ==
    /\ SameProfile(ms, ts)
    /\ \A i \in 1 .. Len(Infix(ms)) : Infix(ms)[i].s = Infix(ts)[i].s \/ 1 \in {Infix(ms)[i].s, Infix(ts)[i].s}

(* The tensor broadcast to a shape: the same cells.                        *)
WidenedTo(t, shape) == [t EXCEPT !.modes = Widened(t.modes, shape)]
-----------------------------------------------------------------------------
(* By ordinal: Tensor.__getitem__ and _physical_values_for_layout.         *)
Element(t, k) == t.cells[Offset(t.modes, k)]
Elements(t) == [k \in 0 .. Size(t.modes) - 1 |-> Element(t, k)]
ElementAt(t, ns) == t.cells[Total(Len(t.modes), LAMBDA i : Offset(Mode(t.modes[i]), ns[i]))]

(* _tensor_with_layout_like: holes are zero.                               *)
Filled(ms, place(_), value(_)) ==
    [modes |-> ms,
     cells |-> FoldLeft(LAMBDA cells, k : [cells EXCEPT ![place(k - 1)] = value(k - 1)],
                        [a \in 0 .. Cosize(ms) - 1 |-> 0], [k \in 1 .. Size(ms) |-> k])]
Placed(ms, values) == Filled(ms, LAMBDA k : Offset(ms, k), LAMBDA k : values[k])
Detached(ms, values) == Placed(OwnLayout(ms), values)
-----------------------------------------------------------------------------
(* By key: index_expanded, increment_key, increment_mode, decode_ordinal.  *)
Decoded(leaves, n) == LET sizes == [j \in 1 .. Len(leaves) |-> leaves[j].s]
                      IN [j \in 1 .. Len(leaves) |-> Digit(sizes, j, n)]
KeyOf(ms, k) == Decoded(Infix(ms), k)
ModeKey(ms, ns) == FlattenSeq([i \in 1 .. Len(ms) |-> Decoded(Infix(Mode(ms[i])), ns[i])])
Expanded(ms, key) == LET leaves == Infix(ms) IN Total(Len(leaves), LAMBDA j : leaves[j].d * key[j])
Read(t, key) == t.cells[Expanded(t.modes, key)]
ReadAt(t, ns) == Read(t, ModeKey(t.modes, ns))

(* The ordinal of each mode at an ordinal of the tensor (_decode_modes,    *)
(* outer_key_for_ordinal).                                                 *)
ModeOrdinals(sizes, k) == [i \in 1 .. Len(sizes) |-> Digit(sizes, i, k)]
OrdinalOf(sizes, ns) == Total(Len(sizes), LAMBDA i : Radix(sizes, i) * ns[i])

(* allocate_cpu_tensor, and a loop that writes at every key: leaf by leaf, *)
(* or mode by mode.                                                        *)
Written(ms, value(_)) == Filled(ms, LAMBDA k : Expanded(ms, KeyOf(ms, k)), LAMBDA k : value(KeyOf(ms, k)))
WrittenByMode(ms, value(_)) ==
    LET at(k) == ModeOrdinals(ModeExtents(ms), k)
    IN Filled(ms, LAMBDA k : Expanded(ms, ModeKey(ms, at(k))), LAMBDA k : value(at(k)))
=============================================================================
