---------------------------- MODULE LayoutAlgebra ----------------------------
(***************************************************************************)
(* The operations of Layout (core/layout.py): a hierarchy of modes, each   *)
(* leaf with an extent and a stride, that maps coordinates to offsets.     *)
(* The modes of a layout are a sequence of trees.  An operation that       *)
(* raises returns Failed.                                                  *)
(***************************************************************************)
EXTENDS Naturals, Sequences, FiniteSets
LOCAL INSTANCE SequencesExt
LOCAL INSTANCE FiniteSetsExt
LOCAL INSTANCE TLC

-----------------------------------------------------------------------------
Leaf(s, d) == [s |-> s, d |-> d, modes |-> <<>>]
Node(ms) == [s |-> 0, d |-> 0, modes |-> ms]
AtLeaf(t) == t.s > 0

(* What an operation returns that raises: no layout has an empty mode.     *)
Failed == <<Node(<<>>)>>

(* layout[i], as a layout.                                                 *)
Mode(t) == IF AtLeaf(t) THEN <<t>> ELSE t.modes
IsLeaf(ms) == Len(ms) <= 1 /\ \A i \in 1 .. Len(ms) : AtLeaf(ms[i])

(* infix: the leaves in order.                                             *)
RECURSIVE Infix(_)
Infix(ms) == IF ms = <<>> THEN <<>>
             ELSE (IF AtLeaf(Head(ms)) THEN <<Head(ms)>> ELSE Infix(Head(ms).modes)) \o Infix(Tail(ms))

RECURSIVE Product(_)
Product(ns) == IF ns = <<>> THEN 1 ELSE Head(ns) * Product(Tail(ns))
RECURSIVE Size(_)
Size(ms) == IF ms = <<>> THEN 1
            ELSE (IF AtLeaf(Head(ms)) THEN Head(ms).s ELSE Size(Head(ms).modes)) * Size(Tail(ms))
Cosize(ms) == 1 + FoldLeft(LAMBDA a, t : a + t.d * (t.s - 1), 0, Infix(ms))

(* index_logical_node: the first mode takes the ordinal modulo its size.   *)
RECURSIVE Offset(_, _)
Offset(ms, key) ==
    LET at(t, k) == IF AtLeaf(t) THEN t.d * k ELSE Offset(t.modes, k)
        split(n) == at(Head(ms), key % n) + Offset(Tail(ms), key \div n)
    IN IF ms = <<>> THEN 0 ELSE split(Size(Mode(Head(ms))))

(* Shape.normalize_input over Shapes: a nested single leaf is a leaf.      *)
RECURSIVE Lifted(_)
Lifted(t) == IF AtLeaf(t) THEN t
             ELSE IF IsLeaf(t.modes) /\ t.modes # <<>> THEN t.modes[1]
             ELSE Node([i \in 1 .. Len(t.modes) |-> Lifted(t.modes[i])])

(* Layout.append: a leaf is one more mode, anything else one nested mode.  *)
AppendTo(ms, l) == IF IsLeaf(l) THEN ms \o l
                   ELSE Append(ms, Node([i \in 1 .. Len(l) |-> Lifted(l[i])]))

(* sorted, by stride and then by position.                                 *)
ByStride(ts) == LET placed == [i \in 1 .. Len(ts) |-> <<ts[i], i>>]
                    sorted == SortSeq(placed, LAMBDA a, b : a[1].d < b[1].d \/ (a[1].d = b[1].d /\ a[2] < b[2]))
                IN [i \in 1 .. Len(ts) |-> sorted[i][1]]

Wide(ts) == SelectSeq(ts, LAMBDA t : t.s > 1)
-----------------------------------------------------------------------------
(* What the code says about a layout.                                      *)

(* is_injective: modes that clear each other's span are injective; else    *)
(* the offsets are compared.                                               *)
IsInjectiveLayout(ms) ==
    LET span(sorted, i) == FoldLeft(LAMBDA a, t : a + (t.s - 1) * t.d, 1, SubSeq(sorted, 1, i - 1))
        clear(sorted) == \A i \in 1 .. Len(sorted) : sorted[i].d >= span(sorted, i)
        apart(n) == Cardinality({Offset(ms, k) : k \in 0 .. n - 1}) = n
        injective(sorted) == (\A i \in 1 .. Len(sorted) : sorted[i].d > 0) /\ (clear(sorted) \/ apart(Size(ms)))
    IN Size(ms) <= Cosize(ms) /\ injective(Wide(ByStride(Infix(ms))))

GcdOf(m, n) == CHOOSE g \in 1 .. m : /\ m % g = 0 /\ n % g = 0
                                     /\ \A h \in g + 1 .. m : ~(m % h = 0 /\ n % h = 0)

(* _composition_injectivity: "yes", "no", or "unknown" without evaluating. *)
StructuralInjectivity(ms) ==
    LET wide == Wide(Infix(ms))
        sorted == ByStride(wide)
        span(i) == 1 + FoldLeft(LAMBDA a, t : a + (t.s - 1) * t.d, 0, SubSeq(sorted, 1, i - 1))
        meet(a, b) == LET g == GcdOf(a.d, b.d) IN b.d \div g < a.s /\ a.d \div g < b.s
        halted == {i \in 1 .. Len(sorted) : sorted[i].d <= span(i) - 1}
    IN IF \/ Size(ms) > Cosize(ms)
          \/ \E i \in 1 .. Len(wide) : wide[i].d = 0
          \/ \E i, j \in 1 .. Len(wide) : i < j /\ meet(wide[i], wide[j])
       THEN "no"
       ELSE IF halted = {} THEN "yes"
       ELSE IF sorted[Min(halted)].d = span(Min(halted)) - 1 THEN "no" ELSE "unknown"

(* uniform_preimage_extent, 0 for None.                                    *)
UniformExtent(ms, target) ==
    LET modes == Wide(ByStride(Infix(ms)))
        positive == SelectSeq(modes, LAMBDA t : t.d > 0)
        covered(i) == Product([j \in 1 .. i - 1 |-> positive[j].s])
    IN IF /\ \A i \in 1 .. Len(positive) : positive[i].d = covered(i)
          /\ covered(Len(positive) + 1) = target
       THEN Product([i \in 1 .. Len(modes) |-> IF modes[i].d = 0 THEN modes[i].s ELSE 1])
       ELSE 0

(* _ordinal_scale: the number by which the layout multiplies an ordinal.   *)
NoScale == 1000
OrdinalScale(ms) ==
    LET leaves == Infix(ms)
        wide == {i \in 1 .. Len(leaves) : leaves[i].s > 1}
        radix(i) == Product([j \in 1 .. i - 1 |-> leaves[j].s])
    IN IF wide = {} THEN 0
       ELSE IF \A i \in wide : leaves[i].d = leaves[Min(wide)].d * radix(i) THEN leaves[Min(wide)].d
       ELSE NoScale
-----------------------------------------------------------------------------
(* Rearrangements.                                                         *)

(* coalesce: a mode that continues the one before is merged into it.       *)
Coalesce(ms) ==
    LET leaves == Infix(ms)
        merge(prefix, t) ==
            LET last == prefix[Len(prefix)]
            IN IF t.s = 1 THEN prefix
               ELSE IF last.s = 1 THEN [prefix EXCEPT ![Len(prefix)] = t]
               ELSE IF t.d = last.s * last.d THEN [prefix EXCEPT ![Len(prefix)].s = @ * t.s]
               ELSE Append(prefix, t)
    IN IF Len(leaves) = 1 THEN ms ELSE FoldLeft(merge, <<leaves[1]>>, Tail(leaves))

RECURSIVE SameProfile(_, _)
SameProfile(ms, ts) ==
    /\ Len(ms) = Len(ts)
    /\ \A i \in 1 .. Len(ms) : AtLeaf(ms[i]) = AtLeaf(ts[i]) /\ SameProfile(ms[i].modes, ts[i].modes)

RECURSIVE SameShape(_, _)
SameShape(ms, ts) ==
    /\ Len(ms) = Len(ts)
    /\ \A i \in 1 .. Len(ms) : ms[i].s = ts[i].s /\ SameShape(ms[i].modes, ts[i].modes)

(* broadcast_to: a leaf of extent one gets the extent of the target and    *)
(* stride zero; no other extent may change.                                *)
CanWiden(ms, ts) ==
    /\ SameProfile(ms, ts)
    /\ \A i \in 1 .. Len(Infix(ms)) : Infix(ms)[i].s \in {1, Infix(ts)[i].s}

RECURSIVE Widened(_, _)
Widened(ms, ts) ==
    [i \in 1 .. Len(ms) |->
        IF ~AtLeaf(ms[i]) THEN Node(Widened(ms[i].modes, ts[i].modes))
        ELSE IF ms[i].s = ts[i].s THEN ms[i] ELSE Leaf(ts[i].s, 0)]

(* extract_profile for the trees that name the leaves or the modes.        *)
Extracted(ms, byLeaf) == IF byLeaf THEN [i \in 1 .. Len(Infix(ms)) |-> <<Infix(ms)[i]>>]
                         ELSE [i \in 1 .. Len(ms) |-> Mode(ms[i])]

(* _rearrange_from_tree: a leaf of the output tree names the n-th source   *)
(* by extent n + 1, or inserts a singleton by extent 1.                    *)
RECURSIVE Rearranged(_, _)
Rearranged(out, sources) ==
    FoldLeft(LAMBDA ms, t :
                AppendTo(ms, IF ~AtLeaf(t) THEN Rearranged(t.modes, sources)
                             ELSE IF t.s = 1 THEN <<Leaf(1, 0)>> ELSE sources[t.s - 1]),
             <<>>, out)

(* The sources in the order of the output.                                 *)
Used(out) == LET ids == Wide(Infix(out)) IN [i \in 1 .. Len(ids) |-> ids[i].s - 1]

(* _validate_rearrange_ids *)
CanRearrange(out, sources) ==
    /\ \A i \in 1 .. Len(Used(out)) : Used(out)[i] <= Len(sources)
    /\ Cardinality({Used(out)[i] : i \in 1 .. Len(Used(out))}) = Len(Used(out))
    /\ \A n \in 1 .. Len(sources) : Size(sources[n]) # 1 => \E i \in 1 .. Len(Used(out)) : Used(out)[i] = n
(* extract_profile for any selection.                                      *)
RECURSIVE Matches(_, _)
Matches(ms, selection) ==
    /\ Len(ms) = Len(selection)
    /\ \A i \in 1 .. Len(ms) : AtLeaf(selection[i]) \/ Matches(Mode(ms[i]), selection[i].modes)
RECURSIVE Selected(_, _)
Selected(ms, selection) ==
    FlattenSeq([i \in 1 .. Len(ms) |-> IF AtLeaf(selection[i]) THEN <<Mode(ms[i])>>
                                       ELSE Selected(Mode(ms[i]), selection[i].modes)])

RearrangedLayout(ms, output, selection) ==
    IF Matches(ms, selection) /\ CanRearrange(output, Selected(ms, selection))
    THEN Rearranged(output, Selected(ms, selection)) ELSE Failed

(* The trees: leaves of a selection have extent one; an output names its   *)
(* n-th source by extent n + 1 and an inserted singleton by extent one.    *)
Named(n) == Leaf(n + 1, 0)
Inserted == Leaf(1, 0)
Flat(n) == [i \in 1 .. n |-> Inserted]

RECURSIVE Unnamed(_)
Unnamed(tree) == [i \in 1 .. Len(tree) |-> IF AtLeaf(tree[i]) THEN Inserted ELSE Node(Unnamed(tree[i].modes))]
-----------------------------------------------------------------------------
(* Composition and division.                                               *)

(* choose: every d-th element of a flat layout.                            *)
Choose(ms, d) ==
    LET step(acc, t) ==
            IF acc.rest = 1 THEN [acc EXCEPT !.modes = Append(@, t)]
            ELSE IF t.s > acc.rest
            THEN [ok |-> acc.ok /\ t.s % acc.rest = 0, rest |-> 1,
                  modes |-> Append(acc.modes, Leaf(t.s \div acc.rest, acc.rest * t.d))]
            ELSE [ok |-> acc.ok /\ acc.rest % t.s = 0, rest |-> acc.rest \div t.s,
                  modes |-> Append(acc.modes, Leaf(1, acc.rest * t.d))]
        all == FoldLeft(step, [ok |-> TRUE, rest |-> d, modes |-> <<>>], ms)
    IN IF /\ d > 0 /\ Size(ms) % d = 0
          /\ \A i \in 1 .. Len(ms) : AtLeaf(ms[i])
          /\ all.ok
       THEN all.modes ELSE Failed

(* modout: the first s elements.                                           *)
Modout(ms, s) ==
    LET step(acc, t) ==
            IF acc.cur = s THEN [acc EXCEPT !.modes = Append(@, Leaf(1, t.d))]
            ELSE IF t.s * acc.cur <= s THEN [acc EXCEPT !.cur = t.s * @, !.modes = Append(@, t)]
            ELSE [ok |-> acc.ok /\ s % acc.cur = 0, cur |-> s,
                  modes |-> Append(acc.modes, Leaf(s \div acc.cur, t.d))]
        all == FoldLeft(step, [ok |-> TRUE, cur |-> 1, modes |-> <<>>], ms)
    IN IF ms # Failed /\ all.ok THEN all.modes ELSE Failed

(* An operation on the result of another one, which may have raised.       *)
Coalesced(ms) == IF ms = Failed THEN Failed ELSE Coalesce(ms)
Appended(ms, part) == IF ms = Failed \/ part = Failed THEN Failed ELSE AppendTo(ms, part)
Unwrapped(ms) == IF ms # Failed /\ Len(ms) = 1 THEN Mode(ms[1]) ELSE ms

(* compose_layouts: leaf by leaf of the inner layout.                      *)
RECURSIVE ComposeLayouts(_, _)
ComposeLayouts(a, b) ==
    LET part(t) == IF ~AtLeaf(t) THEN ComposeLayouts(a, t.modes)
                   ELSE IF t.s = 1 THEN <<Leaf(1, 0)>>
                   ELSE IF IsLeaf(a) THEN <<Leaf(t.s, t.d * a[1].d)>>
                   ELSE Coalesced(Modout(Choose(a, t.d), t.s))
    IN Unwrapped(FoldLeft(LAMBDA ms, t : Appended(ms, part(t)), <<>>, b))

Onto(a, inner) == IF inner = Failed THEN Failed ELSE ComposeLayouts(a, inner)

(* Mutant: a span need not divide the next stride.                         *)
CongruentIfBelow(reach, next) == reach <= next

(* A span must end below the next stride, and divide it.                   *)
Congruent(reach, next) == reach <= next /\ next % reach = 0

(* The modes, sorted by stride, that lie between others up to the cotarget.*)
Gaps(ts, cotarget) ==
    LET next(i) == IF i = Len(ts) THEN cotarget ELSE ts[i + 1].d
        reach(i) == ts[i].s * ts[i].d
        gap(i) == IF reach(i) = next(i) THEN <<>> ELSE <<Leaf(next(i) \div reach(i), reach(i))>>
        first == IF ts[1].d = 1 THEN <<>> ELSE <<Leaf(ts[1].d, 1)>>
    IN IF ts = <<>> \/ ts[1].d = 0 \/ \E i \in 1 .. Len(ts) : ~Congruent(reach(i), next(i)) THEN Failed
       ELSE first \o FlattenSeq([i \in 1 .. Len(ts) |-> gap(i)])

(* complement, up to the cotarget.  Failed stands for every error: with a  *)
(* stride of zero it is a division by zero, not a ValueError.              *)
Complement(ms, cotarget) == IF IsInjectiveLayout(ms) THEN Gaps(ByStride(Infix(ms)), cotarget) ELSE Failed

(* make_layout(B, complement(B, n)): a tile and what is left.              *)
TileAndRest(b, n) == Appended(AppendTo(<<>>, b), Complement(b, n))

Divide(a, b) == Onto(a, TileAndRest(b, Size(a)))

(* compose with a tiler: a tile for each of the leading modes.             *)
ComposeTiler(a, tiles) ==
    LET part(i) == IF i > Len(tiles) THEN Mode(a[i]) ELSE Onto(Mode(a[i]), tiles[i])
    IN FoldLeft(LAMBDA ms, i : Appended(ms, part(i)), <<>>, [i \in 1 .. Len(a) |-> i])

DivideTiler(a, bs) == ComposeTiler(a, [i \in 1 .. Len(bs) |-> TileAndRest(bs[i], Size(Mode(a[i])))])

(* zipped_divide: the tiles in one mode and what is left in another.       *)
Zipped(unzipped, m) ==
    LET side(n) == FoldLeft(LAMBDA ms, i : AppendTo(ms, Mode(Mode(unzipped[i])[n])), <<>>, [i \in 1 .. m |-> i])
    IN IF unzipped = Failed \/ \E i \in 1 .. m : Len(Mode(unzipped[i])) < 2 THEN Failed
       ELSE AppendTo(AppendTo(<<>>, side(1)), side(2)) \o SubSeq(unzipped, m + 1, Len(unzipped))

ZippedDivide(a, bs) == Zipped(DivideTiler(a, bs), Len(bs))
-----------------------------------------------------------------------------
(* When the composition of two layouts is a layout.                        *)

(* _is_structurally_compact *)
IsCompact(ms) == LET ts == Wide(ByStride(Infix(ms)))
                 IN \A i \in 1 .. Len(ts) : ts[i].d = Product([j \in 1 .. i - 1 |-> ts[j].s])

(* _legacy_leaf_is_representable *)
Representable(a, leaf) ==
    \/ leaf.s = 1 \/ IsLeaf(a)
    \/ LET chosen == Choose(a, leaf.d)
           rest == FoldLeft(LAMBDA r, t : IF r = 1 THEN 1 ELSE IF t.s > r THEN 1 ELSE r \div t.s, leaf.d, a)
           step(acc, t) == IF acc.covered = leaf.s THEN acc
                           ELSE IF t.s * acc.covered <= leaf.s THEN [acc EXCEPT !.covered = t.s * @]
                           ELSE [ok |-> acc.ok /\ leaf.s % acc.covered = 0, covered |-> leaf.s]
           all == FoldLeft(step, [ok |-> TRUE, covered |-> 1], chosen)
       IN chosen # Failed /\ rest = 1 /\ all.ok /\ all.covered = leaf.s

(* _shape_refines_inner_coordinates *)
RECURSIVE Refines(_, _)
Refines(inner, candidate) ==
    /\ Len(inner) = Len(candidate)
    /\ \A i \in 1 .. Len(inner) :
          IF AtLeaf(inner[i]) THEN Size(Mode(candidate[i])) = inner[i].s
          ELSE ~AtLeaf(candidate[i]) /\ Refines(inner[i].modes, candidate[i].modes)

RECURSIVE Scaled(_, _)
Scaled(ms, k) == [i \in 1 .. Len(ms) |-> IF AtLeaf(ms[i]) THEN Leaf(ms[i].s, ms[i].d * k) ELSE Node(Scaled(ms[i].modes, k))]

(* _compose, between layouts: the layout, or Failed for a generic map.     *)
Refining(b, candidate) == IF candidate # Failed /\ Refines(b, candidate) THEN candidate ELSE Failed

Lowered(a, b) ==
    IF OrdinalScale(a) # NoScale THEN Scaled(b, OrdinalScale(a))
    ELSE IF /\ IsCompact(b)
            /\ \A i \in 1 .. Len(a) : AtLeaf(a[i])
            /\ \A i \in 1 .. Len(Infix(b)) : Representable(a, Infix(b)[i])
    THEN Refining(b, ComposeLayouts(a, b)) ELSE Failed
-----------------------------------------------------------------------------
(* What layouts mean, on ordinals and mixed-radix digits.                 *)

Radix(sizes, j) == Product(SubSeq(sizes, 1, j - 1))
Digit(sizes, j, k) == (k \div Radix(sizes, j)) % sizes[j]
Total(n, term(_)) == FoldLeft(LAMBDA a, j : a + term(j), 0, [j \in 1 .. n |-> j])

Extents(ms) == LET leaves == Infix(ms) IN [j \in 1 .. Len(leaves) |-> leaves[j].s]
LayoutImage(ms) ==
    LET leaves == Infix(ms)
        sizes == Extents(ms)
    IN [k \in 0 .. Size(ms) - 1 |-> Total(Len(leaves), LAMBDA j : leaves[j].d * Digit(sizes, j, k))]
=============================================================================
