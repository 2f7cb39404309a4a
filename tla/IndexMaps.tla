------------------------------- MODULE IndexMaps -------------------------------
(***************************************************************************)
(* Index maps: layouts (core/layout.py, see LayoutAlgebra), permutations   *)
(* (permutation.py), swizzles (swizzle.py), products (product.py) and      *)
(* compositions of them (index_map.py).                                    *)
(*                                                                         *)
(* A program builds a map by a sequence of operations.  Beside the map the *)
(* model keeps its image, the index of every ordinal, which is computed    *)
(* from what an operation means and not from how it is done.  An operation *)
(* that raises is not a step.                                              *)
(***************************************************************************)
EXTENDS LayoutAlgebra
LOCAL INSTANCE SequencesExt
LOCAL INSTANCE Bitwise

CONSTANTS Pieces,      \* the layouts a program starts from
          Factors,     \* the layouts it combines them with
          Tilers,      \* the tilers it divides by, a tile for each leading mode
          ZippedTilers,\* those it gives to zipped_divide
          Lookups,     \* the values and the codomain of its permutations
          SwizzleStages,\* the size and the stage of its swizzles
          Outputs,     \* the output trees of its rearrangements
          MaxSize,     \* bound on the size of a map
          MaxIndex,    \* bound on its codomain
          MaxSteps     \* bound on the operations

VARIABLES imap,        \* the map: its parts, the innermost first
          image,       \* history: the index of each ordinal
          steps        \* the operations so far

ASSUME IndexMapsAssumption == {MaxSize, MaxIndex, MaxSteps} \subseteq Nat

mapVars == <<imap, image, steps>>
-----------------------------------------------------------------------------
(* The maps a composition is made of.                                      *)
Part == [kind |-> "layout", modes |-> <<>>, codomain |-> 1, values |-> <<>>, stages |-> <<>>, children |-> <<>>]

LayoutPart(ms) == [Part EXCEPT !.modes = ms, !.codomain = Cosize(ms)]
PermutationPart(values, n) == [Part EXCEPT !.kind = "permutation", !.modes = <<Leaf(Len(values), 1)>>,
                                           !.values = values, !.codomain = n]

(* Swizzle: stages [bits, low, high, up], each of which flips the low      *)
(* field by the high one, or the high field by the low one.                *)
SwizzlePart(shape, stages) == [Part EXCEPT !.kind = "swizzle", !.modes = shape,
                                           !.stages = stages, !.codomain = Size(shape)]

Domain(f) == f[1].modes
Codomain(f) == f[Len(f)].codomain

(* Product: each child is a map and has a mode of the domain.              *)
ProductPart(fs) ==
    [Part EXCEPT !.kind = "product", !.children = fs,
                 !.modes = [i \in 1 .. Len(fs) |-> IF IsLeaf(Domain(fs[i])) THEN Domain(fs[i])[1] ELSE Node(Domain(fs[i]))],
                 !.codomain = Product([i \in 1 .. Len(fs) |-> Codomain(fs[i])])]

Field(k, bits, at) == (k \div 2^at) % 2^bits
Swizzled(k, g) == k ^^ (IF g.up THEN Field(k, g.bits, g.low) * 2^g.high ELSE Field(k, g.bits, g.high) * 2^g.low)

RECURSIVE MapIndex(_, _)
MapIndex(f, k) ==
    LET index(p, r) ==
            CASE p.kind = "layout" -> Offset(p.modes, r)
              [] p.kind = "permutation" -> p.values[r + 1]
              [] p.kind = "swizzle" -> FoldLeft(Swizzled, r, p.stages)
              [] p.kind = "product" ->
                    FoldLeft(LAMBDA acc, c : LET n == Size(Domain(c))
                                             IN [key |-> acc.key \div n, radix |-> acc.radix * Codomain(c),
                                                 sum |-> acc.sum + acc.radix * MapIndex(c, acc.key % n)],
                             [key |-> r, radix |-> 1, sum |-> 0], p.children).sum
    IN FoldLeft(LAMBDA r, p : index(p, r), k, f)

(* _normalize_stages: a stage twice in a row is nothing.                   *)
NormalStages(stages) ==
    FoldLeft(LAMBDA gs, g : IF gs # <<>> /\ gs[Len(gs)] = g THEN SubSeq(gs, 1, Len(gs) - 1) ELSE Append(gs, g),
             <<>>, stages)

(* _composition_is_identity; a composition of several maps never is.       *)
RECURSIVE IsIdentity(_)
IsIdentity(f) ==
    LET p == f[1]
    IN /\ Len(f) = 1
       /\ CASE p.kind = "layout" -> p.codomain = Size(p.modes) /\ OrdinalScale(p.modes) \in {0, 1}
            [] p.kind = "permutation" -> /\ p.codomain = Len(p.values)
                                         /\ \A k \in 1 .. Len(p.values) : p.values[k] = k - 1
            [] p.kind = "swizzle" -> NormalStages(p.stages) = <<>>
            [] p.kind = "product" -> \A i \in 1 .. Len(p.children) : IsIdentity(p.children[i])

IsLayout(f) == Len(f) = 1 /\ f[1].kind = "layout"

Verdict(no, yes) == IF no THEN "no" ELSE IF yes THEN "yes" ELSE "unknown"

(* is_injective and _composition_injectivity: a layout finds out, within a *)
(* composition by its structure alone; permutations and swizzles are       *)
(* injective; products and compositions infer it.                          *)
RECURSIVE Injectivity(_)
PartInjectivity(p) ==
    CASE p.kind = "layout" -> StructuralInjectivity(p.modes)
      [] p.kind \in {"permutation", "swizzle"} -> "yes"
      [] p.kind = "product" -> Verdict(\E i \in 1 .. Len(p.children) : Injectivity(p.children[i]) = "no",
                                       \A i \in 1 .. Len(p.children) : Injectivity(p.children[i]) = "yes")

Inferred(f) == Verdict(PartInjectivity(f[1]) = "no", \A i \in 1 .. Len(f) : PartInjectivity(f[i]) = "yes")

Injectivity(f) == IF IsLayout(f) THEN Verdict(~IsInjectiveLayout(f[1].modes), TRUE)
                  ELSE IF Len(f) = 1 THEN PartInjectivity(f[1])
                  ELSE Inferred(f)

(* Mutant: any part that is an identity goes.                              *)
KeepsNone(parts, i, domain, codomain) == FALSE

(* An identity stays that gives the map its domain or its codomain.        *)
Keeps(parts, i, domain, codomain) ==
    \/ i = 1 /\ ~SameShape(parts[2].modes, domain)
    \/ i = Len(parts) /\ parts[Len(parts) - 1].codomain # codomain

(* _compose_generic: the parts in order, without identities.               *)
RECURSIVE Reduced(_, _, _, _)
Reduced(parts, i, domain, codomain) ==
    IF i > Len(parts) \/ Len(parts) = 1 THEN parts
    ELSE IF ~IsIdentity(<<parts[i]>>) \/ Keeps(parts, i, domain, codomain)
    THEN Reduced(parts, i + 1, domain, codomain)
    ELSE Reduced(RemoveAt(parts, i), IF i = 1 THEN 1 ELSE i - 1, domain, codomain)

Generic(outer, inner) == Reduced(inner \o outer, 1, Domain(inner), Codomain(outer))

(* compose *)
Composable(outer, inner) == Codomain(inner) <= Size(Domain(outer))

(* _composition_tree_aligns *)
RECURSIVE Aligns(_, _)
Aligns(outer, inner) ==
    IF outer[1].kind # "product" /\ inner[1].kind # "product" THEN Codomain(inner) = Size(Domain(outer))
    ELSE /\ Len(outer) = 1 /\ outer[1].kind = "product" /\ Len(inner) = 1 /\ inner[1].kind = "product"
         /\ Len(outer[1].children) = Len(inner[1].children)
         /\ \A i \in 1 .. Len(outer[1].children) : Aligns(outer[1].children[i], inner[1].children[i])

LayoutOr(lowered, outer, inner) == IF lowered = Failed THEN Generic(outer, inner) ELSE <<LayoutPart(lowered)>>

RECURSIVE Composed(_, _)
Composed(outer, inner) ==
    LET o == outer[1]
        i == inner[1]
    IN IF IsIdentity(inner) /\ SameShape(Domain(outer), Domain(inner)) THEN outer
       ELSE IF IsIdentity(outer) /\ Codomain(inner) = Codomain(outer) THEN inner
       ELSE IF Len(outer) > 1 \/ Len(inner) > 1 \/ o.kind # i.kind THEN Generic(outer, inner)
       ELSE CASE o.kind = "permutation" ->
                     <<PermutationPart([k \in 1 .. Len(i.values) |-> o.values[i.values[k] + 1]], o.codomain)>>
              [] o.kind = "swizzle" /\ Size(i.modes) = Size(o.modes) ->
                     <<SwizzlePart(i.modes, NormalStages(i.stages \o o.stages))>>
              [] o.kind = "product" /\ Aligns(outer, inner) ->
                     <<ProductPart([n \in 1 .. Len(o.children) |-> Composed(o.children[n], i.children[n])])>>
              [] o.kind = "layout" -> LayoutOr(Lowered(o.modes, i.modes), outer, inner)
              [] OTHER -> Generic(outer, inner)
-----------------------------------------------------------------------------
(* What maps and operations mean, on ordinals and mixed-radix digits.      *)

PermutationImage(values) == [k \in 0 .. Len(values) - 1 |-> values[k + 1]]

(* A stage of a swizzle, bit by bit.                                       *)
Bit(k, b) == (k \div 2^b) % 2
StageImage(n, g) ==
    LET flips(k, b) == IF g.up THEN b - g.high \in 0 .. g.bits - 1 /\ Bit(k, b - g.high + g.low) = 1
                       ELSE b - g.low \in 0 .. g.bits - 1 /\ Bit(k, b - g.low + g.high) = 1
    IN [k \in 0 .. n - 1 |-> Total(5, LAMBDA j : 2^(j - 1) * (IF flips(k, j - 1) THEN 1 - Bit(k, j - 1) ELSE Bit(k, j - 1)))]

After(g, f) == [k \in DOMAIN f |-> g[f[k]]]
-----------------------------------------------------------------------------
IndexMapsInit ==
    /\ \/ \E ms \in Pieces : imap = <<LayoutPart(ms)>> /\ image = LayoutImage(ms)
       \/ \E l \in Lookups : imap = <<PermutationPart(l[1], l[2])>> /\ image = PermutationImage(l[1])
    /\ steps = 0

Modes == imap[1].modes

Becomes(f, meaning) == /\ imap' = f
                       /\ Domain(imap') # Failed
                       /\ Size(Domain(imap')) <= MaxSize /\ Codomain(imap') <= MaxIndex
                       /\ image' = meaning /\ steps' = steps + 1

BecomesLayout(ms, meaning) == IsLayout(imap) /\ Becomes(<<LayoutPart(ms)>>, meaning)

(* concat and append *)
Combine(piece) ==
    LET n == Size(Modes)
        meaning == [k \in 0 .. n * Size(piece) - 1 |-> image[k % n] + LayoutImage(piece)[k \div n]]
    IN \/ BecomesLayout(Modes \o piece, meaning)
       \/ BecomesLayout(AppendTo(Modes, piece), meaning)

Simplify == BecomesLayout(Coalesce(Modes), image)

(* broadcast_to the shape of a piece.                                      *)
Broadcast(target) ==
    LET sizes == Extents(Modes)
        narrow(k) == Total(Len(sizes), LAMBDA j : IF sizes[j] = 1 THEN 0
                                                  ELSE Radix(sizes, j) * Digit(Extents(target), j, k))
    IN /\ IsLayout(imap) /\ CanWiden(Modes, target)
       /\ BecomesLayout(Widened(Modes, target), [k \in 0 .. Size(target) - 1 |-> image[narrow(k)]])

(* rearrange, permute *)
Rearrange(out, byLeaf) ==
    LET sources == Extracted(Modes, byLeaf)
        sizes == [n \in 1 .. Len(sources) |-> Size(sources[n])]
        order == Used(out)
        sorted == [j \in 1 .. Len(order) |-> sizes[order[j]]]
        old(k) == Total(Len(order), LAMBDA j : Radix(sizes, order[j]) * Digit(sorted, j, k))
    IN /\ IsLayout(imap) /\ CanRearrange(out, sources)
       /\ BecomesLayout(Rearranged(out, sources), [k \in DOMAIN image |-> image[old(k)]])

(* A map to compose with, and its image.                                   *)
Bijections == {<<PermutationPart(l[1], l[2]), PermutationImage(l[1])>> : l \in Lookups}
              \union {<<SwizzlePart(<<Leaf(g.size, 1)>>, <<g.stage>>), StageImage(g.size, g.stage)>> : g \in SwizzleStages}
Operands == Bijections \union {<<LayoutPart(ms), LayoutImage(ms)>> : ms \in Factors}

ComposeInner(p) == /\ Composable(imap, <<p[1]>>)
                   /\ Becomes(Composed(imap, <<p[1]>>), After(image, p[2]))

ComposeOuter(p) == /\ Composable(<<p[1]>>, imap)
                   /\ Becomes(Composed(<<p[1]>>, imap), After(p[2], image))

(* Beside p in a product; and a product of p and q composed with that.     *)
PairImage(f, g, n) == [k \in 0 .. Cardinality(DOMAIN f) * Cardinality(DOMAIN g) - 1 |->
                         f[k % Cardinality(DOMAIN f)] + n * g[k \div Cardinality(DOMAIN f)]]

PairWith(p) == Becomes(<<ProductPart(<<imap, <<p[1]>>>>)>>, PairImage(image, p[2], Codomain(imap)))

ComposePair(p, q) ==
    LET pair == <<ProductPart(<<<<p[1]>>, <<q[1]>>>>)>>
    IN /\ imap[Len(imap)].kind = "product" /\ Composable(pair, imap)
       /\ Becomes(Composed(pair, imap), After(PairImage(p[2], q[2], p[1].codomain), image))

DivideBy(b) == /\ IsLayout(imap)
               /\ TileAndRest(b, Size(Modes)) # Failed
               /\ BecomesLayout(Divide(Modes, b), After(image, LayoutImage(TileAndRest(b, Size(Modes)))))

(* What a tiler does to the modes: the ordinal, within mode i, of element  *)
(* j of its tile and element r of what is left.                            *)
ModeSizes == [i \in 1 .. Len(Modes) |-> Size(Mode(Modes[i]))]
Divides(bs) == /\ IsLayout(imap) /\ Len(bs) <= Len(Modes)
               /\ \A i \in 1 .. Len(bs) : Complement(bs[i], ModeSizes[i]) # Failed
TileElement(bs, i, j, r) == LayoutImage(bs[i])[j] + LayoutImage(Complement(bs[i], ModeSizes[i]))[r]

(* divide_tiler: within each mode, the tile and then what is left.         *)
DivideModes(bs) ==
    LET digit(k, i) == Digit(ModeSizes, i, k)
        old(k) == Total(Len(Modes), LAMBDA i : Radix(ModeSizes, i) *
                     (IF i > Len(bs) THEN digit(k, i)
                      ELSE TileElement(bs, i, digit(k, i) % Size(bs[i]), digit(k, i) \div Size(bs[i]))))
    IN /\ Divides(bs)
       /\ BecomesLayout(DivideTiler(Modes, bs), [k \in DOMAIN image |-> image[old(k)]])

(* zipped_divide: all the tiles, and then all that is left.                *)
ZipModes(bs) ==
    LET m == Len(bs)
        grouped == [i \in 1 .. m |-> Size(bs[i])] \o [i \in 1 .. m |-> ModeSizes[i] \div Size(bs[i])]
                   \o SubSeq(ModeSizes, m + 1, Len(Modes))
        old(k) == Total(Len(Modes), LAMBDA i : Radix(ModeSizes, i) *
                     (IF i > m THEN Digit(grouped, m + i, k)
                      ELSE TileElement(bs, i, Digit(grouped, i, k), Digit(grouped, m + i, k))))
    IN /\ Divides(bs)
       /\ BecomesLayout(ZippedDivide(Modes, bs), [k \in DOMAIN image |-> image[old(k)]])

IndexMapsNext ==
    /\ steps < MaxSteps
    /\ \/ Simplify
       \/ \E piece \in Factors : Combine(piece) \/ Broadcast(piece) \/ DivideBy(piece)
       \/ \E out \in Outputs, byLeaf \in BOOLEAN : Rearrange(out, byLeaf)
       \/ \E p \in Operands : ComposeInner(p) \/ ComposeOuter(p)
       \/ \E p \in Bijections : PairWith(p)
       \/ \E p, q \in Bijections : ComposePair(p, q)
       \/ \E bs \in Tilers : DivideModes(bs)
       \/ \E bs \in ZippedTilers : ZipModes(bs)

IndexMapsSpec == IndexMapsInit /\ [][IndexMapsNext]_mapVars
-----------------------------------------------------------------------------
(* A layout together with its complement reaches every index below the     *)
(* cotarget, and each once.                                                *)
ComplementSpans ==
    IsLayout(imap) =>
        \A n \in 1 .. MaxIndex :
            LET rest == Complement(Modes, n)
                both == LayoutImage(Modes \o rest)
            IN rest # Failed => /\ DOMAIN both = 0 .. n - 1
                                /\ {both[k] : k \in DOMAIN both} = 0 .. n - 1

Preimages(i) == Cardinality({k \in DOMAIN image : image[k] = i})

(* What a map says of itself without being evaluated is true: whether it   *)
(* is injective, and that it covers a target uniformly.                    *)
VerdictsSound ==
    LET injective == \A k, l \in DOMAIN image : image[k] = image[l] => k = l
        n == UniformExtent(Modes, Codomain(imap))
    IN /\ Injectivity(imap) = "yes" => injective
       /\ Injectivity(imap) = "no" => ~injective
       /\ IsLayout(imap) /\ n > 0 => \A i \in 0 .. Codomain(imap) - 1 : Preimages(i) = n

(* Every map that any sequence of operations builds is the function the    *)
(* operations mean, on its whole domain and within its codomain, and the   *)
(* complement of a layout is what its name says.                           *)
MapsMeanWhatTheySay ==
    /\ ComplementSpans
    /\ DOMAIN image = 0 .. Size(Domain(imap)) - 1
    /\ \A k \in DOMAIN image : MapIndex(imap, k) = image[k] /\ image[k] < Codomain(imap)
    /\ VerdictsSound
=============================================================================
