------------------------------ MODULE Descriptions ------------------------------
(***************************************************************************)
(* The descriptions of layout commands (einops/__init__.py): "a b -> b a", *)
(* "a b, c b -> a c".  A description is its sequence of tokens: brackets,  *)
(* the comma, the arrow, "1" and names of dimensions.  It is compiled to   *)
(* the trees by which a layout is taken apart and put together again.      *)
(***************************************************************************)
EXTENDS LayoutAlgebra, Integers
LOCAL INSTANCE SequencesExt

Brackets == {"(", ")"}
Separators == {",", "->"}

(* What stands for a leaf: the name of a dimension, or "1".                *)
Markers(tokens) == SelectSeq(tokens, LAMBDA t : t \notin Brackets)
Names(tokens) == SelectSeq(Markers(tokens), LAMBDA t : t # "1")
Repeats(tokens) == ~IsInjective(Names(tokens))

(* _parse_level: the items from a place up to the bracket that closes them *)
(* or to the end, the n-th leaf named n.                                   *)
Malformed == [items |-> <<>>, at |-> 0]
RECURSIVE Level(_, _, _, _)
Level(tokens, at, items, nested) ==
    LET child == Level(tokens, at + 1, <<>>, TRUE)
        leaf == Named(Len(Markers(SubSeq(tokens, 1, at))))
    IN IF at > Len(tokens) THEN IF items = <<>> THEN Malformed ELSE [items |-> items, at |-> at]
       ELSE IF tokens[at] = ")" THEN IF nested /\ items # <<>> THEN [items |-> items, at |-> at] ELSE Malformed
       ELSE IF tokens[at] \in Separators THEN Malformed
       ELSE IF tokens[at] # "(" THEN Level(tokens, at + 1, Append(items, leaf), nested)
       ELSE IF child = Malformed \/ child.at > Len(tokens) THEN Malformed
       ELSE Level(tokens, child.at + 1, Append(items, Node(child.items)), nested)
ParseTree(tokens) == Level(tokens, 1, <<>>, FALSE).items

RECURSIVE Renamed(_, _)
Renamed(tree, leaves) ==
    [i \in 1 .. Len(tree) |-> IF AtLeaf(tree[i]) THEN leaves[tree[i].s - 1] ELSE Node(Renamed(tree[i].modes, leaves))]

(* _SelectionParser: the tree, and the source that each name stands for.   *)
SelectionTree(tokens) == IF Repeats(tokens) THEN <<>> ELSE Unnamed(ParseTree(tokens))
Places(names) == [s \in {names[i] : i \in 1 .. Len(names)} |-> CHOOSE i \in 1 .. Len(names) : names[i] = s]
SourceIds(tokens) == LET at == Places(Markers(tokens)) IN [s \in DOMAIN Places(Names(tokens)) |-> at[s]]

(* _OutputParser *)
OutputTree(tokens, ids) ==
    LET markers == Markers(tokens)
    IN IF Repeats(tokens) \/ ~(DOMAIN Places(Names(tokens)) \subseteq DOMAIN ids) THEN <<>>
       ELSE Renamed(ParseTree(tokens), [n \in 1 .. Len(markers) |-> IF markers[n] = "1" THEN Inserted ELSE Named(ids[markers[n]])])
-----------------------------------------------------------------------------
(* _split_command, _split_einsum_command: where the one arrow and the one  *)
(* comma before it are; 0 when there is none, or another.                  *)
OneOf(places) == IF Cardinality(places) = 1 THEN CHOOSE i \in places : TRUE ELSE 0
Arrow(tokens) == OneOf({i \in 1 .. Len(tokens) : tokens[i] = "->"})
Comma(tokens) == OneOf({i \in 1 .. Arrow(tokens) - 1 : tokens[i] = ","})
Ahead(tokens, at) == SubSeq(tokens, 1, at - 1)
Beyond(tokens, at) == SubSeq(tokens, at + 1, Len(tokens))

Uncompiled == [ok |-> FALSE]
Compiled(ok, spec) == IF ok THEN spec ELSE Uncompiled

(* _parse_rearrange_uncached *)
RearrangeSpec(tokens) ==
    LET input == Ahead(tokens, Arrow(tokens))
        selection == SelectionTree(input)
        output == OutputTree(Beyond(tokens, Arrow(tokens)), SourceIds(input))
    IN Compiled(Arrow(tokens) # 0 /\ selection # <<>> /\ output # <<>>,
                [ok |-> TRUE, selection |-> selection, output |-> output])

(* _parse_reduce_uncached: the sources that the output leaves out go to a  *)
(* second mode.                                                            *)
ReduceSpec(tokens) ==
    LET spec == RearrangeSpec(tokens)
        omitted == SelectSeq([n \in 1 .. Len(Infix(spec.selection)) |-> n], LAMBDA n : ~\E i \in 1 .. Len(Used(spec.output)) : Used(spec.output)[i] = n)
    IN Compiled(spec.ok /\ omitted # <<>>,
                [ok |-> TRUE, selection |-> spec.selection, output |-> <<Node(spec.output), Node([i \in 1 .. Len(omitted) |-> Named(omitted[i])])>>])
-----------------------------------------------------------------------------
(* _einsum_input_rearrange_output: the dimensions of one operand only, and *)
(* the shared ones in the order of the left operand.                       *)
OrSingleton(tree) == IF tree = <<>> THEN <<Inserted>> ELSE tree
Sources(names, ids) == [i \in 1 .. Len(names) |-> Named(ids[names[i]])]
TwoModes(outer, shared, ids) == <<Node(OrSingleton(Sources(outer, ids))), Node(Sources(shared, ids))>>

(* An operand over the dimensions of both, singletons for those it lacks.  *)
OverUnion(union, ids) == [i \in 1 .. Len(union) |-> IF union[i] \in DOMAIN ids THEN Named(ids[union[i]]) ELSE Inserted]

(* _parse_einsum_uncached.  A shared dimension that the output omits is    *)
(* contracted and one that it retains is a batch; without a batch the      *)
(* operands become matrices, the output made from the modes of their       *)
(* product (_einsum_output_symbol_ids), else both are laid out over the    *)
(* dimensions of either.                                                   *)
EinsumSpec(tokens) ==
    LET arrow == Arrow(tokens)
        comma == Comma(tokens)
        lhs == Ahead(tokens, comma)
        rhs == SubSeq(tokens, comma + 1, arrow - 1)
        output == Beyond(tokens, arrow)
        lids == SourceIds(lhs)
        rids == SourceIds(rhs)
        shared == SelectSeq(Names(lhs), LAMBDA s : s \in DOMAIN rids)
        left == SelectSeq(Names(lhs), LAMBDA s : s \notin DOMAIN rids)
        right == SelectSeq(Names(rhs), LAMBDA s : s \notin DOMAIN lids)
        union == Names(lhs) \o right
        kept == DOMAIN Places(Names(output))
        batch == SelectSeq(shared, LAMBDA s : s \in kept)
        contracted == SelectSeq(shared, LAMBDA s : s \notin kept)
        free == Len(left) + Len(right)
        place(n, names) == IF names = <<>> THEN n + 1 ELSE n + Len(names)
        outer == [s \in DOMAIN Places(left \o right) |->
                    IF s \in DOMAIN Places(left) THEN Places(left)[s] ELSE place(0, left) + Places(right)[s]]
        general == OutputTree(output, Places(union))
    IN Compiled(/\ arrow # 0 /\ comma # 0
                /\ SelectionTree(lhs) # <<>> /\ SelectionTree(rhs) # <<>>
                /\ shared # <<>> /\ general # <<>>
                /\ DOMAIN outer \subseteq kept,
                [ok |-> TRUE, batched |-> batch # <<>>,
                 selections |-> <<SelectionTree(lhs), SelectionTree(rhs)>>,
                 shared |-> [i \in 1 .. Len(shared) |-> <<lids[shared[i]], rids[shared[i]]>>],
                 operands |-> IF batch = <<>> THEN <<TwoModes(left, shared, lids), TwoModes(right, shared, rids)>>
                              ELSE <<OverUnion(union, lids), OverUnion(union, rids)>>,
                 product |-> IF batch = <<>> THEN <<Node(OrSingleton(Flat(Len(left)))), Node(OrSingleton(Flat(Len(right))))>>
                             ELSE Flat(Len(union)),
                 output |-> IF batch = <<>> THEN OutputTree(output, outer) ELSE general,
                 contracted |-> Sources(contracted, Places(union))])
=============================================================================
