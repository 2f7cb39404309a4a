----------------------------- MODULE MCIndexMaps -----------------------------
(***************************************************************************)
(* Small maps of every kind for IndexMaps: nested, transposed, broadcast,  *)
(* interleaved and overlapping layouts of up to sixteen elements.          *)
(***************************************************************************)
EXTENDS IndexMaps

MCPieces == {<<Leaf(1, 0)>>, <<Leaf(4, 0)>>, <<Leaf(4, 1)>>, <<Leaf(4, 2)>>}
    \union {<<Leaf(2, d), Leaf(t, 3 - d)>> : t \in {2, 3}, d \in {1, 2}}
    \union {<<Leaf(2, 1), Leaf(2, 1)>>, <<Leaf(2, 1), Leaf(3, 4)>>, <<Leaf(2, 3), Leaf(3, 1)>>}
    \union {<<Leaf(1, 0), Leaf(3, 1)>>, <<Leaf(4, 1), Leaf(4, 4)>>, <<Leaf(2, 6), Leaf(3, 2), Leaf(2, 1)>>,
            <<Leaf(2, 1), Node(<<Leaf(2, 4), Leaf(3, 8)>>)>>,
            <<Leaf(2, 2), Node(<<Leaf(1, 1), Leaf(2, 1)>>)>>,
            <<Node(<<Leaf(2, 1), Leaf(2, 4)>>), Leaf(2, 2)>>}
MCFactors == {<<Leaf(2, 1)>>, <<Leaf(2, 2)>>, <<Leaf(3, 2)>>, <<Leaf(4, 1)>>, <<Leaf(4, 0)>>,
              <<Leaf(2, 2), Leaf(2, 1)>>, <<Leaf(2, 1), Leaf(2, 3)>>, <<Leaf(2, 1), Leaf(3, 2)>>,
              <<Leaf(2, 2), Node(<<Leaf(1, 1), Leaf(3, 1)>>)>>,
              <<Node(<<Leaf(2, 2), Leaf(2, 1)>>), Leaf(2, 4)>>}

(* The values of a permutation and its codomain.                           *)
MCLookups == {<< <<1, 0>>, 2>>, << <<1, 0, 2>>, 3>>, << <<3, 0, 2>>, 5>>,
              << <<2, 0, 3, 1>>, 4>>, << <<0, 1, 2, 3>>, 4>>, << <<0, 1, 2, 3>>, 5>>}

(* Swizzles of four and of eight ordinals, in both directions.              *)
MCStages == {[size |-> 4, stage |-> [bits |-> 1, low |-> 0, high |-> 1, up |-> FALSE]],
             [size |-> 4, stage |-> [bits |-> 1, low |-> 0, high |-> 1, up |-> TRUE]],
             [size |-> 8, stage |-> [bits |-> 1, low |-> 0, high |-> 2, up |-> FALSE]]}

(* The n-th source, and an inserted singleton.                             *)
Id(n) == Leaf(n + 1, 0)
New == Leaf(1, 0)
MCOutputs == {<<Id(2), Id(1)>>, <<Node(<<Id(2), New>>), Id(1)>>, <<Id(3), Id(1), Id(2)>>,
              <<Node(<<Id(3), Id(2)>>), Id(1)>>, <<Id(1), New>>}

MCZippedTilers == {<< <<Leaf(2, 1)>> >>, << <<Leaf(2, 2)>> >>, << <<Leaf(2, 1)>>, <<Leaf(2, 2)>> >>}
MCTilers == MCZippedTilers \union
    {<< <<Leaf(4, 1)>>, <<Leaf(2, 1)>> >>, << <<Leaf(2, 2), Leaf(2, 1)>> >>, << <<Leaf(1, 1)>> >>}
=============================================================================
