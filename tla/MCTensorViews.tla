---------------------------- MODULE MCTensorViews ----------------------------
(***************************************************************************)
(* Small tensors for TensorViews: in order, transposed, padded and nested. *)
(***************************************************************************)
EXTENDS TensorViews

MCBases == {<<Leaf(2, 1), Leaf(3, 2)>>, <<Leaf(2, 3), Leaf(3, 1)>>, <<Leaf(2, 1), Leaf(2, 3)>>,
            <<Leaf(1, 0), Leaf(3, 1)>>, <<Leaf(4, 1)>>, <<Leaf(4, 2)>>,
            <<Leaf(2, 1), Node(<<Leaf(2, 2), Leaf(1, 4)>>)>>, <<Node(<<Leaf(2, 1), Leaf(2, 4)>>), Leaf(2, 2)>>}

AllOf == Item
MCKeys == {<<Span(0, 2, 1)>>, <<Span(1, 9, 1)>>, <<Span(0, 4, 2)>>, <<Only(1), AllOf>>, <<AllOf, Only(1)>>,
           <<Only(2), AllOf>>, <<Span(0, 1, 1), AllOf>>, <<AllOf, Span(1, 3, 2)>>, <<Span(0, 2, 1), Span(1, 3, 1)>>,
           <<Only(0), AllOf, Only(0)>>}
MCShapes == {<<Leaf(2, 1), Leaf(3, 2)>>, <<Leaf(3, 0), Leaf(2, 0)>>, <<Leaf(6, 0)>>, <<Leaf(3, 0), Leaf(1, 0)>>,
             <<Leaf(2, 0), Node(<<Leaf(2, 0), Leaf(1, 0)>>)>>, <<Leaf(2, 0), Node(<<Leaf(2, 0), Leaf(2, 0)>>)>>,
             <<Leaf(2, 0), Leaf(2, 0)>>, <<Leaf(4, 0)>>}
MCOrders == {<<2, 1>>, <<1, 2>>, <<3, 1, 2>>}
MCTrees == {<<Named(2), Named(1)>>, <<Node(<<Named(2), Inserted>>), Named(1)>>, <<Node(<<Named(1), Named(2)>>)>>,
            <<Named(2), Node(<<Named(3), Named(1)>>)>>, <<Named(1), Inserted>>, <<Named(2)>>}
MCSelectors == {<<Leaf(2, 1)>>, <<Leaf(2, 2)>>, <<Leaf(2, 2), Leaf(2, 1)>>, <<Leaf(3, 2)>>, <<Leaf(2, 3)>>,
                <<Node(<<Leaf(2, 1), Leaf(2, 2)>>)>>}
=============================================================================
