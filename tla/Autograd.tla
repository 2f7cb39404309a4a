------------------------------ MODULE Autograd ------------------------------
(***************************************************************************)
(* The backward traversal (core/native/_tensor.cpp) over the graph that    *)
(* operations record (core/native/_operation.hpp).                         *)
(*                                                                         *)
(* Tensors are numbered in the order they were made; the operation that    *)
(* made a tensor has the tensor's number, and a leaf has none.  Slot j of  *)
(* operation t multiplies the gradient of t by factor[t][j] on its way to  *)
(* inputs[t][j]; 0 stands for the None an operation returns for an input   *)
(* it does not differentiate, and for "no gradient" throughout.            *)
(***************************************************************************)
EXTENDS Naturals, Sequences, FiniteSets
LOCAL INSTANCE FiniteSetsExt

CONSTANTS Last,         \* the number of tensors
          Graphs,       \* the graphs to start from
          Requests,     \* the sets of tensors that grad is asked for
          MaxTraversals \* bound on backward and grad calls

Tensor == 1 .. Last

Slots(ins) == 1 .. Len(ins)

ASSUME AutogradAssumption ==
    /\ Last \in Nat /\ MaxTraversals \in Nat /\ Requests \in SUBSET (SUBSET Tensor)
    /\ \A h \in Graphs :
          /\ DOMAIN h.inputs = Tensor /\ DOMAIN h.factor = Tensor
          /\ \A t \in Tensor : /\ h.inputs[t] \in Seq(1 .. t - 1)
                               /\ h.factor[t] \in [Slots(h.inputs[t]) -> Nat]
          /\ h.plain \in SUBSET {t \in Tensor : h.inputs[t] = <<>>}
          /\ h.retaining \in SUBSET {t \in Tensor : h.inputs[t] # <<>>}

VARIABLES
    graph,       \* inputs, factor, the leaves that are not differentiable, and
                 \* the tensors with retain_grad
    modified,    \* the tensors written since the graph was recorded
    freed,       \* the operations with _autograd_state_freed
    grad,        \* .grad of each tensor
    traversal,   \* the traversal under way
    calls        \* how many have been made

autogradVars == <<graph, modified, freed, grad, traversal, calls>>
-----------------------------------------------------------------------------
NoneYet == [t \in Tensor |-> 0]

Quiet == [on |-> FALSE, root |-> 1, retain |-> FALSE, requested |-> {}, operations |-> {},
          remaining |-> NoneYet, pending |-> NoneYet, ready |-> <<>>, ran |-> {},
          collected |-> NoneYet, before |-> NoneYet, ended |-> "none"]

Operation(t) == graph.inputs[t] # <<>>
Differentiable(t) == t \notin graph.plain

(* inputs(): nothing once the operation has been released.                 *)
Inputs(t) == IF t \in freed THEN <<>> ELSE graph.inputs[t]

InputSet(t) == {Inputs(t)[j] : j \in Slots(Inputs(t))} \ graph.plain

(* should_accumulate_grad *)
Accumulates(t) == ~Operation(t) \/ t \in graph.retaining

AutogradInit == /\ graph \in Graphs
                /\ modified = {} /\ freed = {} /\ grad = NoneYet
                /\ traversal = Quiet /\ calls = 0

(* A write to a tensor changes the version its consumers have recorded.    *)
Modify(t) == /\ ~traversal.on /\ modified = {}
             /\ modified' = {t}
             /\ UNCHANGED <<graph, freed, grad, traversal, calls>>
-----------------------------------------------------------------------------
(* discover_graph: the operations reachable from the root, and how many of *)
(* them consume each tensor.  An operation that uses a tensor twice is one *)
(* consumer.                                                               *)
Reached(root) ==
    LET closed(S) == /\ Operation(root) => root \in S
                     /\ \A t \in S : \A i \in InputSet(t) : Operation(i) => i \in S
    IN {t \in Tensor : \A S \in SUBSET Tensor : closed(S) => t \in S}

(* Mutant: an operation that uses a tensor twice is two consumers.         *)
ConsumingSlots(operations) ==
    [i \in Tensor |-> Cardinality({s \in operations \X (1 .. Last) :
                          s[2] \in Slots(Inputs(s[1])) /\ Inputs(s[1])[s[2]] = i /\ Differentiable(i)})]

Consumers(operations) == [i \in Tensor |-> Cardinality({t \in operations : i \in InputSet(t)})]

Begin(root, requested, retain) ==
    /\ ~traversal.on /\ calls < MaxTraversals
    /\ Differentiable(root)
    /\ calls' = calls + 1
    /\ LET operations == Reached(root)
       IN traversal' = [Quiet EXCEPT
            !.on = TRUE, !.root = root, !.retain = retain, !.requested = requested,
            !.operations = operations, !.remaining = Consumers(operations),
            !.ready = IF Operation(root) THEN <<<<root, 1>>>> ELSE <<>>,
            !.collected = [t \in Tensor |-> IF t = root /\ t \in requested THEN 1 ELSE 0],
            !.before = grad]
    /\ UNCHANGED <<graph, modified, freed>>

(* backward on a tensor, with the gradient 1.                              *)
Backward(root, retain) ==
    /\ Begin(root, {}, retain)
    /\ grad' = IF Accumulates(root) THEN [grad EXCEPT ![root] = @ + 1] ELSE grad

(* functional_grad: the gradients of the requested tensors, and no .grad.  *)
FunctionalGrad(root, requested, retain) ==
    /\ requested # {} /\ requested \intersect graph.plain = {}
    /\ Begin(root, requested, retain)
    /\ UNCHANGED grad
-----------------------------------------------------------------------------
(* propagate_gradient: the operation on top of the ready stack.            *)

Current == traversal.ready[Len(traversal.ready)][1]
Incoming == traversal.ready[Len(traversal.ready)][2]

(* What the slots of operation t add to tensor i.                          *)
Contribution(t, i) ==
    MapThenSumSet(LAMBDA j : Incoming * graph.factor[t][j],
                  {j \in Slots(Inputs(t)) : Inputs(t)[j] = i /\ Differentiable(i)})

(* Mutant: the inputs of an operation without a gradient are passed over.  *)
CountsWithGradient(t) == IF Incoming = 0 THEN {} ELSE InputSet(t)

(* Every input of t has one consumer less, also when t had no gradient.    *)
Counts(t) == InputSet(t)

(* The inputs S of t in the order of their first slots: the one sequence   *)
(* that the loop over the inputs makes of them.                            *)
InOrder(t, S) ==
    {s \in [1 .. Cardinality(S) -> S] :
        /\ \A i \in S : \E n \in DOMAIN s : s[n] = i
        /\ \A m, n \in DOMAIN s : m < n =>
              \E j \in Slots(Inputs(t)) : /\ Inputs(t)[j] = s[m]
                                         /\ \A k \in 1 .. j : Inputs(t)[k] # s[n]}

(* Refused: the graph was released, or an input was written since, also    *)
(* one that is not differentiable.                                         *)
Stale(t) == Incoming # 0 /\ (t \in freed \/ \E j \in Slots(Inputs(t)) : Inputs(t)[j] \in modified)

Propagate ==
    LET t == Current
        left == [i \in Tensor |-> IF i \in Counts(t) THEN traversal.remaining[i] - 1
                                  ELSE traversal.remaining[i]]
        sums == [i \in Tensor |-> traversal.pending[i] + Contribution(t, i)]
        complete == {i \in Counts(t) : left[i] = 0}
        popped == SubSeq(traversal.ready, 1, Len(traversal.ready) - 1)
    IN /\ traversal.on /\ traversal.ready # <<>> /\ ~Stale(t)
       /\ grad' = [i \in Tensor |->
                     IF i \in complete /\ traversal.requested = {} /\ Accumulates(i)
                     THEN grad[i] + sums[i] ELSE grad[i]]
       /\ \E next \in InOrder(t, {i \in complete : Operation(i)}) :
             traversal' = [traversal EXCEPT
                !.remaining = left,
                !.pending = [i \in Tensor |-> IF i \in complete THEN 0 ELSE sums[i]],
                !.collected = [i \in Tensor |-> IF i \in complete \intersect traversal.requested
                                                THEN sums[i] ELSE @[i]],
                !.ready = popped \o [n \in DOMAIN next |-> <<next[n], sums[next[n]]>>],
                !.ran = @ \union {t}]
       /\ UNCHANGED <<graph, modified, freed, calls>>

(* The operation is stale, or its backward raises.                         *)
Abort == /\ traversal.on /\ traversal.ready # <<>> /\ Incoming # 0
         /\ traversal' = [traversal EXCEPT !.on = FALSE,
                            !.ended = IF ~Stale(Current) THEN "raised"
                                     ELSE IF Current \in freed THEN "freed" ELSE "modified"]
         /\ UNCHANGED <<graph, modified, freed, grad, calls>>

(* release_graph *)
Complete == /\ traversal.on /\ traversal.ready = <<>>
            /\ freed' = IF traversal.retain THEN freed ELSE freed \union traversal.operations
            /\ traversal' = [traversal EXCEPT !.on = FALSE, !.ended = "done"]
            /\ UNCHANGED <<graph, modified, grad, calls>>

AutogradNext == \/ \E t \in Tensor : Modify(t)
                \/ \E t \in Tensor, retain \in BOOLEAN :
                      \/ Backward(t, retain)
                      \/ \E r \in Requests : FunctionalGrad(t, r, retain)
                \/ Propagate \/ Abort \/ Complete

AutogradSpec == AutogradInit /\ [][AutogradNext]_autogradVars
-----------------------------------------------------------------------------
AutogradTypeOK == /\ graph \in Graphs /\ modified \in SUBSET Tensor
                  /\ freed \in SUBSET Tensor /\ calls \in 0 .. MaxTraversals
                  /\ traversal.on => /\ traversal.operations \in SUBSET Tensor
                                     /\ traversal.remaining \in [Tensor -> Nat]

(* The derivative of the root by each tensor: the sum over all paths of    *)
(* the product of their factors, from the recorded graph alone.            *)
Derivative(root) ==
    LET uses(i) == {s \in ((i + 1) .. root) \X (1 .. Last) :
                      s[2] \in Slots(graph.inputs[s[1]]) /\ graph.inputs[s[1]][s[2]] = i}
        paths[i \in Tensor] ==
            IF i = root THEN 1
            ELSE MapThenSumSet(LAMBDA s : paths[s[1]] * graph.factor[s[1]][s[2]], uses(i))
    IN [i \in Tensor |-> IF i > root \/ i \in graph.plain THEN 0 ELSE paths[i]]

(* A traversal that completes has given every leaf, every retaining tensor *)
(* or every requested tensor exactly its derivative, added to what .grad   *)
(* held before, and .grad of no other; grad touches no .grad at all.       *)
GradientsExact ==
    traversal.ended = "done" =>
        LET exact == Derivative(traversal.root)
        IN /\ \A i \in Tensor \ graph.plain :
                 traversal.requested = {} =>
                    grad[i] = traversal.before[i] + (IF Accumulates(i) THEN exact[i] ELSE 0)
           /\ traversal.requested # {} => grad = traversal.before
           /\ \A i \in traversal.requested : traversal.collected[i] = exact[i]

(* An operation runs at most once in a traversal, and when every operation *)
(* that consumes its result has run; a traversal that completes has run    *)
(* every operation it has found.                                           *)
RunsAfterConsumers ==
    /\ \A n \in Slots(traversal.ready) :
          LET t == traversal.ready[n][1]
          IN traversal.on =>
                /\ t \notin traversal.ran
                /\ \A m \in Slots(traversal.ready) : m # n => traversal.ready[m][1] # t
                /\ \A c \in traversal.operations : t \in InputSet(c) => c \in traversal.ran
    /\ traversal.ended = "done" => traversal.ran = traversal.operations
=============================================================================
