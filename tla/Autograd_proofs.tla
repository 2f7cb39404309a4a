---------------------------- MODULE Autograd_proofs ----------------------------
(***************************************************************************)
(* Proofs about the engine of the operations and about what is recorded of *)
(* them.  About Autograd: an operation runs once, and after the operations *)
(* that consume its result, for any graphs, requests and traversals.       *)
(*                                                                         *)
(* The invariant counts: what is left to a tensor is the number of the     *)
(* found operations that consume it and have not run.  So an operation     *)
(* becomes ready when the last of its consumers runs, neither before nor   *)
(* a second time.  That none is left over when nothing is ready follows    *)
(* from the order of creation: the youngest operation that has not run has *)
(* only older ones as inputs, so each of its consumers has run and it is   *)
(* ready.  And every operation but the root's has a consumer at first,     *)
(* because the found ones are the least set closed under inputs.           *)
(*                                                                         *)
(* About OperationProfiler: what a profile holds once it has been left.    *)
(* The frames of a session that follows its thread are the top of the      *)
(* stack of that thread, and each holds the nearest selected operation     *)
(* that is still running; so an operation that begins finds its parent on  *)
(* top.  A time names one thing, the places are the ranks of the times,    *)
(* and so the pairs of a start and its parent's can be read back.          *)
(***************************************************************************)
EXTENDS Autograd, OperationProfiler, FiniteSetTheorems, SequenceTheorems, WellFoundedInduction, TLAPS

Fields == {"on", "root", "retain", "requested", "operations", "remaining", "pending",
           "ready", "ran", "collected", "before", "ended"}

Waiting == traversal.operations \ traversal.ran
Consuming(i) == {t \in Waiting : i \in InputSet(t)}

(* The inputs of an operation are older than it.                           *)
Recorded == graph \in Graphs

Found == /\ traversal.operations \in SUBSET Tensor
         /\ \A t \in traversal.operations : Operation(t)
         /\ traversal.ran \in SUBSET traversal.operations
         /\ \A t \in traversal.ran : Consuming(t) = {}
         /\ \A t \in traversal.operations : \A i \in InputSet(t) : Operation(i) => i \in traversal.operations

Counted == traversal.remaining = [i \in Tensor |-> Cardinality(Consuming(i))]

IsStack(s) == Len(s) \in Nat /\ s = [n \in 1 .. Len(s) |-> s[n]]

Stacked ==
    /\ IsStack(traversal.ready)
    /\ \A n \in 1 .. Len(traversal.ready) :
          /\ traversal.ready[n][1] \in Waiting
          /\ Consuming(traversal.ready[n][1]) = {}
          /\ \A m \in 1 .. Len(traversal.ready) : m # n => traversal.ready[m][1] # traversal.ready[n][1]
    /\ \A t \in Waiting : Consuming(t) = {} => \E n \in 1 .. Len(traversal.ready) : traversal.ready[n][1] = t

Scheduled ==
    /\ Recorded
    /\ traversal = [f \in Fields |-> traversal[f]]
    /\ traversal.on \in BOOLEAN
    /\ traversal.on => Found /\ Counted /\ Stacked /\ traversal.ended = "none"
    /\ traversal.ended = "done" => traversal.ran = traversal.operations
-----------------------------------------------------------------------------
LEMMA LastNumber == Last \in Nat
  BY AutogradAssumption

LEMMA RecordedInputs ==
    ASSUME Recorded, NEW t \in Tensor
    PROVE  graph.inputs[t] \in Seq(1 .. t - 1)
  BY AutogradAssumption DEF Recorded

(* Every set of tensors that is not empty has a youngest member.           *)
LEMMA Youngest ==
    ASSUME NEW S \in SUBSET Tensor, S # {}
    PROVE  \E m \in S : \A k \in S : k <= m
<1> DEFINE R == {p \in Nat \X Nat : p[1] < p[2]}
           T == {Last - t : t \in S}
<1>1. IsWellFoundedOn(R, Nat)
  BY NatLessThanWellFounded DEF OpToRel
<1>2. T \subseteq Nat /\ T # {}
  <2>1. \A t \in S : t \in Nat /\ t <= Last /\ Last - t \in Nat
    BY LastNumber DEF Tensor
  <2> QED BY <2>1
<1>3. \E x \in T : \A y \in T : ~ (<<y, x>> \in R)
  <2> HIDE DEF R, T
  <2> QED BY <1>1, <1>2, WFMin
<1>4. PICK x \in T : \A y \in T : ~ (<<y, x>> \in R)
  BY <1>3
<1>5. PICK m \in S : x = Last - m
  OBVIOUS
<1>6. ASSUME NEW k \in S PROVE k <= m
  <2>1. Last - k \in T /\ Last - k \in Nat /\ x \in Nat /\ k \in Nat /\ m \in Nat
    BY <1>2, <1>4, LastNumber DEF Tensor
  <2>2. ~ (Last - k < x)
    BY <1>4, <2>1
  <2> QED BY <1>5, <2>1, <2>2, LastNumber
<1> QED BY <1>6

(* An operation's inputs are older than it.                                *)
LEMMA OlderInputs ==
    ASSUME Recorded, NEW t \in Tensor
    PROVE  /\ Inputs(t) \in Seq(1 .. t - 1) /\ Len(Inputs(t)) \in Nat
           /\ InputSet(t) \subseteq Tensor
           /\ \A i \in InputSet(t) : i < t /\ \E j \in Slots(Inputs(t)) : Inputs(t)[j] = i
<1>1. Inputs(t) \in Seq(1 .. t - 1)
  <2>1. <<>> \in Seq(1 .. t - 1)
    OBVIOUS
  <2> QED BY <2>1, RecordedInputs DEF Inputs
<1>2. t \in Nat /\ 1 .. t - 1 \subseteq Tensor /\ \A i \in 1 .. t - 1 : i < t
  BY LastNumber DEF Tensor
<1>3. \A j \in Slots(Inputs(t)) : Inputs(t)[j] \in 1 .. t - 1
  <2> DEFINE s == Inputs(t)
             E == 1 .. t - 1
  <2>1. s \in Seq(E)
    BY <1>1
  <2> HIDE DEF s, E
  <2>2. \A j \in 1 .. Len(s) : s[j] \in E
    BY <2>1
  <2> QED BY <2>2 DEF Slots, s, E
<1>4. Len(Inputs(t)) \in Nat
  BY <1>1
<1> QED BY <1>1, <1>2, <1>3, <1>4 DEF InputSet

LEMMA FiniteTensors == ASSUME NEW S \in SUBSET Tensor PROVE IsFiniteSet(S) /\ Cardinality(S) \in Nat
<1>1. IsFiniteSet(Tensor)
  BY FS_Interval, LastNumber DEF Tensor
<1> QED BY <1>1, FS_Subset, FS_CardinalityType
-----------------------------------------------------------------------------
(* The operations that are found: all reachable ones, and each but the     *)
(* root's consumed by one that is found.                                   *)
LEMMA ReachedIs ==
    ASSUME Recorded, NEW root \in Tensor
    PROVE  /\ Reached(root) \subseteq Tensor /\ \A t \in Reached(root) : Operation(t)
           /\ Operation(root) => root \in Reached(root)
           /\ \A t \in Reached(root) : \A i \in InputSet(t) : Operation(i) => i \in Reached(root)
           /\ \A t \in Reached(root) : t # root => \E c \in Reached(root) : t \in InputSet(c)
<1> DEFINE Closed(S) == /\ Operation(root) => root \in S
                        /\ \A t \in S : \A i \in InputSet(t) : Operation(i) => i \in S
           F == Reached(root)
<1>1. F = {t \in Tensor : \A S \in SUBSET Tensor : Closed(S) => t \in S}
  BY DEF Reached
<1>2. \A t \in Tensor : InputSet(t) \subseteq Tensor
  BY OlderInputs
<1>3. Closed({t \in Tensor : Operation(t)})
  BY <1>2
<1>4. F \subseteq {t \in Tensor : Operation(t)}
  <2>1. {t \in Tensor : Operation(t)} \in SUBSET Tensor
    OBVIOUS
  <2> QED BY <1>1, <1>3, <2>1
<1>5. Operation(root) => root \in F
  BY <1>1
<1>6. \A t \in F : \A i \in InputSet(t) : Operation(i) => i \in F
  BY <1>1, <1>2
<1>7. ASSUME NEW t \in F, t # root, \A c \in F : t \notin InputSet(c) PROVE FALSE
  <2> DEFINE S == F \ {t}
  <2>1. Closed(S)
    BY <1>5, <1>6, <1>7
  <2>2. S \in SUBSET Tensor
    BY <1>4
  <2> HIDE DEF S, Closed, F
  <2>3. t \in S
    BY <1>1, <1>7, <2>1, <2>2
  <2> QED BY <2>3 DEF S
<1> HIDE DEF F
<1>8. F \subseteq Tensor /\ \A t \in F : Operation(t)
  BY <1>4
<1> QED BY <1>8, <1>5, <1>6, <1>7 DEF F
-----------------------------------------------------------------------------
LEMMA InitScheduled == AutogradInit => Scheduled
<1> SUFFICES ASSUME AutogradInit PROVE Scheduled
  OBVIOUS
<1>1. traversal = Quiet /\ Recorded
  BY DEF AutogradInit, Recorded
<1>2. traversal.on = FALSE /\ traversal.ended = "none"
  BY <1>1 DEF Quiet
<1>3. traversal = [f \in Fields |-> traversal[f]]
  BY <1>1 DEF Quiet, Fields
<1> QED BY <1>1, <1>2, <1>3 DEF Scheduled

(* A traversal begins with the root's operation ready.                     *)
LEMMA BeginScheduled ==
    ASSUME Scheduled, NEW root \in Tensor, NEW requested, NEW retain, Begin(root, requested, retain)
    PROVE  Scheduled'
<1> DEFINE F == Reached(root)
<1>1. /\ traversal' = [f \in Fields |-> traversal'[f]]
      /\ traversal'.on = TRUE /\ traversal'.operations = F /\ traversal'.ran = {}
      /\ traversal'.remaining = Consumers(F) /\ traversal'.ended = "none"
      /\ traversal'.ready = IF Operation(root) THEN <<<<root, 1>>>> ELSE <<>>
  BY DEF Begin, Quiet, Fields
<1>2. graph' = graph /\ freed' = freed /\ Recorded /\ Recorded'
  BY DEF Begin, Scheduled, Recorded
<1>3. \A t : InputSet(t)' = InputSet(t) /\ Operation(t)' = Operation(t)
  BY <1>2 DEF InputSet, Operation, Inputs
<1>4. /\ F \subseteq Tensor /\ \A t \in F : Operation(t)
      /\ Operation(root) => root \in F
      /\ \A t \in F : \A i \in InputSet(t) : Operation(i) => i \in F
      /\ \A t \in F : t # root => \E c \in F : t \in InputSet(c)
  BY <1>2, ReachedIs
<1>a. \A t \in F : t <= root
  <2> SUFFICES ASSUME NEW s \in F, ~(s <= root) PROVE FALSE
    OBVIOUS
  <2>1. F \subseteq Tensor /\ F # {}
    <3> HIDE DEF F
    <3> QED BY <1>4
  <2>2. PICK m \in F : \A k \in F : k <= m
    BY <2>1, Youngest
  <2>3. m # root
    BY <2>2
  <2>4. PICK c \in F : m \in InputSet(c)
    BY <1>4, <2>3
  <2>5. m < c /\ c <= m /\ c \in Nat /\ m \in Nat
    BY <1>2, <2>1, <2>2, <2>4, OlderInputs DEF Tensor
  <2> QED BY <2>5
<1> HIDE DEF F
<1>5. Waiting' = F
  BY <1>1 DEF Waiting
<1>6. \A i : Consuming(i)' = {t \in F : i \in InputSet(t)}
  BY <1>3, <1>5 DEF Consuming
<1>7. Found'
  <2>1. \A t \in F : t \in Tensor /\ Operation(t)'
    BY <1>3, <1>4
  <2> QED BY <1>1, <1>3, <1>4, <2>1 DEF Found
<1>8. Counted'
  BY <1>1, <1>6 DEF Counted, Consumers
<1>9. Stacked'
  <2>1. CASE Operation(root)
    <3>1. traversal'.ready = <<<<root, 1>>>> /\ Len(traversal'.ready) = 1 /\ traversal'.ready[1][1] = root
      BY <1>1, <2>1
    <3>2. IsStack(traversal'.ready)
      BY <3>1 DEF IsStack
    <3>3. Consuming(root)' = {}
      <4> SUFFICES ASSUME NEW c \in F, root \in InputSet(c) PROVE FALSE
        BY <1>6
      <4>0. c \in Tensor
        BY <1>4
      <4>1. root < c /\ c <= root /\ c \in Nat /\ root \in Nat
        BY <1>2, <1>a, <4>0, OlderInputs DEF Tensor
      <4> QED BY <4>1
    <3>4. \A t \in F : Consuming(t)' = {} => t = root
      BY <1>4, <1>6
    <3>5. \A n \in 1 .. Len(traversal'.ready) : n = 1 /\ traversal'.ready[n][1] = root
      BY <3>1
    <3>6. root \in F /\ 1 \in 1 .. Len(traversal'.ready)
      BY <1>4, <2>1, <3>1
    <3> QED BY <1>5, <3>1, <3>2, <3>3, <3>4, <3>5, <3>6 DEF Stacked
  <2>2. CASE ~Operation(root)
    <3>1. traversal'.ready = <<>> /\ Len(traversal'.ready) = 0
      BY <1>1, <2>2
    <3>2. F = {}
      <4> SUFFICES ASSUME F # {} PROVE FALSE
        OBVIOUS
      <4>0. F \subseteq Tensor /\ \A t \in F : Operation(t)
        BY <1>4
      <4>1. PICK m \in F : \A k \in F : k <= m
        BY <4>0, Youngest
      <4>2. m # root
        BY <2>2, <4>0
      <4>3. PICK c \in F : m \in InputSet(c)
        BY <1>4, <4>2
      <4>4. m < c /\ c <= m /\ c \in Nat /\ m \in Nat
        BY <1>2, <4>0, <4>1, <4>3, OlderInputs DEF Tensor
      <4> QED BY <4>4
    <3>3. IsStack(traversal'.ready)
      BY <3>1 DEF IsStack
    <3> QED BY <1>5, <3>1, <3>2, <3>3 DEF Stacked
  <2> QED BY <2>1, <2>2
<1> QED BY <1>1, <1>2, <1>7, <1>8, <1>9 DEF Scheduled
-----------------------------------------------------------------------------
(* The stack: its top is taken off, and a sequence put on.                 *)
Push(s, m, next, sums) == SubSeq(s, 1, Len(s) - 1) \o [n \in 1 .. m |-> <<next[n], sums[next[n]]>>]

LEMMA Pushed ==
    ASSUME NEW s, IsStack(s), Len(s) > 0, NEW m \in Nat, NEW next, NEW sums
    PROVE  /\ IsStack(Push(s, m, next, sums))
           /\ Len(Push(s, m, next, sums)) = Len(s) - 1 + m
           /\ \A n \in 1 .. Len(s) - 1 : Push(s, m, next, sums)[n] = s[n]
           /\ \A n \in 1 .. m : Push(s, m, next, sums)[Len(s) - 1 + n][1] = next[n]
<1> DEFINE L == Len(s) - 1
           a == SubSeq(s, 1, L)
           b == [n \in 1 .. m |-> <<next[n], sums[next[n]]>>]
           E == {s[n] : n \in 1 .. Len(s)} \union {b[n] : n \in 1 .. m}
<1>1. L \in Nat /\ Len(s) \in Nat /\ L = Len(s) - 1
  BY DEF IsStack
<1>2. b \in Seq(E) /\ Len(b) = m /\ \A n \in 1 .. m : b[n][1] = next[n]
  OBVIOUS
<1>3. \A n \in 1 .. L : s[n] \in E
  BY <1>1
<1> HIDE DEF E, b, L
<1>4. /\ a \in Seq(E)
      /\ Len(a) = IF 1 <= L THEN L - 1 + 1 ELSE 0
      /\ \A n \in 1 .. L - 1 + 1 : a[n] = s[1 + n - 1]
  BY <1>1, <1>3, SubSeqProperties
<1> HIDE DEF a
<1>5. Len(a) = L /\ \A n \in 1 .. L : a[n] = s[n]
  <2>1. \A n \in 1 .. L : n \in 1 .. L - 1 + 1 /\ 1 + n - 1 = n
    BY <1>1
  <2> QED BY <1>1, <1>4, <2>1
<1>6. /\ a \o b \in Seq(E) /\ Len(a \o b) = Len(a) + Len(b)
      /\ \A i \in 1 .. Len(a) + Len(b) : (a \o b)[i] = IF i <= Len(a) THEN a[i] ELSE b[i - Len(a)]
  BY <1>2, <1>4, ConcatProperties
<1>7. Push(s, m, next, sums) = a \o b
  BY DEF Push, a, b, L
<1> DEFINE r == a \o b
<1>8. r \in Seq(E) /\ Len(r) = L + m
  BY <1>2, <1>5, <1>6
<1>9. \A n \in 1 .. L : r[n] = s[n]
  BY <1>1, <1>2, <1>5, <1>6
<1>10. \A n \in 1 .. m : r[L + n][1] = next[n]
  <2> SUFFICES ASSUME NEW n \in 1 .. m PROVE r[L + n][1] = next[n]
    OBVIOUS
  <2>1. L + n \in 1 .. Len(a) + Len(b) /\ ~(L + n <= Len(a)) /\ L + n - Len(a) = n
    BY <1>1, <1>2, <1>5
  <2>2. \A i \in 1 .. Len(a) + Len(b) : ~(i <= Len(a)) => r[i] = b[i - Len(a)]
    BY <1>6
  <2> HIDE DEF r
  <2>4. r[L + n] = b[L + n - Len(a)]
    <3>1. L \in Nat /\ Len(a) = L /\ Len(b) \in Nat /\ n \in Nat
      BY <1>1, <1>2, <1>5
    <3> QED BY <2>1, <2>2, <3>1
  <2>3. b[n][1] = next[n]
    BY <1>2
  <2> QED BY <2>1, <2>3, <2>4
<1> HIDE DEF r
<1>11. IsStack(r)
  BY <1>8 DEF IsStack
<1> QED BY <1>7, <1>8, <1>9, <1>10, <1>11 DEF L, r

(* What the operation on top has done when it has run.                     *)
LEMMA PropagateIs ==
    ASSUME Scheduled, Propagate
    PROVE  /\ traversal.on /\ traversal.ready # <<>>
           /\ graph' = graph /\ freed' = freed
           /\ traversal' = [f \in Fields |-> traversal'[f]]
           /\ \A f \in Fields \ {"remaining", "pending", "collected", "ready", "ran"} : traversal'[f] = traversal[f]
           /\ traversal'.ran = traversal.ran \union {Current}
           /\ traversal'.remaining = [i \in Tensor |-> IF i \in InputSet(Current) THEN traversal.remaining[i] - 1
                                                       ELSE traversal.remaining[i]]
           /\ \E sums : \E next \in InOrder(Current, {i \in InputSet(Current) : Operation(i) /\ traversal'.remaining[i] = 0}) :
                 traversal'.ready = SubSeq(traversal.ready, 1, Len(traversal.ready) - 1)
                                      \o [n \in DOMAIN next |-> <<next[n], sums[next[n]]>>]
<1> DEFINE left == [i \in Tensor |-> IF i \in InputSet(Current) THEN traversal.remaining[i] - 1
                                     ELSE traversal.remaining[i]]
           complete == {i \in InputSet(Current) : left[i] = 0}
           sums == [i \in Tensor |-> traversal.pending[i] + Contribution(Current, i)]
           pend == [i \in Tensor |-> IF i \in complete THEN 0 ELSE sums[i]]
           coll == [i \in Tensor |-> IF i \in complete \intersect traversal.requested
                                      THEN sums[i] ELSE traversal.collected[i]]
           Ready(next) == SubSeq(traversal.ready, 1, Len(traversal.ready) - 1)
                             \o [n \in DOMAIN next |-> <<next[n], sums[next[n]]>>]
<1>1. /\ traversal.on /\ traversal.ready # <<>>
      /\ graph' = graph /\ freed' = freed
      /\ \E next \in InOrder(Current, {i \in complete : Operation(i)}) :
            traversal' = [traversal EXCEPT
                !.remaining = left, !.pending = pend, !.collected = coll,
                !.ready = Ready(next), !.ran = @ \union {Current}]
  BY DEF Propagate, Counts
<1>2. PICK next \in InOrder(Current, {i \in complete : Operation(i)}) :
            traversal' = [traversal EXCEPT
                !.remaining = left, !.pending = pend, !.collected = coll,
                !.ready = Ready(next), !.ran = @ \union {Current}]
  BY <1>1
<1>3. traversal = [f \in Fields |-> traversal[f]]
  BY DEF Scheduled
<1> HIDE DEF pend, coll, Ready, complete
<1>4. /\ traversal' = [f \in Fields |-> traversal'[f]]
      /\ \A f \in Fields \ {"remaining", "pending", "collected", "ready", "ran"} : traversal'[f] = traversal[f]
      /\ traversal'.ran = traversal.ran \union {Current}
      /\ traversal'.remaining = left /\ traversal'.ready = Ready(next)
  <2> HIDE DEF left
  <2> QED BY <1>2, <1>3 DEF Fields
<1>5. {i \in complete : Operation(i)} = {i \in InputSet(Current) : Operation(i) /\ traversal'.remaining[i] = 0}
  BY <1>4 DEF complete
<1>6. next \in InOrder(Current, {i \in InputSet(Current) : Operation(i) /\ traversal'.remaining[i] = 0})
  BY <1>5
<1>7. traversal'.ready = SubSeq(traversal.ready, 1, Len(traversal.ready) - 1)
                            \o [n \in DOMAIN next |-> <<next[n], sums[next[n]]>>]
  BY <1>4 DEF Ready
<1> HIDE DEF sums
<1>8. \E ss : \E nn \in InOrder(Current, {i \in InputSet(Current) : Operation(i) /\ traversal'.remaining[i] = 0}) :
         traversal'.ready = SubSeq(traversal.ready, 1, Len(traversal.ready) - 1)
                              \o [n \in DOMAIN nn |-> <<nn[n], ss[nn[n]]>>]
  BY <1>6, <1>7
<1> QED BY <1>1, <1>4, <1>8

(* Running an operation keeps the schedule: its result is no longer waited *)
(* for, and the inputs that it was the last to consume become ready.       *)
LEMMA PropagateScheduled == ASSUME Scheduled, Propagate PROVE Scheduled'
<1> DEFINE t == Current
           N == Len(traversal.ready)
           K == {i \in InputSet(t) : Operation(i) /\ traversal'.remaining[i] = 0}
<1>1. /\ traversal.on /\ traversal.ready # <<>> /\ graph' = graph /\ freed' = freed
      /\ traversal' = [f \in Fields |-> traversal'[f]]
      /\ \A f \in Fields \ {"remaining", "pending", "collected", "ready", "ran"} : traversal'[f] = traversal[f]
      /\ traversal'.ran = traversal.ran \union {t}
      /\ traversal'.remaining = [i \in Tensor |-> IF i \in InputSet(t) THEN traversal.remaining[i] - 1
                                                  ELSE traversal.remaining[i]]
  BY PropagateIs
<1>2. \E sums : \E next \in InOrder(t, K) :
         traversal'.ready = SubSeq(traversal.ready, 1, N - 1) \o [n \in DOMAIN next |-> <<next[n], sums[next[n]]>>]
  BY PropagateIs
<1>3. PICK sums : \E next \in InOrder(t, K) :
         traversal'.ready = SubSeq(traversal.ready, 1, N - 1) \o [n \in DOMAIN next |-> <<next[n], sums[next[n]]>>]
  BY <1>2
<1>4. PICK next \in InOrder(t, K) :
         traversal'.ready = SubSeq(traversal.ready, 1, N - 1) \o [n \in DOMAIN next |-> <<next[n], sums[next[n]]>>]
  BY <1>3
<1>5. Recorded /\ Recorded' /\ Found /\ Counted /\ Stacked /\ traversal.ended = "none"
  BY <1>1 DEF Scheduled, Recorded
<1>6. traversal'.on = TRUE /\ traversal'.operations = traversal.operations /\ traversal'.ended = "none"
  BY <1>1, <1>5 DEF Fields, Scheduled
<1>7. \A i : InputSet(i)' = InputSet(i) /\ Operation(i)' = Operation(i)
  BY <1>1 DEF InputSet, Operation, Inputs
<1>8. IsStack(traversal.ready)
  BY <1>5 DEF Stacked
<1>9. N \in Nat \ {0} /\ t = traversal.ready[N][1]
  BY <1>1, <1>8 DEF Current, IsStack
<1>10. t \in Waiting /\ Consuming(t) = {} /\ t \in Tensor
  <2>1. N \in 1 .. N
    BY <1>9
  <2>2. t \in Waiting /\ Consuming(t) = {}
    BY <1>5, <1>9, <2>1 DEF Stacked
  <2> QED BY <1>5, <2>2 DEF Waiting, Found
<1> HIDE DEF t, N
<1>11. InputSet(t) \subseteq Tensor /\ \A i \in InputSet(t) : i # t
  <2>1. InputSet(t) \subseteq Tensor /\ \A i \in InputSet(t) : i < t
    BY <1>5, <1>10, OlderInputs
  <2> QED BY <1>10, <2>1 DEF Tensor
<1>12. Waiting' = Waiting \ {t} /\ Waiting \subseteq Tensor
  BY <1>1, <1>5, <1>6 DEF Waiting, Found
<1>13. \A i : /\ Consuming(i)' = Consuming(i) \ {t}
              /\ t \in Consuming(i) <=> i \in InputSet(t)
              /\ Consuming(i) \subseteq Tensor
  BY <1>7, <1>10, <1>12 DEF Consuming
<1>14. \A i \in Tensor : traversal'.remaining[i] = Cardinality(Consuming(i)')
  <2> SUFFICES ASSUME NEW i \in Tensor PROVE traversal'.remaining[i] = Cardinality(Consuming(i)')
    OBVIOUS
  <2> DEFINE C == Consuming(i)
  <2>1. IsFiniteSet(C) /\ C \subseteq Tensor
    BY <1>13, FiniteTensors
  <2>2. traversal.remaining[i] = Cardinality(C)
    BY <1>5 DEF Counted
  <2>3. Cardinality(C \ {t}) = IF t \in C THEN Cardinality(C) - 1 ELSE Cardinality(C)
    <3> HIDE DEF C
    <3> QED BY <2>1, FS_RemoveElement
  <2>4. Consuming(i)' = C \ {t} /\ (t \in C <=> i \in InputSet(t))
    BY <1>13
  <2>5. traversal'.remaining[i] = IF i \in InputSet(t) THEN traversal.remaining[i] - 1 ELSE traversal.remaining[i]
    BY <1>1
  <2> HIDE DEF C
  <2> QED BY <2>2, <2>3, <2>4, <2>5
<1>15. Counted'
  <2>1. traversal'.remaining = [i \in Tensor |-> traversal'.remaining[i]]
    BY <1>1
  <2>2. [i \in Tensor |-> traversal'.remaining[i]] = [i \in Tensor |-> Cardinality(Consuming(i)')]
    BY <1>14
  <2> QED BY <2>1, <2>2 DEF Counted
<1>16. \A i \in Tensor : traversal'.remaining[i] = 0 <=> Consuming(i)' = {}
  <2> SUFFICES ASSUME NEW i \in Tensor PROVE traversal'.remaining[i] = 0 <=> Consuming(i)' = {}
    OBVIOUS
  <2> DEFINE C == Consuming(i)'
  <2>1. IsFiniteSet(C)
    <3>1. C \subseteq Tensor
      BY <1>13
    <3> QED BY <3>1, FiniteTensors
  <2>2. traversal'.remaining[i] = Cardinality(C)
    BY <1>14
  <2> HIDE DEF C
  <2>3. Cardinality(C) = 0 <=> C = {}
    BY <2>1, FS_EmptySet
  <2> QED BY <2>2, <2>3 DEF C
<1>17. Found'
  <2>1. traversal'.operations \in SUBSET Tensor /\ \A o \in traversal'.operations : Operation(o)'
    BY <1>5, <1>6, <1>7 DEF Found
  <2>2. traversal'.ran \in SUBSET traversal'.operations
    BY <1>1, <1>5, <1>6, <1>10 DEF Found, Waiting
  <2>3. \A o \in traversal'.ran : Consuming(o)' = {}
    BY <1>1, <1>5, <1>10, <1>13 DEF Found
  <2>4. \A o \in traversal'.operations : \A i \in InputSet(o)' : Operation(i)' => i \in traversal'.operations
    BY <1>5, <1>6, <1>7 DEF Found
  <2> QED BY <2>1, <2>2, <2>3, <2>4 DEF Found
<1>18. \A i : i \in K <=> i \in InputSet(t) /\ Operation(i) /\ Consuming(i)' = {}
  BY <1>11, <1>16
<1>19. K \subseteq Waiting' /\ K \subseteq Tensor
  <2> SUFFICES ASSUME NEW i \in K PROVE i \in Waiting'
    BY <1>12
  <2>1. i \in InputSet(t) /\ Operation(i)
    OBVIOUS
  <2>2. i \in traversal.operations
    BY <1>5, <1>10, <2>1 DEF Found, Waiting
  <2>3. i \notin traversal.ran
    BY <1>5, <1>13, <2>1 DEF Found
  <2> QED BY <1>11, <1>12, <2>1, <2>2, <2>3 DEF Waiting
<1> HIDE DEF K
<1> DEFINE M == Cardinality(K)
<1>20. /\ M \in Nat /\ next \in [1 .. M -> Tensor] /\ DOMAIN next = 1 .. M
       /\ \A n \in 1 .. M : next[n] \in K
       /\ \A i \in K : \E n \in 1 .. M : next[n] = i
       /\ \A m, n \in 1 .. M : m < n => next[m] # next[n]
  <2>1. M \in Nat
    BY <1>19, FiniteTensors
  <2>2. next \in [1 .. M -> K] /\ \A i \in K : \E n \in DOMAIN next : next[n] = i
    BY DEF InOrder
  <2>3. ASSUME NEW m \in 1 .. M, NEW n \in 1 .. M, m < n PROVE next[m] # next[n]
    <3>1. PICK j \in Slots(Inputs(t)) : Inputs(t)[j] = next[m] /\ \A k \in 1 .. j : Inputs(t)[k] # next[n]
      BY <2>2, <2>3 DEF InOrder
    <3>2. j \in 1 .. j
      <4>1. Len(Inputs(t)) \in Nat
        BY <1>5, <1>10, OlderInputs
      <4> QED BY <4>1 DEF Slots
    <3> QED BY <3>1, <3>2
  <2> HIDE DEF M
  <2> QED BY <1>19, <2>1, <2>2, <2>3
<1> HIDE DEF M
<1> DEFINE R == traversal'.ready
<1>21. /\ IsStack(R)
       /\ Len(R) = N - 1 + M
       /\ \A n \in 1 .. N - 1 : R[n] = traversal.ready[n]
       /\ \A n \in 1 .. M : R[N - 1 + n][1] = next[n]
  <2> DEFINE s == traversal.ready
  <2>1. IsStack(s) /\ Len(s) > 0 /\ N = Len(s)
    BY <1>8, <1>9 DEF N
  <2>2. R = Push(s, M, next, sums)
    BY <1>4, <1>20, <2>1 DEF Push
  <2> HIDE DEF s, R
  <2>3. /\ IsStack(R)
        /\ Len(R) = Len(s) - 1 + M
        /\ \A n \in 1 .. Len(s) - 1 : R[n] = s[n]
        /\ \A n \in 1 .. M : R[Len(s) - 1 + n][1] = next[n]
    <3>1. IsStack(s) /\ Len(s) > 0 /\ M \in Nat
      BY <1>20, <2>1
    <3>2. IsStack(Push(s, M, next, sums))
      BY <3>1, Pushed
    <3>3. Len(Push(s, M, next, sums)) = Len(s) - 1 + M
      BY <3>1, Pushed
    <3>4. \A n \in 1 .. Len(s) - 1 : Push(s, M, next, sums)[n] = s[n]
      BY <3>1, Pushed
    <3>5. \A n \in 1 .. M : Push(s, M, next, sums)[Len(s) - 1 + n][1] = next[n]
      BY <3>1, Pushed
    <3> QED BY <2>2, <3>2, <3>3, <3>4, <3>5
  <2> QED BY <2>1, <2>3 DEF s
<1> HIDE DEF R
<1>22. ASSUME NEW n \in 1 .. Len(R)
       PROVE  \/ n \in 1 .. N - 1 /\ R[n] = traversal.ready[n]
              \/ n - (N - 1) \in 1 .. M /\ R[n][1] = next[n - (N - 1)]
  <2>1. CASE n <= N - 1
    BY <1>9, <1>20, <1>21, <2>1
  <2>2. CASE ~(n <= N - 1)
    <3>1. n - (N - 1) \in 1 .. M /\ N - 1 + (n - (N - 1)) = n
      BY <1>9, <1>20, <1>21, <2>2
    <3> QED BY <1>21, <3>1
  <2> QED BY <2>1, <2>2
(* What was on the stack waits for nobody, so t does not consume it.       *)
<1>23. ASSUME NEW n \in 1 .. N - 1
       PROVE  /\ n \in 1 .. N /\ n # N
              /\ traversal.ready[n][1] \in Waiting' /\ Consuming(traversal.ready[n][1]) \ {t} = {}
              /\ traversal.ready[n][1] \notin K
  <2>1. n \in 1 .. N /\ N \in 1 .. N /\ n # N
    BY <1>9
  <2>2. traversal.ready[n][1] \in Waiting /\ Consuming(traversal.ready[n][1]) = {} /\ traversal.ready[n][1] # t
    BY <1>5, <1>9, <2>1 DEF Stacked, N
  <2>3. traversal.ready[n][1] \notin InputSet(t)
    BY <1>13, <2>2
  <2>4. \A i \in K : i \in InputSet(t)
    BY <1>18
  <2> QED BY <1>12, <2>1, <2>2, <2>3, <2>4
<1>24. ASSUME NEW n \in 1 .. Len(R) PROVE R[n][1] \in Waiting' /\ Consuming(R[n][1]) \ {t} = {}
  <2>1. CASE n \in 1 .. N - 1
    BY <1>21, <1>23, <2>1
  <2>2. CASE n - (N - 1) \in 1 .. M
    <3>1. N - 1 + (n - (N - 1)) = n
      BY <1>9, <1>20, <1>21
    <3>2. R[n][1] \in K
      BY <1>20, <1>21, <2>2, <3>1
    <3>3. \A i \in K : i \in Waiting' /\ Consuming(i) \ {t} = {}
      BY <1>13, <1>18, <1>19
    <3> QED BY <3>2, <3>3
  <2> QED BY <1>22, <2>1, <2>2
<1>25. ASSUME NEW n \in 1 .. Len(R), NEW m \in 1 .. Len(R), m # n PROVE R[m][1] # R[n][1]
  <2>1. CASE n \in 1 .. N - 1 /\ m \in 1 .. N - 1
    <3>1. R[n] = traversal.ready[n] /\ R[m] = traversal.ready[m] /\ n \in 1 .. N /\ m \in 1 .. N
      BY <1>9, <1>21, <2>1
    <3> QED BY <1>5, <1>25, <3>1 DEF Stacked, N
  <2>2. CASE n - (N - 1) \in 1 .. M /\ m - (N - 1) \in 1 .. M
    <3>1. \/ n - (N - 1) < m - (N - 1)
          \/ m - (N - 1) < n - (N - 1)
      BY <1>9, <1>20, <1>21, <1>25
    <3>2. R[n][1] = next[n - (N - 1)] /\ R[m][1] = next[m - (N - 1)]
      <4>1. N - 1 + (n - (N - 1)) = n /\ N - 1 + (m - (N - 1)) = m
        BY <1>9, <1>20, <1>21
      <4> QED BY <1>21, <2>2, <4>1
    <3> QED BY <1>20, <2>2, <3>1, <3>2
  <2>3. ASSUME NEW x \in 1 .. Len(R), NEW y \in 1 .. Len(R), x \in 1 .. N - 1, y - (N - 1) \in 1 .. M
        PROVE  R[x][1] # R[y][1]
    <3>1. R[y][1] \in K
      <4>1. N - 1 + (y - (N - 1)) = y
        BY <1>9, <1>20, <1>21
      <4> QED BY <1>20, <1>21, <2>3, <4>1
    <3>2. R[x] = traversal.ready[x] /\ traversal.ready[x][1] \notin K
      BY <1>21, <1>23, <2>3
    <3> QED BY <3>1, <3>2
  <2> QED BY <1>22, <2>1, <2>2, <2>3
<1>26. ASSUME NEW x \in Waiting', Consuming(x)' = {} PROVE \E n \in 1 .. Len(R) : R[n][1] = x
  <2>1. x \in Waiting /\ x # t
    BY <1>12
  <2>2. CASE Consuming(x) = {}
    <3>1. PICK n \in 1 .. N : traversal.ready[n][1] = x
      BY <1>5, <2>1, <2>2 DEF Stacked, N
    <3>2. n \in 1 .. N - 1 /\ n \in 1 .. Len(R)
      BY <1>9, <1>20, <1>21, <2>1, <3>1
    <3> QED BY <1>21, <3>1, <3>2
  <2>3. CASE Consuming(x) # {}
    <3>1. x \in InputSet(t)
      BY <1>13, <1>26, <2>3
    <3>2. Operation(x)
      BY <1>5, <2>1 DEF Found, Waiting
    <3>3. x \in K
      BY <1>18, <1>26, <3>1, <3>2
    <3>4. PICK n \in 1 .. M : next[n] = x
      BY <1>20, <3>3
    <3>5. N - 1 + n \in 1 .. Len(R) /\ R[N - 1 + n][1] = x
      BY <1>9, <1>20, <1>21, <3>4
    <3> QED BY <3>5
  <2> QED BY <2>2, <2>3
<1>27. Stacked'
  <2>1. ASSUME NEW n \in 1 .. Len(R) PROVE {c \in Waiting' : R[n][1] \in InputSet(c)} = {}
    BY <1>12, <1>24 DEF Consuming
  <2>2. \A x \in Waiting' : {c \in Waiting' : x \in InputSet(c)} = {} => \E n \in 1 .. Len(R) : R[n][1] = x
    <3> SUFFICES ASSUME NEW x \in Waiting', {c \in Waiting' : x \in InputSet(c)} = {}
                 PROVE  \E n \in 1 .. Len(R) : R[n][1] = x
      OBVIOUS
    <3>1. Consuming(x)' = {}
      BY <1>7 DEF Consuming
    <3> QED BY <1>26, <3>1
  <2>3. \A c : InputSet(c)' = InputSet(c)
    BY <1>7
  <2>4. \A n \in 1 .. Len(R) : R[n][1] \in Waiting'
    BY <1>24
  <2>5. \A n \in 1 .. Len(R) : \A m \in 1 .. Len(R) : m # n => R[m][1] # R[n][1]
    BY <1>25
  <2> QED BY <1>21, <2>1, <2>2, <2>3, <2>4, <2>5 DEF Stacked, Consuming, R
<1> QED BY <1>1, <1>5, <1>6, <1>15, <1>17, <1>27 DEF Scheduled
-----------------------------------------------------------------------------
(* When nothing is ready, every operation that was found has run: the      *)
(* youngest of the others would be ready.                                  *)
LEMMA NothingLeft ==
    ASSUME Scheduled, traversal.on, traversal.ready = <<>>
    PROVE  traversal.ran = traversal.operations
<1>1. Recorded /\ Found /\ Stacked
  BY DEF Scheduled
<1>2. Waiting \subseteq Tensor
  BY <1>1 DEF Waiting, Found
<1>3. ASSUME Waiting # {} PROVE FALSE
  <2>1. PICK m \in Waiting : \A k \in Waiting : k <= m
    BY <1>2, <1>3, Youngest
  <2>2. Consuming(m) = {}
    <3> SUFFICES ASSUME NEW c \in Waiting, m \in InputSet(c) PROVE FALSE
      BY DEF Consuming
    <3>1. m < c /\ c <= m /\ c \in Nat /\ m \in Nat
      BY <1>1, <1>2, <2>1, OlderInputs DEF Tensor
    <3> QED BY <3>1
  <2>3. \E n \in 1 .. Len(traversal.ready) : traversal.ready[n][1] = m
    BY <1>1, <2>2 DEF Stacked
  <2>4. Len(traversal.ready) = 0
    OBVIOUS
  <2> QED BY <2>3, <2>4
<1> QED BY <1>1, <1>3 DEF Waiting, Found

LEMMA UnchangedScheduled ==
    ASSUME Scheduled, graph' = graph, freed' = freed, traversal' = traversal
    PROVE  Scheduled'
<1>1. \A i : InputSet(i)' = InputSet(i) /\ Operation(i)' = Operation(i)
  BY DEF InputSet, Operation, Inputs
<1>2. Waiting' = Waiting
  BY DEF Waiting
<1>3. \A i : Consuming(i)' = Consuming(i)
  BY <1>1, <1>2 DEF Consuming
<1>4. Found => Found'
  BY <1>1, <1>3 DEF Found
<1>5. Counted => Counted'
  BY <1>3 DEF Counted
<1>6. Stacked => Stacked'
  BY <1>1, <1>2 DEF Stacked, Consuming
<1> QED BY <1>4, <1>5, <1>6 DEF Scheduled, Recorded

LEMMA ScheduledInvariant == AutogradSpec => []Scheduled
<1>1. ASSUME Scheduled, [AutogradNext]_autogradVars PROVE Scheduled'
  <2>1. CASE UNCHANGED autogradVars
    <3>1. graph' = graph /\ freed' = freed /\ traversal' = traversal
      BY <2>1 DEF autogradVars
    <3> QED BY <1>1, <3>1, UnchangedScheduled
  <2>2. ASSUME NEW t \in Tensor, Modify(t) PROVE Scheduled'
    BY <1>1, <2>2, UnchangedScheduled DEF Modify
  <2>3. ASSUME NEW t \in Tensor, NEW retain \in BOOLEAN, Backward(t, retain) PROVE Scheduled'
    BY <1>1, <2>3, BeginScheduled DEF Backward
  <2>4. ASSUME NEW t \in Tensor, NEW retain \in BOOLEAN, NEW r \in Requests, FunctionalGrad(t, r, retain)
        PROVE  Scheduled'
    BY <1>1, <2>4, BeginScheduled DEF FunctionalGrad
  <2>5. CASE Propagate
    BY <1>1, <2>5, PropagateScheduled
  <2>6. CASE Abort
    <3>1. /\ graph' = graph /\ traversal'.on = FALSE
          /\ traversal' = [f \in Fields |-> traversal'[f]] /\ traversal'.ended # "done"
      BY <1>1, <2>6 DEF Abort, Scheduled, Fields
    <3> QED BY <1>1, <3>1 DEF Scheduled, Recorded
  <2>7. CASE Complete
    <3>1. /\ graph' = graph /\ traversal'.on = FALSE
          /\ traversal' = [f \in Fields |-> traversal'[f]]
          /\ traversal'.ran = traversal.ran /\ traversal'.operations = traversal.operations
      BY <1>1, <2>7 DEF Complete, Scheduled, Fields
    <3>2. traversal.ran = traversal.operations
      BY <1>1, <2>7, NothingLeft DEF Complete
    <3> QED BY <1>1, <3>1, <3>2 DEF Scheduled, Recorded
  <2> QED BY <1>1, <2>1, <2>2, <2>3, <2>4, <2>5, <2>6, <2>7 DEF AutogradNext
<1> QED BY <1>1, InitScheduled, PTL DEF AutogradSpec
-----------------------------------------------------------------------------
(* Each operation of a traversal runs once and after every operation that  *)
(* consumes its result, so that its incoming gradient is complete; and a   *)
(* traversal that ends has run them all (run_backward, _tensor.cpp).       *)
THEOREM ConsumersRunFirst == AutogradSpec => []RunsAfterConsumers
<1>1. ASSUME Scheduled PROVE RunsAfterConsumers
  <2>1. ASSUME NEW n \in 1 .. Len(traversal.ready), traversal.on
        PROVE  LET t == traversal.ready[n][1]
               IN /\ t \notin traversal.ran
                  /\ \A m \in 1 .. Len(traversal.ready) : m # n => traversal.ready[m][1] # t
                  /\ \A c \in traversal.operations : t \in InputSet(c) => c \in traversal.ran
    BY <1>1, <2>1 DEF Scheduled, Stacked, Waiting, Consuming
  <2> QED BY <1>1, <2>1 DEF RunsAfterConsumers, Slots, Scheduled
<1> QED BY <1>1, ScheduledInvariant, PTL

(* The types: what is released or modified is a tensor of the graph, and a *)
(* traversal counts the consumers of each.                                 *)
THEOREM AutogradTyped == AutogradSpec => []AutogradTypeOK
<1> DEFINE Bounded == modified \in SUBSET Tensor /\ freed \in SUBSET Tensor /\ calls \in 0 .. MaxTraversals
<1>1. AutogradInit => Bounded
  BY AutogradAssumption DEF AutogradInit
<1>2. Scheduled /\ Bounded /\ [AutogradNext]_autogradVars => Bounded'
  <2> SUFFICES ASSUME Scheduled, Bounded, [AutogradNext]_autogradVars PROVE Bounded'
    OBVIOUS
  <2>1. \/ UNCHANGED calls
        \/ calls < MaxTraversals /\ calls' = calls + 1
    BY DEF AutogradNext, autogradVars, Modify, Backward, FunctionalGrad, Begin, Propagate, Abort, Complete
  <2>2. modified' = modified \/ \E t \in Tensor : modified' = {t}
    BY DEF AutogradNext, autogradVars, Modify, Backward, FunctionalGrad, Begin, Propagate, Abort, Complete
  <2>3. \/ freed' = freed
        \/ traversal.on /\ freed' = freed \union traversal.operations
    BY DEF AutogradNext, autogradVars, Modify, Backward, FunctionalGrad, Begin, Propagate, Abort, Complete
  <2>4. freed' \in SUBSET Tensor
    BY <2>3 DEF Scheduled, Found
  <2>5. calls' \in 0 .. MaxTraversals
    BY <2>1, AutogradAssumption
  <2> QED BY <2>2, <2>4, <2>5
<1>3. Scheduled /\ Bounded => AutogradTypeOK
  <2> SUFFICES ASSUME Scheduled, Bounded, traversal.on
               PROVE  traversal.operations \in SUBSET Tensor /\ traversal.remaining \in [Tensor -> Nat]
    BY DEF AutogradTypeOK, Scheduled, Recorded
  <2>1. Found /\ Counted
    BY DEF Scheduled
  <2>2. ASSUME NEW i \in Tensor PROVE Cardinality(Consuming(i)) \in Nat
    <3>1. Consuming(i) \in SUBSET Tensor
      BY <2>1 DEF Found, Consuming, Waiting
    <3> QED BY <3>1, FiniteTensors
  <2> QED BY <2>1, <2>2 DEF Found, Counted
<1> HIDE DEF Bounded
<1> QED BY <1>1, <1>2, <1>3, ScheduledInvariant, PTL DEF AutogradSpec
-----------------------------------------------------------------------------
Starts(p) == {o.start : o \in RecordedBy(p)}
Around(t, n) == {stack[t][i].start : i \in 1 .. n}
Live(p) == session[p].active \/ profiler[p].stopping
Follows(p) == session[p].active /\ ~session[p].abandoned

(* An event's parent is named by its place in the list; here by its start. *)
StartOf(p, n) == IF n = 0 THEN 0 ELSE session[p].events[n].start

SessionType == [active : BOOLEAN, abandoned : BOOLEAN, owner : OpThread \union {Unset},
                events : Seq([start : Nat, parent : Nat]), frames : Seq(Nat)]
ProfilerType == [entered : BOOLEAN, active : BOOLEAN, stopping : BOOLEAN, completed : BOOLEAN,
                 native : Seq([start : Nat, parent : Nat]),
                 external : SUBSET [start : Nat, parent : Nat], pending : Nat, dirty : BOOLEAN,
                 events : SUBSET [place : Nat, event : [start : Nat, parent : Nat]]]
MoveType == [at : {"idle", "begun", "submitted", "recorded", "done"},
             by : Profiler \union {Unset}, start : Nat, submitted : Nat]

ProfilerShape ==
    /\ now \in Nat \ {0}
    /\ session \in [Profiler -> SessionType]
    /\ profiler \in [Profiler -> ProfilerType]
    /\ activeProfiler \in [OpThread -> Profiler \union {Unset}]
    /\ current \in [OpThread -> Profiler \union {Unset}]
    /\ stack \in [OpThread -> Seq([start : Nat, by : Profiler \union {Unset}])]
    /\ moves \in [MoveRequest -> MoveType]
    /\ ran \subseteq [start : Nat \ {0}, kind : OpKind, inside : SUBSET Profiler, around : SUBSET Nat]

(* A context is entered once, by one thread, which has it as its session   *)
(* until it stops or is given up.                                          *)
ContextOnce(p) ==
    /\ ~profiler[p].entered => /\ ~profiler[p].active /\ ~session[p].active /\ ~profiler[p].stopping
                               /\ session[p].events = <<>> /\ session[p].frames = <<>> /\ ~session[p].abandoned
                               /\ session[p].owner = Unset
    /\ profiler[p].active => profiler[p].entered /\ session[p].owner # Unset
    /\ session[p].active => /\ profiler[p].active
                            /\ activeProfiler[session[p].owner] = p
    /\ profiler[p].active /\ ~session[p].abandoned => session[p].active
    /\ profiler[p].stopping => profiler[p].entered /\ ~session[p].active /\ ~profiler[p].active
    /\ profiler[p].completed => profiler[p].stopping
SessionsOwned == \A t \in OpThread : activeProfiler[t] # Unset =>
                    session[activeProfiler[t]].active /\ session[activeProfiler[t]].owner = t

(* A time names one thing that was recorded, and now is none of them.      *)
RanUnique == /\ \A o \in ran : o.start < now /\ \A s \in o.around : s < o.start
             /\ \A a, b \in ran : a.start = b.start => a = b
             /\ \A t \in OpThread : \A n \in 1 .. Len(stack[t]) : stack[t][n].start < now
MovePhases ==
    \A m \in MoveRequest :
          /\ moves[m].start < now /\ moves[m].submitted < now
          /\ moves[m].at = "idle" <=> moves[m].start = 0
          /\ moves[m].at = "idle" <=> moves[m].by = Unset
          /\ moves[m].at \in {"idle", "begun"} => moves[m].submitted = 0
          /\ moves[m].at \in {"submitted", "recorded"} => moves[m].submitted > 0
          /\ moves[m].submitted > 0 => moves[m].start < moves[m].submitted
MovesUnique ==
    \A k, m \in MoveRequest : k # m =>
          /\ moves[k].start > 0 => moves[k].start # moves[m].start /\ moves[k].start # moves[m].submitted
          /\ moves[k].submitted > 0 => moves[k].submitted # moves[m].submitted
MovesApart == \A o \in ran, m \in MoveRequest : o.start # moves[m].start /\ o.start # moves[m].submitted
TimesUnique == RanUnique /\ MovePhases /\ MovesUnique /\ MovesApart

(* The events of a session are the operations it selects, in their order,  *)
(* and each has the nearest of them around it as its parent.               *)
EventsFollow(p) ==
    /\ Live(p) \/ ~profiler[p].entered => {session[p].events[n].start : n \in 1 .. Len(session[p].events)} = Starts(p)
    /\ Live(p) => \A n \in 1 .. Len(session[p].events) :
          /\ session[p].events[n].parent \in 0 .. n - 1
          /\ \A i \in 1 .. n - 1 : session[p].events[i].start < session[p].events[n].start
          /\ \A o \in RecordedBy(p) : o.start = session[p].events[n].start =>
                StartOf(p, session[p].events[n].parent) = Nearest(p, o.around)

(* The frames of a session that follows are the last operations its thread *)
(* runs, and each holds the nearest selected one that is still running.    *)
StackOwned(p) == \A t \in OpThread : \A n \in 1 .. Len(stack[t]) :
                    /\ stack[t][n].by = p => session[p].owner = t
                    /\ stack[t][n].start \in Starts(p) => stack[t][n].by = p
Base(p) == Len(stack[session[p].owner]) - Len(session[p].frames)
FramesNearest(p) ==
    LET t == session[p].owner
    IN /\ Base(p) >= 0
       /\ \A n \in 1 .. Len(stack[t]) : stack[t][n].by = p <=> n > Base(p)
       /\ \A n \in 1 .. Len(session[p].frames) :
             /\ session[p].frames[n] \in 0 .. Len(session[p].events)
             /\ StartOf(p, session[p].frames[n]) = Nearest(p, Around(t, Base(p) + n))
FramesFollow(p) == StackOwned(p) /\ (Follows(p) => FramesNearest(p))

MovesPending(p) == {m \in MoveRequest : moves[m].by = p /\ moves[m].at \in {"begun", "submitted", "recorded"}}
SubmittedBy(p) == {m \in MoveRequest : moves[m].by = p /\ moves[m].submitted > 0}
CompletedBy(p) == {m \in SubmittedBy(p) : moves[m].at # "submitted"}
PhasesHeld(p) ==
    /\ IsFiniteSet(MovesPending(p)) /\ profiler[p].pending = Cardinality(MovesPending(p))
    /\ profiler[p].external =
          {[start |-> moves[m].start, parent |-> 0] : m \in SubmittedBy(p)}
          \union {[start |-> moves[m].submitted, parent |-> moves[m].start] : m \in CompletedBy(p)}

Published(p) ==
    profiler[p].completed =>
        /\ profiler[p].native = session[p].events
        /\ ~profiler[p].dirty => profiler[p].events = Refreshed(profiler[p].native, profiler[p].external)
        /\ profiler[p].pending = 0 => ~profiler[p].dirty

ProfilerInv ==
    /\ ProfilerShape /\ SessionsOwned /\ TimesUnique
    /\ \A p \in Profiler : /\ ContextOnce(p) /\ EventsFollow(p) /\ FramesFollow(p)
                           /\ PhasesHeld(p) /\ Published(p)

(* A set of times with a bound has a last one.                             *)
LEMMA LargestIs ==
    ASSUME NEW S \in SUBSET Nat, S # {}, NEW z \in Nat, \A r \in S : r <= z
    PROVE \E x \in S : \A r \in S : r <= x
<1> DEFINE R == {p \in Nat \X Nat : p[1] < p[2]}
           T == {z - r : r \in S}
<1>1. IsWellFoundedOn(R, Nat)
  BY NatLessThanWellFounded DEF OpToRel
<1>2. T \subseteq Nat /\ T # {}
  <2>1. \A r \in S : r \in Nat /\ z - r \in Nat
    OBVIOUS
  <2>. QED
    BY <2>1
<1>3. \E y \in T : \A w \in T : ~ (<<w, y>> \in R)
  <2> HIDE DEF R, T
  <2> QED BY <1>1, <1>2, WFMin
<1>4. PICK y \in T : \A w \in T : ~ (<<w, y>> \in R)
  BY <1>3
<1>5. PICK x \in S : y = z - x
  OBVIOUS
<1>6. ASSUME NEW r \in S PROVE r <= x
  <2>1. z - r \in T /\ z - r \in Nat /\ y \in Nat /\ r \in Nat /\ x \in Nat
    BY <1>2
  <2>2. ~ (z - r < y)
    BY <1>4, <2>1
  <2>. QED
    BY <1>5, <2>1, <2>2
<1>. QED
  BY <1>6


(* Cutting a sequence of operations or frames at its end.                  *)
LEMMA WithoutLast ==
    ASSUME NEW S, NEW s \in Seq(S), s # <<>>
    PROVE /\ Without(s) \in Seq(S) /\ Len(Without(s)) = Len(s) - 1
          /\ \A n \in 1 .. Len(s) - 1 : Without(s)[n] = s[n]
<1>1. Len(s) \in Nat /\ Len(s) > 0 /\ \A n \in 1 .. Len(s) - 1 : s[n] \in S
  BY EmptySeq, LenProperties, ElementOfSeq
<1>2. Len(s) - 1 \in Int /\ 1 \in Int
  BY <1>1
<1>3. /\ SubSeq(s, 1, Len(s) - 1) \in Seq(S)
      /\ Len(SubSeq(s, 1, Len(s) - 1)) = IF 1 <= Len(s) - 1 THEN Len(s) - 1 - 1 + 1 ELSE 0
      /\ \A i \in 1 .. Len(s) - 1 - 1 + 1 : SubSeq(s, 1, Len(s) - 1)[i] = s[1 + i - 1]
  BY <1>1, <1>2, SubSeqProperties
<1> DEFINE u == SubSeq(s, 1, Len(s) - 1)
<1>4. Without(s) = u
  BY DEF Without
<1>5. u \in Seq(S)
  BY <1>3
<1>6. Len(u) = IF 1 <= Len(s) - 1 THEN Len(s) - 1 - 1 + 1 ELSE 0
  BY <1>3
<1>7. ASSUME NEW i \in 1 .. Len(s) - 1 PROVE u[i] = s[i]
  <2>1. i \in 1 .. Len(s) - 1 - 1 + 1 /\ 1 + i - 1 = i
    BY <1>1
  <2>. QED
    BY <1>3, <2>1
<1> HIDE DEF u
<1>8. Len(u) = Len(s) - 1
  <2> DEFINE N == Len(s)
  <2>1. N \in Nat /\ N > 0 /\ Len(u) = IF 1 <= N - 1 THEN N - 1 - 1 + 1 ELSE 0
    BY <1>1, <1>6
  <2> HIDE DEF N
  <2>2. Len(u) = N - 1
    BY <2>1
  <2>. QED
    BY <2>2 DEF N
<1>. QED
  BY <1>4, <1>5, <1>7, <1>8

LEMMA WithoutTyped ==
    ASSUME NEW S, NEW s \in Seq(S)
    PROVE Without(s) \in Seq(S)
<1>1. Len(s) \in Nat /\ \A n \in 1 .. Len(s) - 1 : s[n] \in S
  BY LenProperties, ElementOfSeq
<1>2. Len(s) - 1 \in Int /\ 1 \in Int
  BY <1>1
<1>3. SubSeq(s, 1, Len(s) - 1) \in Seq(S)
  BY <1>1, <1>2, SubSeqProperties
<1>. QED
  BY <1>3 DEF Without

(* The nearest selected operation, among some that have started.           *)
LEMMA LastIs ==
    ASSUME NEW S, S \subseteq Nat, NEW s \in S, \A r \in S : r <= s
    PROVE (CHOOSE x \in S : \A r \in S : r <= x) = s
<1>1. \A x \in S : (\A r \in S : r <= x) => x = s
  OBVIOUS
<1>. QED
  BY <1>1

LEMMA NearestIs ==
    ASSUME NEW p, NEW A, NEW s \in {0} \union {r \in A : r \in Starts(p)},
           A \subseteq Nat, \A r \in A : r \in Starts(p) => r <= s
    PROVE Nearest(p, A) = s
<1> DEFINE selected == {0} \union {r \in A : \E o \in RecordedBy(p) : o.start = r}
<1>1. selected = {0} \union {r \in A : r \in Starts(p)}
  BY DEF Starts
<1> HIDE DEF selected
<1>2. selected \subseteq Nat /\ s \in selected
  <2>1. {r \in A : r \in Starts(p)} \subseteq Nat
    OBVIOUS
  <2>. QED
    BY <1>1, <2>1
<1>3. \A r \in selected : r <= s
  BY <1>1, <1>2
<1>4. \A r \in selected : (\A u \in selected : u <= r) => r = s
  BY <1>2, <1>3
<1>. QED
  BY <1>2, <1>3, <1>4 DEF Nearest, selected

LEMMA NearestSame ==
    ASSUME NEW p, NEW A, NEW B, \A r \in Starts(p) : r \in A <=> r \in B
    PROVE Nearest(p, A) = Nearest(p, B)
<1>1. {s \in A : \E o \in RecordedBy(p) : o.start = s} = {s \in B : \E o \in RecordedBy(p) : o.start = s}
  BY DEF Starts
<1>. QED
  BY <1>1 DEF Nearest

(* An operation that has just started is around no other.                  *)
LEMMA NearestKept ==
    ASSUME NEW p, NEW A, \A r \in A : r \in Starts(p)' <=> r \in Starts(p)
    PROVE Nearest(p, A)' = Nearest(p, A)
<1>1. {s \in A : \E o \in RecordedBy(p) : o.start = s}' = {s \in A : \E o \in RecordedBy(p) : o.start = s}
  BY DEF Starts
<1>. QED
  BY <1>1 DEF Nearest

LEMMA ProfilerStarts == ProfilerInit => ProfilerInv
<1> SUFFICES ASSUME ProfilerInit PROVE ProfilerInv
  OBVIOUS
<1> USE ProfilerAssumption DEF ProfilerInit
<1>1. ProfilerShape
  <2>1. <<>> \in Seq([start : Nat, parent : Nat]) /\ <<>> \in Seq(Nat)
    OBVIOUS
  <2>2. session \in [Profiler -> SessionType] /\ profiler \in [Profiler -> ProfilerType]
    BY <2>1 DEF SessionType, ProfilerType
  <2>3. <<>> \in Seq([start : Nat, by : Profiler \union {Unset}])
    OBVIOUS
  <2>4. stack \in [OpThread -> Seq([start : Nat, by : Profiler \union {Unset}])]
    BY <2>3
  <2>5. moves \in [MoveRequest -> MoveType]
    BY DEF MoveType
  <2>6. /\ activeProfiler \in [OpThread -> Profiler \union {Unset}]
        /\ current \in [OpThread -> Profiler \union {Unset}] /\ now \in Nat \ {0} /\ ran = {}
    OBVIOUS
  <2> HIDE DEF ProfilerInit
  <2>. QED
    BY <2>2, <2>4, <2>5, <2>6 DEF ProfilerShape
<1>2. SessionsOwned /\ TimesUnique
  BY DEF SessionsOwned, TimesUnique, RanUnique, MovePhases, MovesUnique, MovesApart
<1>3. ASSUME NEW p \in Profiler PROVE ContextOnce(p) /\ EventsFollow(p) /\ Published(p)
  BY <1>3 DEF ContextOnce, EventsFollow, Published, Starts, RecordedBy, Live
<1>4. ASSUME NEW p \in Profiler PROVE FramesFollow(p)
  BY <1>4 DEF FramesFollow, StackOwned, Follows
<1>5. ASSUME NEW p \in Profiler PROVE PhasesHeld(p)
  <2>1. MovesPending(p) = {}
    BY <1>5 DEF MovesPending
  <2>2. SubmittedBy(p) = {} /\ CompletedBy(p) = {}
    BY <1>5 DEF SubmittedBy, CompletedBy
  <2>. QED
    BY <1>5, <2>1, <2>2, FS_EmptySet DEF PhasesHeld
<1>. QED
  BY <1>1, <1>2, <1>3, <1>4, <1>5 DEF ProfilerInv

(* What an invariant needs of a step that does not concern it.             *)
LEMMA EventsSame ==
    ASSUME NEW p \in Profiler, EventsFollow(p), RecordedBy(p)' = RecordedBy(p), session[p].events = session'[p].events,
           Live(p)' => Live(p) \/ session[p].events = <<>>,
           Live(p)' \/ ~profiler'[p].entered => Live(p) \/ ~profiler[p].entered
    PROVE EventsFollow(p)'
<1>1. RecordedBy(p)' = RecordedBy(p) /\ Starts(p)' = Starts(p)
  BY DEF Starts
<1>2. \A A : Nearest(p, A)' = Nearest(p, A)
  BY <1>1 DEF Nearest
<1>3. \A n : StartOf(p, n)' = StartOf(p, n)
  BY DEF StartOf
<1>4. session[p].events = <<>> => Len(session[p].events) = 0
  OBVIOUS
<1>. QED
  BY <1>1, <1>2, <1>3, <1>4 DEF EventsFollow

LEMMA EventsKept ==
    ASSUME NEW p \in Profiler, EventsFollow(p), ran' = ran, session[p].events = session'[p].events,
           Live(p)' => Live(p) \/ session[p].events = <<>>,
           Live(p)' \/ ~profiler'[p].entered => Live(p) \/ ~profiler[p].entered
    PROVE EventsFollow(p)'
<1>1. RecordedBy(p)' = RecordedBy(p)
  BY DEF RecordedBy
<1>. QED
  BY <1>1, EventsSame

LEMMA FramesKept ==
    ASSUME NEW p \in Profiler, FramesFollow(p), ran' = ran, stack' = stack,
           session'[p].owner = session[p].owner,
           Follows(p)' => Follows(p) /\ session'[p].events = session[p].events /\ session'[p].frames = session[p].frames
    PROVE FramesFollow(p)'
<1>1. RecordedBy(p)' = RecordedBy(p) /\ Starts(p)' = Starts(p)
  BY DEF RecordedBy, Starts
<1>2. \A A : Nearest(p, A)' = Nearest(p, A)
  BY <1>1 DEF Nearest
<1>3. session'[p].events = session[p].events => \A n : StartOf(p, n)' = StartOf(p, n)
  BY DEF StartOf
<1>4. \A t, n : Around(t, n)' = Around(t, n)
  BY DEF Around
<1>5. StackOwned(p)'
  BY <1>1 DEF FramesFollow, StackOwned
<1>6. ASSUME Follows(p)' PROVE FramesNearest(p)'
  <2>1. FramesNearest(p) /\ Base(p)' = Base(p)
    BY <1>6 DEF FramesFollow, Base
  <2>. QED
    BY <1>6, <1>2, <1>3, <1>4, <2>1 DEF FramesNearest
<1>. QED
  BY <1>5, <1>6 DEF FramesFollow

LEMMA PhasesKept ==
    ASSUME NEW p \in Profiler, PhasesHeld(p), moves' = moves, profiler'[p].pending = profiler[p].pending,
           profiler'[p].external = profiler[p].external
    PROVE PhasesHeld(p)'
  BY DEF PhasesHeld, MovesPending, SubmittedBy, CompletedBy

-----------------------------------------------------------------------------
(* The place of a start is the number of those up to it: the starts take   *)
(* the places 1, 2, ... in their order.                                    *)
AllStarts(native, external) == {native[n].start : n \in 1 .. Len(native)} \union {e.start : e \in external}
PlaceIn(all, start) == Cardinality({s \in all : s <= start})
ParentPlace(all, native, n) == IF native[n].parent = 0 THEN 0 ELSE PlaceIn(all, native[native[n].parent].start)
NativeEvent(all, native, n) ==
    [place |-> PlaceIn(all, native[n].start),
     event |-> [start |-> native[n].start, parent |-> ParentPlace(all, native, n)]]
ExternalEvent(all, e) ==
    [place |-> PlaceIn(all, e.start),
     event |-> [start |-> e.start, parent |-> IF e.parent \in all THEN PlaceIn(all, e.parent) ELSE 0]]

LEMMA RefreshedIs ==
    ASSUME NEW native, NEW external
    PROVE Refreshed(native, external) =
              {NativeEvent(AllStarts(native, external), native, n) : n \in 1 .. Len(native)}
              \union {ExternalEvent(AllStarts(native, external), e) : e \in external}
  BY DEF Refreshed, AllStarts, PlaceIn, NativeEvent, ExternalEvent, ParentPlace

LEMMA PlaceTyped ==
    ASSUME NEW all \in SUBSET Nat, NEW start \in Nat
    PROVE IsFiniteSet({s \in all : s <= start}) /\ PlaceIn(all, start) \in Nat
<1> DEFINE upto == {s \in all : s <= start}
<1>1. upto \in SUBSET Nat /\ \A s \in upto : s <= start
  OBVIOUS
<1> HIDE DEF upto
<1>2. IsFiniteSet(upto)
  BY <1>1, FS_BoundedSetOfNaturals
<1>3. IsFiniteSet({s \in all : s <= start})
  BY <1>2 DEF upto
<1>. QED
  BY <1>3, FS_CardinalityType DEF PlaceIn

LEMMA PlacesInOrder ==
    ASSUME NEW all \in SUBSET Nat, IsFiniteSet(all)
    PROVE /\ \A s \in all : PlaceIn(all, s) \in 1 .. Cardinality(all)
          /\ \A r, s \in all : r < s => PlaceIn(all, r) < PlaceIn(all, s)
          /\ \A n \in 1 .. Cardinality(all) : \E s \in all : PlaceIn(all, s) = n
<1> DEFINE upto(s) == {r \in all : r <= s}
<1>0. Cardinality(all) \in Nat
  BY FS_CardinalityType
<1>1. ASSUME NEW s \in all PROVE PlaceIn(all, s) \in 1 .. Cardinality(all)
  <2>1. IsFiniteSet(upto(s)) /\ PlaceIn(all, s) \in Nat
    BY PlaceTyped
  <2>2. PlaceIn(all, s) <= Cardinality(all)
    BY FS_Subset DEF PlaceIn
  <2>3. s \in upto(s)
    OBVIOUS
  <2>4. Cardinality(upto(s)) # 0
    BY <2>1, <2>3, FS_EmptySet
  <2>. QED
    BY <1>0, <2>1, <2>2, <2>4 DEF PlaceIn
<1>2. ASSUME NEW r \in all, NEW s \in all, r < s PROVE PlaceIn(all, r) < PlaceIn(all, s)
  <2>1. /\ IsFiniteSet(upto(s)) /\ PlaceIn(all, r) \in Nat /\ PlaceIn(all, s) \in Nat
    BY PlaceTyped
  <2>2. r \in Nat /\ s \in Nat
    OBVIOUS
  <2>3. upto(r) \subseteq upto(s) /\ s \in upto(s) /\ s \notin upto(r)
    <3>1. ASSUME NEW x \in all, x <= r PROVE x <= s
      <4>1. x \in Nat
        OBVIOUS
      <4>. QED
        BY <1>2, <2>2, <3>1, <4>1
    <3>2. s <= s /\ ~(s <= r)
      BY <1>2, <2>2
    <3>. QED
      BY <3>1, <3>2
  <2>4. /\ Cardinality(upto(r)) <= Cardinality(upto(s))
        /\ Cardinality(upto(s)) = Cardinality(upto(r)) => upto(s) = upto(r)
    BY <2>1, <2>3, FS_Subset
  <2>. QED
    BY <2>1, <2>3, <2>4 DEF PlaceIn
<1> DEFINE N == Cardinality(all)
           f == [s \in all |-> PlaceIn(all, s)]
<1>3. IsFiniteSet(1 .. N) /\ Cardinality(1 .. N) = N
  <2>1. IsFiniteSet(1 .. N) /\ Cardinality(1 .. N) = IF 1 > N THEN 0 ELSE N - 1 + 1
    BY <1>0, FS_Interval
  <2> HIDE DEF N
  <2>2. N \in Nat
    BY <1>0 DEF N
  <2>. QED
    BY <2>1, <2>2
<1>4. f \in Injection(all, 1 .. N)
  <2>1. f \in [all -> 1 .. N]
    BY <1>1
  <2>2. ASSUME NEW r \in all, NEW s \in all, f[r] = f[s] PROVE r = s
    <3>1. r < s \/ s < r \/ r = s
      OBVIOUS
    <3>2. PlaceIn(all, r) = PlaceIn(all, s) /\ PlaceIn(all, r) \in Nat
      BY <2>2, PlaceTyped
    <3>. QED
      BY <1>2, <3>1, <3>2
  <2>. QED
    BY <2>1, <2>2 DEF Injection, IsInjective
<1>5. f \in Surjection(all, 1 .. N)
  BY <1>3, <1>4, FS_Injection
<1>6. ASSUME NEW n \in 1 .. N PROVE \E s \in all : PlaceIn(all, s) = n
  BY <1>5 DEF Surjection
<1>. QED
  BY <1>1, <1>2, <1>6

LEMMA RefreshedTyped ==
    ASSUME NEW native \in Seq([start : Nat, parent : Nat]), NEW external \in SUBSET [start : Nat, parent : Nat],
           \A n \in 1 .. Len(native) : native[n].parent \in 0 .. n - 1
    PROVE Refreshed(native, external) \in SUBSET [place : Nat, event : [start : Nat, parent : Nat]]
<1> DEFINE all == AllStarts(native, external)
<1>0. \A n \in 1 .. Len(native) : native[n] \in [start : Nat, parent : Nat]
  BY ElementOfSeq
<1>1. all \in SUBSET Nat
  BY <1>0 DEF AllStarts
<1> HIDE DEF all
<1>2. ASSUME NEW n \in 1 .. Len(native)
      PROVE NativeEvent(all, native, n) \in [place : Nat, event : [start : Nat, parent : Nat]]
  <2>1. native[n].start \in Nat
    BY <1>0
  <2>2. native[n].parent # 0 => native[n].parent \in 1 .. Len(native)
    <3>1. Len(native) \in Nat /\ native[n].parent \in 0 .. n - 1
      BY LenProperties
    <3>. QED
      BY <3>1
  <2>3. native[n].parent # 0 => native[native[n].parent].start \in Nat
    BY <1>0, <2>2
  <2>4. ParentPlace(all, native, n) \in Nat
    BY <1>1, <2>3, PlaceTyped DEF ParentPlace
  <2>. QED
    BY <1>1, <2>1, <2>4, PlaceTyped DEF NativeEvent
<1>3. ASSUME NEW e \in external
      PROVE ExternalEvent(all, e) \in [place : Nat, event : [start : Nat, parent : Nat]]
  <2>1. e.start \in Nat /\ e.parent \in Nat
    OBVIOUS
  <2>. QED
    BY <1>1, <2>1, PlaceTyped DEF ExternalEvent
<1>. QED
  BY <1>2, <1>3, RefreshedIs DEF all

-----------------------------------------------------------------------------
(* What giving up an abandoned session changes.                            *)
LEMMA Recovery ==
    ASSUME ProfilerInv, NEW t \in OpThread
    PROVE /\ RecoveredSessions(t) \in [Profiler -> SessionType]
          /\ RecoveredActive(t) \in [OpThread -> Profiler \union {Unset}]
          /\ \A u \in OpThread \ {t} : RecoveredActive(t)[u] = activeProfiler[u]
          /\ RecoveredActive(t)[t] # Unset =>
                RecoveredActive(t)[t] = activeProfiler[t] /\ RecoveredSessions(t) = session
          /\ \A q \in Profiler :
                /\ RecoveredSessions(t)[q].owner = session[q].owner
                /\ RecoveredSessions(t)[q].abandoned = session[q].abandoned
                /\ RecoveredSessions(t)[q].frames = session[q].frames
                /\ \/ RecoveredSessions(t)[q] = session[q]
                   \/ /\ activeProfiler[t] = q /\ session[q].active /\ session[q].abandoned
                      /\ ~RecoveredSessions(t)[q].active
                /\ RecoveredActive(t)[t] = Unset /\ activeProfiler[t] = q => ~RecoveredSessions(t)[q].active
<1> USE ProfilerAssumption DEF RecoveredSessions, RecoveredActive
<1>1. /\ session \in [Profiler -> SessionType] /\ activeProfiler \in [OpThread -> Profiler \union {Unset}]
      /\ activeProfiler[t] # Unset => session[activeProfiler[t]].active
  BY DEF ProfilerInv, ProfilerShape, SessionsOwned
<1>2. CASE ~Recovers(t)
  <2>1. RecoveredSessions(t) = session /\ RecoveredActive(t) = activeProfiler
    BY <1>2
  <2>. QED
    BY <1>1, <2>1
<1>3. CASE Recovers(t)
  <2>1. /\ activeProfiler[t] \in Profiler /\ session[activeProfiler[t]].abandoned
        /\ session[activeProfiler[t]].active
    BY <1>1, <1>3 DEF Recovers
  <2> DEFINE p == activeProfiler[t]
  <2>2. p \in Profiler /\ session[p].active /\ session[p].abandoned
    BY <2>1
  <2>3. RecoveredSessions(t) = [session EXCEPT ![p].active = FALSE, ![p].events = <<>>]
    BY <1>3
  <2> HIDE DEF p
  <2>4. /\ RecoveredSessions(t) \in [Profiler -> SessionType]
        /\ RecoveredSessions(t)[p].owner = session[p].owner
        /\ RecoveredSessions(t)[p].abandoned = session[p].abandoned
        /\ RecoveredSessions(t)[p].frames = session[p].frames
        /\ ~RecoveredSessions(t)[p].active
        /\ \A q \in Profiler \ {p} : RecoveredSessions(t)[q] = session[q]
    <3> HIDE DEF RecoveredSessions
    <3> DEFINE r == [session[p] EXCEPT !.active = FALSE, !.events = <<>>]
    <3>1. session[p] \in SessionType
      BY <1>1, <2>2
    <3>2. /\ r \in SessionType /\ r.owner = session[p].owner /\ r.abandoned = session[p].abandoned
          /\ r.frames = session[p].frames /\ r.active = FALSE
      <4>1. <<>> \in Seq([start : Nat, parent : Nat])
        OBVIOUS
      <4>. QED
        BY <3>1, <4>1 DEF SessionType
    <3>3. RecoveredSessions(t) = [session EXCEPT ![p] = r]
      BY <1>1, <2>2, <2>3
    <3> HIDE DEF r
    <3>. QED
      BY <1>1, <2>2, <3>2, <3>3
  <2>5. /\ RecoveredActive(t) \in [OpThread -> Profiler \union {Unset}] /\ RecoveredActive(t)[t] = Unset
        /\ \A u \in OpThread \ {t} : RecoveredActive(t)[u] = activeProfiler[u]
    BY <1>1, <1>3
  <2> HIDE DEF RecoveredSessions, RecoveredActive
  <2>. QED
    BY <2>2, <2>4, <2>5 DEF p
<1>. QED
  BY <1>2, <1>3

LEMMA TimesKept ==
    ASSUME TimesUnique, UNCHANGED <<stack, moves, now, ran>>
    PROVE TimesUnique'
  BY DEF TimesUnique, RanUnique, MovePhases, MovesUnique, MovesApart

(* The steps of a context.                                                 *)
LEMMA Entered ==
    ASSUME ProfilerInv, NEW t \in OpThread, NEW p \in Profiler, EnterContext(t, p)
    PROVE ProfilerInv'
<1> USE ProfilerAssumption
<1> DEFINE S == RecoveredSessions(t)
           A == RecoveredActive(t)
<1>1. /\ S \in [Profiler -> SessionType] /\ A \in [OpThread -> Profiler \union {Unset}]
      /\ \A u \in OpThread \ {t} : A[u] = activeProfiler[u]
      /\ A[t] # Unset => A[t] = activeProfiler[t] /\ S = session
      /\ \A q \in Profiler :
            /\ S[q].owner = session[q].owner /\ S[q].abandoned = session[q].abandoned
            /\ S[q].frames = session[q].frames
            /\ \/ S[q] = session[q]
               \/ activeProfiler[t] = q /\ session[q].active /\ session[q].abandoned /\ ~S[q].active
            /\ A[t] = Unset /\ activeProfiler[t] = q => ~S[q].active
  BY Recovery
<1>2. /\ ~profiler[p].entered /\ UNCHANGED <<stack, moves, now, ran>>
      /\ \/ /\ A[t] # Unset /\ profiler' = [profiler EXCEPT ![p].entered = TRUE]
            /\ session' = S /\ activeProfiler' = A /\ current' = current
         \/ /\ A[t] = Unset /\ profiler' = [profiler EXCEPT ![p].entered = TRUE, ![p].active = TRUE]
            /\ session' = [S EXCEPT ![p].active = TRUE, ![p].owner = t]
            /\ activeProfiler' = [activeProfiler EXCEPT ![t] = p] /\ current' = [current EXCEPT ![t] = p]
  <2>1. CASE RecoveredActive(t)[t] # Unset
    BY <2>1 DEF EnterContext
  <2>2. CASE RecoveredActive(t)[t] = Unset
    <3>1. /\ ~profiler[p].entered /\ UNCHANGED <<stack, moves, now, ran>>
          /\ profiler' = [profiler EXCEPT ![p].entered = TRUE, ![p].active = TRUE]
          /\ session' = [RecoveredSessions(t) EXCEPT ![p].active = TRUE, ![p].owner = t]
          /\ activeProfiler' = [activeProfiler EXCEPT ![t] = p]
          /\ current' = [current EXCEPT ![t] = p]
      BY <2>2, Zenon DEF EnterContext
    <3>. QED
      BY <2>2, <3>1, Zenon DEF S, A
  <2>. QED
    BY <2>1, <2>2
<1> HIDE DEF S, A
<1>3. ProfilerShape /\ SessionsOwned /\ TimesUnique
      /\ \A q \in Profiler : ContextOnce(q) /\ EventsFollow(q) /\ FramesFollow(q) /\ PhasesHeld(q) /\ Published(q)
  BY DEF ProfilerInv
<1>4. /\ session \in [Profiler -> SessionType] /\ activeProfiler \in [OpThread -> Profiler \union {Unset}]
      /\ ~profiler[p].active /\ ~session[p].active /\ ~profiler[p].stopping
      /\ session[p].events = <<>> /\ session[p].frames = <<>> /\ ~session[p].abandoned /\ session[p].owner = Unset
  BY <1>2, <1>3 DEF ProfilerShape, ContextOnce
<1>5. ProfilerShape'
  <2>1. /\ profiler \in [Profiler -> ProfilerType] /\ current \in [OpThread -> Profiler \union {Unset}]
    BY <1>3 DEF ProfilerShape
  <2>2. current' \in [OpThread -> Profiler \union {Unset}] /\ activeProfiler' \in [OpThread -> Profiler \union {Unset}]
    BY <1>1, <1>2, <1>4, <2>1
  <2>3. profiler' \in [Profiler -> ProfilerType]
    <3>1. /\ [profiler[p] EXCEPT !.entered = TRUE] \in ProfilerType
          /\ [profiler[p] EXCEPT !.entered = TRUE, !.active = TRUE] \in ProfilerType
      <4>1. profiler[p] \in ProfilerType
        BY <2>1
      <4>. QED
        BY <4>1 DEF ProfilerType
    <3>2. \/ profiler' = [profiler EXCEPT ![p] = [profiler[p] EXCEPT !.entered = TRUE]]
          \/ profiler' = [profiler EXCEPT ![p] = [profiler[p] EXCEPT !.entered = TRUE, !.active = TRUE]]
      BY <1>2, <2>1
    <3>. QED
      BY <2>1, <3>1, <3>2
  <2>4. session' \in [Profiler -> SessionType]
    <3>1. [S[p] EXCEPT !.active = TRUE, !.owner = t] \in SessionType
      <4>1. S[p] \in SessionType
        BY <1>1
      <4>. QED
        BY <4>1 DEF SessionType
    <3>2. session' = S \/ session' = [S EXCEPT ![p] = [S[p] EXCEPT !.active = TRUE, !.owner = t]]
      BY <1>1, <1>2
    <3>. QED
      BY <1>1, <3>1, <3>2
  <2>. QED
    BY <1>2, <1>3, <2>2, <2>3, <2>4 DEF ProfilerShape
<1>6. /\ \A q \in Profiler \ {p} : session'[q] = S[q] /\ profiler'[q] = profiler[q]
      /\ S[p] = session[p]
      /\ \/ session'[p] = session[p] /\ profiler'[p] = [profiler[p] EXCEPT !.entered = TRUE]
         \/ /\ session'[p] = [session[p] EXCEPT !.active = TRUE, !.owner = t]
            /\ profiler'[p] = [profiler[p] EXCEPT !.entered = TRUE, !.active = TRUE]
            /\ activeProfiler'[t] = p /\ A[t] = Unset
  <2>1. S[p] = session[p]
    BY <1>1, <1>4
  <2>2. profiler \in [Profiler -> ProfilerType]
    BY <1>3 DEF ProfilerShape
  <2>3. CASE A[t] # Unset
    BY <1>1, <1>2, <2>1, <2>2, <2>3
  <2>4. CASE A[t] = Unset
    <3>1. /\ session' = [S EXCEPT ![p] = [S[p] EXCEPT !.active = TRUE, !.owner = t]]
          /\ profiler' = [profiler EXCEPT ![p] = [profiler[p] EXCEPT !.entered = TRUE, !.active = TRUE]]
          /\ activeProfiler' = [activeProfiler EXCEPT ![t] = p]
      BY <1>1, <1>2, <2>2, <2>4
    <3>. QED
      BY <1>1, <1>4, <2>1, <2>2, <2>4, <3>1
  <2>. QED
    BY <2>3, <2>4
<1>7. SessionsOwned'
  <2> SUFFICES ASSUME NEW u \in OpThread, activeProfiler'[u] # Unset
               PROVE session'[activeProfiler'[u]].active /\ session'[activeProfiler'[u]].owner = u
    BY DEF SessionsOwned
  <2>1. \A v \in OpThread : activeProfiler[v] # Unset =>
           /\ activeProfiler[v] \in Profiler
           /\ session[activeProfiler[v]].active /\ session[activeProfiler[v]].owner = v
    BY <1>3, <1>4 DEF SessionsOwned
  <2>2. CASE A[t] # Unset
    BY <1>1, <1>2, <2>1, <2>2
  <2>3. CASE A[t] = Unset
    <3>1. CASE u = t
      BY <1>1, <1>2, <1>4, <1>6, <2>3, <3>1 DEF SessionType
    <3>2. CASE u # t
      <4>1. activeProfiler'[u] = activeProfiler[u] /\ activeProfiler[u] # Unset
        BY <1>1, <1>2, <1>4, <3>2
      <4>2. activeProfiler[u] \in Profiler \ {p} /\ activeProfiler[u] # activeProfiler[t]
        BY <1>4, <2>1, <3>2, <4>1
      <4>3. session'[activeProfiler[u]] = session[activeProfiler[u]]
        BY <1>1, <1>6, <4>2
      <4>. QED
        BY <2>1, <4>1, <4>3
    <3>. QED
      BY <3>1, <3>2
  <2>. QED
    BY <2>2, <2>3
<1>8. TimesUnique'
  BY <1>2, <1>3, TimesKept
<1>9. ASSUME NEW q \in Profiler
      PROVE (ContextOnce(q) /\ EventsFollow(q) /\ FramesFollow(q) /\ PhasesHeld(q) /\ Published(q))'
  <2> USE <1>9
  <2>1. ContextOnce(q) /\ EventsFollow(q) /\ FramesFollow(q) /\ PhasesHeld(q) /\ Published(q)
    BY <1>3
  <2>a. profiler[q] \in ProfilerType
    BY <1>3 DEF ProfilerShape
  <2>b. session[q] \in SessionType
    BY <1>4
  <2>2. PhasesHeld(q)'
    BY <1>2, <1>6, <2>1, <2>a, PhasesKept DEF ProfilerType
  <2>3. CASE q # p
    <3>1. /\ profiler'[q] = profiler[q]
          /\ \/ session'[q] = session[q]
             \/ /\ activeProfiler[t] = q /\ session[q].active /\ session[q].abandoned /\ ~session'[q].active
                /\ session'[q].owner = session[q].owner /\ session'[q].abandoned = session[q].abandoned
      BY <1>1, <1>6, <2>3
    <3>2. session'[q].active => /\ session'[q] = session[q]
                                /\ activeProfiler'[session[q].owner] = q
      <4> SUFFICES ASSUME session'[q].active
                   PROVE session'[q] = session[q] /\ activeProfiler'[session[q].owner] = q
        OBVIOUS
      <4>1. session'[q] = session[q] /\ session[q].active /\ session[q].owner \in OpThread
            /\ activeProfiler[session[q].owner] = q
        BY <2>1, <2>b, <3>1 DEF ContextOnce, SessionType
      <4>2. CASE session[q].owner # t
        BY <1>1, <1>2, <1>4, <4>1, <4>2
      <4>3. CASE session[q].owner = t
        <5>1. A[t] # Unset
          BY <1>1, <1>6, <2>3, <4>1, <4>3
        <5>. QED
          BY <1>1, <1>2, <4>1, <4>3, <5>1
      <4>. QED
        BY <4>1, <4>2, <4>3
    <3>3. ContextOnce(q)'
      BY <2>1, <3>1, <3>2 DEF ContextOnce
    <3>4. /\ Live(q)' => Live(q) /\ session'[q] = session[q]
          /\ ~profiler'[q].entered => ~profiler[q].entered /\ session'[q] = session[q]
          /\ profiler'[q].completed => session'[q] = session[q]
          /\ Follows(q)' => Follows(q) /\ session'[q] = session[q]
      BY <2>1, <3>1, <3>2 DEF ContextOnce, Live, Follows
    <3>5. EventsFollow(q)'
      <4>1. CASE session'[q] = session[q]
        BY <1>2, <2>1, <3>1, <3>4, <4>1, EventsKept
      <4>2. CASE session'[q] # session[q]
        BY <3>4, <4>2 DEF EventsFollow
      <4>. QED
        BY <4>1, <4>2
    <3>6. FramesFollow(q)'
      BY <1>2, <2>1, <3>1, <3>4, FramesKept
    <3>7. Published(q)'
      BY <2>1, <3>1, <3>4 DEF Published
    <3>. QED
      BY <2>2, <3>3, <3>5, <3>6, <3>7
  <2>4. CASE q = p
    <3>1. CASE session'[p] = session[p] /\ profiler'[p] = [profiler[p] EXCEPT !.entered = TRUE]
      <4>1. ContextOnce(p)'
        BY <1>4, <2>1, <2>a, <2>4, <3>1 DEF ContextOnce, ProfilerType
      <4>2. EventsFollow(p)'
        BY <1>2, <1>4, <2>1, <2>a, <2>4, <3>1, EventsKept DEF Live, ProfilerType
      <4>3. FramesFollow(p)'
        BY <1>2, <2>1, <2>4, <3>1, FramesKept DEF Follows
      <4>4. Published(p)'
        BY <2>1, <2>a, <2>4, <3>1 DEF Published, ProfilerType
      <4>. QED
        BY <2>2, <2>4, <4>1, <4>2, <4>3, <4>4
    <3>2. CASE /\ session'[p] = [session[p] EXCEPT !.active = TRUE, !.owner = t]
               /\ profiler'[p] = [profiler[p] EXCEPT !.entered = TRUE, !.active = TRUE]
               /\ activeProfiler'[t] = p /\ A[t] = Unset
      <4>0. /\ session'[p].active /\ session'[p].owner = t /\ ~session'[p].abandoned
            /\ session'[p].events = <<>> /\ session'[p].frames = <<>>
            /\ profiler'[p].entered /\ profiler'[p].active /\ ~profiler'[p].stopping /\ ~profiler'[p].completed
            /\ ~profiler[p].completed
        BY <1>4, <2>1, <2>a, <2>b, <2>4, <3>2 DEF SessionType, ProfilerType, ContextOnce
      <4>1. ContextOnce(p)'
        BY <3>2, <4>0 DEF ContextOnce
      <4>2. EventsFollow(p)'
        BY <1>2, <1>4, <2>1, <2>4, <4>0, EventsKept
      <4>3. FramesFollow(p)'
        <5>1. Starts(p)' = Starts(p)
          BY <1>2 DEF Starts, RecordedBy
        <5>2. \A u \in OpThread : \A n \in 1 .. Len(stack[u]) :
                 stack[u][n].by # p /\ stack[u][n].start \notin Starts(p)
          BY <1>4, <2>1, <2>4 DEF FramesFollow, StackOwned
        <5>3. StackOwned(p)'
          BY <1>2, <5>1, <5>2 DEF StackOwned
        <5>4. Len(stack[t]) \in Nat
          BY <1>3 DEF ProfilerShape
        <5>5. Base(p)' = Len(stack[t])
          BY <1>2, <4>0, <5>4 DEF Base
        <5>6. FramesNearest(p)'
          BY <1>2, <4>0, <5>2, <5>4, <5>5 DEF FramesNearest
        <5>. QED
          BY <5>3, <5>6 DEF FramesFollow
      <4>4. Published(p)'
        BY <4>0 DEF Published
      <4>. QED
        BY <2>2, <2>4, <4>1, <4>2, <4>3, <4>4
    <3>. QED
      BY <1>6, <3>1, <3>2
  <2>. QED
    BY <2>3, <2>4
<1>. QED
  BY <1>5, <1>7, <1>8, <1>9 DEF ProfilerInv

(* A step of one context leaves the others as they are.                    *)
LEMMA OtherContexts ==
    ASSUME ProfilerInv, NEW p \in Profiler, UNCHANGED <<stack, moves, now, ran>>,
           \A q \in Profiler \ {p} :
               /\ session'[q] = session[q] /\ profiler'[q] = profiler[q]
               /\ session[q].active => activeProfiler'[session[q].owner] = activeProfiler[session[q].owner],
           session'[p].owner = session[p].owner, session'[p].events = session[p].events,
           session'[p].frames = session[p].frames, session[p].abandoned => session'[p].abandoned,
           session'[p].active => session[p].active,
           profiler'[p].entered = profiler[p].entered, Live(p)' => Live(p),
           profiler'[p].pending = profiler[p].pending, profiler'[p].external = profiler[p].external,
           ProfilerShape', SessionsOwned', ContextOnce(p)', Published(p)'
    PROVE ProfilerInv'
<1>1. /\ ProfilerShape /\ SessionsOwned /\ TimesUnique
      /\ \A q \in Profiler : ContextOnce(q) /\ EventsFollow(q) /\ FramesFollow(q) /\ PhasesHeld(q) /\ Published(q)
  BY DEF ProfilerInv
<1>2. TimesUnique'
  BY <1>1, TimesKept
<1>3. \A q \in Profiler : PhasesHeld(q)'
  BY <1>1, PhasesKept
<1>4. \A q \in Profiler : /\ Live(q)' => Live(q) /\ session'[q].events = session[q].events
                          /\ profiler'[q].entered = profiler[q].entered
                          /\ session'[q].owner = session[q].owner /\ session'[q].frames = session[q].frames
                          /\ Follows(q)' => Follows(q)
  <2> SUFFICES ASSUME NEW q \in Profiler
               PROVE /\ Live(q)' => Live(q) /\ session'[q].events = session[q].events
                     /\ profiler'[q].entered = profiler[q].entered
                     /\ session'[q].owner = session[q].owner /\ session'[q].frames = session[q].frames
                     /\ Follows(q)' => Follows(q)
    OBVIOUS
  <2>1. CASE q = p
    BY <2>1 DEF Follows
  <2>2. CASE q # p
    BY <2>2 DEF Follows, Live
  <2>. QED
    BY <2>1, <2>2
<1>5. \A q \in Profiler : session'[q].events = session[q].events
  OBVIOUS
<1>6. \A q \in Profiler : EventsFollow(q)'
  BY <1>1, <1>4, <1>5, EventsKept
<1>7. \A q \in Profiler : FramesFollow(q)'
  BY <1>1, <1>4, <1>5, FramesKept
<1>8. \A q \in Profiler : ContextOnce(q)' /\ Published(q)'
  <2> SUFFICES ASSUME NEW q \in Profiler, q # p PROVE ContextOnce(q)' /\ Published(q)'
    OBVIOUS
  <2>1. ContextOnce(q)'
    BY <1>1 DEF ContextOnce
  <2>2. Published(q)'
    BY <1>1 DEF Published
  <2>. QED
    BY <2>1, <2>2
<1>. QED
  BY <1>2, <1>3, <1>6, <1>7, <1>8 DEF ProfilerInv

LEMMA ExitedElsewhere ==
    ASSUME ProfilerInv, NEW p \in Profiler, ExitElsewhere(p)
    PROVE ProfilerInv'
<1> USE ProfilerAssumption
<1>1. /\ ProfilerShape /\ SessionsOwned /\ ContextOnce(p) /\ Published(p)
      /\ session \in [Profiler -> SessionType] /\ session[p] \in SessionType
      /\ activeProfiler \in [OpThread -> Profiler \union {Unset}]
  BY DEF ProfilerInv, ProfilerShape
<1>2. /\ session' = [session EXCEPT ![p] = [session[p] EXCEPT !.abandoned = TRUE]]
      /\ UNCHANGED <<profiler, activeProfiler, current, stack, moves, now, ran>>
  BY DEF ExitElsewhere
<1>3. /\ [session[p] EXCEPT !.abandoned = TRUE] \in SessionType
      /\ session'[p].owner = session[p].owner /\ session'[p].events = session[p].events
      /\ session'[p].frames = session[p].frames /\ session'[p].abandoned
      /\ session'[p].active = session[p].active
  BY <1>1, <1>2 DEF SessionType
<1>4. ProfilerShape'
  BY <1>1, <1>2, <1>3 DEF ProfilerShape
<1>5. SessionsOwned'
  <2> SUFFICES ASSUME NEW t \in OpThread, activeProfiler[t] # Unset
               PROVE session'[activeProfiler[t]].active /\ session'[activeProfiler[t]].owner = t
    BY <1>2 DEF SessionsOwned
  <2>1. /\ activeProfiler[t] \in Profiler
        /\ session[activeProfiler[t]].active /\ session[activeProfiler[t]].owner = t
    BY <1>1 DEF SessionsOwned
  <2>. QED
    BY <1>1, <1>2, <1>3, <2>1
<1>6. ContextOnce(p)' /\ Published(p)'
  <2>1. ContextOnce(p)'
    BY <1>1, <1>2, <1>3 DEF ContextOnce, ExitElsewhere
  <2>2. Published(p)'
    BY <1>1, <1>2, <1>3 DEF Published
  <2>. QED
    BY <2>1, <2>2
<1>7. Live(p)' => Live(p)
  BY <1>2, <1>3 DEF Live
<1>8. \A q \in Profiler \ {p} : session'[q] = session[q]
  BY <1>1, <1>2
<1>. QED
  BY <1>2, <1>3, <1>4, <1>5, <1>6, <1>7, <1>8, OtherContexts

LEMMA Stopped ==
    ASSUME ProfilerInv, NEW t \in OpThread, NEW p \in Profiler, StopSession(t, p)
    PROVE ProfilerInv'
<1> USE ProfilerAssumption
<1>1. /\ ProfilerShape /\ SessionsOwned /\ ContextOnce(p) /\ Published(p)
      /\ session \in [Profiler -> SessionType] /\ session[p] \in SessionType
      /\ profiler \in [Profiler -> ProfilerType] /\ profiler[p] \in ProfilerType
      /\ activeProfiler \in [OpThread -> Profiler \union {Unset}]
      /\ current \in [OpThread -> Profiler \union {Unset}]
  BY DEF ProfilerInv, ProfilerShape
<1>2. /\ session' = [session EXCEPT ![p] = [session[p] EXCEPT !.active = FALSE]]
      /\ profiler' = [profiler EXCEPT ![p] = [profiler[p] EXCEPT !.active = FALSE, !.stopping = TRUE]]
      /\ activeProfiler' = [activeProfiler EXCEPT ![t] = Unset]
      /\ current' \in [OpThread -> Profiler \union {Unset}]
      /\ UNCHANGED <<stack, moves, now, ran>>
      /\ profiler[p].active /\ session[p].active /\ session[p].owner = t /\ activeProfiler[t] = p
  BY <1>1 DEF StopSession
<1>3. /\ [session[p] EXCEPT !.active = FALSE] \in SessionType
      /\ session'[p].owner = session[p].owner /\ session'[p].events = session[p].events
      /\ session'[p].frames = session[p].frames /\ session'[p].abandoned = session[p].abandoned
      /\ ~session'[p].active
  BY <1>1, <1>2 DEF SessionType
<1>4. /\ [profiler[p] EXCEPT !.active = FALSE, !.stopping = TRUE] \in ProfilerType
      /\ profiler'[p].entered = profiler[p].entered /\ ~profiler'[p].active /\ profiler'[p].stopping
      /\ profiler'[p].completed = profiler[p].completed
      /\ profiler'[p].pending = profiler[p].pending /\ profiler'[p].external = profiler[p].external
  BY <1>1, <1>2 DEF ProfilerType
<1>5. ProfilerShape'
  BY <1>1, <1>2, <1>3, <1>4 DEF ProfilerShape
<1>6. SessionsOwned'
  <2> SUFFICES ASSUME NEW u \in OpThread, activeProfiler'[u] # Unset
               PROVE session'[activeProfiler'[u]].active /\ session'[activeProfiler'[u]].owner = u
    BY DEF SessionsOwned
  <2>1. u # t /\ activeProfiler'[u] = activeProfiler[u] /\ activeProfiler[u] \in Profiler
    BY <1>1, <1>2
  <2>2. session[activeProfiler[u]].active /\ session[activeProfiler[u]].owner = u
    BY <1>1, <2>1 DEF SessionsOwned
  <2>3. activeProfiler[u] # p
    BY <1>2, <2>1, <2>2
  <2>. QED
    BY <1>1, <1>2, <2>1, <2>2, <2>3
<1>7. ContextOnce(p)' /\ Published(p)'
  <2>1. profiler[p].entered /\ ~profiler[p].completed
    BY <1>1, <1>2 DEF ContextOnce
  <2>2. ContextOnce(p)'
    BY <1>3, <1>4, <2>1 DEF ContextOnce
  <2>3. Published(p)'
    BY <1>4, <2>1 DEF Published
  <2>. QED
    BY <2>2, <2>3
<1>8. Live(p)' => Live(p)
  BY <1>2 DEF Live
<1>9. \A q \in Profiler \ {p} :
          /\ session'[q] = session[q] /\ profiler'[q] = profiler[q]
          /\ session[q].active => activeProfiler'[session[q].owner] = activeProfiler[session[q].owner]
  <2> SUFFICES ASSUME NEW q \in Profiler \ {p}, session[q].active
               PROVE activeProfiler'[session[q].owner] = activeProfiler[session[q].owner]
    BY <1>1, <1>2
  <2>1. activeProfiler[session[q].owner] = q
    BY DEF ProfilerInv, ContextOnce
  <2>. QED
    BY <1>1, <1>2, <2>1
<1>. QED
  BY <1>2, <1>3, <1>4, <1>5, <1>6, <1>7, <1>8, <1>9, OtherContexts

LEMMA EventsPublished ==
    ASSUME ProfilerInv, NEW p \in Profiler, PublishEvents(p)
    PROVE ProfilerInv'
<1> USE ProfilerAssumption
<1> DEFINE events == Refreshed(session[p].events, profiler[p].external)
<1>1. /\ ProfilerShape /\ SessionsOwned /\ ContextOnce(p)
      /\ profiler \in [Profiler -> ProfilerType] /\ profiler[p] \in ProfilerType /\ session[p] \in SessionType
  BY DEF ProfilerInv, ProfilerShape
<1> DEFINE q == [profiler[p] EXCEPT !.native = session[p].events, !.completed = TRUE, !.dirty = FALSE, !.events = events]
<1>2. /\ profiler[p].stopping /\ profiler' = [profiler EXCEPT ![p] = q]
      /\ UNCHANGED <<session, activeProfiler, current, stack, moves, now, ran>>
  BY <1>1 DEF PublishEvents
<1> HIDE DEF events
<1>3. /\ q.native = session[p].events /\ q.completed /\ ~q.dirty /\ q.events = events
      /\ q.entered = profiler[p].entered /\ q.active = profiler[p].active /\ q.stopping = profiler[p].stopping
      /\ q.pending = profiler[p].pending /\ q.external = profiler[p].external
      /\ events \in SUBSET [place : Nat, event : [start : Nat, parent : Nat]] => q \in ProfilerType
  BY <1>1 DEF ProfilerType, SessionType
<1>4. events \in SUBSET [place : Nat, event : [start : Nat, parent : Nat]]
  <2>1. EventsFollow(p) /\ Live(p)
    BY <1>2 DEF ProfilerInv, Live
  <2>2. /\ session[p].events \in Seq([start : Nat, parent : Nat])
        /\ profiler[p].external \in SUBSET [start : Nat, parent : Nat]
    BY <1>1 DEF ProfilerType, SessionType
  <2>3. \A n \in 1 .. Len(session[p].events) : session[p].events[n].parent \in 0 .. n - 1
    BY <2>1 DEF EventsFollow
  <2>. QED
    BY <2>2, <2>3, RefreshedTyped DEF events
<1> HIDE DEF q
<1>5. profiler'[p] = q /\ \A r \in Profiler \ {p} : profiler'[r] = profiler[r]
  BY <1>1, <1>2
<1>6. ProfilerShape'
  BY <1>1, <1>2, <1>3, <1>4 DEF ProfilerShape
<1>7. SessionsOwned'
  BY <1>1, <1>2 DEF SessionsOwned
<1>8. ContextOnce(p)'
  BY <1>1, <1>2, <1>3, <1>5 DEF ContextOnce
<1>9. Published(p)'
  BY <1>2, <1>3, <1>5 DEF Published, events
<1>10. Live(p)' => Live(p)
  BY <1>2 DEF Live
<1>. QED
  BY <1>2, <1>3, <1>5, <1>6, <1>7, <1>8, <1>9, <1>10, OtherContexts

-----------------------------------------------------------------------------
(* The steps of a move change nothing of what the sessions recorded.       *)
LEMMA MoveStep ==
    ASSUME ProfilerInv, UNCHANGED <<session, activeProfiler, stack, ran>>,
           \A q \in Profiler :
               /\ profiler'[q].entered = profiler[q].entered /\ profiler'[q].active = profiler[q].active
               /\ profiler'[q].stopping = profiler[q].stopping /\ profiler'[q].completed = profiler[q].completed,
           ProfilerShape', TimesUnique', \A q \in Profiler : PhasesHeld(q)' /\ Published(q)'
    PROVE ProfilerInv'
<1>1. /\ ProfilerShape /\ SessionsOwned
      /\ \A q \in Profiler : ContextOnce(q) /\ EventsFollow(q) /\ FramesFollow(q)
  BY DEF ProfilerInv
<1>2. SessionsOwned'
  BY <1>1 DEF SessionsOwned
<1>3. \A q \in Profiler : ContextOnce(q)'
  BY <1>1 DEF ContextOnce
<1>4. \A q \in Profiler : Live(q)' = Live(q) /\ (Follows(q)' => Follows(q))
  BY DEF Live, Follows
<1>5. \A q \in Profiler : EventsFollow(q)'
  <2> SUFFICES ASSUME NEW q \in Profiler PROVE EventsFollow(q)'
    OBVIOUS
  <2>1. EventsFollow(q) /\ session'[q].events = session[q].events /\ (Live(q)' => Live(q))
        /\ profiler'[q].entered = profiler[q].entered
    BY <1>1, <1>4
  <2>. QED
    BY <2>1, EventsKept
<1>6. \A q \in Profiler : FramesFollow(q)'
  BY <1>1, <1>4, FramesKept
<1>. QED
  BY <1>2, <1>3, <1>5, <1>6 DEF ProfilerInv

LEMMA LaterUnique ==
    ASSUME ProfilerShape, RanUnique, now' = now + 1, UNCHANGED <<stack, ran>>
    PROVE RanUnique'
<1>1. now \in Nat /\ now' = now + 1
  BY DEF ProfilerShape
<1>2. ASSUME NEW o \in ran PROVE o.start < now' /\ \A s \in o.around : s < o.start
  <2>1. o.start \in Nat /\ o.start < now
    BY DEF ProfilerShape, RanUnique
  <2>2. \A s \in o.around : s < o.start
    BY DEF RanUnique
  <2>. QED
    BY <1>1, <2>1, <2>2
<1>3. ASSUME NEW t \in OpThread, NEW n \in 1 .. Len(stack[t]) PROVE stack[t][n].start < now'
  <2>1. stack[t] \in Seq([start : Nat, by : Profiler \union {Unset}])
    BY DEF ProfilerShape
  <2>2. stack[t][n] \in [start : Nat, by : Profiler \union {Unset}]
    BY <2>1, ElementOfSeq
  <2>3. stack[t][n].start \in Nat /\ stack[t][n].start < now
    BY <2>2 DEF RanUnique
  <2>. QED
    BY <1>1, <2>3
<1>. QED
  BY <1>2, <1>3 DEF RanUnique

LEMMA MoveBegun ==
    ASSUME ProfilerInv, NEW t \in OpThread, NEW m \in MoveRequest, NEW kind \in OpKind, BeginMove(t, m, kind)
    PROVE ProfilerInv'
<1> USE ProfilerAssumption
<1> DEFINE p == current[t]
           r == [at |-> "begun", by |-> p, start |-> now, submitted |-> 0]
           f == [profiler[p] EXCEPT !.pending = profiler[p].pending + 1]
<1>1. /\ ProfilerShape /\ TimesUnique
      /\ \A q \in Profiler : ContextOnce(q) /\ PhasesHeld(q) /\ Published(q)
      /\ profiler \in [Profiler -> ProfilerType] /\ moves \in [MoveRequest -> MoveType] /\ now \in Nat \ {0}
  BY DEF ProfilerInv, ProfilerShape
<1>2. /\ p \in Profiler /\ moves[m].at = "idle" /\ profiler[p].active
      /\ moves' = [moves EXCEPT ![m] = r] /\ profiler' = [profiler EXCEPT ![p] = f]
      /\ now' = now + 1 /\ UNCHANGED <<session, activeProfiler, current, stack, ran>>
  BY <1>1 DEF BeginMove, ProfilerShape
<1>3. r \in MoveType /\ r.at = "begun" /\ r.by = p /\ r.start = now /\ r.submitted = 0
  BY <1>1, <1>2 DEF MoveType
<1>4. /\ f \in ProfilerType /\ f.pending = profiler[p].pending + 1 /\ f.external = profiler[p].external
      /\ f.entered = profiler[p].entered /\ f.active = profiler[p].active /\ f.stopping = profiler[p].stopping
      /\ f.completed = profiler[p].completed
  <2>1. profiler[p] \in ProfilerType
    BY <1>1, <1>2
  <2> HIDE DEF p
  <2>2. profiler[p].pending + 1 \in Nat
    BY <2>1 DEF ProfilerType
  <2>. QED
    BY <2>1, <2>2 DEF ProfilerType
<1>5. moves[m] \in MoveType /\ moves[m].submitted = 0 /\ moves[m].by = Unset
  BY <1>1, <1>2 DEF TimesUnique, MovePhases
<1> HIDE DEF p, r, f
<1>6. /\ moves'[m] = r /\ \A k \in MoveRequest \ {m} : moves'[k] = moves[k]
      /\ profiler'[p] = f /\ \A q \in Profiler \ {p} : profiler'[q] = profiler[q]
  BY <1>1, <1>2
<1>7. ProfilerShape'
  <2>1. now' \in Nat \ {0}
    BY <1>1, <1>2
  <2>2. profiler' \in [Profiler -> ProfilerType] /\ moves' \in [MoveRequest -> MoveType]
    BY <1>1, <1>2, <1>3, <1>4
  <2>. QED
    BY <1>1, <1>2, <2>1, <2>2 DEF ProfilerShape
<1>8. TimesUnique'
  <2>1. RanUnique'
    BY <1>1, <1>2, LaterUnique DEF TimesUnique
  <2>2. MovePhases'
    BY <1>1, <1>2, <1>3, <1>6 DEF TimesUnique, MovePhases, MoveType
  <2>3. MovesUnique'
    BY <1>1, <1>2, <1>3, <1>6 DEF TimesUnique, MovePhases, MovesUnique, MoveType
  <2>4. MovesApart'
    BY <1>1, <1>2, <1>3, <1>6 DEF TimesUnique, RanUnique, MovesApart, ProfilerShape
  <2>. QED
    BY <2>1, <2>2, <2>3, <2>4 DEF TimesUnique
<1>9. ASSUME NEW q \in Profiler PROVE PhasesHeld(q)' /\ Published(q)'
  <2>1. PhasesHeld(q) /\ Published(q) /\ ContextOnce(q)
    BY <1>1, <1>9
  <2>2. SubmittedBy(q)' = SubmittedBy(q) /\ CompletedBy(q)' = CompletedBy(q) /\ m \notin SubmittedBy(q)
    BY <1>3, <1>5, <1>6 DEF SubmittedBy, CompletedBy
  <2>3. CompletedBy(q) \subseteq SubmittedBy(q) /\ SubmittedBy(q) \subseteq MoveRequest
    BY DEF SubmittedBy, CompletedBy
  <2>4. \A k \in SubmittedBy(q) : moves'[k] = moves[k]
    BY <1>6, <2>2, <2>3
  <2>5. CASE q # p
    <3>1. MovesPending(q)' = MovesPending(q)
      BY <1>2, <1>3, <1>6, <2>5 DEF MovesPending
    <3>2. PhasesHeld(q)'
      BY <1>6, <1>9, <2>1, <2>2, <2>3, <2>4, <2>5, <3>1 DEF PhasesHeld
    <3>3. Published(q)'
      BY <1>2, <1>6, <1>9, <2>1, <2>5 DEF Published
    <3>. QED
      BY <3>2, <3>3
  <2>6. CASE q = p
    <3>1. MovesPending(q)' = MovesPending(q) \union {m} /\ m \notin MovesPending(q)
      BY <1>2, <1>3, <1>6, <2>6 DEF MovesPending
    <3>2. IsFiniteSet(MovesPending(q)') /\ Cardinality(MovesPending(q)') = Cardinality(MovesPending(q)) + 1
      BY <2>1, <3>1, FS_AddElement DEF PhasesHeld
    <3>3. PhasesHeld(q)'
      BY <1>4, <1>6, <2>1, <2>2, <2>3, <2>4, <2>6, <3>2 DEF PhasesHeld
    <3>4. Published(q)'
      BY <1>2, <1>4, <1>6, <2>1, <2>6 DEF Published, ContextOnce
    <3>. QED
      BY <3>3, <3>4
  <2>. QED
    BY <2>5, <2>6
<1>10. \A q \in Profiler :
          /\ profiler'[q].entered = profiler[q].entered /\ profiler'[q].active = profiler[q].active
          /\ profiler'[q].stopping = profiler[q].stopping /\ profiler'[q].completed = profiler[q].completed
  BY <1>4, <1>6
<1>. QED
  BY <1>2, <1>7, <1>8, <1>9, <1>10, MoveStep

LEMMA MoveSubmitted ==
    ASSUME ProfilerInv, NEW m \in MoveRequest, Submitted(m)
    PROVE ProfilerInv'
<1> USE ProfilerAssumption
<1> DEFINE p == moves[m].by
           r == [moves[m] EXCEPT !.at = "submitted", !.submitted = now]
           event == [start |-> moves[m].start, parent |-> 0]
           f == [profiler[p] EXCEPT !.external = profiler[p].external \union {event}, !.dirty = TRUE]
<1>1. /\ ProfilerShape /\ TimesUnique
      /\ \A q \in Profiler : ContextOnce(q) /\ PhasesHeld(q) /\ Published(q)
      /\ profiler \in [Profiler -> ProfilerType] /\ moves \in [MoveRequest -> MoveType] /\ now \in Nat \ {0}
      /\ moves[m] \in MoveType
  BY DEF ProfilerInv, ProfilerShape
<1>2. /\ p \in Profiler /\ moves[m].at = "begun" /\ moves[m].submitted = 0
      /\ moves[m].start > 0 /\ moves[m].start < now
  BY <1>1 DEF Submitted, TimesUnique, MovePhases, MoveType
<1>3. /\ moves' = [moves EXCEPT ![m] = r] /\ profiler' = [profiler EXCEPT ![p] = f]
      /\ now' = now + 1 /\ UNCHANGED <<session, activeProfiler, current, stack, ran>>
  BY <1>1, <1>2 DEF Submitted, WithEvent
<1>4. r \in MoveType /\ r.at = "submitted" /\ r.by = p /\ r.start = moves[m].start /\ r.submitted = now
  BY <1>1 DEF MoveType
<1>5. /\ f \in ProfilerType /\ f.pending = profiler[p].pending /\ f.external = profiler[p].external \union {event}
      /\ f.dirty /\ f.entered = profiler[p].entered /\ f.active = profiler[p].active /\ f.stopping = profiler[p].stopping
      /\ f.completed = profiler[p].completed /\ f.native = profiler[p].native
  <2>1. profiler[p] \in ProfilerType /\ event \in [start : Nat, parent : Nat]
    BY <1>1, <1>2 DEF MoveType
  <2> HIDE DEF p, event
  <2>. QED
    BY <2>1 DEF ProfilerType
<1> HIDE DEF r, f
<1>6. /\ moves'[m] = r /\ \A k \in MoveRequest \ {m} : moves'[k] = moves[k]
      /\ profiler'[p] = f /\ \A q \in Profiler \ {p} : profiler'[q] = profiler[q]
  BY <1>1, <1>2, <1>3
<1>7. ProfilerShape'
  <2>1. now' \in Nat \ {0}
    BY <1>1, <1>3
  <2>2. profiler' \in [Profiler -> ProfilerType] /\ moves' \in [MoveRequest -> MoveType]
    BY <1>1, <1>3, <1>4, <1>5
  <2>. QED
    BY <1>1, <1>3, <2>1, <2>2 DEF ProfilerShape
<1>8. TimesUnique'
  <2>1. RanUnique'
    BY <1>1, <1>3, LaterUnique DEF TimesUnique
  <2>2. MovePhases'
    BY <1>1, <1>2, <1>3, <1>4, <1>6 DEF TimesUnique, MovePhases, MoveType
  <2>3. MovesUnique'
    BY <1>1, <1>2, <1>3, <1>4, <1>6 DEF TimesUnique, MovePhases, MovesUnique, MoveType
  <2>4. MovesApart'
    BY <1>1, <1>2, <1>3, <1>4, <1>6 DEF TimesUnique, RanUnique, MovesApart, ProfilerShape
  <2>. QED
    BY <2>1, <2>2, <2>3, <2>4 DEF TimesUnique
<1>9. ASSUME NEW q \in Profiler PROVE PhasesHeld(q)' /\ Published(q)'
  <2>1. PhasesHeld(q) /\ Published(q)
    BY <1>1, <1>9
  <2>2. MovesPending(q)' = MovesPending(q)
    BY <1>2, <1>4, <1>6 DEF MovesPending
  <2>3. CompletedBy(q)' = CompletedBy(q) /\ m \notin SubmittedBy(q)
    BY <1>1, <1>2, <1>4, <1>6 DEF SubmittedBy, CompletedBy
  <2>4. SubmittedBy(q)' = IF q = p THEN SubmittedBy(q) \union {m} ELSE SubmittedBy(q)
    BY <1>1, <1>2, <1>4, <1>6 DEF SubmittedBy
  <2>5. CompletedBy(q) \subseteq SubmittedBy(q) /\ SubmittedBy(q) \subseteq MoveRequest
    BY DEF SubmittedBy, CompletedBy
  <2>6. \A k \in SubmittedBy(q) : moves'[k] = moves[k]
    BY <1>6, <2>3, <2>5
  <2>7. CASE q # p
    <3>1. PhasesHeld(q)'
      BY <1>6, <1>9, <2>1, <2>2, <2>3, <2>4, <2>5, <2>6, <2>7 DEF PhasesHeld
    <3>2. Published(q)'
      BY <1>3, <1>6, <1>9, <2>1, <2>7 DEF Published
    <3>. QED
      BY <3>1, <3>2
  <2>8. CASE q = p
    <3>1. profiler'[q].external =
              {[start |-> moves'[k].start, parent |-> 0] : k \in SubmittedBy(q)'}
              \union {[start |-> moves'[k].submitted, parent |-> moves'[k].start] : k \in CompletedBy(q)'}
      <4>1. moves'[m].start = moves[m].start
        BY <1>4, <1>6
      <4>2. {[start |-> moves'[k].start, parent |-> 0] : k \in SubmittedBy(q)'}
                = {[start |-> moves[k].start, parent |-> 0] : k \in SubmittedBy(q)} \union {event}
        BY <2>4, <2>6, <2>8, <4>1
      <4>3. {[start |-> moves'[k].submitted, parent |-> moves'[k].start] : k \in CompletedBy(q)'}
                = {[start |-> moves[k].submitted, parent |-> moves[k].start] : k \in CompletedBy(q)}
        BY <2>3, <2>5, <2>6
      <4>4. profiler'[q].external = profiler[q].external \union {event}
        BY <1>5, <1>6, <2>8
      <4> HIDE DEF event, p
      <4>. QED
        BY <2>1, <4>2, <4>3, <4>4 DEF PhasesHeld
    <3>2. PhasesHeld(q)'
      BY <1>5, <1>6, <2>1, <2>2, <2>8, <3>1 DEF PhasesHeld
    <3>3. profiler'[q].pending # 0
      <4>1. m \in MovesPending(q)
        BY <1>2, <2>8 DEF MovesPending
      <4>2. Cardinality(MovesPending(q)) # 0
        BY <2>1, <4>1, FS_EmptySet DEF PhasesHeld
      <4>. QED
        BY <1>5, <1>6, <2>1, <2>8, <4>2 DEF PhasesHeld
    <3>4. Published(q)'
      BY <1>3, <1>5, <1>6, <2>1, <2>8, <3>3 DEF Published
    <3>. QED
      BY <3>2, <3>4
  <2>. QED
    BY <2>7, <2>8
<1>10. \A q \in Profiler :
          /\ profiler'[q].entered = profiler[q].entered /\ profiler'[q].active = profiler[q].active
          /\ profiler'[q].stopping = profiler[q].stopping /\ profiler'[q].completed = profiler[q].completed
  BY <1>5, <1>6
<1>. QED
  BY <1>3, <1>7, <1>8, <1>9, <1>10, MoveStep

LEMMA MoveCompleted ==
    ASSUME ProfilerInv, NEW m \in MoveRequest, Completed(m)
    PROVE ProfilerInv'
<1> USE ProfilerAssumption
<1> DEFINE p == moves[m].by
           r == [moves[m] EXCEPT !.at = "recorded"]
           event == [start |-> moves[m].submitted, parent |-> moves[m].start]
           f == [profiler[p] EXCEPT !.external = profiler[p].external \union {event}, !.dirty = TRUE]
<1>1. /\ ProfilerShape /\ TimesUnique
      /\ \A q \in Profiler : ContextOnce(q) /\ PhasesHeld(q) /\ Published(q)
      /\ profiler \in [Profiler -> ProfilerType] /\ moves \in [MoveRequest -> MoveType] /\ now \in Nat \ {0}
      /\ moves[m] \in MoveType
  BY DEF ProfilerInv, ProfilerShape
<1>2. /\ p \in Profiler /\ moves[m].at = "submitted" /\ moves[m].submitted > 0
  BY <1>1 DEF Completed, TimesUnique, MovePhases, MoveType
<1>3. /\ moves' = [moves EXCEPT ![m] = r] /\ profiler' = [profiler EXCEPT ![p] = f]
      /\ UNCHANGED <<session, activeProfiler, current, stack, ran, now>>
  BY <1>1, <1>2 DEF Completed, WithEvent
<1>4. r \in MoveType /\ r.at = "recorded" /\ r.by = p /\ r.start = moves[m].start /\ r.submitted = moves[m].submitted
  BY <1>1 DEF MoveType
<1>5. /\ f \in ProfilerType /\ f.pending = profiler[p].pending /\ f.external = profiler[p].external \union {event}
      /\ f.dirty /\ f.entered = profiler[p].entered /\ f.active = profiler[p].active /\ f.stopping = profiler[p].stopping
      /\ f.completed = profiler[p].completed /\ f.native = profiler[p].native
  <2>1. profiler[p] \in ProfilerType /\ event \in [start : Nat, parent : Nat]
    BY <1>1, <1>2 DEF MoveType
  <2> HIDE DEF p, event
  <2>. QED
    BY <2>1 DEF ProfilerType
<1> HIDE DEF r, f
<1>6. /\ moves'[m] = r /\ \A k \in MoveRequest \ {m} : moves'[k] = moves[k]
      /\ profiler'[p] = f /\ \A q \in Profiler \ {p} : profiler'[q] = profiler[q]
  BY <1>1, <1>2, <1>3
<1>7. ProfilerShape'
  <2>1. profiler' \in [Profiler -> ProfilerType] /\ moves' \in [MoveRequest -> MoveType]
    BY <1>1, <1>3, <1>4, <1>5
  <2>. QED
    BY <1>1, <1>3, <2>1 DEF ProfilerShape
<1>8. TimesUnique'
  <2>1. RanUnique'
    BY <1>1, <1>3 DEF TimesUnique, RanUnique
  <2>2. MovePhases'
    BY <1>1, <1>2, <1>3, <1>4, <1>6 DEF TimesUnique, MovePhases, MoveType
  <2>3. MovesUnique'
    BY <1>1, <1>2, <1>3, <1>4, <1>6 DEF TimesUnique, MovesUnique
  <2>4. MovesApart'
    BY <1>1, <1>2, <1>3, <1>4, <1>6 DEF TimesUnique, MovesApart
  <2>. QED
    BY <2>1, <2>2, <2>3, <2>4 DEF TimesUnique
<1>9. ASSUME NEW q \in Profiler PROVE PhasesHeld(q)' /\ Published(q)'
  <2>1. PhasesHeld(q) /\ Published(q)
    BY <1>1, <1>9
  <2>2. MovesPending(q)' = MovesPending(q)
    BY <1>2, <1>4, <1>6 DEF MovesPending
  <2>3. SubmittedBy(q)' = SubmittedBy(q) /\ m \notin CompletedBy(q)
    BY <1>1, <1>2, <1>4, <1>6 DEF SubmittedBy, CompletedBy
  <2>4. CompletedBy(q)' = IF q = p THEN CompletedBy(q) \union {m} ELSE CompletedBy(q)
    BY <1>1, <1>2, <1>4, <1>6 DEF SubmittedBy, CompletedBy
  <2>5. CompletedBy(q) \subseteq SubmittedBy(q) /\ SubmittedBy(q) \subseteq MoveRequest
    BY DEF SubmittedBy, CompletedBy
  <2>6. \A k \in MoveRequest : moves'[k].start = moves[k].start /\ moves'[k].submitted = moves[k].submitted
    BY <1>4, <1>6
  <2>7. CASE q # p
    <3>1. PhasesHeld(q)'
      BY <1>6, <1>9, <2>1, <2>2, <2>3, <2>4, <2>5, <2>6, <2>7 DEF PhasesHeld
    <3>2. Published(q)'
      BY <1>3, <1>6, <1>9, <2>1, <2>7 DEF Published
    <3>. QED
      BY <3>1, <3>2
  <2>8. CASE q = p
    <3>1. profiler'[q].external =
              {[start |-> moves'[k].start, parent |-> 0] : k \in SubmittedBy(q)'}
              \union {[start |-> moves'[k].submitted, parent |-> moves'[k].start] : k \in CompletedBy(q)'}
      <4>2. {[start |-> moves'[k].submitted, parent |-> moves'[k].start] : k \in CompletedBy(q)'}
                = {[start |-> moves[k].submitted, parent |-> moves[k].start] : k \in CompletedBy(q)} \union {event}
        BY <2>4, <2>5, <2>6, <2>8
      <4>3. {[start |-> moves'[k].start, parent |-> 0] : k \in SubmittedBy(q)'}
                = {[start |-> moves[k].start, parent |-> 0] : k \in SubmittedBy(q)}
        BY <2>3, <2>5, <2>6
      <4>4. profiler'[q].external = profiler[q].external \union {event}
        BY <1>5, <1>6, <2>8
      <4> HIDE DEF event, p
      <4>. QED
        BY <2>1, <4>2, <4>3, <4>4 DEF PhasesHeld
    <3>2. PhasesHeld(q)'
      BY <1>5, <1>6, <2>1, <2>2, <2>8, <3>1 DEF PhasesHeld
    <3>3. profiler'[q].pending # 0
      <4>1. m \in MovesPending(q)
        BY <1>2, <2>8 DEF MovesPending
      <4>2. Cardinality(MovesPending(q)) # 0
        BY <2>1, <4>1, FS_EmptySet DEF PhasesHeld
      <4>. QED
        BY <1>5, <1>6, <2>1, <2>8, <4>2 DEF PhasesHeld
    <3>4. Published(q)'
      BY <1>3, <1>5, <1>6, <2>1, <2>8, <3>3 DEF Published
    <3>. QED
      BY <3>2, <3>4
  <2>. QED
    BY <2>7, <2>8
<1>10. \A q \in Profiler :
          /\ profiler'[q].entered = profiler[q].entered /\ profiler'[q].active = profiler[q].active
          /\ profiler'[q].stopping = profiler[q].stopping /\ profiler'[q].completed = profiler[q].completed
  BY <1>5, <1>6
<1>. QED
  BY <1>3, <1>7, <1>8, <1>9, <1>10, MoveStep

LEMMA MoveFinished ==
    ASSUME ProfilerInv, NEW m \in MoveRequest, FinishMove(m)
    PROVE ProfilerInv'
<1> USE ProfilerAssumption
<1> DEFINE p == moves[m].by
           r == [moves[m] EXCEPT !.at = "done"]
           old == profiler[p]
           f == PhaseFinished(old)
<1>1. /\ ProfilerShape /\ TimesUnique
      /\ \A q \in Profiler : ContextOnce(q) /\ EventsFollow(q) /\ PhasesHeld(q) /\ Published(q)
      /\ profiler \in [Profiler -> ProfilerType] /\ moves \in [MoveRequest -> MoveType] /\ now \in Nat \ {0}
      /\ moves[m] \in MoveType /\ session \in [Profiler -> SessionType]
  BY DEF ProfilerInv, ProfilerShape
<1>2. /\ p \in Profiler /\ moves[m].at \in {"begun", "recorded"}
      /\ moves[m].at = "begun" => moves[m].submitted = 0
  BY <1>1 DEF FinishMove, TimesUnique, MovePhases, MoveType
<1>3. /\ moves' = [moves EXCEPT ![m] = r] /\ profiler' = [profiler EXCEPT ![p] = f]
      /\ UNCHANGED <<session, activeProfiler, current, stack, ran, now>>
  BY <1>1, <1>2 DEF FinishMove
<1>4. r \in MoveType /\ r.at = "done" /\ r.by = p /\ r.start = moves[m].start /\ r.submitted = moves[m].submitted
  BY <1>1 DEF MoveType
<1>5. old \in ProfilerType /\ PhasesHeld(p) /\ Published(p) /\ session[p] \in SessionType
  BY <1>1, <1>2
<1>6. MovesPending(p)' = MovesPending(p) \ {m} /\ m \in MovesPending(p)
  BY <1>1, <1>2, <1>3, <1>4 DEF MovesPending
<1>7. /\ IsFiniteSet(MovesPending(p)') /\ Cardinality(MovesPending(p)') = Cardinality(MovesPending(p)) - 1
      /\ Cardinality(MovesPending(p)) # 0
  BY <1>5, <1>6, FS_RemoveElement, FS_EmptySet DEF PhasesHeld
<1>8. old.pending \in Nat \ {0} /\ old.pending = Cardinality(MovesPending(p))
  BY <1>5, <1>7 DEF PhasesHeld, ProfilerType
<1>a. old.completed => Refreshed(old.native, old.external) \in SUBSET [place : Nat, event : [start : Nat, parent : Nat]]
  <2> SUFFICES ASSUME old.completed PROVE Refreshed(old.native, old.external) \in SUBSET [place : Nat, event : [start : Nat, parent : Nat]]
    OBVIOUS
  <2>1. old.native = session[p].events /\ Live(p)
    BY <1>1, <1>2 DEF Published, ContextOnce, Live
  <2>2. \A n \in 1 .. Len(old.native) : old.native[n].parent \in 0 .. n - 1
    BY <1>1, <1>2, <2>1 DEF EventsFollow
  <2>3. old.native \in Seq([start : Nat, parent : Nat]) /\ old.external \in SUBSET [start : Nat, parent : Nat]
    BY <1>5 DEF ProfilerType
  <2>. QED
    BY <2>2, <2>3, RefreshedTyped
<1>9. /\ f \in ProfilerType /\ f.pending = old.pending - 1 /\ f.external = old.external
      /\ f.entered = old.entered /\ f.active = old.active /\ f.stopping = old.stopping
      /\ f.completed = old.completed /\ f.native = old.native
      /\ \/ f.dirty = old.dirty /\ f.events = old.events /\ ~(old.completed /\ old.pending = 1 /\ old.dirty)
         \/ ~f.dirty /\ f.events = Refreshed(old.native, old.external)
  <2> HIDE DEF old
  <2>1. CASE old.completed /\ old.pending = 1 /\ old.dirty
    <3>1. f = [old EXCEPT !.pending = 0, !.dirty = FALSE, !.events = Refreshed(old.native, old.external)]
      BY <2>1 DEF PhaseFinished
    <3> DEFINE e == Refreshed(old.native, old.external)
    <3>2. e \in SUBSET [place : Nat, event : [start : Nat, parent : Nat]]
      BY <1>a, <2>1
    <3> HIDE DEF e
    <3>3. f = [old EXCEPT !.pending = 0, !.dirty = FALSE, !.events = e]
      BY <3>1 DEF e
    <3> HIDE DEF f
    <3>4. /\ f \in ProfilerType /\ f.pending = 0 /\ f.external = old.external
          /\ f.entered = old.entered /\ f.active = old.active /\ f.stopping = old.stopping
          /\ f.completed = old.completed /\ f.native = old.native /\ ~f.dirty /\ f.events = e
      BY <1>5, <3>2, <3>3 DEF ProfilerType
    <3>. QED
      BY <2>1, <3>4 DEF e
  <2>2. CASE ~(old.completed /\ old.pending = 1 /\ old.dirty)
    <3>1. f = [old EXCEPT !.pending = old.pending - 1]
      BY <2>2 DEF PhaseFinished
    <3>2. old.pending - 1 \in Nat
      BY <1>8
    <3> HIDE DEF f
    <3>. QED
      BY <1>5, <2>2, <3>1, <3>2 DEF ProfilerType
  <2>. QED
    BY <2>1, <2>2
<1> HIDE DEF r, f
<1>10. /\ moves'[m] = r /\ \A k \in MoveRequest \ {m} : moves'[k] = moves[k]
       /\ profiler'[p] = f /\ \A q \in Profiler \ {p} : profiler'[q] = profiler[q]
  BY <1>1, <1>2, <1>3
<1>11. ProfilerShape'
  <2>1. profiler' \in [Profiler -> ProfilerType] /\ moves' \in [MoveRequest -> MoveType]
    BY <1>1, <1>3, <1>4, <1>9
  <2>. QED
    BY <1>1, <1>3, <2>1 DEF ProfilerShape
<1>12. TimesUnique'
  <2>1. RanUnique'
    BY <1>1, <1>3 DEF TimesUnique, RanUnique
  <2>2. MovePhases'
    BY <1>1, <1>2, <1>3, <1>4, <1>10 DEF TimesUnique, MovePhases, MoveType
  <2>3. MovesUnique'
    BY <1>1, <1>2, <1>3, <1>4, <1>10 DEF TimesUnique, MovesUnique
  <2>4. MovesApart'
    BY <1>1, <1>2, <1>3, <1>4, <1>10 DEF TimesUnique, MovesApart
  <2>. QED
    BY <2>1, <2>2, <2>3, <2>4 DEF TimesUnique
<1>13. ASSUME NEW q \in Profiler PROVE PhasesHeld(q)' /\ Published(q)'
  <2>1. PhasesHeld(q) /\ Published(q)
    BY <1>1, <1>13
  <2>2. SubmittedBy(q)' = SubmittedBy(q) /\ CompletedBy(q)' = CompletedBy(q)
    BY <1>2, <1>4, <1>10 DEF SubmittedBy, CompletedBy
  <2>3. CompletedBy(q) \subseteq MoveRequest /\ SubmittedBy(q) \subseteq MoveRequest
    BY DEF SubmittedBy, CompletedBy
  <2>4. \A k \in MoveRequest : moves'[k].start = moves[k].start /\ moves'[k].submitted = moves[k].submitted
    BY <1>4, <1>10
  <2>5. /\ {[start |-> moves'[k].start, parent |-> 0] : k \in SubmittedBy(q)'}
               = {[start |-> moves[k].start, parent |-> 0] : k \in SubmittedBy(q)}
        /\ {[start |-> moves'[k].submitted, parent |-> moves'[k].start] : k \in CompletedBy(q)'}
               = {[start |-> moves[k].submitted, parent |-> moves[k].start] : k \in CompletedBy(q)}
    BY <2>2, <2>3, <2>4
  <2>6. CASE q # p
    <3>1. MovesPending(q)' = MovesPending(q)
      BY <1>2, <1>4, <1>10, <2>6 DEF MovesPending
    <3>2. PhasesHeld(q)'
      BY <1>10, <1>13, <2>1, <2>5, <2>6, <3>1 DEF PhasesHeld
    <3>3. Published(q)'
      BY <1>3, <1>10, <1>13, <2>1, <2>6 DEF Published
    <3>. QED
      BY <3>2, <3>3
  <2>7. CASE q = p
    <3>1. PhasesHeld(q)'
      <4>1. IsFiniteSet(MovesPending(q)') /\ Cardinality(MovesPending(q)') = old.pending - 1
        BY <1>4, <1>7, <1>8, <1>10, <2>7
      <4>2. profiler'[q].pending = old.pending - 1 /\ profiler'[q].external = profiler[q].external
        BY <1>9, <1>10, <2>7
      <4>. QED
        BY <2>1, <2>5, <4>1, <4>2 DEF PhasesHeld
    <3>2. Published(q)'
      BY <1>3, <1>8, <1>9, <1>10, <2>1, <2>7 DEF Published
    <3>. QED
      BY <3>1, <3>2
  <2>. QED
    BY <2>6, <2>7
<1>14. \A q \in Profiler :
          /\ profiler'[q].entered = profiler[q].entered /\ profiler'[q].active = profiler[q].active
          /\ profiler'[q].stopping = profiler[q].stopping /\ profiler'[q].completed = profiler[q].completed
  BY <1>9, <1>10
<1>. QED
  BY <1>3, <1>11, <1>12, <1>13, <1>14, MoveStep

-----------------------------------------------------------------------------
LEMMA OperationEnded ==
    ASSUME ProfilerInv, NEW t \in OpThread, EndOperation(t)
    PROVE ProfilerInv'
<1> USE ProfilerAssumption
<1> DEFINE N == Len(stack[t])
           b == stack[t][N].by
           Frame == [start : Nat, by : Profiler \union {Unset}]
<1>1. /\ ProfilerShape /\ SessionsOwned /\ TimesUnique
      /\ \A q \in Profiler : ContextOnce(q) /\ EventsFollow(q) /\ FramesFollow(q) /\ PhasesHeld(q) /\ Published(q)
      /\ session \in [Profiler -> SessionType] /\ stack \in [OpThread -> Seq(Frame)]
  BY DEF ProfilerInv, ProfilerShape
<1>2. /\ stack[t] \in Seq(Frame) /\ stack[t] # <<>> /\ N \in Nat \ {0} /\ b \in Profiler \union {Unset}
      /\ N \in 1 .. Len(stack[t]) /\ stack[t][N].by = b /\ N = Len(stack[t])
  <2>1. stack[t] \in Seq(Frame) /\ stack[t] # <<>>
    BY <1>1 DEF EndOperation
  <2>2. N \in Nat \ {0}
    BY <2>1, LenProperties, EmptySeq
  <2>3. N \in 1 .. Len(stack[t])
    BY <2>2
  <2>4. stack[t][N] \in Frame
    <3> HIDE DEF Frame, N
    <3>. QED
      BY <2>1, <2>3, ElementOfSeq
  <2>. QED
    BY <2>1, <2>2, <2>3, <2>4
<1>3. /\ stack' = [stack EXCEPT ![t] = Without(stack[t])]
      /\ session' = IF b = Unset THEN session ELSE [session EXCEPT ![b] = [session[b] EXCEPT !.frames = Without(session[b].frames)]]
      /\ UNCHANGED <<profiler, activeProfiler, current, moves, now, ran>>
  <2> DEFINE c == Innermost(stack[t]).by
  <2>1. c = b
    BY DEF Innermost
  <2>2. /\ stack' = [stack EXCEPT ![t] = Without(stack[t])]
        /\ session' = IF c = Unset THEN session ELSE [session EXCEPT ![c].frames = Without(session[c].frames)]
        /\ UNCHANGED <<profiler, activeProfiler, current, moves, now, ran>>
    BY <1>1 DEF EndOperation
  <2> HIDE DEF b, c
  <2>. QED
    BY <1>1, <1>2, <2>1, <2>2
<1>4. /\ Without(stack[t]) \in Seq(Frame) /\ Len(Without(stack[t])) = N - 1
      /\ \A n \in 1 .. N - 1 : Without(stack[t])[n] = stack[t][n]
  BY <1>2, WithoutLast
<1>5. /\ stack' \in [OpThread -> Seq(Frame)] /\ stack'[t] = Without(stack[t])
      /\ \A u \in OpThread \ {t} : stack'[u] = stack[u]
  <2> HIDE DEF Frame
  <2>. QED
    BY <1>1, <1>3, <1>4
<1>6. \A u \in OpThread : \A n \in 1 .. Len(stack'[u]) : n \in 1 .. Len(stack[u]) /\ stack'[u][n] = stack[u][n]
  <2> SUFFICES ASSUME NEW u \in OpThread, NEW n \in 1 .. Len(stack'[u])
               PROVE n \in 1 .. Len(stack[u]) /\ stack'[u][n] = stack[u][n]
    OBVIOUS
  <2>1. CASE u = t
    <3> HIDE DEF Frame
    <3>1. n \in 1 .. N - 1
      BY <1>4, <1>5, <2>1
    <3>2. n \in 1 .. N
      BY <1>2, <3>1
    <3>. QED
      BY <1>4, <1>5, <2>1, <3>1, <3>2
  <2>2. CASE u # t
    BY <1>5, <2>2
  <2>. QED
    BY <2>1, <2>2
<1> HIDE DEF b, N, Frame
<1>7. \A q \in Profiler :
         /\ session'[q] \in SessionType
         /\ session'[q].active = session[q].active /\ session'[q].abandoned = session[q].abandoned
         /\ session'[q].owner = session[q].owner /\ session'[q].events = session[q].events
         /\ q # b => session'[q] = session[q]
         /\ q = b => session'[q].frames = Without(session[q].frames)
  <2> SUFFICES ASSUME NEW q \in Profiler
               PROVE /\ session'[q] \in SessionType
                     /\ session'[q].active = session[q].active /\ session'[q].abandoned = session[q].abandoned
                     /\ session'[q].owner = session[q].owner /\ session'[q].events = session[q].events
                     /\ q # b => session'[q] = session[q]
                     /\ q = b => session'[q].frames = Without(session[q].frames)
    OBVIOUS
  <2>1. session[q] \in SessionType
    BY <1>1
  <2>2. CASE q = b
    <3>1. session'[q] = [session[q] EXCEPT !.frames = Without(session[q].frames)]
      BY <1>1, <1>3, <2>2
    <3>2. Without(session[q].frames) \in Seq(Nat)
      BY <2>1, WithoutTyped DEF SessionType
    <3>. QED
      BY <2>1, <2>2, <3>1, <3>2 DEF SessionType
  <2>3. CASE q # b
    BY <1>1, <1>2, <1>3, <2>1, <2>3
  <2>. QED
    BY <2>2, <2>3
<1>8. ProfilerShape'
  <2>1. session' \in [Profiler -> SessionType]
    <3>1. session' = [q \in Profiler |-> session'[q]]
      BY <1>1, <1>2, <1>3
    <3>. QED
      BY <1>7, <3>1
  <2>. QED
    BY <1>1, <1>3, <1>5, <2>1 DEF ProfilerShape, Frame
<1>9. SessionsOwned'
  BY <1>1, <1>3, <1>7 DEF SessionsOwned, ProfilerShape
<1>10. TimesUnique'
  <2>1. RanUnique'
    BY <1>1, <1>3, <1>6 DEF TimesUnique, RanUnique
  <2>2. MovePhases' /\ MovesUnique' /\ MovesApart'
    BY <1>1, <1>3 DEF TimesUnique, MovePhases, MovesUnique, MovesApart
  <2>. QED
    BY <2>1, <2>2 DEF TimesUnique
<1>11. ASSUME NEW q \in Profiler
       PROVE (ContextOnce(q) /\ EventsFollow(q) /\ PhasesHeld(q) /\ Published(q))'
  <2>1. ContextOnce(q) /\ EventsFollow(q) /\ PhasesHeld(q) /\ Published(q)
    BY <1>1, <1>11
  <2>2. ContextOnce(q)'
    <3>1. ~profiler[q].entered => session'[q].frames = <<>>
      <4> SUFFICES ASSUME ~profiler[q].entered PROVE session'[q].frames = <<>>
        OBVIOUS
      <4>1. session[q].owner = Unset /\ session[q].frames = <<>>
        BY <2>1 DEF ContextOnce
      <4>2. q # b
        <5>1. q = b => session[q].owner = t
          BY <1>1, <1>2, <1>11 DEF FramesFollow, StackOwned
        <5>. QED
          BY <4>1, <5>1
      <4>. QED
        BY <1>7, <1>11, <4>1, <4>2
    <3>. QED
      BY <1>3, <1>7, <1>11, <2>1, <3>1 DEF ContextOnce
  <2>3. EventsFollow(q)'
    <3>1. Live(q)' = Live(q) /\ session'[q].events = session[q].events
      BY <1>3, <1>7, <1>11 DEF Live
    <3>. QED
      BY <1>3, <1>11, <2>1, <3>1, EventsKept
  <2>4. PhasesHeld(q)'
    BY <1>3, <1>11, <2>1, PhasesKept
  <2>5. Published(q)'
    BY <1>3, <1>7, <1>11, <2>1 DEF Published
  <2>. QED
    BY <2>2, <2>3, <2>4, <2>5
<1>12. ASSUME NEW q \in Profiler PROVE FramesFollow(q)'
  <2>1. Starts(q)' = Starts(q) /\ \A A : Nearest(q, A)' = Nearest(q, A)
    BY <1>3 DEF Starts, RecordedBy, Nearest
  <2>2. StackOwned(q) /\ (Follows(q) => FramesNearest(q))
    BY <1>1, <1>12 DEF FramesFollow
  <2>3. StackOwned(q)'
    BY <1>6, <1>7, <1>12, <2>1, <2>2 DEF StackOwned
  <2>4. ASSUME Follows(q)' PROVE FramesNearest(q)'
    <3>0. PICK u, L, F : u = session[q].owner /\ L = Len(stack[u]) /\ F = Len(session[q].frames)
      OBVIOUS
    <3>1. /\ Follows(q) /\ u \in OpThread /\ L \in Nat /\ F \in Nat /\ session[q].frames \in Seq(Nat)
          /\ activeProfiler[u] = q
      <4>1. Follows(q) /\ session[q] \in SessionType
        BY <1>1, <1>7, <1>12, <2>4 DEF Follows
      <4>2. activeProfiler[u] = q /\ u # Unset
        BY <1>1, <1>12, <3>0, <4>1 DEF ContextOnce, Follows
      <4>3. u \in OpThread /\ session[q].frames \in Seq(Nat)
        BY <3>0, <4>1, <4>2 DEF SessionType
      <4>4. L \in Nat /\ F \in Nat
        BY <1>1, <3>0, <4>3, LenProperties
      <4>. QED
        BY <4>1, <4>2, <4>3, <4>4
    <3>2. /\ Base(q) = L - F /\ L - F >= 0
          /\ \A n \in 1 .. L : stack[u][n].by = q <=> n > L - F
          /\ \A n \in 1 .. F : /\ session[q].frames[n] \in 0 .. Len(session[q].events)
                               /\ StartOf(q, session[q].frames[n]) = Nearest(q, Around(u, L - F + n))
      BY <2>2, <3>0, <3>1 DEF FramesNearest, Base
    <3>3. \A n : StartOf(q, n)' = StartOf(q, n)
      BY <1>7, <1>12 DEF StartOf
    <3>4. session'[q].owner = u /\ session'[q].events = session[q].events
      BY <1>7, <1>12, <3>0
    <3>5. CASE u # t
      <4>1. q # b
        <5>1. q = b => u = t
          BY <1>2, <1>12, <2>2, <3>0 DEF StackOwned
        <5>. QED
          BY <3>5, <5>1
      <4>2. session'[q] = session[q] /\ stack'[u] = stack[u]
        BY <1>5, <1>7, <1>12, <3>1, <3>5, <4>1
      <4>3. Base(q)' = Base(q) /\ \A n : Around(u, n)' = Around(u, n)
        BY <3>0, <4>2 DEF Base, Around
      <4>. QED
        BY <2>1, <2>2, <3>0, <3>1, <3>3, <4>2, <4>3 DEF FramesNearest
    <3>6. CASE u = t
      <4>1. L = N /\ L > 0 /\ Len(stack'[u]) = L - 1
        BY <1>2, <1>4, <1>5, <3>0, <3>6
      <4>2. \A n \in 0 .. L - 1 : Around(u, n)' = Around(u, n)
        <5> SUFFICES ASSUME NEW n \in 0 .. L - 1 PROVE Around(u, n)' = Around(u, n)
          OBVIOUS
        <5>1. \A i \in 1 .. n : stack'[u][i] = stack[u][i]
          BY <1>4, <1>5, <3>1, <3>6, <4>1
        <5>. QED
          BY <3>4, <5>1 DEF Around
      <4>3. \A n \in 1 .. L - 1 : stack'[u][n] = stack[u][n] /\ n \in 1 .. L
        BY <1>4, <1>5, <3>1, <3>6, <4>1
      <4>4. CASE q = b
        <5>1. L > L - F
          BY <1>2, <3>1, <3>2, <3>6, <4>1, <4>4
        <5>2. F > 0 /\ session[q].frames # <<>>
          <6>1. F > 0
            BY <3>1, <5>1
          <6>. QED
            BY <3>0, <3>1, <6>1, EmptySeq
        <5>3. /\ Len(session'[q].frames) = F - 1
              /\ \A n \in 1 .. F - 1 : session'[q].frames[n] = session[q].frames[n]
          <6>1. session'[q].frames = Without(session[q].frames)
            BY <1>7, <1>12, <4>4
          <6>. QED
            BY <3>0, <3>1, <5>2, <6>1, WithoutLast
        <5>4. Base(q)' = L - F
          BY <3>1, <3>4, <4>1, <5>3 DEF Base
        <5>5. \A n \in 1 .. L - 1 : stack'[u][n].by = q <=> n > L - F
          BY <3>2, <4>3
        <5>6. ASSUME NEW n \in 1 .. F - 1
              PROVE /\ session'[q].frames[n] \in 0 .. Len(session[q].events)
                    /\ session'[q].frames[n] = session[q].frames[n]
                    /\ StartOf(q, session[q].frames[n]) = Nearest(q, Around(u, L - F + n))
                    /\ Around(u, L - F + n)' = Around(u, L - F + n)
          <6>1. n \in 1 .. F
            BY <3>1
          <6>2. L - F + n \in 0 .. L - 1
            BY <3>1, <3>2
          <6>. QED
            BY <3>2, <4>2, <5>3, <6>1, <6>2
        <5>. QED
          BY <2>1, <3>1, <3>2, <3>3, <3>4, <4>1, <5>3, <5>4, <5>5, <5>6 DEF FramesNearest
      <4>5. CASE q # b
        <5>1. ~(L > L - F)
          BY <1>2, <3>1, <3>2, <3>6, <4>1, <4>5
        <5>2. F = 0 /\ Len(session'[q].frames) = 0
          <6>1. F = 0
            BY <3>1, <5>1
          <6>2. session'[q] = session[q]
            BY <1>7, <1>12, <4>5
          <6>. QED
            BY <3>0, <6>1, <6>2
        <5>3. Base(q)' = L - 1
          BY <3>1, <3>4, <4>1, <5>2 DEF Base
        <5>4. \A n \in 1 .. L - 1 : stack'[u][n].by # q /\ ~(n > L - 1)
          BY <3>1, <3>2, <4>3, <5>2
        <5>. QED
          BY <3>1, <3>4, <4>1, <5>2, <5>3, <5>4 DEF FramesNearest
      <4>. QED
        BY <4>4, <4>5
    <3>. QED
      BY <3>5, <3>6
  <2>. QED
    BY <2>3, <2>4 DEF FramesFollow
<1>. QED
  BY <1>8, <1>9, <1>10, <1>11, <1>12 DEF ProfilerInv

(* An operation is followed when its thread has a context that goes on.    *)
LEMMA InsideOnly ==
    ASSUME ProfilerInv, NEW t \in OpThread
    PROVE /\ \A q \in Inside(t) : activeProfiler[t] = q /\ Follows(q)
          /\ \A q \in Profiler : activeProfiler[t] = q /\ ~session[q].abandoned =>
                Inside(t) = {q} /\ Follows(q) /\ session[q].owner = t
<1>1. \A q \in Profiler : ContextOnce(q)
  BY DEF ProfilerInv
<1>2. ASSUME NEW q \in Inside(t) PROVE activeProfiler[t] = q /\ Follows(q)
  BY <1>1, <1>2 DEF Inside, ContextOnce, Follows
<1>3. ASSUME NEW q \in Profiler, activeProfiler[t] = q, ~session[q].abandoned
      PROVE Inside(t) = {q} /\ Follows(q) /\ session[q].owner = t
  <2>1. session[q].active /\ session[q].owner = t
    BY <1>3, ProfilerAssumption DEF ProfilerInv, SessionsOwned
  <2>2. q \in Inside(t)
    BY <1>1, <1>3, <2>1 DEF Inside, ContextOnce
  <2>3. Inside(t) \subseteq {q}
    BY <1>2, <1>3
  <2>. QED
    BY <1>3, <2>1, <2>2, <2>3 DEF Follows
<1>. QED
  BY <1>2, <1>3

SurroundedBy(t) == {stack[t][n].start : n \in 1 .. Len(stack[t])}
Begun(t, kind, p) == [start |-> now, kind |-> kind, inside |-> {p}, around |-> SurroundedBy(t)]
Under(p) == IF session[p].frames = <<>> THEN 0 ELSE session[p].frames[Len(session[p].frames)]

FollowedStep(t, kind, p) ==
    /\ session' = [session EXCEPT ![p] =
           IF kind \in Selects[p]
           THEN [session[p] EXCEPT !.events = Append(session[p].events, [start |-> now, parent |-> Under(p)]),
                                   !.frames = Append(session[p].frames, Len(session[p].events) + 1)]
           ELSE [session[p] EXCEPT !.frames = Append(session[p].frames, Under(p))]]
    /\ stack' = [stack EXCEPT ![t] = Append(stack[t], [start |-> now, by |-> p])]
    /\ ran' = ran \union {Begun(t, kind, p)}
    /\ now' = now + 1
    /\ UNCHANGED <<profiler, activeProfiler, current, moves>>

LEMMA BeginFollowed ==
    ASSUME ProfilerInv, NEW t \in OpThread, NEW kind \in OpKind, BeginOperation(t, kind),
           NEW p \in Profiler, activeProfiler[t] = p, ~session[p].abandoned
    PROVE FollowedStep(t, kind, p)
<1> USE ProfilerAssumption
<1>1. /\ session \in [Profiler -> SessionType] /\ p # Unset /\ session[p] \in SessionType
      /\ stack \in [OpThread -> Seq([start : Nat, by : Profiler \union {Unset}])]
  BY DEF ProfilerInv, ProfilerShape
<1>2. ~Recovers(t)
  BY <1>1 DEF Recovers
<1>3. RecoveredSessions(t) = session /\ RecoveredActive(t) = activeProfiler
  BY <1>2 DEF RecoveredSessions, RecoveredActive
<1>4. Inside(t) = {p}
  BY InsideOnly
<1> DEFINE under == IF session[p].frames = <<>> THEN 0 ELSE Innermost(session[p].frames)
<1>5. under = Under(p)
  BY DEF Under, Innermost
<1>6. /\ session' = IF kind \in Selects[p]
                    THEN [session EXCEPT ![p].events = Append(@, [start |-> now, parent |-> under]),
                                         ![p].frames = Append(@, Len(session[p].events) + 1)]
                    ELSE [session EXCEPT ![p].frames = Append(@, under)]
      /\ stack' = [stack EXCEPT ![t] = Append(@, [start |-> now, by |-> p])]
      /\ ran' = ran \union {[start |-> now, kind |-> kind, inside |-> Inside(t), around |-> SurroundedBy(t)]}
      /\ now' = now + 1
      /\ activeProfiler' = activeProfiler /\ UNCHANGED <<profiler, current, moves>>
  BY <1>1, <1>3, <1>4, Zenon DEF BeginOperation, SurroundedBy
<1> HIDE DEF under
<1>7. session' = [session EXCEPT ![p] =
                 IF kind \in Selects[p]
                 THEN [session[p] EXCEPT !.events = Append(session[p].events, [start |-> now, parent |-> Under(p)]),
                                         !.frames = Append(session[p].frames, Len(session[p].events) + 1)]
                 ELSE [session[p] EXCEPT !.frames = Append(session[p].frames, Under(p))]]
  <2>1. CASE kind \in Selects[p]
    BY <1>1, <1>5, <1>6, <2>1
  <2>2. CASE kind \notin Selects[p]
    BY <1>1, <1>5, <1>6, <2>2
  <2>. QED
    BY <2>1, <2>2
<1>. QED
  BY <1>1, <1>4, <1>6, <1>7 DEF Begun, FollowedStep

LEMMA BeginUnfollowed ==
    ASSUME ProfilerInv, NEW t \in OpThread, NEW kind \in OpKind, BeginOperation(t, kind),
           ~ \E p \in Profiler : activeProfiler[t] = p /\ ~session[p].abandoned
    PROVE /\ session' = RecoveredSessions(t) /\ activeProfiler' = RecoveredActive(t)
          /\ stack' = [stack EXCEPT ![t] = Append(stack[t], [start |-> 0, by |-> Unset])]
          /\ UNCHANGED <<profiler, current, moves, ran, now>>
<1> USE ProfilerAssumption
<1>1. activeProfiler \in [OpThread -> Profiler \union {Unset}]
      /\ stack \in [OpThread -> Seq([start : Nat, by : Profiler \union {Unset}])]
  BY DEF ProfilerInv, ProfilerShape
<1>2. Inside(t) = {}
  <2>1. \A q \in Inside(t) : q \in Profiler /\ activeProfiler[t] = q /\ ~session[q].abandoned
    BY InsideOnly DEF Follows, Inside
  <2>. QED
    BY <2>1
<1>3. RecoveredActive(t)[t] # Unset => RecoveredSessions(t)[RecoveredActive(t)[t]].abandoned
  <2>1. RecoveredActive(t)[t] # Unset => RecoveredActive(t)[t] = activeProfiler[t] /\ RecoveredSessions(t) = session
    BY Recovery
  <2>2. activeProfiler[t] # Unset => activeProfiler[t] \in Profiler
    BY <1>1
  <2>. QED
    BY <2>1, <2>2
<1> DEFINE S == RecoveredSessions(t)
           p == RecoveredActive(t)[t]
           follows == p # Unset /\ ~S[p].abandoned
<1>4. ~follows
  BY <1>3
<1>5. ~(follows \/ Inside(t) # {})
  BY <1>2, <1>4
<1>6. /\ session' = S /\ activeProfiler' = RecoveredActive(t)
      /\ stack' = [stack EXCEPT ![t] = Append(@, [start |-> 0, by |-> Unset])]
      /\ ran' = ran /\ now' = now /\ UNCHANGED <<profiler, current, moves>>
  BY <1>4, <1>5, Zenon DEF BeginOperation
<1>. QED
  BY <1>1, <1>6

LEMMA OperationUnfollowed ==
    ASSUME ProfilerInv, NEW t \in OpThread, NEW kind \in OpKind, BeginOperation(t, kind),
           ~ \E p \in Profiler : activeProfiler[t] = p /\ ~session[p].abandoned
    PROVE ProfilerInv'
<1> USE ProfilerAssumption
<1> DEFINE S == RecoveredSessions(t)
           A == RecoveredActive(t)
           Frame == [start : Nat, by : Profiler \union {Unset}]
           N == Len(stack[t])
           top == [start |-> 0, by |-> Unset]
<1>1. /\ S \in [Profiler -> SessionType] /\ A \in [OpThread -> Profiler \union {Unset}]
      /\ \A u \in OpThread \ {t} : A[u] = activeProfiler[u]
      /\ A[t] # Unset => A[t] = activeProfiler[t] /\ S = session
      /\ \A q \in Profiler :
            /\ S[q].owner = session[q].owner /\ S[q].abandoned = session[q].abandoned
            /\ S[q].frames = session[q].frames
            /\ \/ S[q] = session[q]
               \/ activeProfiler[t] = q /\ session[q].active /\ session[q].abandoned /\ ~S[q].active
            /\ A[t] = Unset /\ activeProfiler[t] = q => ~S[q].active
  BY Recovery
<1>2. /\ session' = S /\ activeProfiler' = A
      /\ stack' = [stack EXCEPT ![t] = Append(stack[t], top)]
      /\ UNCHANGED <<profiler, current, moves, ran, now>>
  BY BeginUnfollowed
<1> HIDE DEF S, A
<1>3. /\ ProfilerShape /\ SessionsOwned /\ TimesUnique
      /\ \A q \in Profiler : ContextOnce(q) /\ EventsFollow(q) /\ FramesFollow(q) /\ PhasesHeld(q) /\ Published(q)
      /\ session \in [Profiler -> SessionType] /\ stack \in [OpThread -> Seq(Frame)]
      /\ activeProfiler \in [OpThread -> Profiler \union {Unset}]
  BY DEF ProfilerInv, ProfilerShape
<1>4. /\ Append(stack[t], top) \in Seq(Frame) /\ Len(Append(stack[t], top)) = N + 1 /\ N \in Nat
      /\ \A n \in 1 .. N : Append(stack[t], top)[n] = stack[t][n]
      /\ Append(stack[t], top)[N + 1] = top
  <2>1. stack[t] \in Seq(Frame) /\ top \in Frame
    BY <1>3
  <2> HIDE DEF Frame, top
  <2>. QED
    BY <2>1, AppendProperties, LenProperties
<1>5. /\ stack' \in [OpThread -> Seq(Frame)] /\ stack'[t] = Append(stack[t], top)
      /\ \A u \in OpThread \ {t} : stack'[u] = stack[u]
  <2> HIDE DEF Frame, top
  <2>. QED
    BY <1>2, <1>3, <1>4
<1>6. \A u \in OpThread : \A n \in 1 .. Len(stack'[u]) :
          \/ n \in 1 .. Len(stack[u]) /\ stack'[u][n] = stack[u][n]
          \/ u = t /\ stack'[u][n] = top
  <2> SUFFICES ASSUME NEW u \in OpThread, NEW n \in 1 .. Len(stack'[u])
               PROVE \/ n \in 1 .. Len(stack[u]) /\ stack'[u][n] = stack[u][n]
                     \/ u = t /\ stack'[u][n] = top
    OBVIOUS
  <2> HIDE DEF Frame, top
  <2>1. CASE u # t
    BY <1>5, <2>1
  <2>2. CASE u = t
    <3>1. n \in 1 .. N + 1
      BY <1>4, <1>5, <2>2
    <3>2. n \in 1 .. N \/ n = N + 1
      BY <1>4, <3>1
    <3>. QED
      BY <1>4, <1>5, <2>2, <3>2
  <2>. QED
    BY <2>1, <2>2
<1>7. ProfilerShape'
  <2>1. session' \in [Profiler -> SessionType] /\ activeProfiler' \in [OpThread -> Profiler \union {Unset}]
    BY <1>1, <1>2
  <2>. QED
    BY <1>2, <1>3, <1>5, <2>1 DEF ProfilerShape
<1>8. TimesUnique'
  <2>1. RanUnique'
    <3>1. 0 < now
      BY <1>3 DEF ProfilerShape
    <3>2. \A u \in OpThread : \A n \in 1 .. Len(stack'[u]) : stack'[u][n].start < now
      <4> HIDE DEF Frame, N
      <4>1. top.start < now
        BY <3>1
      <4> HIDE DEF top
      <4>2. \A u \in OpThread : \A n \in 1 .. Len(stack[u]) : stack[u][n].start < now
        BY <1>3 DEF TimesUnique, RanUnique
      <4>. QED
        BY <1>6, <4>1, <4>2
    <3>. QED
      BY <1>2, <1>3, <3>2 DEF TimesUnique, RanUnique
  <2>2. MovePhases' /\ MovesUnique' /\ MovesApart'
    BY <1>2, <1>3 DEF TimesUnique, MovePhases, MovesUnique, MovesApart
  <2>. QED
    BY <2>1, <2>2 DEF TimesUnique
<1> HIDE DEF Frame, top, N
<1>9. SessionsOwned'
  <2> SUFFICES ASSUME NEW u \in OpThread, A[u] # Unset
               PROVE session'[A[u]].active /\ session'[A[u]].owner = u
    BY <1>2 DEF SessionsOwned
  <2>1. A[u] = activeProfiler[u] /\ A[u] \in Profiler /\ session[A[u]].active /\ session[A[u]].owner = u
    BY <1>1, <1>3 DEF SessionsOwned
  <2>2. CASE u = t
    BY <1>1, <1>2, <2>1, <2>2
  <2>3. CASE u # t
    <3>1. activeProfiler[t] # A[u]
      <4>1. activeProfiler[t] = A[u] => session[A[u]].owner = t
        BY <1>3, <2>1 DEF SessionsOwned
      <4>. QED
        BY <2>1, <2>3, <4>1
    <3>2. session'[A[u]] = session[A[u]]
      BY <1>1, <1>2, <2>1, <3>1
    <3>. QED
      BY <2>1, <3>2
  <2>. QED
    BY <2>2, <2>3
<1>10. ASSUME NEW q \in Profiler
       PROVE (ContextOnce(q) /\ EventsFollow(q) /\ FramesFollow(q) /\ PhasesHeld(q) /\ Published(q))'
  <2>1. /\ ContextOnce(q) /\ EventsFollow(q) /\ FramesFollow(q) /\ PhasesHeld(q) /\ Published(q)
        /\ session[q] \in SessionType
    BY <1>3, <1>10
  <2>2. /\ session'[q].owner = session[q].owner /\ session'[q].abandoned = session[q].abandoned
        /\ \/ session'[q] = session[q]
           \/ activeProfiler[t] = q /\ session[q].active /\ session[q].abandoned /\ ~session'[q].active
    BY <1>1, <1>2, <1>10
  <2>3. session'[q].active => session'[q] = session[q] /\ activeProfiler'[session[q].owner] = q
    <3> SUFFICES ASSUME session'[q].active
                 PROVE session'[q] = session[q] /\ activeProfiler'[session[q].owner] = q
      OBVIOUS
    <3>1. session'[q] = session[q] /\ session[q].active /\ activeProfiler[session[q].owner] = q
          /\ session[q].owner \in OpThread
      BY <2>1, <2>2 DEF ContextOnce, SessionType
    <3>2. CASE session[q].owner # t
      BY <1>1, <1>2, <3>1, <3>2
    <3>3. CASE session[q].owner = t
      <4>1. A[t] # Unset
        BY <1>1, <1>2, <1>10, <3>1, <3>3
      <4>. QED
        BY <1>1, <1>2, <3>1, <3>3, <4>1
    <3>. QED
      BY <3>1, <3>2, <3>3
  <2>4. ContextOnce(q)'
    <3>1. ~profiler[q].entered => session'[q] = session[q]
      BY <2>1, <2>2 DEF ContextOnce
    <3>. QED
      BY <1>2, <2>1, <2>2, <2>3, <3>1 DEF ContextOnce
  <2>5. /\ Live(q)' \/ ~profiler[q].entered => session'[q] = session[q]
        /\ Live(q)' => Live(q)
        /\ profiler[q].completed => session'[q] = session[q]
        /\ Follows(q)' => Follows(q) /\ session'[q] = session[q] /\ session[q].owner # t
    <3>1. Live(q)' \/ ~profiler[q].entered \/ profiler[q].completed => session'[q] = session[q]
      BY <1>2, <2>1, <2>2, <2>3 DEF ContextOnce, Live
    <3>2. Live(q)' => Live(q)
      BY <1>2, <2>2, <2>3 DEF Live
    <3>3. ASSUME Follows(q)' PROVE Follows(q) /\ session'[q] = session[q] /\ session[q].owner # t
      <4>1. Follows(q) /\ session'[q] = session[q]
        BY <2>2, <2>3, <3>3 DEF Follows
      <4>2. activeProfiler[session[q].owner] = q /\ ~session[q].abandoned
        BY <2>1, <4>1 DEF ContextOnce, Follows
      <4>. QED
        BY <1>10, <4>1, <4>2
    <3>. QED
      BY <3>1, <3>2, <3>3
  <2>6. EventsFollow(q)'
    <3>1. CASE session'[q] = session[q]
      BY <1>2, <1>10, <2>1, <2>5, <3>1, EventsKept
    <3>2. CASE session'[q] # session[q]
      BY <1>2, <2>5, <3>2 DEF EventsFollow
    <3>. QED
      BY <3>1, <3>2
  <2>7. FramesFollow(q)'
    <3>1. Starts(q)' = Starts(q) /\ \A B : Nearest(q, B)' = Nearest(q, B)
      BY <1>2 DEF Starts, RecordedBy, Nearest
    <3>2. top.start \notin Starts(q) /\ top.by # q
      <4>1. \A o \in ran : o.start # 0
        BY <1>3 DEF ProfilerShape
      <4>. QED
        BY <1>10, <4>1 DEF top, Starts, RecordedBy
    <3>3. StackOwned(q)'
      BY <1>6, <2>1, <2>2, <3>1, <3>2 DEF FramesFollow, StackOwned
    <3>4. ASSUME Follows(q)' PROVE FramesNearest(q)'
      <4>1. Follows(q) /\ session'[q] = session[q] /\ session[q].owner # t /\ FramesNearest(q)
        BY <2>1, <2>5, <3>4 DEF FramesFollow
      <4>2. session[q].owner \in OpThread
        BY <2>1, <4>1 DEF ContextOnce, Follows, SessionType
      <4>3. stack'[session[q].owner] = stack[session[q].owner]
        BY <1>5, <4>1, <4>2
      <4>4. Base(q)' = Base(q) /\ \A n : Around(session[q].owner, n)' = Around(session[q].owner, n)
        BY <4>1, <4>3 DEF Base, Around
      <4>5. \A n : StartOf(q, n)' = StartOf(q, n)
        BY <4>1 DEF StartOf
      <4>. QED
        BY <3>1, <4>1, <4>3, <4>4, <4>5 DEF FramesNearest
    <3>. QED
      BY <3>3, <3>4 DEF FramesFollow
  <2>8. PhasesHeld(q)'
    BY <1>2, <1>10, <2>1, PhasesKept
  <2>9. Published(q)'
    BY <1>2, <2>1, <2>5 DEF Published
  <2>. QED
    BY <2>4, <2>6, <2>7, <2>8, <2>9
<1>. QED
  BY <1>7, <1>8, <1>9, <1>10 DEF ProfilerInv

LEMMA OperationFollowed ==
    ASSUME ProfilerInv, NEW t \in OpThread, NEW kind \in OpKind, BeginOperation(t, kind),
           NEW p \in Profiler, activeProfiler[t] = p, ~session[p].abandoned
    PROVE ProfilerInv'
<1> USE ProfilerAssumption
<1>0. PICK o, s, e, under, E, F, N, now0 :
         /\ o = Begun(t, kind, p) /\ s = session[p] /\ under = Under(p) /\ now0 = now
         /\ e = [start |-> now, parent |-> under] /\ E = Len(session[p].events)
         /\ F = Len(session[p].frames) /\ N = Len(stack[t])
  OBVIOUS
<1> DEFINE Frame == [start : Nat, by : Profiler \union {Unset}]
           Event == [start : Nat, parent : Nat]
           sel == kind \in Selects[p]
           top == [start |-> now0, by |-> p]
           new == IF sel THEN [s EXCEPT !.events = Append(s.events, e), !.frames = Append(s.frames, E + 1)]
                  ELSE [s EXCEPT !.frames = Append(s.frames, under)]
<1>1. /\ ProfilerShape /\ SessionsOwned /\ TimesUnique
      /\ \A q \in Profiler : ContextOnce(q) /\ EventsFollow(q) /\ FramesFollow(q) /\ PhasesHeld(q) /\ Published(q)
      /\ session \in [Profiler -> SessionType] /\ stack \in [OpThread -> Seq(Frame)]
      /\ activeProfiler \in [OpThread -> Profiler \union {Unset}] /\ now0 \in Nat \ {0}
      /\ s \in SessionType /\ stack[t] \in Seq(Frame) /\ s = session[p]
      /\ s.events \in Seq(Event) /\ s.frames \in Seq(Nat)
  BY <1>0 DEF ProfilerInv, ProfilerShape, SessionType
<1>2. /\ session' = [session EXCEPT ![p] = new]
      /\ stack' = [stack EXCEPT ![t] = Append(stack[t], top)]
      /\ ran' = ran \union {o} /\ now' = now0 + 1 /\ now = now0
      /\ UNCHANGED <<profiler, activeProfiler, current, moves>>
  <2>1. /\ session' = [session EXCEPT ![p] =
                 IF kind \in Selects[p]
                 THEN [session[p] EXCEPT !.events = Append(session[p].events, [start |-> now, parent |-> Under(p)]),
                                         !.frames = Append(session[p].frames, Len(session[p].events) + 1)]
                 ELSE [session[p] EXCEPT !.frames = Append(session[p].frames, Under(p))]]
        /\ stack' = [stack EXCEPT ![t] = Append(stack[t], [start |-> now, by |-> p])]
        /\ ran' = ran \union {Begun(t, kind, p)}
        /\ now' = now + 1
        /\ UNCHANGED <<profiler, activeProfiler, current, moves>>
    <3>1. FollowedStep(t, kind, p)
      BY BeginFollowed
    <3>. QED
      BY <3>1, Zenon DEF FollowedStep
  <2>2. new = IF kind \in Selects[p]
              THEN [session[p] EXCEPT !.events = Append(session[p].events, [start |-> now, parent |-> Under(p)]),
                                      !.frames = Append(session[p].frames, Len(session[p].events) + 1)]
              ELSE [session[p] EXCEPT !.frames = Append(session[p].frames, Under(p))]
    BY <1>0
  <2>3. top = [start |-> now, by |-> p]
    BY <1>0
  <2> HIDE DEF new, top
  <2>. QED
    BY <1>0, <2>1, <2>2, <2>3
<1>3. /\ o.start = now0 /\ o.kind = kind /\ o.inside = {p} /\ o.around = SurroundedBy(t)
  BY <1>0 DEF Begun
<1>4. E \in Nat /\ F \in Nat /\ N \in Nat /\ E = Len(s.events) /\ F = Len(s.frames) /\ N = Len(stack[t])
  BY <1>0, <1>1, LenProperties
<1>a. E \in Nat /\ F \in Nat /\ N \in Nat
  BY <1>4
<1>5. /\ Follows(p) /\ s.owner = t /\ s.active /\ profiler[p].active
  BY <1>0, <1>1, InsideOnly DEF Follows, ContextOnce
(* What surrounds the operation.                                           *)
<1>6. /\ \A u \in OpThread : \A n \in 1 .. Len(stack[u]) : stack[u][n].start \in Nat /\ stack[u][n].start < now0
      /\ \A a \in ran : a.start \in Nat /\ a.start < now0 /\ \A r \in a.around : r \in Nat /\ r < a.start
  <2>1. \A u \in OpThread : \A n \in 1 .. Len(stack[u]) : stack[u][n] \in Frame
    <3> HIDE DEF Frame
    <3>. QED
      BY <1>1, ElementOfSeq
  <2>2. \A a \in ran : a.start \in Nat /\ a.around \subseteq Nat
    BY <1>1 DEF ProfilerShape
  <2>. QED
    BY <1>1, <1>2, <2>1, <2>2 DEF TimesUnique, RanUnique
<1>7. \A u \in OpThread : \A n \in 0 .. Len(stack[u]) : now0 \notin Around(u, n)
  <2> SUFFICES ASSUME NEW u \in OpThread, NEW n \in 0 .. Len(stack[u]), NEW i \in 1 .. n
               PROVE stack[u][i].start # now0
    BY DEF Around
  <2>1. i \in 1 .. Len(stack[u])
    BY <1>1, LenProperties
  <2>2. stack[u][i].start \in Nat /\ stack[u][i].start < now0
    BY <1>6, <2>1
  <2>. QED
    BY <1>1, <2>2
<1>8. /\ \A q \in Profiler \ {p} : RecordedBy(q)' = RecordedBy(q) /\ Starts(q)' = Starts(q)
      /\ RecordedBy(p)' = RecordedBy(p) \union (IF sel THEN {o} ELSE {})
      /\ Starts(p)' = Starts(p) \union (IF sel THEN {now0} ELSE {})
      /\ \A q \in Profiler : now0 \notin Starts(q) /\ \A r \in Starts(q) : r \in Nat /\ r < now0 /\ r # 0
  <2>1. \A q \in Profiler : RecordedBy(q)' = RecordedBy(q) \union (IF q = p /\ sel THEN {o} ELSE {})
    BY <1>2, <1>3 DEF RecordedBy
  <2>2. \A q \in Profiler : Starts(q)' = Starts(q) \union (IF q = p /\ sel THEN {now0} ELSE {})
    BY <1>3, <2>1 DEF Starts
  <2>3. \A q \in Profiler : \A r \in Starts(q) : r \in Nat /\ r < now0 /\ r # 0
    <3>1. \A a \in ran : a.start # 0
      BY <1>1 DEF ProfilerShape
    <3>. QED
      BY <1>6, <3>1 DEF Starts, RecordedBy
  <2>4. \A q \in Profiler : now0 \notin Starts(q)
    <3>1. now0 \in Nat
      BY <1>1
    <3>. QED
      BY <2>3, <3>1
  <2>. QED
    BY <2>1, <2>2, <2>3, <2>4
<1>9. \A q \in Profiler : \A A : now0 \notin A => Nearest(q, A)' = Nearest(q, A)
  <2> SUFFICES ASSUME NEW q \in Profiler, NEW A, now0 \notin A PROVE Nearest(q, A)' = Nearest(q, A)
    OBVIOUS
  <2>1. \A r \in A : r \in Starts(q)' <=> r \in Starts(q)
    BY <1>8
  <2>. QED
    BY <2>1, NearestKept
<1>10. /\ under \in 0 .. E
       /\ StartOf(p, under) = Nearest(p, SurroundedBy(t))
       /\ N - F >= 0 /\ Base(p) = N - F
       /\ \A n \in 1 .. N : stack[t][n].by = p <=> n > N - F
       /\ \A n \in 1 .. F : /\ s.frames[n] \in 0 .. E
                            /\ StartOf(p, s.frames[n]) = Nearest(p, Around(t, N - F + n))
  <2>1. FramesNearest(p) /\ StackOwned(p)
    BY <1>1, <1>5 DEF FramesFollow
  <2>2. /\ N - F >= 0 /\ Base(p) = N - F
        /\ \A n \in 1 .. N : stack[t][n].by = p <=> n > N - F
        /\ \A n \in 1 .. F : /\ s.frames[n] \in 0 .. E
                             /\ StartOf(p, s.frames[n]) = Nearest(p, Around(t, N - F + n))
    BY <1>0, <1>4, <1>5, <2>1 DEF FramesNearest, Base
  <2>3. SurroundedBy(t) = Around(t, N)
    BY <1>4 DEF SurroundedBy, Around
  <2>4. CASE F = 0
    <3>1. under = 0 /\ StartOf(p, under) = 0
      BY <1>0, <1>1, <1>4, <2>4, EmptySeq DEF Under, StartOf
    <3>2. \A n \in 1 .. N : stack[t][n].start \notin Starts(p)
      BY <1>4, <2>1, <2>2, <2>4 DEF StackOwned
    <3>3. SurroundedBy(t) \subseteq Nat /\ \A r \in SurroundedBy(t) : r \notin Starts(p)
      BY <1>4, <1>6, <3>2 DEF SurroundedBy
    <3>4. Nearest(p, SurroundedBy(t)) = 0
      BY <3>3, NearestIs
    <3>5. under \in 0 .. E
      BY <1>a, <3>1
    <3>. QED
      BY <2>2, <3>1, <3>4, <3>5
  <2>5. CASE F # 0
    <3>1. session[p].frames # <<>> /\ under = s.frames[F]
      BY <1>0, <1>1, <1>4, <2>5, EmptySeq DEF Under
    <3>2. F \in 1 .. F /\ N - F + F = N
      BY <1>4, <2>5
    <3>. QED
      BY <2>2, <2>3, <3>1, <3>2
  <2>. QED
    BY <2>4, <2>5
(* The new state.                                                          *)
<1>11. /\ Append(stack[t], top) \in Seq(Frame) /\ Len(Append(stack[t], top)) = N + 1
       /\ \A n \in 1 .. N : Append(stack[t], top)[n] = stack[t][n]
       /\ Append(stack[t], top)[N + 1] = top
  <2>1. stack[t] \in Seq(Frame) /\ top \in Frame
    BY <1>1
  <2> HIDE DEF Frame, top
  <2>. QED
    BY <1>4, <2>1, AppendProperties
<1>12. /\ stack' \in [OpThread -> Seq(Frame)] /\ stack'[t] = Append(stack[t], top)
       /\ \A u \in OpThread \ {t} : stack'[u] = stack[u]
  <2> HIDE DEF Frame, top
  <2>. QED
    BY <1>1, <1>2, <1>11
<1>13. \A u \in OpThread : \A n \in 1 .. Len(stack'[u]) :
          \/ n \in 1 .. Len(stack[u]) /\ stack'[u][n] = stack[u][n]
          \/ u = t /\ n = N + 1 /\ stack'[u][n] = top
  <2> SUFFICES ASSUME NEW u \in OpThread, NEW n \in 1 .. Len(stack'[u])
               PROVE \/ n \in 1 .. Len(stack[u]) /\ stack'[u][n] = stack[u][n]
                     \/ u = t /\ n = N + 1 /\ stack'[u][n] = top
    OBVIOUS
  <2> HIDE DEF Frame, top
  <2>1. CASE u # t
    BY <1>12, <2>1
  <2>2. CASE u = t
    <3>1. n \in 1 .. N + 1
      BY <1>11, <1>12, <2>2
    <3>2. n \in 1 .. N \/ n = N + 1
      BY <1>4, <3>1
    <3>. QED
      BY <1>4, <1>11, <1>12, <2>2, <3>2
  <2>. QED
    BY <2>1, <2>2
<1>14. /\ Append(s.events, e) \in Seq(Event) /\ Len(Append(s.events, e)) = E + 1
       /\ \A n \in 1 .. E : Append(s.events, e)[n] = s.events[n]
       /\ Append(s.events, e)[E + 1] = e
  <2>1. s.events \in Seq(Event) /\ e \in Event
    BY <1>0, <1>1, <1>4, <1>10
  <2> HIDE DEF Event
  <2>. QED
    BY <1>4, <2>1, AppendProperties
<1>15. \A f \in Nat : /\ Append(s.frames, f) \in Seq(Nat) /\ Len(Append(s.frames, f)) = F + 1
                      /\ \A n \in 1 .. F : Append(s.frames, f)[n] = s.frames[n]
                      /\ Append(s.frames, f)[F + 1] = f
  BY <1>1, <1>4, AppendProperties
<1>16. under \in Nat /\ E + 1 \in Nat
  BY <1>4, <1>10
<1>17. /\ new \in SessionType /\ new.owner = t /\ new.active /\ new.abandoned = s.abandoned
       /\ sel => new.events = Append(s.events, e) /\ new.frames = Append(s.frames, E + 1)
       /\ ~sel => new.events = s.events /\ new.frames = Append(s.frames, under)
  <2>1. /\ Append(s.events, e) \in Seq([start : Nat, parent : Nat])
        /\ Append(s.frames, E + 1) \in Seq(Nat) /\ Append(s.frames, under) \in Seq(Nat)
    BY <1>14, <1>15, <1>16
  <2> DEFINE es == Append(s.events, e)
             fs == Append(s.frames, E + 1)
             gs == Append(s.frames, under)
  <2>2. es \in Seq([start : Nat, parent : Nat]) /\ fs \in Seq(Nat) /\ gs \in Seq(Nat)
    BY <2>1
  <2>3. new = IF sel THEN [s EXCEPT !.events = es, !.frames = fs] ELSE [s EXCEPT !.frames = gs]
    OBVIOUS
  <2> HIDE DEF es, fs, gs, new, sel
  <2>4. CASE sel
    BY <1>1, <1>5, <2>2, <2>3, <2>4 DEF SessionType, es, fs
  <2>5. CASE ~sel
    BY <1>1, <1>5, <2>2, <2>3, <2>5 DEF SessionType, gs
  <2>. QED
    BY <2>4, <2>5
<1> HIDE DEF new, top, Frame, Event
<1>18. /\ session'[p] = new /\ \A q \in Profiler \ {p} : session'[q] = session[q]
       /\ session' \in [Profiler -> SessionType]
  BY <1>1, <1>2, <1>17
<1>19. top.start = now0 /\ top.by = p
  BY DEF top
<1>20. \A q \in Profiler \ {p} : Follows(q) => session[q].owner # t
  <2>1. \A q \in Profiler : Follows(q) => activeProfiler[session[q].owner] = q
    BY <1>1 DEF ContextOnce, Follows
  <2>. QED
    BY <2>1
<1>21. ProfilerShape'
  <2>1. o \in [start : Nat \ {0}, kind : OpKind, inside : SUBSET Profiler, around : SUBSET Nat]
    <3>1. SurroundedBy(t) \in SUBSET Nat
      BY <1>4, <1>6 DEF SurroundedBy
    <3>. QED
      BY <1>0, <1>1, <3>1 DEF Begun
  <2>2. now' \in Nat \ {0}
    BY <1>1, <1>2
  <2>3. ran' \subseteq [start : Nat \ {0}, kind : OpKind, inside : SUBSET Profiler, around : SUBSET Nat]
    BY <1>1, <1>2, <2>1 DEF ProfilerShape
  <2>. QED
    BY <1>1, <1>2, <1>12, <1>18, <2>2, <2>3 DEF ProfilerShape, Frame
<1>22. SessionsOwned'
  <2> SUFFICES ASSUME NEW u \in OpThread, activeProfiler[u] # Unset
               PROVE session'[activeProfiler[u]].active /\ session'[activeProfiler[u]].owner = u
    BY <1>2 DEF SessionsOwned
  <2>1. activeProfiler[u] \in Profiler /\ session[activeProfiler[u]].active /\ session[activeProfiler[u]].owner = u
    BY <1>1 DEF SessionsOwned
  <2>2. CASE activeProfiler[u] = p
    BY <1>1, <1>5, <1>17, <1>18, <2>1, <2>2
  <2>3. CASE activeProfiler[u] # p
    BY <1>18, <2>1, <2>3
  <2>. QED
    BY <2>2, <2>3
<1>23. TimesUnique'
  <2>1. RanUnique'
    <3>1. \A a \in ran' : a.start < now' /\ \A r \in a.around : r < a.start
      <4>1. \A r \in o.around : r < now0
        BY <1>3, <1>4, <1>6 DEF SurroundedBy
      <4>2. now0 < now'
        BY <1>1, <1>2
      <4>3. \A a \in ran : a.start < now' /\ \A r \in a.around : r < a.start
        BY <1>1, <1>2, <1>6
      <4>. QED
        BY <1>2, <1>3, <4>1, <4>2, <4>3
    <3>2. \A a, b \in ran' : a.start = b.start => a = b
      <4>1. \A a \in ran : a.start # now0
        BY <1>1, <1>6
      <4>2. \A a, b \in ran : a.start = b.start => a = b
        BY <1>1 DEF TimesUnique, RanUnique
      <4>. QED
        BY <1>2, <1>3, <4>1, <4>2
    <3>3. \A u \in OpThread : \A n \in 1 .. Len(stack'[u]) : stack'[u][n].start < now'
      <4>1. \A u \in OpThread : \A n \in 1 .. Len(stack[u]) : stack[u][n].start < now'
        BY <1>1, <1>2, <1>6
      <4>2. now0 < now'
        BY <1>1, <1>2
      <4>. QED
        BY <1>13, <1>19, <4>1, <4>2
    <3>. QED
      BY <3>1, <3>2, <3>3 DEF RanUnique
  <2>2. \A m \in MoveRequest : moves[m].start \in Nat /\ moves[m].start < now0
                               /\ moves[m].submitted \in Nat /\ moves[m].submitted < now0
    BY <1>1, <1>2 DEF TimesUnique, MovePhases, ProfilerShape, MoveType
  <2>3. MovePhases'
    <3>1. \A m \in MoveRequest : moves[m].start < now' /\ moves[m].submitted < now'
      BY <1>1, <1>2, <2>2
    <3>2. MovePhases /\ moves' = moves
      BY <1>1, <1>2 DEF TimesUnique
    <3>. QED
      BY <3>1, <3>2 DEF MovePhases
  <2>4. MovesUnique'
    BY <1>1, <1>2 DEF TimesUnique, MovesUnique
  <2>5. MovesApart'
    <3>1. \A m \in MoveRequest : now0 # moves[m].start /\ now0 # moves[m].submitted
      BY <1>1, <2>2
    <3>2. MovesApart /\ moves' = moves
      BY <1>1, <1>2 DEF TimesUnique
    <3>. QED
      BY <1>2, <1>3, <3>1, <3>2 DEF MovesApart
  <2>. QED
    BY <2>1, <2>3, <2>4, <2>5 DEF TimesUnique
<1>24. ASSUME NEW q \in Profiler PROVE PhasesHeld(q)'
  BY <1>1, <1>2, <1>24, PhasesKept
<1>25. ASSUME NEW q \in Profiler PROVE StackOwned(q)'
  <2>1. session'[q].owner = session[q].owner
    BY <1>5, <1>17, <1>18, <1>25, <1>1
  <2>2. StackOwned(q)
    BY <1>1, <1>25 DEF FramesFollow
  <2>3. \A u \in OpThread : \A n \in 1 .. Len(stack[u]) : stack[u][n].start # now0
    BY <1>1, <1>6
  <2>4. \A u \in OpThread : \A n \in 1 .. Len(stack[u]) :
           stack[u][n].start \in Starts(q)' => stack[u][n].start \in Starts(q)
    BY <1>8, <1>25, <2>3
  <2>5. now0 \in Starts(q)' => q = p
    BY <1>8, <1>25
  <2>6. session'[p].owner = t
    BY <1>17, <1>18
  <2>. QED
    BY <1>13, <1>19, <2>1, <2>2, <2>4, <2>5, <2>6 DEF StackOwned
<1>26. ASSUME NEW q \in Profiler, q # p
       PROVE (ContextOnce(q) /\ EventsFollow(q) /\ FramesFollow(q) /\ Published(q))'
  <2>1. /\ ContextOnce(q) /\ EventsFollow(q) /\ FramesFollow(q) /\ Published(q)
        /\ session'[q] = session[q] /\ session[q] \in SessionType
    BY <1>1, <1>18, <1>26
  <2>2. ContextOnce(q)' /\ Published(q)'
    BY <1>2, <2>1 DEF ContextOnce, Published
  <2>3. EventsFollow(q)'
    <3>1. Live(q)' = Live(q)
      BY <1>2, <2>1 DEF Live
    <3>. QED
      BY <1>2, <1>8, <1>26, <2>1, <3>1, EventsSame
  <2>4. ASSUME Follows(q)' PROVE FramesNearest(q)'
    <3>1. Follows(q) /\ FramesNearest(q) /\ session[q].owner # t
      BY <1>20, <1>26, <2>1, <2>4 DEF Follows, FramesFollow
    <3>0. PICK u : u = session[q].owner
      OBVIOUS
    <3>2. u \in OpThread /\ u # t
      BY <2>1, <3>0, <3>1 DEF ContextOnce, Follows, SessionType
    <3>3. stack'[u] = stack[u] /\ session'[q].owner = u
      BY <1>12, <2>1, <3>0, <3>2
    <3>4. Base(q)' = Base(q) /\ \A n : Around(u, n)' = Around(u, n)
      BY <2>1, <3>0, <3>3 DEF Base, Around
    <3>5. \A n : StartOf(q, n)' = StartOf(q, n)
      BY <2>1 DEF StartOf
    <3>6. /\ Base(q) >= 0 /\ Base(q) = Len(stack[u]) - Len(session[q].frames)
          /\ \A n \in 1 .. Len(stack[u]) : stack[u][n].by = q <=> n > Base(q)
          /\ \A n \in 1 .. Len(session[q].frames) :
                /\ session[q].frames[n] \in 0 .. Len(session[q].events)
                /\ StartOf(q, session[q].frames[n]) = Nearest(q, Around(u, Base(q) + n))
      BY <3>0, <3>1 DEF FramesNearest, Base
    <3>7. \A n \in 1 .. Len(session[q].frames) :
              Nearest(q, Around(u, Base(q) + n))' = Nearest(q, Around(u, Base(q) + n))
      <4> SUFFICES ASSUME NEW n \in 1 .. Len(session[q].frames)
                   PROVE Nearest(q, Around(u, Base(q) + n))' = Nearest(q, Around(u, Base(q) + n))
        OBVIOUS
      <4>1. Starts(q)' = Starts(q) /\ RecordedBy(q)' = RecordedBy(q)
        BY <1>8, <1>26
      <4>2. \A A : Nearest(q, A)' = Nearest(q, A)
        BY <4>1 DEF Nearest
      <4>. QED
        BY <3>4, <4>2
    <3>. QED
      BY <2>1, <3>3, <3>4, <3>5, <3>6, <3>7 DEF FramesNearest
  <2>5. FramesFollow(q)'
    BY <1>25, <1>26, <2>4 DEF FramesFollow
  <2>. QED
    BY <2>2, <2>3, <2>5
<1>27. ContextOnce(p)' /\ Published(p)'
  <2>1. ContextOnce(p) /\ profiler[p].entered /\ ~profiler[p].stopping /\ ~profiler[p].completed
    BY <1>0, <1>1, <1>5 DEF ContextOnce
  <2>2. ContextOnce(p)'
    BY <1>1, <1>2, <1>5, <1>17, <1>18, <2>1 DEF ContextOnce
  <2>3. Published(p)'
    BY <1>2, <2>1 DEF Published
  <2>. QED
    BY <2>2, <2>3
<1>28. \A n \in 0 .. E : StartOf(p, n)' = StartOf(p, n)
  <2> SUFFICES ASSUME NEW n \in 0 .. E PROVE StartOf(p, n)' = StartOf(p, n)
    OBVIOUS
  <2>1. n # 0 => session'[p].events[n] = session[p].events[n]
    <3> SUFFICES ASSUME n # 0 PROVE session'[p].events[n] = s.events[n]
      BY <1>1
    <3>1. n \in 1 .. E
      BY <1>a
    <3>2. sel => session'[p].events = Append(s.events, e)
      BY <1>17, <1>18
    <3>3. ~sel => session'[p].events = s.events
      BY <1>17, <1>18
    <3>. QED
      BY <1>14, <3>1, <3>2, <3>3
  <2>. QED
    BY <2>1 DEF StartOf
<1>29. EventsFollow(p)'
  <2>1. /\ {s.events[n].start : n \in 1 .. E} = Starts(p)
        /\ \A n \in 1 .. E :
              /\ s.events[n].parent \in 0 .. n - 1
              /\ \A i \in 1 .. n - 1 : s.events[i].start < s.events[n].start
              /\ \A a \in RecordedBy(p) : a.start = s.events[n].start =>
                    StartOf(p, s.events[n].parent) = Nearest(p, a.around)
    <3>1. EventsFollow(p) /\ Live(p)
      BY <1>1, <1>5 DEF Live
    <3>2. /\ {session[p].events[n].start : n \in 1 .. Len(session[p].events)} = Starts(p)
          /\ \A n \in 1 .. Len(session[p].events) :
              /\ session[p].events[n].parent \in 0 .. n - 1
              /\ \A i \in 1 .. n - 1 : session[p].events[i].start < session[p].events[n].start
              /\ \A a \in RecordedBy(p) : a.start = session[p].events[n].start =>
                    StartOf(p, session[p].events[n].parent) = Nearest(p, a.around)
      BY <3>1, Zenon DEF EventsFollow
    <3>3. s = session[p] /\ E = Len(session[p].events)
      BY <1>0
    <3>. QED
      BY <3>2, <3>3
  <2>2. \A n \in 1 .. E : s.events[n].start \in Nat /\ s.events[n].start < now0
    BY <1>8, <2>1
  <2>3. \A a \in ran : Nearest(p, a.around)' = Nearest(p, a.around)
    <3>1. \A a \in ran : now0 \notin a.around
      BY <1>1, <1>6
    <3>. QED
      BY <1>9, <3>1
  <2>4. RecordedBy(p) \subseteq ran
    BY DEF RecordedBy
  <2>5. CASE ~sel
    <3>1. session'[p].events = s.events /\ RecordedBy(p)' = RecordedBy(p) /\ Starts(p)' = Starts(p)
      BY <1>8, <1>17, <1>18, <2>5
    <3>2. \A n \in 1 .. E : StartOf(p, s.events[n].parent)' = StartOf(p, s.events[n].parent)
      <4>1. \A n \in 1 .. E : s.events[n].parent \in 0 .. E
        BY <1>4, <2>1
      <4>. QED
        BY <1>0, <1>28, <3>1, <4>1 DEF StartOf
    <3>3. Live(p)' = Live(p) /\ profiler' = profiler
      BY <1>1, <1>2, <1>5, <1>17, <1>18 DEF Live
    <3>. QED
      BY <1>0, <1>1, <1>5, <3>1, <3>3, EventsSame
  <2>6. CASE sel
    <3> DEFINE es == Append(s.events, e)
    <3>1. session'[p].events = es /\ RecordedBy(p)' = RecordedBy(p) \union {o} /\ Starts(p)' = Starts(p) \union {now0}
      BY <1>8, <1>17, <1>18, <2>6
    <3>2. /\ Len(es) = E + 1 /\ es[E + 1] = e /\ \A n \in 1 .. E : es[n] = s.events[n]
          /\ e.start = now0 /\ e.parent = under
      BY <1>0, <1>14
    <3> HIDE DEF es, sel
    <3>3. {es[n].start : n \in 1 .. Len(es)} = Starts(p)'
      <4>1. 1 .. Len(es) = (1 .. E) \union {E + 1}
        BY <1>4, <3>2
      <4>2. {es[n].start : n \in 1 .. E} = {s.events[n].start : n \in 1 .. E}
        BY <3>2
      <4>3. {es[n].start : n \in (1 .. E) \union {E + 1}} = {es[n].start : n \in 1 .. E} \union {es[E + 1].start}
        OBVIOUS
      <4>. QED
        BY <2>1, <3>1, <3>2, <4>1, <4>2, <4>3
    <3>4. ASSUME NEW n \in 1 .. Len(es)
          PROVE /\ es[n].parent \in 0 .. n - 1
                /\ \A i \in 1 .. n - 1 : es[i].start < es[n].start
                /\ \A a \in RecordedBy(p)' : a.start = es[n].start =>
                      StartOf(p, es[n].parent) = Nearest(p, a.around)
                /\ \A a \in RecordedBy(p)' : Nearest(p, a.around)' = Nearest(p, a.around)
                /\ es[n].parent \in 0 .. E
      <4>0. \A a \in RecordedBy(p)' : Nearest(p, a.around)' = Nearest(p, a.around)
        <5>1. now0 \notin o.around
          <6>1. \A r \in o.around : r \in Nat /\ r < now0
            BY <1>3, <1>4, <1>6 DEF SurroundedBy
          <6>. QED
            BY <1>1, <6>1
        <5>2. Nearest(p, o.around)' = Nearest(p, o.around)
          BY <1>9, <5>1
        <5>. QED
          BY <2>3, <2>4, <3>1, <5>2
      <4>1. CASE n \in 1 .. E
        <5>1. es[n] = s.events[n] /\ es[n].start # now0
          BY <1>1, <2>2, <3>2, <4>1
        <5>2. \A i \in 1 .. n - 1 : i \in 1 .. E /\ es[i] = s.events[i]
          BY <1>4, <3>2, <4>1
        <5>3. \A a \in RecordedBy(p)' : a.start = es[n].start => a \in RecordedBy(p)
          BY <1>3, <3>1, <5>1
        <5>4. es[n].parent \in 0 .. n - 1 /\ es[n].parent \in 0 .. E
          BY <1>4, <2>1, <4>1, <5>1
        <5>5. \A i \in 1 .. n - 1 : es[i].start < es[n].start
          BY <2>1, <4>1, <5>1, <5>2
        <5>6. \A a \in RecordedBy(p)' : a.start = es[n].start => StartOf(p, es[n].parent) = Nearest(p, a.around)
          BY <2>1, <4>1, <5>1, <5>3
        <5>. QED
          BY <4>0, <5>4, <5>5, <5>6
      <4>2. CASE n = E + 1
        <5>1. es[n] = e
          BY <3>2, <4>2
        <5>2. \A i \in 1 .. n - 1 : es[i].start < now0
          BY <1>4, <2>2, <3>2, <4>2
        <5>3. \A a \in RecordedBy(p)' : a.start = now0 => a = o
          <6>1. \A a \in RecordedBy(p) : a.start # now0
            BY <1>1, <1>6, <2>4
          <6>. QED
            BY <3>1, <6>1
        <5>4. e.parent \in 0 .. n - 1 /\ e.parent \in 0 .. E
          BY <1>4, <1>10, <3>2, <4>2
        <5>5. \A a \in RecordedBy(p)' : a.start = now0 => StartOf(p, e.parent) = Nearest(p, a.around)
          BY <1>3, <1>10, <3>2, <5>3
        <5>. QED
          BY <3>2, <4>0, <5>1, <5>2, <5>4, <5>5
      <4>3. n \in 1 .. E \/ n = E + 1
        BY <1>4, <3>2
      <4>. QED
        BY <4>1, <4>2, <4>3
    <3>5. \A n \in 1 .. Len(es) : StartOf(p, session[p].events[n].parent)' = StartOf(p, es[n].parent)
      BY <1>28, <3>1, <3>4
    <3>. QED
      BY <3>1, <3>3, <3>4, <3>5 DEF EventsFollow
  <2>. QED
    BY <2>5, <2>6
<1>31. Base(p)' = N - F
  <2>1. Len(stack'[t]) = N + 1
    BY <1>11, <1>12
  <2>2. session'[p].owner = t
    BY <1>17, <1>18
  <2>3. Len(session'[p].frames) = F + 1
    <3>1. CASE sel
      BY <1>15, <1>16, <1>17, <1>18, <3>1
    <3>2. CASE ~sel
      BY <1>15, <1>16, <1>17, <1>18, <3>2
    <3>. QED
      BY <3>1, <3>2
  <2>4. PICK a, b : a = N + 1 /\ b = F + 1
    OBVIOUS
  <2>5. Len(stack'[session'[p].owner]) = a /\ Len(session'[p].frames) = b
    BY <2>1, <2>2, <2>3, <2>4
  <2>6. Base(p)' = a - b
    BY <2>5 DEF Base
  <2>. QED
    BY <1>a, <2>4, <2>6
<1>30. FramesFollow(p)'
  <2> DEFINE f == IF sel THEN E + 1 ELSE under
             fs == Append(s.frames, f)
             es == session'[p].events
  <2>1. session'[p].frames = fs /\ session'[p].owner = t /\ f \in Nat
    BY <1>16, <1>17, <1>18
  <2>2. Len(fs) = F + 1 /\ fs[F + 1] = f /\ \A n \in 1 .. F : fs[n] = s.frames[n]
    BY <1>15, <2>1
  <2>3. Len(es) \in Nat /\ E <= Len(es) /\ f \in 0 .. Len(es)
    BY <1>4, <1>10, <1>14, <1>16, <1>17, <1>18
  <2>5. \A n \in 1 .. N + 1 : stack'[t][n].by = p <=> n > N - F
    <3> SUFFICES ASSUME NEW n \in 1 .. N + 1 PROVE stack'[t][n].by = p <=> n > N - F
      OBVIOUS
    <3>1. CASE n \in 1 .. N
      BY <1>10, <1>11, <1>12, <3>1
    <3>2. CASE n = N + 1
      <4>1. N + 1 > N - F
        BY <1>a
      <4>. QED
        BY <1>11, <1>12, <1>19, <3>2, <4>1
    <3>3. n \in 1 .. N \/ n = N + 1
      BY <1>a
    <3>. QED
      BY <3>1, <3>2, <3>3
  <2>6. \A n \in 0 .. N : Around(t, n)' = Around(t, n) /\ now0 \notin Around(t, n)
    <3> SUFFICES ASSUME NEW n \in 0 .. N PROVE Around(t, n)' = Around(t, n) /\ now0 \notin Around(t, n)
      OBVIOUS
    <3>1. \A i \in 1 .. n : stack'[t][i] = stack[t][i]
      BY <1>4, <1>11, <1>12
    <3>2. now0 \notin Around(t, n)
      BY <1>4, <1>7
    <3>. QED
      BY <3>1, <3>2 DEF Around
  <2>7. ASSUME NEW n \in 1 .. F
        PROVE /\ fs[n] \in 0 .. Len(es) /\ fs[n] \in 0 .. E
              /\ StartOf(p, fs[n]) = Nearest(p, Around(t, N - F + n))
              /\ Nearest(p, Around(t, N - F + n))' = Nearest(p, Around(t, N - F + n))
    <3>1. N - F + n \in 0 .. N
      <4>1. N - F >= 0
        BY <1>10
      <4>. QED
        BY <1>a, <4>1
    <3>2. fs[n] \in 0 .. E /\ StartOf(p, fs[n]) = Nearest(p, Around(t, N - F + n))
      BY <1>10, <2>2
    <3>3. fs[n] \in 0 .. Len(es)
      BY <1>4, <2>3, <3>2
    <3>4. Nearest(p, Around(t, N - F + n))' = Nearest(p, Around(t, N - F + n))
      BY <1>9, <2>6, <3>1
    <3>. QED
      BY <3>2, <3>3, <3>4
  <2>8. StartOf(p, f)' = Nearest(p, Around(t, N + 1))'
    <3>0. PICK A : A = SurroundedBy(t)
      OBVIOUS
    <3>1. Around(t, N + 1)' = A \union {now0}
      <4>1. 1 .. N + 1 = (1 .. N) \union {N + 1}
        BY <1>4
      <4>2. \A i \in 1 .. N : stack'[t][i].start = stack[t][i].start
        BY <1>11, <1>12
      <4>3. stack'[t][N + 1].start = now0
        BY <1>11, <1>12, <1>19
      <4>4. A = {stack[t][i].start : i \in 1 .. N}
        BY <1>4, <3>0 DEF SurroundedBy
      <4>. QED
        BY <4>1, <4>2, <4>3, <4>4 DEF Around
    <3>2. A \subseteq Nat /\ \A r \in A : r < now0
      BY <1>4, <1>6, <3>0 DEF SurroundedBy
    <3>3. CASE sel
      <4> DEFINE S == {0} \union {r \in A \union {now0} : r \in Starts(p)'}
      <4>1. S \subseteq Nat /\ now0 \in S /\ \A r \in S : r <= now0
        <5>1. now0 \in Starts(p)'
          BY <1>8, <3>3
        <5>2. \A r \in A \union {now0} : r \in Nat /\ r <= now0
          BY <1>1, <3>2
        <5>. QED
          BY <1>1, <5>1, <5>2
      <4>2. (CHOOSE x \in S : \A r \in S : r <= x) = now0
        <5> HIDE DEF S
        <5>. QED
          BY <4>1, LastIs
      <4>3. Nearest(p, Around(t, N + 1))' = CHOOSE x \in S : \A r \in S : r <= x
        BY <3>1 DEF Nearest, Starts
      <4>4. StartOf(p, f)' = now0
        <5>1. f = E + 1 /\ f # 0 /\ session'[p].events[E + 1] = e /\ e.start = now0
          BY <1>0, <1>4, <1>14, <1>17, <1>18, <3>3
        <5>. QED
          BY <5>1 DEF StartOf
      <4>. QED
        BY <4>2, <4>3, <4>4
    <3>4. CASE ~sel
      <4>1. f = under /\ Starts(p)' = Starts(p) /\ now0 \notin Starts(p)
        BY <1>8, <3>4
      <4>2. {0} \union {r \in A \union {now0} : r \in Starts(p)'} = {0} \union {r \in A : r \in Starts(p)}
        BY <4>1
      <4>3. Nearest(p, Around(t, N + 1))' = Nearest(p, A)
        BY <3>1, <4>2 DEF Nearest, Starts
      <4>4. StartOf(p, f)' = StartOf(p, under)
        BY <1>10, <1>28, <4>1
      <4>. QED
        BY <1>10, <3>0, <4>3, <4>4
    <3>. QED
      BY <3>3, <3>4
  <2> HIDE DEF f, fs
  <2>9. ASSUME NEW n \in 1 .. F + 1
        PROVE /\ fs[n] \in 0 .. Len(es)
              /\ StartOf(p, session[p].frames[n])' = Nearest(p, Around(t, N - F + n))'
    <3>1. CASE n \in 1 .. F
      <4>1. StartOf(p, session[p].frames[n])' = StartOf(p, fs[n])
        BY <1>28, <2>1, <2>7, <3>1
      <4>. QED
        BY <2>7, <3>1, <4>1
    <3>2. CASE n = F + 1
      <4>1. N - F + n = N + 1
        BY <1>a, <3>2
      <4>2. session'[p].frames[n] = f
        BY <2>1, <2>2, <3>2
      <4>3. StartOf(p, session[p].frames[n])' = StartOf(p, f)'
        BY <4>2 DEF StartOf
      <4>. QED
        BY <2>2, <2>3, <2>8, <3>2, <4>1, <4>3
    <3>3. n \in 1 .. F \/ n = F + 1
      BY <1>a
    <3>. QED
      BY <3>1, <3>2, <3>3
  <2>10. FramesNearest(p)'
    <3>1. Len(stack'[t]) = N + 1
      BY <1>11, <1>12
    <3>. QED
      BY <1>10, <1>31, <2>1, <2>2, <2>5, <2>9, <3>1 DEF FramesNearest
  <2>. QED
    BY <1>25, <2>10 DEF FramesFollow
<1>. QED
  BY <1>21, <1>22, <1>23, <1>24, <1>26, <1>27, <1>29, <1>30 DEF ProfilerInv

LEMMA ProfilerStep == ProfilerInv /\ [ProfilerNext]_profilerVars => ProfilerInv'
<1> SUFFICES ASSUME ProfilerInv, [ProfilerNext]_profilerVars PROVE ProfilerInv'
  OBVIOUS
<1>1. CASE UNCHANGED profilerVars
  <2>1. UNCHANGED <<session, profiler, activeProfiler, current, stack, moves, now, ran>>
    BY <1>1 DEF profilerVars
  <2>2. /\ ProfilerShape /\ SessionsOwned /\ TimesUnique
        /\ \A p \in Profiler : ContextOnce(p) /\ EventsFollow(p) /\ FramesFollow(p) /\ PhasesHeld(p) /\ Published(p)
    BY DEF ProfilerInv
  <2>3. ProfilerShape' /\ SessionsOwned' /\ TimesUnique'
    BY <2>1, <2>2, TimesKept DEF ProfilerShape, SessionsOwned
  <2>4. ASSUME NEW p \in Profiler PROVE (ContextOnce(p) /\ Published(p))'
    BY <2>1, <2>2, <2>4 DEF ContextOnce, Published
  <2>5. ASSUME NEW p \in Profiler PROVE EventsFollow(p)'
    BY <2>1, <2>2, <2>5, EventsKept DEF Live
  <2>6. ASSUME NEW p \in Profiler PROVE FramesFollow(p)'
    BY <2>1, <2>2, <2>6, FramesKept DEF Follows
  <2>7. ASSUME NEW p \in Profiler PROVE PhasesHeld(p)'
    BY <2>1, <2>2, <2>7, PhasesKept
  <2>. QED
    BY <2>3, <2>4, <2>5, <2>6, <2>7 DEF ProfilerInv
<1>2. ASSUME NEW t \in OpThread, NEW p \in Profiler, EnterContext(t, p) \/ StopSession(t, p) PROVE ProfilerInv'
  BY <1>2, Entered, Stopped
<1>3. ASSUME NEW p \in Profiler, ExitElsewhere(p) \/ PublishEvents(p) PROVE ProfilerInv'
  BY <1>3, ExitedElsewhere, EventsPublished
<1>4. ASSUME NEW t \in OpThread, NEW kind \in OpKind, BeginOperation(t, kind) PROVE ProfilerInv'
  <2>1. CASE \E p \in Profiler : activeProfiler[t] = p /\ ~session[p].abandoned
    BY <1>4, <2>1, OperationFollowed
  <2>2. CASE ~ \E p \in Profiler : activeProfiler[t] = p /\ ~session[p].abandoned
    BY <1>4, <2>2, OperationUnfollowed
  <2>. QED
    BY <2>1, <2>2
<1>5. ASSUME NEW t \in OpThread, NEW kind \in OpKind, NEW m \in MoveRequest, BeginMove(t, m, kind) PROVE ProfilerInv'
  BY <1>5, MoveBegun
<1>6. ASSUME NEW t \in OpThread, EndOperation(t) PROVE ProfilerInv'
  BY <1>6, OperationEnded
<1>7. ASSUME NEW m \in MoveRequest, Submitted(m) \/ Completed(m) \/ FinishMove(m) PROVE ProfilerInv'
  BY <1>7, MoveSubmitted, MoveCompleted, MoveFinished
<1>. QED
  BY <1>1, <1>2, <1>3, <1>4, <1>5, <1>6, <1>7 DEF ProfilerNext

(* Events that stand at the places of their starts and name their parents  *)
(* by place are read back as the pairs they were made from.                *)
EventOf(all, x) == [place |-> PlaceIn(all, x[1]),
                    event |-> [start |-> x[1], parent |-> IF x[2] = 0 THEN 0 ELSE PlaceIn(all, x[2])]]
ReadAt(events, n) == CHOOSE e \in events : e.place = n
ReadStart(events, n) == IF n = 0 THEN 0 ELSE ReadAt(events, n).event.start

Firsts(pairs) == {x[1] : x \in pairs}
EventsOf(all, pairs) == {EventOf(all, x) : x \in pairs}
ReadPairs(events) == {<<e.event.start, ReadStart(events, e.event.parent)>> : e \in events}
Places(events) == {e.place : e \in events}

LEMMA ReadBack ==
    ASSUME NEW all \in SUBSET (Nat \ {0}), IsFiniteSet(all), NEW pairs \in SUBSET (Nat \X Nat),
           Firsts(pairs) = all, \A x, y \in pairs : x[1] = y[1] => x = y,
           \A x \in pairs : x[2] = 0 \/ x[2] \in all,
           NEW events, events = EventsOf(all, pairs)
    PROVE /\ ReadPairs(events) = pairs
          /\ Places(events) = 1 .. Cardinality(pairs)
          /\ \A e, f \in events : e.place < f.place => e.event.start < f.event.start
<1>0. {x[1] : x \in pairs} = all /\ events = {EventOf(all, x) : x \in pairs}
  BY DEF Firsts, EventsOf
<1> DEFINE P(s) == PlaceIn(all, s)
<1>1. /\ \A s \in all : P(s) \in 1 .. Cardinality(all) /\ P(s) \in Nat /\ P(s) # 0
      /\ \A r, s \in all : r < s => P(r) < P(s)
      /\ \A n \in 1 .. Cardinality(all) : \E s \in all : P(s) = n
  <2>1. all \in SUBSET Nat /\ Cardinality(all) \in Nat
    BY FS_CardinalityType
  <2>. QED
    BY <2>1, PlacesInOrder
<1>2. \A r, s \in all : P(r) < P(s) => r < s
  <2> SUFFICES ASSUME NEW r \in all, NEW s \in all, P(r) < P(s) PROVE r < s
    OBVIOUS
  <2>1. r \in Nat /\ s \in Nat /\ P(r) \in Nat /\ P(s) \in Nat
    BY <1>1
  <2>2. CASE s < r
    <3>1. P(s) < P(r)
      BY <1>1, <2>2
    <3> HIDE DEF P
    <3>. QED
      BY <2>1, <3>1
  <2>3. CASE r = s
    BY <2>1, <2>3
  <2>. QED
    BY <2>1, <2>2, <2>3
<1>3. \A r, s \in all : P(r) = P(s) => r = s
  <2> SUFFICES ASSUME NEW r \in all, NEW s \in all, r # s PROVE P(r) # P(s)
    OBVIOUS
  <2>1. r < s \/ s < r
    OBVIOUS
  <2>2. P(r) < P(s) \/ P(s) < P(r)
    BY <1>1, <2>1
  <2>3. P(r) \in Nat /\ P(s) \in Nat
    BY <1>1
  <2> HIDE DEF P
  <2>. QED
    BY <2>2, <2>3
<1>4. \A x \in pairs : x[1] \in all /\ x = <<x[1], x[2]>>
  BY <1>0
<1>5. \A x \in pairs : /\ EventOf(all, x) \in events /\ EventOf(all, x).place = P(x[1])
                       /\ EventOf(all, x).event.start = x[1]
                       /\ EventOf(all, x).event.parent = IF x[2] = 0 THEN 0 ELSE P(x[2])
  BY <1>0 DEF EventOf
<1> HIDE DEF P
<1>6. \A e \in events : \E x \in pairs : e = EventOf(all, x)
  BY <1>0
<1>7. ASSUME NEW x \in pairs PROVE ReadAt(events, P(x[1])) = EventOf(all, x)
  <2>1. \A e \in events : e.place = P(x[1]) => e = EventOf(all, x)
    <3> SUFFICES ASSUME NEW y \in pairs, EventOf(all, y).place = P(x[1]) PROVE EventOf(all, y) = EventOf(all, x)
      BY <1>6
    <3>1. y[1] = x[1]
      BY <1>3, <1>4, <1>5
    <3>. QED
      BY <3>1
  <2>2. EventOf(all, x) \in events /\ EventOf(all, x).place = P(x[1])
    BY <1>5
  <2>. QED
    BY <2>1, <2>2 DEF ReadAt
<1>8. ASSUME NEW x \in pairs PROVE ReadStart(events, EventOf(all, x).event.parent) = x[2]
  <2>1. CASE x[2] = 0
    BY <1>5, <2>1 DEF ReadStart
  <2>2. CASE x[2] # 0
    <3>1. PICK y \in pairs : y[1] = x[2]
      BY <1>0, <2>2
    <3>2. EventOf(all, x).event.parent = P(y[1]) /\ P(y[1]) # 0
      BY <1>1, <1>4, <1>5, <2>2, <3>1
    <3>3. ReadAt(events, P(y[1])).event.start = y[1]
      BY <1>5, <1>7
    <3>. QED
      BY <3>1, <3>2, <3>3 DEF ReadStart
  <2>. QED
    BY <2>1, <2>2
<1>9. {<<e.event.start, ReadStart(events, e.event.parent)>> : e \in events} = pairs
  <2> DEFINE Read(e) == <<e.event.start, ReadStart(events, e.event.parent)>>
  <2>1. \A x \in pairs : Read(EventOf(all, x)) = x
    BY <1>4, <1>5, <1>8
  <2> HIDE DEF Read
  <2>2. {Read(e) : e \in events} = pairs
    BY <1>5, <1>6, <2>1
  <2>. QED
    BY <2>2 DEF Read
<1>10. {e.place : e \in events} = 1 .. Cardinality(all)
  <2>1. \A e \in events : e.place \in 1 .. Cardinality(all)
    BY <1>1, <1>4, <1>5, <1>6
  <2>2. ASSUME NEW n \in 1 .. Cardinality(all) PROVE \E e \in events : e.place = n
    <3>1. PICK s \in all : P(s) = n
      BY <1>1
    <3>2. PICK x \in pairs : x[1] = s
      BY <1>0
    <3>. QED
      BY <1>5, <3>1, <3>2
  <2>. QED
    BY <2>1, <2>2
<1>11. Cardinality(pairs) = Cardinality(all)
  <2> DEFINE pairOf == [s \in all |-> CHOOSE x \in pairs : x[1] = s]
  <2>1. \A s \in all : pairOf[s] \in pairs /\ pairOf[s][1] = s
    <3> SUFFICES ASSUME NEW s \in all PROVE pairOf[s] \in pairs /\ pairOf[s][1] = s
      OBVIOUS
    <3>1. \E x \in pairs : x[1] = s
      BY <1>0
    <3>. QED
      BY <3>1
  <2> HIDE DEF pairOf
  <2>2. pairOf \in [all -> pairs]
    BY <2>1 DEF pairOf
  <2>3. \A r, s \in all : pairOf[r] = pairOf[s] => r = s
    BY <2>1
  <2>4. \A x \in pairs : \E s \in all : pairOf[s] = x
    BY <1>4, <2>1
  <2>5. pairOf \in Bijection(all, pairs)
    BY <2>2, <2>3, <2>4 DEF Bijection, Injection, Surjection, IsInjective
  <2>6. ExistsBijection(all, pairs)
    BY <2>5 DEF ExistsBijection
  <2>. QED
    BY <2>6, FS_Bijection
<1>12. \A e, f \in events : e.place < f.place => e.event.start < f.event.start
  BY <1>2, <1>4, <1>5, <1>6
<1>. QED
  BY <1>9, <1>10, <1>11, <1>12 DEF ReadPairs, Places


(* What a published profile is made of: one pair for each recorded         *)
(* operation and two for each move.                                        *)
MovePairs(p) == UNION {{<<moves[m].start, 0>>, <<moves[m].submitted, moves[m].start>>} : m \in SubmittedBy(p)}
RanPairs(p) == {<<o.start, Nearest(p, o.around)>> : o \in RecordedBy(p)}

LEMMA PairsUnique ==
    ASSUME ProfilerInv, NEW p \in Profiler
    PROVE /\ ExpectedEvents(p) = RanPairs(p) \union MovePairs(p)
          /\ \A x, y \in ExpectedEvents(p) : x[1] = y[1] => x = y
<1>1. ExpectedEvents(p) = RanPairs(p) \union MovePairs(p)
  BY Zenon DEF ExpectedEvents, RanPairs, MovePairs, SubmittedBy
<1>2. /\ \A a, b \in ran : a.start = b.start => a = b
      /\ \A o \in ran, m \in MoveRequest : o.start # moves[m].start /\ o.start # moves[m].submitted
      /\ \A m \in MoveRequest : moves[m].submitted > 0 => moves[m].start < moves[m].submitted
      /\ \A m \in MoveRequest : moves[m].start \in Nat /\ moves[m].submitted \in Nat
  BY DEF ProfilerInv, ProfilerShape, TimesUnique, RanUnique, MovePhases, MovesApart, MoveType
<1>3. \A m \in SubmittedBy(p) : /\ m \in MoveRequest /\ moves[m].submitted > 0 /\ moves[m].start > 0
                                /\ moves[m].start # moves[m].submitted
  <2> SUFFICES ASSUME NEW m \in SubmittedBy(p)
               PROVE /\ m \in MoveRequest /\ moves[m].submitted > 0 /\ moves[m].start > 0
                     /\ moves[m].start # moves[m].submitted
    OBVIOUS
  <2>1. m \in MoveRequest /\ moves[m].submitted > 0 /\ moves[m].by = p
    BY DEF SubmittedBy
  <2>2. moves[m].at = "idle" <=> moves[m].start = 0
    BY <2>1 DEF ProfilerInv, TimesUnique, MovePhases
  <2>3. moves[m].at = "idle" => moves[m].submitted = 0
    BY <2>1 DEF ProfilerInv, TimesUnique, MovePhases
  <2>. QED
    BY <1>2, <2>1, <2>2, <2>3
<1>4. \A k, m \in SubmittedBy(p) : k # m => /\ moves[k].start # moves[m].start /\ moves[k].start # moves[m].submitted
                                            /\ moves[k].submitted # moves[m].submitted
  BY <1>3 DEF ProfilerInv, TimesUnique, MovesUnique
<1>5. \A x \in RanPairs(p) : \E a \in RecordedBy(p) : a \in ran /\ x[1] = a.start /\ x = <<a.start, Nearest(p, a.around)>>
  BY DEF RanPairs, RecordedBy
<1>6. \A x \in MovePairs(p) : \E m \in SubmittedBy(p) :
         x = <<moves[m].start, 0>> \/ x = <<moves[m].submitted, moves[m].start>>
  BY DEF MovePairs
<1>7. \A x, y \in RanPairs(p) : x[1] = y[1] => x = y
  BY <1>2, <1>5
<1>8. \A x \in RanPairs(p), y \in MovePairs(p) : x[1] # y[1]
  BY <1>2, <1>3, <1>5, <1>6
<1>9. \A x, y \in MovePairs(p) : x[1] = y[1] => x = y
  <2> SUFFICES ASSUME NEW x \in MovePairs(p), NEW y \in MovePairs(p), x[1] = y[1] PROVE x = y
    OBVIOUS
  <2>1. PICK k \in SubmittedBy(p) : x = <<moves[k].start, 0>> \/ x = <<moves[k].submitted, moves[k].start>>
    BY <1>6
  <2>2. PICK m \in SubmittedBy(p) : y = <<moves[m].start, 0>> \/ y = <<moves[m].submitted, moves[m].start>>
    BY <1>6
  <2>3. k = m
    BY <1>4, <2>1, <2>2
  <2>. QED
    BY <1>3, <2>1, <2>2, <2>3
<1>. QED
  BY <1>1, <1>7, <1>8, <1>9

LEMMA NearestTyped ==
    ASSUME NEW p, NEW A \in SUBSET Nat, NEW z \in Nat, \A r \in A : r < z
    PROVE Nearest(p, A) = 0 \/ (Nearest(p, A) \in Starts(p) /\ Nearest(p, A) \in A)
<1> DEFINE S == {0} \union {r \in A : r \in Starts(p)}
<1>1. Nearest(p, A) = CHOOSE x \in S : \A r \in S : r <= x
  BY DEF Nearest, Starts
<1>2. S \in SUBSET Nat /\ 0 \in S /\ \A r \in S : r <= z
  <2>1. \A r \in A : r \in Nat /\ r <= z
    OBVIOUS
  <2>2. 0 \in Nat /\ 0 <= z
    OBVIOUS
  <2>3. \A r \in S : r = 0 \/ r \in A
    OBVIOUS
  <2>. QED
    BY <2>1, <2>2, <2>3
<1>3. \A r \in S : r = 0 \/ (r \in Starts(p) /\ r \in A)
  OBVIOUS
<1> HIDE DEF S
<1>4. \E x \in S : \A r \in S : r <= x
  BY <1>2, LargestIs
<1>. QED
  BY <1>1, <1>3, <1>4


LEMMA ProfileRead ==
    ASSUME ProfilerInv, NEW p \in Profiler, profiler[p].completed, profiler[p].pending = 0
    PROVE LET all == AllStarts(profiler[p].native, profiler[p].external)
          IN /\ all \in SUBSET (Nat \ {0}) /\ IsFiniteSet(all)
             /\ ExpectedEvents(p) \in SUBSET (Nat \X Nat)
             /\ Firsts(ExpectedEvents(p)) = all
             /\ \A x \in ExpectedEvents(p) : x[2] = 0 \/ x[2] \in all
             /\ profiler[p].events = EventsOf(all, ExpectedEvents(p))
<1> DEFINE native == profiler[p].native
           external == profiler[p].external
           all == AllStarts(native, external)
           L == Len(native)
(* What the invariant says of a profile that is published.                 *)
<1>1. /\ native = session[p].events /\ native \in Seq([start : Nat, parent : Nat]) /\ L \in Nat
      /\ profiler[p].events = Refreshed(native, external)
      /\ profiler[p].stopping
  <2>1. Published(p) /\ ContextOnce(p) /\ profiler[p] \in ProfilerType
    BY DEF ProfilerInv, ProfilerShape
  <2>2. native = session[p].events /\ profiler[p].events = Refreshed(native, external) /\ profiler[p].stopping
    BY <2>1 DEF Published, ContextOnce
  <2>3. native \in Seq([start : Nat, parent : Nat])
    BY <2>1 DEF ProfilerType
  <2>. QED
    BY <2>2, <2>3, LenProperties
<1>2. /\ {native[n].start : n \in 1 .. L} = Starts(p)
      /\ \A n \in 1 .. L : /\ native[n].parent \in 0 .. n - 1
                           /\ \A a \in RecordedBy(p) : a.start = native[n].start =>
                                 (IF native[n].parent = 0 THEN 0 ELSE native[native[n].parent].start)
                                    = Nearest(p, a.around)
  <2>1. EventsFollow(p) /\ Live(p)
    BY <1>1 DEF ProfilerInv, Live
  <2>2. /\ {session[p].events[n].start : n \in 1 .. Len(session[p].events)} = Starts(p)
        /\ \A n \in 1 .. Len(session[p].events) :
              /\ session[p].events[n].parent \in 0 .. n - 1
              /\ \A a \in RecordedBy(p) : a.start = session[p].events[n].start =>
                    (IF session[p].events[n].parent = 0 THEN 0
                     ELSE session[p].events[session[p].events[n].parent].start) = Nearest(p, a.around)
    BY <2>1, Zenon DEF EventsFollow, StartOf
  <2> HIDE DEF native
  <2>. QED
    BY <1>1, <2>2
<1>3. CompletedBy(p) = SubmittedBy(p)
  <2>1. PhasesHeld(p)
    BY DEF ProfilerInv
  <2>2. MovesPending(p) = {}
    BY <2>1, FS_EmptySet DEF PhasesHeld
  <2>3. \A m \in SubmittedBy(p) : moves[m].at # "submitted"
    BY <2>2 DEF SubmittedBy, MovesPending
  <2>. QED
    BY <2>3 DEF CompletedBy
<1>4. external = {[start |-> moves[m].start, parent |-> 0] : m \in SubmittedBy(p)}
                 \union {[start |-> moves[m].submitted, parent |-> moves[m].start] : m \in SubmittedBy(p)}
  BY <1>3 DEF ProfilerInv, PhasesHeld
<1>5. \A m \in SubmittedBy(p) : /\ moves[m].start \in Nat \ {0} /\ moves[m].submitted \in Nat \ {0}
                                /\ moves[m].start < now /\ moves[m].submitted < now
  <2> SUFFICES ASSUME NEW m \in SubmittedBy(p)
               PROVE /\ moves[m].start \in Nat \ {0} /\ moves[m].submitted \in Nat \ {0}
                     /\ moves[m].start < now /\ moves[m].submitted < now
    OBVIOUS
  <2>1. m \in MoveRequest /\ moves[m].submitted > 0
    BY DEF SubmittedBy
  <2>2. /\ moves[m].at = "idle" <=> moves[m].start = 0
        /\ moves[m].at = "idle" => moves[m].submitted = 0
        /\ moves[m].start < now /\ moves[m].submitted < now
    BY <2>1 DEF ProfilerInv, TimesUnique, MovePhases
  <2>3. moves[m].start \in Nat /\ moves[m].submitted \in Nat
    BY <2>1 DEF ProfilerInv, ProfilerShape, MoveType
  <2>. QED
    BY <2>1, <2>2, <2>3
<1>6. \A a \in RecordedBy(p) : /\ a.start \in Nat \ {0} /\ a.start < now
                               /\ a.around \in SUBSET Nat /\ \A r \in a.around : r < a.start
  BY DEF ProfilerInv, ProfilerShape, TimesUnique, RanUnique, RecordedBy
<1>7. now \in Nat
  BY DEF ProfilerInv, ProfilerShape
(* The starts: of the operations and of the moves.                         *)
<1> HIDE DEF native, external, all, L
<1>23. \A x \in external : \E m \in SubmittedBy(p) : \/ x = [start |-> moves[m].start, parent |-> 0]
                                                     \/ x = [start |-> moves[m].submitted, parent |-> moves[m].start]
  BY <1>4
<1>27. \A m \in SubmittedBy(p) : /\ [start |-> moves[m].start, parent |-> 0] \in external
                                 /\ [start |-> moves[m].submitted, parent |-> moves[m].start] \in external
  BY <1>4
<1>8. {x.start : x \in external} = {moves[m].start : m \in SubmittedBy(p)} \union {moves[m].submitted : m \in SubmittedBy(p)}
  <2> DEFINE begun == {moves[m].start : m \in SubmittedBy(p)}
             ended == {moves[m].submitted : m \in SubmittedBy(p)}
  <2>1. \A x \in external : x.start \in begun \/ x.start \in ended
    BY <1>23
  <2>2. \A r \in begun \union ended : \E x \in external : x.start = r
    BY <1>27
  <2> HIDE DEF begun, ended
  <2>3. {x.start : x \in external} = begun \union ended
    BY <2>1, <2>2
  <2>. QED
    BY <2>3 DEF begun, ended
<1>9. all = Starts(p) \union {moves[m].start : m \in SubmittedBy(p)} \union {moves[m].submitted : m \in SubmittedBy(p)}
  BY <1>2, <1>8 DEF AllStarts, all, L
<1>10. all \in SUBSET (Nat \ {0}) /\ IsFiniteSet(all)
  <2>1. \A r \in all : r \in Nat \ {0} /\ r < now
    BY <1>5, <1>6, <1>9 DEF Starts
  <2>2. all \in SUBSET Nat /\ \A r \in all : r <= now
    BY <1>7, <2>1
  <2>. QED
    BY <1>7, <2>1, <2>2, FS_BoundedSetOfNaturals
<1>11. ExpectedEvents(p) = RanPairs(p) \union MovePairs(p)
  BY PairsUnique
<1>12. \A a \in RecordedBy(p) : Nearest(p, a.around) = 0 \/ Nearest(p, a.around) \in all
  <2>1. \A a \in RecordedBy(p) : Nearest(p, a.around) = 0 \/ Nearest(p, a.around) \in Starts(p)
    BY <1>6, NearestTyped
  <2>. QED
    BY <1>9, <2>1
<1>13. \A x \in RanPairs(p) : \E a \in RecordedBy(p) : x = <<a.start, Nearest(p, a.around)>>
  BY DEF RanPairs
<1>14. \A x \in MovePairs(p) : \E m \in SubmittedBy(p) :
          x = <<moves[m].start, 0>> \/ x = <<moves[m].submitted, moves[m].start>>
  BY DEF MovePairs
<1>15. /\ \A a \in RecordedBy(p) : <<a.start, Nearest(p, a.around)>> \in RanPairs(p)
       /\ \A m \in SubmittedBy(p) : <<moves[m].start, 0>> \in MovePairs(p)
                                    /\ <<moves[m].submitted, moves[m].start>> \in MovePairs(p)
  BY DEF RanPairs, MovePairs
<1>16. \A x \in ExpectedEvents(p) : x \in Nat \X Nat /\ x[1] \in all /\ (x[2] = 0 \/ x[2] \in all)
  <2>1. \A x \in RanPairs(p) : x \in Nat \X Nat /\ x[1] \in all /\ (x[2] = 0 \/ x[2] \in all)
    BY <1>6, <1>9, <1>10, <1>12, <1>13 DEF Starts
  <2>2. \A x \in MovePairs(p) : x \in Nat \X Nat /\ x[1] \in all /\ (x[2] = 0 \/ x[2] \in all)
    BY <1>5, <1>9, <1>14
  <2>. QED
    BY <1>11, <2>1, <2>2
<1>17. Firsts(ExpectedEvents(p)) = all
  <2>1. ASSUME NEW r \in all PROVE \E x \in ExpectedEvents(p) : x[1] = r
    <3>1. CASE r \in Starts(p)
      <4>1. PICK a \in RecordedBy(p) : a.start = r
        BY <3>1 DEF Starts
      <4>2. PICK x : x = <<a.start, Nearest(p, a.around)>>
        OBVIOUS
      <4>3. x \in ExpectedEvents(p)
        BY <1>11, <1>15, <4>2
      <4>4. x[1] = r
        BY <4>1, <4>2
      <4>. QED
        BY <4>3, <4>4
    <3>2. CASE \E m \in SubmittedBy(p) : r = moves[m].start \/ r = moves[m].submitted
      <4>1. PICK m \in SubmittedBy(p) : r = moves[m].start \/ r = moves[m].submitted
        BY <3>2
      <4>2. PICK x, y : x = <<moves[m].start, 0>> /\ y = <<moves[m].submitted, moves[m].start>>
        OBVIOUS
      <4>3. x \in ExpectedEvents(p) /\ y \in ExpectedEvents(p)
        BY <1>11, <1>15, <4>2
      <4>4. x[1] = moves[m].start /\ y[1] = moves[m].submitted
        BY <4>2
      <4>. QED
        BY <4>1, <4>3, <4>4
    <3>. QED
      BY <1>9, <3>1, <3>2
  <2>. QED
    BY <1>16, <2>1 DEF Firsts
(* Each event stands for one pair.                                         *)
<1>18. profiler[p].events = {NativeEvent(all, native, n) : n \in 1 .. L} \union {ExternalEvent(all, x) : x \in external}
  BY <1>1, RefreshedIs DEF all, L
<1>19. \A n \in 1 .. L, a \in RecordedBy(p) : a.start = native[n].start =>
          NativeEvent(all, native, n) = EventOf(all, <<a.start, Nearest(p, a.around)>>)
  <2> SUFFICES ASSUME NEW n \in 1 .. L, NEW a \in RecordedBy(p), a.start = native[n].start
               PROVE NativeEvent(all, native, n) = EventOf(all, <<a.start, Nearest(p, a.around)>>)
    OBVIOUS
  <2>0. PICK near : near = Nearest(p, a.around)
    OBVIOUS
  <2>1. near = (IF native[n].parent = 0 THEN 0 ELSE native[native[n].parent].start)
    BY <1>2, <2>0
  <2>2. native[n].parent # 0 => native[native[n].parent].start # 0
    <3>1. ASSUME native[n].parent # 0 PROVE native[n].parent \in 1 .. L
      <4>1. PICK k : k = native[n].parent
        OBVIOUS
      <4>2. k \in 0 .. n - 1 /\ k # 0 /\ L \in Nat
        BY <1>1, <1>2, <3>1, <4>1
      <4>3. k \in 1 .. L
        BY <4>2
      <4>. QED
        BY <4>1, <4>3
    <3>2. \A i \in 1 .. L : native[i].start \in Starts(p)
      BY <1>2
    <3>3. \A r \in Starts(p) : r # 0
      BY <1>6 DEF Starts
    <3>. QED
      BY <3>1, <3>2, <3>3
  <2>3. ParentPlace(all, native, n) = IF near = 0 THEN 0 ELSE PlaceIn(all, near)
    BY <2>1, <2>2 DEF ParentPlace
  <2>4. <<a.start, near>>[1] = native[n].start /\ <<a.start, near>>[2] = near
    OBVIOUS
  <2>. QED
    BY <2>0, <2>3, <2>4 DEF NativeEvent, EventOf
<1>20. \A m \in SubmittedBy(p) :
          /\ ExternalEvent(all, [start |-> moves[m].start, parent |-> 0]) = EventOf(all, <<moves[m].start, 0>>)
          /\ ExternalEvent(all, [start |-> moves[m].submitted, parent |-> moves[m].start]) =
                EventOf(all, <<moves[m].submitted, moves[m].start>>)
  <2> SUFFICES ASSUME NEW m \in SubmittedBy(p)
               PROVE /\ ExternalEvent(all, [start |-> moves[m].start, parent |-> 0]) = EventOf(all, <<moves[m].start, 0>>)
                     /\ ExternalEvent(all, [start |-> moves[m].submitted, parent |-> moves[m].start]) =
                           EventOf(all, <<moves[m].submitted, moves[m].start>>)
    OBVIOUS
  <2>1. 0 \notin all /\ moves[m].start \in all /\ moves[m].start # 0
    BY <1>9, <1>10
  <2>. QED
    BY <2>1 DEF ExternalEvent, EventOf
<1>21. \A n \in 1 .. L : \E a \in RecordedBy(p) : a.start = native[n].start
  BY <1>2 DEF Starts
<1>22. \A a \in RecordedBy(p) : \E n \in 1 .. L : a.start = native[n].start
  BY <1>2 DEF Starts
<1>24. \A v \in profiler[p].events : \E x \in ExpectedEvents(p) : v = EventOf(all, x)
  <2>1. ASSUME NEW n \in 1 .. L PROVE \E x \in ExpectedEvents(p) : NativeEvent(all, native, n) = EventOf(all, x)
    BY <1>11, <1>15, <1>19, <1>21
  <2>2. ASSUME NEW x \in external PROVE \E y \in ExpectedEvents(p) : ExternalEvent(all, x) = EventOf(all, y)
    <3>1. PICK m \in SubmittedBy(p) : \/ x = [start |-> moves[m].start, parent |-> 0]
                                      \/ x = [start |-> moves[m].submitted, parent |-> moves[m].start]
      BY <1>23
    <3>. QED
      BY <1>11, <1>15, <1>20, <3>1
  <2>. QED
    BY <1>18, <2>1, <2>2
<1>25. \A x \in ExpectedEvents(p) : EventOf(all, x) \in profiler[p].events
  <2>1. ASSUME NEW x \in RanPairs(p) PROVE EventOf(all, x) \in profiler[p].events
    BY <1>13, <1>18, <1>19, <1>22
  <2>2. ASSUME NEW x \in MovePairs(p) PROVE EventOf(all, x) \in profiler[p].events
    <3>1. PICK m \in SubmittedBy(p) : x = <<moves[m].start, 0>> \/ x = <<moves[m].submitted, moves[m].start>>
      BY <1>14
    <3>2. [start |-> moves[m].start, parent |-> 0] \in external
          /\ [start |-> moves[m].submitted, parent |-> moves[m].start] \in external
      BY <1>27
    <3>. QED
      BY <1>18, <1>20, <3>1, <3>2
  <2>. QED
    BY <1>11, <2>1, <2>2
<1>26. profiler[p].events = EventsOf(all, ExpectedEvents(p))
  BY <1>24, <1>25 DEF EventsOf
<1>. QED
  BY <1>10, <1>16, <1>17, <1>26 DEF all, native, external

LEMMA ProfileHolds == ProfilerInv => ProfileExact
<1> SUFFICES ASSUME ProfilerInv, NEW p \in Profiler, profiler[p].completed, profiler[p].pending = 0
             PROVE /\ ReadPairs(profiler[p].events) = ExpectedEvents(p)
                   /\ Places(profiler[p].events) = 1 .. Cardinality(ExpectedEvents(p))
                   /\ \A e, f \in profiler[p].events : e.place < f.place => e.event.start < f.event.start
  BY Zenon DEF ProfileExact, ReadPairs, Places, ReadStart, ReadAt
<1>1. \A x, y \in ExpectedEvents(p) : x[1] = y[1] => x = y
  BY PairsUnique
<1> DEFINE all == AllStarts(profiler[p].native, profiler[p].external)
<1>2. /\ all \in SUBSET (Nat \ {0}) /\ IsFiniteSet(all)
      /\ ExpectedEvents(p) \in SUBSET (Nat \X Nat)
      /\ Firsts(ExpectedEvents(p)) = all
      /\ \A x \in ExpectedEvents(p) : x[2] = 0 \/ x[2] \in all
      /\ profiler[p].events = EventsOf(all, ExpectedEvents(p))
  BY ProfileRead
<1> HIDE DEF all
<1>. QED
  BY <1>1, <1>2, ReadBack

(* In every state the times of what was recorded are distinct, a session   *)
(* holds the operations it selects with the nearest of them around each as *)
(* parent, a profiler holds the phases its moves have reached, and what it *)
(* has published is what these come to.                                    *)
THEOREM ProfilerHolds == ProfilerSpec => []ProfilerInv
<1>1. ProfilerInit => ProfilerInv
  BY ProfilerStarts
<1>2. ProfilerInv /\ [ProfilerNext]_profilerVars => ProfilerInv'
  BY ProfilerStep
<1>. QED
  BY <1>1, <1>2, PTL DEF ProfilerSpec

(* The types: sessions and moves belong to threads and profilers.          *)
THEOREM ProfilerTyped == ProfilerSpec => []ProfilerTypeOK
<1>1. ProfilerInv => ProfilerTypeOK
  BY DEF ProfilerInv, ProfilerShape, SessionType, ProfilerType, MoveType, ProfilerTypeOK
<1>. QED
  BY <1>1, ProfilerHolds, PTL

(* A profiler that has been left, and whose moves have ended, has exactly  *)
(* the selected operations that its thread ran in the context and both     *)
(* phases of its moves, once each, in the order in which they started, and *)
(* each names the nearest selected operation around it: for any number of  *)
(* threads, profilers, moves and nested operations, whichever thread a     *)
(* phase ends on and whether the context has been left by then.            *)
THEOREM ProfileIsExact == ProfilerSpec => []ProfileExact
<1>1. ProfilerSpec => []ProfilerInv
  BY ProfilerHolds
<1>2. ProfilerInv => ProfileExact
  BY ProfileHolds
<1>. QED
  BY <1>1, <1>2, PTL

===============================================================================
