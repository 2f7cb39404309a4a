----------------------------- MODULE MCMoveAsync -----------------------------
(* MoveAsync on a few carriers, threads and moves.                         *)
EXTENDS MoveAsync, TLC

(* Moves between native carriers: without Torn, Next has no other steps.   *)
NativeNext ==
    \/ \E u \in User, c \in Carrier : Release(u, c) \/ \E v \in Val : Write(u, c, v)
    \/ \E u \in User, m \in Move, s, d \in Carrier : CallMove(u, m, s, d)
    \/ \E m \in Move : MoveStep(m) \/ ProviderMeddles(m)

NativeSpec == Init /\ [][NativeNext]_vars

Symmetry == Permutations(User) \union Permutations(Move) \union Permutations(Val)
            \union Permutations(Torn) \union Permutations(Carrier \ Torn)
=============================================================================
