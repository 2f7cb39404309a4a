---------------------------- MODULE TiledMemory ----------------------------
(***************************************************************************)
(* What a TiledEvictable promises to the code that indexes it: a flat      *)
(* memory.  Residency does not exist at this level.  A write either takes  *)
(* effect on its one element when it returns successfully or has no effect *)
(* at all; promotion, eviction, projection and scatter change nothing; and *)
(* releasing the carrier forgets every value.  TiledResidency implements   *)
(* this specification.                                                     *)
(***************************************************************************)
CONSTANTS Tile, Slot, Val,
          User,       \* the threads that use the carrier
          None

VARIABLES cell,       \* the contents of each tile, None when it has none
          writing,    \* the write each user has outstanding, or None
          wrote       \* whether the last write of each user succeeded

vars == <<cell, writing, wrote>>

Contents == [Slot -> Val]
Write == [tile : Tile, slot : Slot, val : Val]

TypeOK == /\ cell \in [Tile -> Contents \union {None}]
          /\ writing \in [User -> Write \union {None}]
          /\ wrote \in [User -> BOOLEAN]

Init == /\ cell \in [Tile -> Contents \union {None}]
        /\ writing = [u \in User |-> None]
        /\ wrote = [u \in User |-> TRUE]

StartWrite(u, w) ==
    /\ writing[u] = None
    /\ writing' = [writing EXCEPT ![u] = w]
    /\ UNCHANGED <<cell, wrote>>

WriteSucceeds(u) ==
    /\ writing[u] # None
    /\ LET w == writing[u]
       IN /\ cell[w.tile] # None
          /\ cell' = [cell EXCEPT ![w.tile][w.slot] = w.val]
    /\ writing' = [writing EXCEPT ![u] = None]
    /\ wrote' = [wrote EXCEPT ![u] = TRUE]

WriteFails(u) ==
    /\ writing[u] # None
    /\ writing' = [writing EXCEPT ![u] = None]
    /\ wrote' = [wrote EXCEPT ![u] = FALSE]
    /\ UNCHANGED cell

Release ==
    /\ cell' = [t \in Tile |-> None]
    /\ UNCHANGED <<writing, wrote>>

Next == \/ Release
        \/ \E u \in User : \/ \E w \in Write : StartWrite(u, w)
                           \/ WriteSucceeds(u)
                           \/ WriteFails(u)

Spec == Init /\ [][Next]_vars
=============================================================================
