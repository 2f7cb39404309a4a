--------------------------- MODULE TransferMemory ---------------------------
(***************************************************************************)
(* What move_async promises.  Each carrier is one cell.  A move takes the  *)
(* cells of its source and its destination out of everybody's hands; it    *)
(* ends by handing the value over in one step -- the destination holds it  *)
(* exactly when the source stops holding it -- or it fails, and then the   *)
(* source is what it was and the destination may hold anything.  A         *)
(* provider that writes or releases the source while it copies can only    *)
(* make its move fail.  MoveAsync implements this specification.           *)
(***************************************************************************)
CONSTANTS Carrier, Val, Move, None,
          Unknown     \* the cell of a destination while its move is open, and
                      \* of a source a provider has meddled with

VARIABLES cell,       \* the value of each carrier, None when it has none
          open        \* the source and destination of each open move, or None

vars == <<cell, open>>

Pairs == {p \in Carrier \X Carrier : p[1] # p[2]}

Busy(c) == \E m \in Move : open[m] # None /\ c \in {open[m][1], open[m][2]}

TypeOK == /\ cell \in [Carrier -> Val \union {None, Unknown}]
          /\ open \in [Move -> Pairs \union {None}]

Init == /\ cell \in [Carrier -> Val \union {None}]
        /\ open = [m \in Move |-> None]

Write(c, v) == /\ UNCHANGED open
               /\ ~Busy(c) /\ cell[c] # None
               /\ cell' = [cell EXCEPT ![c] = v]

Drop(c) == /\ UNCHANGED open
           /\ ~Busy(c)
           /\ cell' = [cell EXCEPT ![c] = None]

Open(m, p) == /\ open[m] = None /\ open' = [open EXCEPT ![m] = p]
              /\ ~Busy(p[1]) /\ ~Busy(p[2])
              /\ cell' = [cell EXCEPT ![p[2]] = Unknown]

(* A provider that breaks its contract writes or releases the source: what *)
(* it holds is known again when the move has failed.                       *)
Meddle(m) == /\ open[m] # None /\ UNCHANGED open
             /\ cell' = [cell EXCEPT ![open[m][1]] = Unknown]

Close(m) == open[m] # None /\ open' = [open EXCEPT ![m] = None]

Transfer(m) == /\ Close(m)
               /\ cell[open[m][1]] # Unknown
               /\ cell' = [cell EXCEPT ![open[m][2]] = cell[open[m][1]],
                                       ![open[m][1]] = None]

Fail(m) == /\ Close(m)
           /\ \E v, w \in Val \union {None} :
                 cell' = [cell EXCEPT ![open[m][2]] = v,
                                      ![open[m][1]] = IF @ = Unknown THEN w ELSE @]

Next == \/ \E c \in Carrier : Drop(c) \/ \E v \in Val : Write(c, v)
        \/ \E m \in Move : Meddle(m) \/ Transfer(m) \/ Fail(m) \/ \E p \in Pairs : Open(m, p)

Spec == Init /\ [][Next]_vars
=============================================================================
