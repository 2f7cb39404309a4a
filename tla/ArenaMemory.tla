----------------------------- MODULE ArenaMemory -----------------------------
(***************************************************************************)
(* What a BlockDevice promises.  Every live carrier is an array of its own *)
(* with a place on the device; places are aligned and overlap nowhere, a   *)
(* new carrier takes the lowest place that is large enough, and nothing    *)
(* changes an array but a write of its carrier.  A failed transfer stops   *)
(* all further access.  BlockDeviceArena implements this specification.    *)
(***************************************************************************)
EXTENDS Integers

CONSTANTS Carrier, Val, Capacity, Alignment, Size, None

VARIABLES place,      \* the first cell of each live carrier, or None
          data,       \* the values of each live carrier, or None
          faulted

vars == <<place, data, faulted>>

Width(n) == ((n + Alignment - 1) \div Alignment) * Alignment
Length(c) == Width(CHOOSE n \in Size : DOMAIN data[c] = 0 .. n - 1)
Taken == UNION {place[c] .. place[c] + Length(c) - 1 : c \in {d \in Carrier : place[d] # None}}

(* The places that hold n slots; an empty carrier is at the start.         *)
Places(n) == {a \in 0 .. Capacity - Width(n) :
                 /\ a % Alignment = 0
                 /\ n > 0 => (a .. a + Width(n) - 1) \intersect Taken = {}}

Init == /\ place = [c \in Carrier |-> None]
        /\ data = [c \in Carrier |-> None]
        /\ faulted = FALSE

Allocate(c, n, f) ==
    /\ place[c] = None /\ ~faulted
    /\ \E a \in Places(n) :
          /\ \A b \in Places(n) : a <= b
          /\ place' = [place EXCEPT ![c] = a]
    /\ data' = [data EXCEPT ![c] = f]
    /\ UNCHANGED faulted

Write(c, f) == /\ place[c] # None /\ ~faulted
               /\ data' = [data EXCEPT ![c] = f]
               /\ UNCHANGED <<place, faulted>>

Drop(c) == /\ place' = [place EXCEPT ![c] = None]
           /\ data' = [data EXCEPT ![c] = None]
           /\ UNCHANGED faulted

(* A transfer fails, and leaves the carrier it wrote torn.                 *)
Fault(c, f) == /\ ~faulted /\ faulted' = TRUE
               /\ data' = [data EXCEPT ![c] = f]
               /\ UNCHANGED place

Next == \E c \in Carrier :
           \/ \E n \in Size : \E f \in [0 .. n - 1 -> Val \union {None}] : Allocate(c, n, f)
           \/ /\ place[c] # None
              /\ \E f \in [DOMAIN data[c] -> Val \union {None}] : Write(c, f) \/ Fault(c, f)
           \/ Drop(c)
           \/ Fault(c, data[c])

Spec == Init /\ [][Next]_vars
=============================================================================
