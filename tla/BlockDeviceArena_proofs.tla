------------------------ MODULE BlockDeviceArena_proofs ------------------------
(***************************************************************************)
(* Proofs about BlockDeviceArena, for any sets of threads and carriers, any *)
(* capacity and alignment, and any sizes and windows.                      *)
(***************************************************************************)
EXTENDS BlockDeviceArena, TLAPS, WellFoundedInduction

-----------------------------------------------------------------------------
(* Numbers.                                                                *)

LEMMA Positive == Alignment \in Nat \ {0} /\ Capacity \in Nat \ {0}
  BY ArenaAssumption

LEMMA RoundUpBounds ==
    ASSUME NEW n \in Nat
    PROVE  RoundUp(n) \in Nat /\ n <= RoundUp(n) /\ (n = 0 <=> RoundUp(n) = 0)
  BY Positive DEF RoundUp

LEMMA RoundUpAligned ==
    ASSUME NEW n \in Nat
    PROVE  RoundUp(n) % Alignment = 0
  BY Positive DEF RoundUp

LEMMA RoundUpLeast ==
    ASSUME NEW n \in Nat, NEW m \in Nat, n <= m, m % Alignment = 0
    PROVE  RoundUp(n) <= m
<1> DEFINE q == (n + Alignment - 1) \div Alignment
           k == m \div Alignment
<1>1. q \in Nat /\ q * Alignment <= n + Alignment - 1
  BY Positive
<1>2. k \in Nat /\ m = k * Alignment
  BY Positive
<1> HIDE DEF q, k
<1>3. SUFFICES ASSUME k + 1 <= q PROVE FALSE
  <2>1. q <= k => q * Alignment <= k * Alignment
    BY <1>1, <1>2, Positive
  <2> QED BY <1>1, <1>2, <2>1 DEF RoundUp, q
<1>4. (k + 1) * Alignment <= q * Alignment
  BY <1>1, <1>2, <1>3, Positive
<1>5. (k + 1) * Alignment = m + Alignment
  BY <1>2, Positive
<1> QED BY <1>1, <1>2, <1>4, <1>5, Positive

LEMMA RoundUpMonotone ==
    ASSUME NEW n \in Nat, NEW m \in Nat, n <= m
    PROVE  RoundUp(n) <= RoundUp(m)
  BY RoundUpBounds, RoundUpAligned, RoundUpLeast

(* Every set of naturals that is not empty has a least member.             *)
LEMMA Least ==
    ASSUME NEW S \in SUBSET Nat, S # {}
    PROVE  \E m \in S : \A k \in S : m <= k
<1> DEFINE R == {p \in Nat \X Nat : p[1] < p[2]}
<1>1. OpToRel(<, Nat) = R
  BY DEF OpToRel
<1>2. IsWellFoundedOn(R, Nat)
  BY <1>1, NatLessThanWellFounded
<1>3. \E x \in S : \A y \in S : ~ (<<y, x>> \in R)
  <2> HIDE DEF R
  <2> QED BY <1>2, WFMin
<1>4. PICK x \in S : \A y \in S : ~ (<<y, x>> \in R)
  BY <1>3
<1>5. \A y \in S : x <= y
  <2> SUFFICES ASSUME NEW y \in S, y < x PROVE FALSE
    OBVIOUS
  <2>1. <<y, x>> \in Nat \X Nat /\ <<y, x>>[1] = y /\ <<y, x>>[2] = x
    OBVIOUS
  <2>2. <<y, x>> \in R
    BY <2>1
  <2> QED BY <2>2, <1>4
<1> QED BY <1>5

(* So a set of ranges that is not empty has a lowest one.                  *)
LEMMA LowestIsLowest ==
    ASSUME NEW R \in SUBSET Ranges, R # {}
    PROVE  Lowest(R) \in R /\ \A q \in R : Lowest(R)[1] <= q[1]
<1> DEFINE S == {r[1] : r \in R}
<1>1. S \in SUBSET Nat /\ S # {}
  BY DEF Ranges
<1>2. PICK m \in S : \A k \in S : m <= k
  <2> HIDE DEF S
  <2> QED BY <1>1, Least
<1>3. \E r \in R : \A q \in R : r[1] <= q[1]
  BY <1>2
<1> QED BY <1>3 DEF Lowest
-----------------------------------------------------------------------------
(* The free ranges and the extents: Partition, in terms of the ends of the *)
(* ranges instead of their cells.                                          *)

Covers(r, x) == r[1] <= x /\ x < Stop(r)
Apart(p, q) == p[2] = 0 \/ q[2] = 0 \/ Stop(p) <= q[1] \/ Stop(q) <= p[1]
Separate(p, q) == Stop(p) < q[1] \/ Stop(q) < p[1]

Layout ==
    /\ \A r \in free : r \in Ranges /\ r[2] > 0 /\ Stop(r) <= Capacity
    /\ \A c \in Reserved : extent[c] \in Ranges /\ Stop(extent[c]) <= Capacity
    /\ \A q, r \in free : q # r => Separate(q, r)
    /\ \A r \in free, c \in Reserved : Apart(r, extent[c])
    /\ \A c, d \in Reserved : c # d => Apart(extent[c], extent[d])
    /\ \A x \in Position : \/ \E r \in free : Covers(r, x)
                           \/ \E c \in Reserved : Covers(extent[c], x)

(* Range g takes the place of the free ranges L and of range e.            *)
Joins(g, L, e) ==
    /\ g \in Ranges /\ g[2] > 0 /\ Stop(g) <= Capacity
    /\ \A x \in Position : Covers(g, x) <=> Covers(e, x) \/ \E r \in L : Covers(r, x)
    /\ \A q \in free \ L : Separate(q, g)

(* A freed range is joined with the one or two free ranges that touch it.  *)
LEMMA FreedJoins ==
    ASSUME Layout, NEW c \in Reserved, extent[c][2] # 0
    PROVE  \E L \in SUBSET free, g \in Ranges :
               /\ WithFreed(extent[c]) = (free \ L) \union {g}
               /\ Joins(g, L, extent[c])
               /\ \A d \in Reserved : d # c => Apart(g, extent[d])
<1> DEFINE e == extent[c]
           left == {r \in free : Stop(r) = e[1]}
           right == {r \in free : r[1] = Stop(e)}
           first == IF left = {} THEN e[1] ELSE Lowest(left)[1]
           last == IF right = {} THEN Stop(e) ELSE Stop(Lowest(right))
           g == <<first, last - first>>
<1>1. e \in Ranges /\ e[2] > 0 /\ Stop(e) <= Capacity
  BY DEF Layout, Ranges
<1>2. WithFreed(e) = (free \ (left \union right)) \union {g}
  BY <1>1 DEF WithFreed
<1>3. free \in SUBSET Ranges
  BY DEF Layout
<1>4. \A l \in left : left = {l}
  BY DEF Layout, Separate, Ranges, Stop
<1>5. \A r \in right : right = {r}
  BY DEF Layout, Separate, Ranges, Stop
<1>6. left # {} => Lowest(left) \in left
  BY <1>3, LowestIsLowest
<1>7. right # {} => Lowest(right) \in right
  BY <1>3, LowestIsLowest
<1>8. \/ left = {} /\ first = e[1]
      \/ \E l \in free : left = {l} /\ first = l[1] /\ Stop(l) = e[1]
  BY <1>4, <1>6
<1>9. \/ right = {} /\ last = Stop(e)
      \/ \E r \in free : right = {r} /\ last = Stop(r) /\ r[1] = Stop(e)
  BY <1>5, <1>7
<1>10. \A r \in free : r \in Ranges /\ r[2] > 0 /\ Stop(r) <= Capacity /\ Apart(r, e)
  BY DEF Layout
<1>11. \A q, r \in free : q # r => Separate(q, r)
  BY DEF Layout
<1>12. \A d \in Reserved : d # c => Apart(e, extent[d]) /\ extent[d] \in Ranges
  BY DEF Layout
<1>13. \A r \in free, d \in Reserved : Apart(r, extent[d])
  BY DEF Layout
<1>14. e \in Nat \X Nat /\ \A r \in free : r \in Nat \X Nat
  BY <1>1, <1>10, Positive DEF Ranges
<1>15. \A q \in free \ (left \union right) : Stop(q) # e[1] /\ q[1] # Stop(e)
  OBVIOUS
<1> HIDE DEF e, left, right, first, last
<1>16. g[1] = first /\ g[2] = last - first
  OBVIOUS
<1>17. first \in Nat /\ last \in Nat /\ first <= e[1] /\ Stop(e) <= last /\ last <= Capacity
  BY <1>1, <1>8, <1>9, <1>10, <1>14 DEF Stop
<1>18. g \in Ranges /\ g[2] > 0 /\ Stop(g) = last
  BY <1>1, <1>14, <1>16, <1>17, Positive DEF Stop, Ranges
<1>19. ASSUME NEW x \in Position
       PROVE  Covers(g, x) <=> Covers(e, x) \/ \E r \in left \union right : Covers(r, x)
  BY <1>1, <1>8, <1>9, <1>10, <1>14, <1>16, <1>18, Positive DEF Stop, Covers, Position
<1>20. ASSUME NEW q \in free \ (left \union right)
       PROVE  Separate(q, g)
  <2>1. Stop(q) < e[1] \/ Stop(e) < q[1]
    BY <1>1, <1>10, <1>14, <1>15 DEF Apart, Stop
  <2>2. Stop(q) < first \/ last < q[1]
    BY <1>1, <1>8, <1>9, <1>10, <1>11, <1>14, <2>1 DEF Separate, Stop
  <2> QED BY <2>2, <1>16, <1>18 DEF Separate
<1>21. ASSUME NEW d \in Reserved, d # c
       PROVE  Apart(g, extent[d])
  <2>1. extent[d] \in Nat \X Nat
    BY <1>12, <1>21, Positive DEF Ranges
  <2>2. \/ extent[d][2] = 0 \/ Stop(extent[d]) <= e[1] \/ Stop(e) <= extent[d][1]
    BY <1>1, <1>12, <1>21, <2>1 DEF Apart, Stop
  <2>3. \/ extent[d][2] = 0 \/ Stop(extent[d]) <= first \/ last <= extent[d][1]
    BY <1>1, <1>8, <1>9, <1>10, <1>13, <1>14, <2>1, <2>2 DEF Apart, Stop
  <2> QED BY <2>3, <1>16, <1>18 DEF Apart
<1>22. Joins(g, left \union right, e)
  BY <1>17, <1>18, <1>19, <1>20 DEF Joins
<1>23. left \union right \in SUBSET free
  BY DEF left, right
<1> HIDE DEF g
<1> QED BY <1>2, <1>18, <1>21, <1>22, <1>23 DEF e

LEMMA FreedKeepsLayout ==
    ASSUME Layout, NEW c \in Carrier, extent \in [Carrier -> Ranges \union {None}],
           free' = IF extent[c] = None THEN free ELSE WithFreed(extent[c]),
           extent' = [extent EXCEPT ![c] = None]
    PROVE  Layout'
<1>1. Reserved' = Reserved \ {c} /\ \A d \in Reserved' : extent'[d] = extent[d]
  BY DEF Reserved
<1>2. CASE extent[c] = None
  BY <1>1, <1>2 DEF Layout, Reserved, Covers, Apart, Separate, Stop
<1>3. CASE extent[c] # None /\ extent[c][2] = 0
  <2>1. free' = free /\ c \in Reserved
    BY <1>3 DEF WithFreed, Reserved
  <2>2. \A x \in Position : ~ Covers(extent[c], x)
    BY <1>3, <2>1, Positive DEF Covers, Stop, Layout, Ranges, Position
  <2> QED BY <1>1, <2>1, <2>2 DEF Layout
<1>4. CASE extent[c] # None /\ extent[c][2] # 0
  <2>1. c \in Reserved
    BY <1>4 DEF Reserved
  <2>2. PICK L \in SUBSET free, g \in Ranges :
               /\ WithFreed(extent[c]) = (free \ L) \union {g}
               /\ Joins(g, L, extent[c])
               /\ \A d \in Reserved : d # c => Apart(g, extent[d])
    BY <1>4, <2>1, FreedJoins
  <2>3. free' = (free \ L) \union {g}
    BY <1>4, <2>2
  <2>4. \A r \in free' : r \in Ranges /\ r[2] > 0 /\ Stop(r) <= Capacity
    BY <2>2, <2>3 DEF Layout, Joins
  <2>5. \A d \in Reserved' : extent'[d] \in Ranges /\ Stop(extent'[d]) <= Capacity
    BY <1>1 DEF Layout
  <2>6. \A q, r \in free' : q # r => Separate(q, r)
    BY <2>2, <2>3 DEF Layout, Joins, Separate
  <2>7. \A r \in free', d \in Reserved' : Apart(r, extent'[d])
    BY <1>1, <2>2, <2>3 DEF Layout
  <2>8. \A b, d \in Reserved' : b # d => Apart(extent'[b], extent'[d])
    BY <1>1 DEF Layout
  <2>9. ASSUME NEW x \in Position
        PROVE  \/ \E r \in free' : Covers(r, x)
               \/ \E d \in Reserved' : Covers(extent'[d], x)
    BY <1>1, <2>2, <2>3 DEF Layout, Joins
  <2> QED BY <2>4, <2>5, <2>6, <2>7, <2>8, <2>9 DEF Layout, Stop, Apart, Separate, Covers
<1> QED BY <1>2, <1>3, <1>4

(* An extent is cut out of the lowest free range it fits in, aligned.      *)
LEMMA ReservedKeepsLayout ==
    ASSUME Layout, NEW c \in Carrier, extent \in [Carrier -> Ranges \union {None}],
           extent[c] = None, NEW n \in Nat, n > 0, NEW r \in Suitable(n),
           extent' = [extent EXCEPT ![c] = <<RoundUp(r[1]), n>>],
           free' = (free \ {r}) \union Rest(r, RoundUp(r[1]), n)
    PROVE  Layout'
<1> DEFINE a == RoundUp(r[1])
           e == <<a, n>>
           before == <<r[1], a - r[1]>>
           after == <<a + n, Stop(r) - (a + n)>>
<1>1. r \in free /\ r \in Nat \X Nat /\ Stop(r) \in Nat /\ Stop(r) <= Capacity
  BY Positive DEF Suitable, Layout, Ranges, Stop
<1>2. a \in Nat /\ r[1] <= a /\ a + n <= Stop(r)
  BY <1>1, RoundUpBounds DEF Suitable
<1>3. e[1] = a /\ e[2] = n /\ Stop(e) = a + n /\ e \in Ranges
  BY <1>1, <1>2, Positive DEF Stop, Ranges
<1>4. before[1] = r[1] /\ before[2] = a - r[1] /\ Stop(before) = a /\ before \in Ranges
  BY <1>1, <1>2, Positive DEF Stop, Ranges
<1>5. after[1] = a + n /\ after[2] = Stop(r) - (a + n) /\ Stop(after) = Stop(r) /\ after \in Ranges
  BY <1>1, <1>2, Positive DEF Stop, Ranges
<1>6. free' = (free \ {r}) \union {q \in {before, after} : q[2] > 0}
  BY DEF Rest
<1>7. Reserved' = Reserved \union {c} /\ extent'[c] = e
  BY <1>1, <1>3, Positive, ArenaAssumption DEF Reserved, Ranges
<1>8. \A d \in Reserved : d # c /\ extent'[d] = extent[d]
  BY DEF Reserved
<1>9. Stop(r) = r[1] + r[2]
  BY DEF Stop
<1> HIDE DEF a, e, before, after
<1>10. \A q \in free \ {r} : Separate(q, e) /\ Separate(q, before) /\ Separate(q, after)
  BY <1>1, <1>2, <1>3, <1>4, <1>5, <1>9, Positive DEF Separate, Layout, Ranges, Stop
<1>11. \A d \in Reserved : Apart(e, extent[d]) /\ Apart(before, extent[d]) /\ Apart(after, extent[d])
  BY <1>1, <1>2, <1>3, <1>4, <1>5, <1>9, Positive DEF Apart, Layout, Ranges, Stop
<1>12. \A x \in Position : Covers(r, x) => \/ Covers(e, x)
                                           \/ before[2] > 0 /\ Covers(before, x)
                                           \/ after[2] > 0 /\ Covers(after, x)
  BY <1>1, <1>2, <1>3, <1>4, <1>5, Positive DEF Covers, Position
<1>13. Separate(before, after) /\ Apart(before, e) /\ Apart(after, e)
  BY <1>1, <1>2, <1>3, <1>4, <1>5 DEF Separate, Apart
<1>14. \A q \in free' : q \in Ranges /\ q[2] > 0 /\ Stop(q) <= Capacity
  BY <1>1, <1>2, <1>4, <1>5, <1>6, Positive DEF Layout
<1>15. \A d \in Reserved' : extent'[d] \in Ranges /\ Stop(extent'[d]) <= Capacity
  BY <1>1, <1>2, <1>3, <1>7, <1>8, Positive DEF Layout
<1>16. \A p, q \in free' : p # q => Separate(p, q)
  BY <1>6, <1>10, <1>13 DEF Layout, Separate
<1>17. \A q \in free', d \in Reserved' : Apart(q, extent'[d])
  <2>1. \A q \in free, d \in Reserved : Apart(q, extent[d])
    BY DEF Layout
  <2>2. \A q \in free \ {r} : Apart(q, e)
    <3>1. SUFFICES ASSUME NEW q \in free \ {r} PROVE Apart(q, e)
      OBVIOUS
    <3>2. q \in Nat \X Nat
      BY Positive DEF Layout, Ranges
    <3> QED BY <1>2, <1>3, <1>10, <3>2 DEF Apart, Separate, Stop
  <2> QED BY <1>6, <1>7, <1>8, <1>11, <1>13, <2>1, <2>2
<1>18. \A b, d \in Reserved' : b # d => Apart(extent'[b], extent'[d])
  BY <1>3, <1>7, <1>8, <1>11 DEF Layout, Apart
<1>19. ASSUME NEW x \in Position
       PROVE  \/ \E q \in free' : Covers(q, x)
              \/ \E d \in Reserved' : Covers(extent'[d], x)
  BY <1>6, <1>7, <1>8, <1>12 DEF Layout
<1> QED BY <1>14, <1>15, <1>16, <1>17, <1>18, <1>19 DEF Layout, Stop, Apart, Separate, Covers

(* An empty carrier takes no slots.                                        *)
LEMMA EmptyKeepsLayout ==
    ASSUME Layout, NEW c \in Carrier, extent \in [Carrier -> Ranges \union {None}],
           extent[c] = None, extent' = [extent EXCEPT ![c] = <<0, 0>>], UNCHANGED free
    PROVE  Layout'
<1> DEFINE e == <<0, 0>>
<1>1. e \in Ranges /\ e[1] = 0 /\ e[2] = 0 /\ Stop(e) = 0
  BY Positive DEF Stop, Ranges
<1>2. Reserved' = Reserved \union {c} /\ extent'[c] = e /\ \A d \in Reserved : d # c /\ extent'[d] = extent[d]
  BY ArenaAssumption DEF Reserved
<1> HIDE DEF e
<1>3. \A q : Apart(e, q) /\ Apart(q, e)
  BY <1>1 DEF Apart
<1>4. \A d \in Reserved' : extent'[d] \in Ranges /\ Stop(extent'[d]) <= Capacity
  BY <1>1, <1>2, Positive DEF Layout
<1>5. /\ \A q \in free', d \in Reserved' : Apart(q, extent'[d])
      /\ \A b, d \in Reserved' : b # d => Apart(extent'[b], extent'[d])
  BY <1>2, <1>3 DEF Layout
<1> QED BY <1>2, <1>4, <1>5 DEF Layout, Stop, Apart, Separate, Covers
-----------------------------------------------------------------------------
(* What Layout says of the cells, and of the search.                       *)

LEMMA CellsAreCovered ==
    ASSUME Layout
    PROVE  /\ \A r \in free : Cells(r) \subseteq Position /\ \A x \in Position : x \in Cells(r) <=> Covers(r, x)
           /\ \A c \in Reserved : /\ Cells(extent[c]) \subseteq Position
                                  /\ \A x \in Position : x \in Cells(extent[c]) <=> Covers(extent[c], x)
<1>1. ASSUME NEW r \in Ranges, Stop(r) <= Capacity
      PROVE  Cells(r) \subseteq Position /\ \A x \in Position : x \in Cells(r) <=> Covers(r, x)
  BY <1>1, Positive DEF Cells, Position, Covers, Ranges, Stop
<1> QED BY <1>1 DEF Layout

LEMMA UsedIsCovered ==
    ASSUME Layout
    PROVE  /\ Used \subseteq Position
           /\ \A x \in Position : x \in Used <=> \E c \in Reserved : Covers(extent[c], x)
  BY CellsAreCovered DEF Used

LEMMA FreeIsUnused ==
    ASSUME Layout, NEW r \in free, NEW x \in Position, Covers(r, x)
    PROVE  x \notin Used
<1>1. \A c \in Reserved : extent[c] \in Nat \X Nat /\ Apart(r, extent[c])
  BY Positive DEF Layout, Ranges
<1>2. r \in Nat \X Nat /\ x \in Nat
  BY Positive DEF Layout, Ranges, Position
<1>3. \A c \in Reserved : ~ Covers(extent[c], x)
  BY <1>1, <1>2 DEF Covers, Apart, Stop
<1> QED BY <1>3, UsedIsCovered

LEMMA LayoutPartitions ==
    ASSUME Layout
    PROVE  /\ \A r \in free : r[2] > 0 /\ Cells(r) \intersect Used = {}
           /\ \A q, r \in free : q # r => Cells(q) \intersect Cells(r) = {} /\ Stop(q) # r[1]
           /\ \A c, d \in Reserved : c # d => Cells(extent[c]) \intersect Cells(extent[d]) = {}
           /\ Position = Used \union UNION {Cells(r) : r \in free}
<1>1. ASSUME NEW r \in free
      PROVE  r[2] > 0 /\ Cells(r) \intersect Used = {}
  BY FreeIsUnused, CellsAreCovered DEF Layout
<1>2. ASSUME NEW q \in free, NEW r \in free, q # r
      PROVE  Cells(q) \intersect Cells(r) = {} /\ Stop(q) # r[1]
  <2>1. q \in Nat \X Nat /\ r \in Nat \X Nat /\ q[2] > 0 /\ r[2] > 0 /\ Separate(q, r)
    BY <1>2, Positive DEF Layout, Ranges
  <2> QED BY <2>1 DEF Separate, Cells, Stop
<1>3. ASSUME NEW c \in Reserved, NEW d \in Reserved, c # d
      PROVE  Cells(extent[c]) \intersect Cells(extent[d]) = {}
  <2>1. extent[c] \in Nat \X Nat /\ extent[d] \in Nat \X Nat /\ Apart(extent[c], extent[d])
    BY <1>3, Positive DEF Layout, Ranges
  <2> QED BY <2>1 DEF Apart, Cells, Stop
<1>4. ASSUME NEW x
      PROVE  x \in Position <=> x \in Used \union UNION {Cells(r) : r \in free}
  <2>1. x \in Position => \/ \E r \in free : Covers(r, x)
                          \/ \E c \in Reserved : Covers(extent[c], x)
    BY DEF Layout
  <2> QED BY <2>1, CellsAreCovered, UsedIsCovered
<1> QED BY <1>1, <1>2, <1>3, <1>4

(* A run of unused slots lies in one free range, since these never touch.  *)
LEMMA RunInOneRange ==
    ASSUME Layout, NEW a \in Nat, NEW n \in Nat, n > 0, a + n <= Capacity,
           (a .. a + n - 1) \intersect Used = {}
    PROVE  \E r \in free : r[1] <= a /\ a + n <= Stop(r)
<1>1. \A x \in a .. a + n - 1 : x \in Position /\ \E r \in free : Covers(r, x)
  <2>1. \A x \in a .. a + n - 1 : x \in Position
    BY Positive DEF Position
  <2> QED BY <2>1, UsedIsCovered DEF Layout
<1>2. PICK r \in free : Covers(r, a)
  BY <1>1
<1>3. \A q \in free : q \in Nat \X Nat /\ (q # r => Separate(q, r))
  BY Positive DEF Layout, Ranges
<1>4. SUFFICES ASSUME Stop(r) < a + n PROVE FALSE
  BY <1>2, <1>3 DEF Covers, Stop
<1>5. Stop(r) \in a .. a + n - 1
  BY <1>2, <1>3, <1>4 DEF Covers, Stop
<1>6. PICK q \in free : Covers(q, Stop(r))
  BY <1>1, <1>5
<1>7. q # r
  BY <1>3, <1>6 DEF Covers, Stop
<1> QED BY <1>2, <1>3, <1>6, <1>7 DEF Covers, Stop, Separate

(* First fit: the lowest aligned place of n unused slots.                  *)
LEMMA SearchIsExact ==
    ASSUME Layout, NEW n \in Nat, n > 0
    PROVE  IF Suitable(n) = {} THEN Places(n) = {}
           ELSE LET a == RoundUp(Lowest(Suitable(n))[1])
                IN a \in Places(n) /\ \A b \in Places(n) : a <= b
<1>1. free \in SUBSET Ranges /\ \A r \in free : r \in Nat \X Nat /\ Stop(r) \in Nat /\ Stop(r) <= Capacity
  BY Positive DEF Layout, Ranges, Stop
<1>2. ASSUME NEW b \in Places(n)
      PROVE  \E r \in Suitable(n) : RoundUp(r[1]) <= b
  <2>1. b \in Nat /\ b + n <= Capacity /\ b % Alignment = 0 /\ (b .. b + n - 1) \intersect Used = {}
    BY Positive DEF Places
  <2>2. PICK r \in free : r[1] <= b /\ b + n <= Stop(r)
    BY <2>1, RunInOneRange
  <2>3. RoundUp(r[1]) <= b /\ RoundUp(r[1]) \in Nat
    BY <1>1, <2>1, <2>2, RoundUpLeast, RoundUpBounds
  <2>4. r \in Suitable(n)
    BY <1>1, <2>1, <2>2, <2>3 DEF Suitable
  <2> QED BY <2>3, <2>4
<1>3. ASSUME Suitable(n) # {}
      PROVE  LET a == RoundUp(Lowest(Suitable(n))[1])
             IN a \in Places(n) /\ \A b \in Places(n) : a <= b
  <2> DEFINE r == Lowest(Suitable(n))
             a == RoundUp(r[1])
  <2>1. Suitable(n) \in SUBSET Ranges /\ Suitable(n) \subseteq free
    BY <1>1 DEF Suitable
  <2>2. r \in Suitable(n) /\ \A q \in Suitable(n) : r[1] <= q[1]
    BY <1>3, <2>1, LowestIsLowest
  <2> HIDE DEF r
  <2>3. a \in Nat /\ r[1] <= a /\ a % Alignment = 0 /\ a + n <= Stop(r)
    BY <1>1, <2>1, <2>2, RoundUpBounds, RoundUpAligned DEF Suitable
  <2>4. \A x \in a .. a + n - 1 : x \in Position /\ Covers(r, x)
    BY <1>1, <2>1, <2>2, <2>3, Positive DEF Position, Covers
  <2>5. (a .. a + n - 1) \intersect Used = {}
    BY <2>1, <2>2, <2>4, FreeIsUnused
  <2>6. a \in Places(n)
    BY <1>1, <2>1, <2>2, <2>3, <2>5, Positive DEF Places
  <2>7. ASSUME NEW b \in Places(n)
        PROVE  a <= b
    <3>1. PICK q \in Suitable(n) : RoundUp(q[1]) <= b
      BY <1>2
    <3>2. r \in Nat \X Nat /\ q \in Nat \X Nat /\ r[1] <= q[1]
      BY <1>1, <2>1, <2>2
    <3>3. a <= RoundUp(q[1]) /\ RoundUp(q[1]) \in Nat
      BY <3>2, RoundUpMonotone, RoundUpBounds
    <3>4. b \in Int
      BY Positive DEF Places
    <3> QED BY <2>3, <3>1, <3>3, <3>4
  <2> QED BY <2>6, <2>7 DEF r
<1> QED BY <1>2, <1>3
-----------------------------------------------------------------------------
(* Who is doing what: the calls, the objects and the lock.                 *)

Transfer(u) == InTransfer(u) /\ holder = u
Making(u) == call[u].op = "allocate" /\ holder = u
NamesCarrier(u) == call[u].op \in {"read", "write", "release", "mark"}

(* A new carrier belongs to the call that makes it.                        *)
Pending ==
    /\ \A u \in User : call[u].op = "allocate" => object[call[u].carrier] = "pending"
    /\ \A u, v \in User : /\ call[u].op = "allocate" /\ call[v].op = "allocate"
                          /\ call[u].carrier = call[v].carrier
                          => u = v

(* A carrier that a call was made on is not collected meanwhile, and the   *)
(* release flag follows the retirement.                                    *)
Referenced ==
    /\ \A u \in User : NamesCarrier(u) => object[call[u].carrier] \in {"live", "retired"}
    /\ \A u \in User : call[u].op = "mark" => object[call[u].carrier] = "retired"
    /\ \A c \in released : object[c] = "retired"

(* The lock is held over I/O only, on a device that is in order.           *)
Locked ==
    /\ \A u \in User : holder = u => call[u].op \in {"allocate", "read", "write"}
    /\ holder # None => ~ closed /\ ~ faulted
    /\ closed => \A c \in Carrier : object[c] \in {"none", "pending"}

(* The extent of a carrier that is live, or being made.                    *)
Extents ==
    /\ \A c \in Carrier : object[c] = "live" => /\ extent[c] # None
                                                /\ extent[c][1] % Alignment = 0
                                                /\ extent[c][2] = RoundUp(size[c])
    /\ \A u \in User : Making(u) => LET e == extent[call[u].carrier]
                                    IN e # None /\ e[1] % Alignment = 0 /\ e[2] = RoundUp(call[u].size)
    /\ \A c \in Carrier : extent[c] # None => \/ object[c] = "live"
                                              \/ \E u \in User : Making(u) /\ call[u].carrier = c

(* A transfer in the device works on what its checks have seen.            *)
Attached ==
    \A u \in User : Transfer(u) =>
        LET c == call[u].carrier
        IN /\ object[c] = "live" /\ call[u].window \subseteq 0 .. size[c] - 1
           /\ call[u].at = extent[c][1]

(* The version a write call started from is behind once it writes.         *)
Versions ==
    /\ \A u \in User : InTransfer(u) => call[u].before <= version[call[u].carrier]
    /\ \A u \in User : Transfer(u) /\ call[u].op = "write" => call[u].before < version[call[u].carrier]

IInv == /\ TypeOK /\ Layout
        /\ Pending /\ Referenced /\ Locked
        /\ Extents /\ Attached /\ Versions
-----------------------------------------------------------------------------
(* What the type of the calls says of one call.                            *)
LEMMA CallFields ==
    ASSUME TypeOK, NEW u \in User
    PROVE  /\ call[u] \in Calls
           /\ ~ Idle(u) => call[u].op # "idle" /\ call[u].carrier \in Carrier
           /\ call[u].op = "allocate" => /\ call[u].carrier \in Carrier /\ call[u].size \in Size
                                         /\ call[u].size \in Nat
                                         /\ call[u].val \in Val \union {None}
           /\ InTransfer(u) => /\ call[u].carrier \in Carrier /\ call[u].window \in Window
                               /\ call[u].val \in Val \union {None}
                               /\ call[u].before \in 0 .. MaxVersion /\ call[u].at \in 0 .. Capacity
           /\ call[u].op \in {"release", "mark"} => call[u].carrier \in Carrier
           /\ NamesCarrier(u) => call[u].carrier \in Carrier
<1>1. call[u] \in Calls
  BY DEF TypeOK
<1>2. Size \subseteq Nat
  BY ArenaAssumption
<1> QED BY <1>1, <1>2 DEF Calls, Idle, IdleCall, InTransfer, NamesCarrier

(* Nobody is in the device while the lock is free.                         *)
LEMMA LockFree ==
    ASSUME NEW u \in User, holder = None
    PROVE  ~ Making(u) /\ ~ Transfer(u)
  BY ArenaAssumption DEF Making, Transfer

LEMMA ReservedAfresh ==
    ASSUME IInv, NEW u \in User, call[u].op = "allocate", holder = None
    PROVE  extent[call[u].carrier] = None
<1>1. call[u].carrier \in Carrier /\ object[call[u].carrier] = "pending"
  BY CallFields DEF IInv, Pending
<1> QED BY <1>1, LockFree DEF IInv, Extents

LEMMA LayoutStep ==
    ASSUME IInv, [Next]_vars
    PROVE  Layout'
<1> USE DEF IInv
<1>1. extent \in [Carrier -> Ranges \union {None}]
  BY DEF TypeOK
<1>2. ASSUME UNCHANGED <<free, extent>>
      PROVE  Layout'
  BY <1>2 DEF Layout, Reserved, Covers, Apart, Separate, Stop
<1>3. ASSUME NEW u \in User, Reserve(u)
      PROVE  Layout'
  <2> DEFINE c == call[u].carrier
             n == RoundUp(call[u].size)
  <2>1. c \in Carrier /\ n \in Nat
    BY <1>3, CallFields, RoundUpBounds DEF Reserve
  <2>2. extent[c] = None
    BY <1>3, ReservedAfresh DEF Reserve
  <2>3. CASE n = 0
    BY <1>1, <1>3, <2>1, <2>2, <2>3, EmptyKeepsLayout DEF Reserve
  <2>4. CASE n # 0
    <3> DEFINE r == Lowest(Suitable(n))
    <3>1. Suitable(n) # {} /\ Suitable(n) \in SUBSET Ranges
      BY <1>3, <2>4 DEF Reserve, Layout, Suitable
    <3>2. r \in Suitable(n)
      BY <3>1, LowestIsLowest
    <3>3. extent' = [extent EXCEPT ![c] = <<RoundUp(r[1]), n>>] /\ free' = (free \ {r}) \union Rest(r, RoundUp(r[1]), n)
      BY <1>3, <2>4 DEF Reserve
    <3>4. Layout /\ n > 0
      BY <2>1, <2>4
    <3> HIDE DEF r, n, c, IInv
    <3> QED BY ONLY <1>1, <2>1, <2>2, <3>2, <3>3, <3>4, ReservedKeepsLayout
  <2> QED BY <2>3, <2>4
<1>4. ASSUME NEW u \in User, AbandonAllocation(u)
      PROVE  Layout'
  <2>1. call[u].carrier \in Carrier /\ extent[call[u].carrier] # None
    BY <1>4, CallFields DEF AbandonAllocation, Extents, Making
  <2> QED BY <1>1, <1>4, <2>1, FreedKeepsLayout DEF AbandonAllocation
<1>5. ASSUME NEW u \in User, Retire(u)
      PROVE  Layout'
  BY <1>1, <1>5, CallFields, FreedKeepsLayout DEF Retire
<1>6. ASSUME NEW c \in Carrier, Collect(c)
      PROVE  Layout'
  BY <1>1, <1>6, FreedKeepsLayout DEF Collect
<1>7. ASSUME NEW u \in User, UserCalls(u)
      PROVE  Layout'
  BY <1>2, <1>7 DEF UserCalls, CallAllocate, CallTransfer, CallRelease, Close, allocation
<1>8. ASSUME NEW u \in User, \/ RefuseAllocation(u) \/ Activate(u) \/ RefuseTransfer(u)
                             \/ StartTransfer(u) \/ EndTransfer(u) \/ Mark(u)
      PROVE  Layout'
  BY <1>2, <1>8 DEF RefuseAllocation, Activate, RefuseTransfer, StartTransfer, EndTransfer, Mark, allocation
<1> QED BY <1>2, <1>3, <1>4, <1>5, <1>6, <1>7, <1>8 DEF Next, CallStep, vars, allocation
-----------------------------------------------------------------------------
(* The call that each step of a thread leaves behind; the other calls stay. *)
Leaves(u, k) == k \in Calls /\ call' = [call EXCEPT ![u] = k]

LEMMA CallLeft ==
    ASSUME TypeOK, NEW u \in User
    PROVE  /\ \A c \in Carrier, n \in Size, v \in Val \union {None} :
                 CallAllocate(u, c, n, v) => Leaves(u, [op |-> "allocate", carrier |-> c, size |-> n, val |-> v])
           /\ \A c \in Carrier, w \in Window, v \in Val \union {None}, op \in {"read", "write"} :
                 CallTransfer(u, c, op, w, v) =>
                     Leaves(u, [op |-> op, carrier |-> c, window |-> w, val |-> v, before |-> version[c], at |-> 0])
           /\ \A c \in Carrier : CallRelease(u, c) => Leaves(u, [op |-> "release", carrier |-> c])
           /\ StartTransfer(u) => LET k == [call[u] EXCEPT !.at = extent[call[u].carrier][1]]
                                  IN call' = [call EXCEPT ![u] = k] /\ (k.at \in 0 .. Capacity => k \in Calls)
           /\ Retire(u) => Leaves(u, [op |-> "mark", carrier |-> call[u].carrier])
           /\ (\/ RefuseAllocation(u) \/ Activate(u) \/ AbandonAllocation(u)
               \/ RefuseTransfer(u) \/ EndTransfer(u) \/ Mark(u)) => Leaves(u, IdleCall)
<1>1. ASSUME NEW c \in Carrier, NEW n \in Size, NEW v \in Val \union {None}, CallAllocate(u, c, n, v)
      PROVE  Leaves(u, [op |-> "allocate", carrier |-> c, size |-> n, val |-> v])
  BY <1>1 DEF CallAllocate, Leaves, Calls
<1>2. ASSUME NEW c \in Carrier, NEW w \in Window, NEW v \in Val \union {None}, NEW op \in {"read", "write"},
             CallTransfer(u, c, op, w, v)
      PROVE  Leaves(u, [op |-> op, carrier |-> c, window |-> w, val |-> v, before |-> version[c], at |-> 0])
  <2>1. version[c] \in 0 .. MaxVersion /\ 0 \in 0 .. Capacity
    BY Positive DEF TypeOK
  <2> QED BY <1>2, <2>1 DEF CallTransfer, Leaves, Calls
<1>3. ASSUME NEW c \in Carrier, CallRelease(u, c)
      PROVE  Leaves(u, [op |-> "release", carrier |-> c])
  BY <1>3 DEF CallRelease, Leaves, Calls
<1>4. ASSUME StartTransfer(u)
      PROVE  LET k == [call[u] EXCEPT !.at = extent[call[u].carrier][1]]
             IN call' = [call EXCEPT ![u] = k] /\ (k.at \in 0 .. Capacity => k \in Calls)
  BY <1>4, CallFields DEF StartTransfer, InTransfer, Calls
<1>5. ASSUME Retire(u)
      PROVE  Leaves(u, [op |-> "mark", carrier |-> call[u].carrier])
  <2>1. call[u].carrier \in Carrier /\ call[u] = [op |-> "release", carrier |-> call[u].carrier]
    BY <1>5, CallFields DEF Retire, Calls
  <2>2. [call[u] EXCEPT !.op = "mark"] = [op |-> "mark", carrier |-> call[u].carrier]
    BY <2>1
  <2>3. call' = [call EXCEPT ![u] = [call[u] EXCEPT !.op = "mark"]]
    BY <1>5 DEF Retire
  <2> QED BY <2>1, <2>2, <2>3 DEF Leaves, Calls
<1>6. ASSUME \/ RefuseAllocation(u) \/ Activate(u) \/ AbandonAllocation(u)
             \/ RefuseTransfer(u) \/ EndTransfer(u) \/ Mark(u)
      PROVE  Leaves(u, IdleCall)
  BY <1>6 DEF RefuseAllocation, Activate, AbandonAllocation, RefuseTransfer, EndTransfer, Mark, Returns,
             Leaves, Calls, IdleCall
<1> QED BY <1>1, <1>2, <1>3, <1>4, <1>5, <1>6

LEMMA CallReturned ==
    ASSUME TypeOK, NEW u \in User, Returns(u)
    PROVE  call' \in [User -> Calls]
  BY DEF Returns, TypeOK, Calls, IdleCall

LEMMA TypeStep ==
    ASSUME IInv, [Next]_vars
    PROVE  TypeOK'
<1> USE DEF IInv
<1>0. free' \in SUBSET Ranges
  BY LayoutStep DEF Layout
<1>1. ASSUME NEW u \in User, UserCalls(u)
      PROVE  TypeOK'
  <2>1. ASSUME NEW c \in Carrier, NEW n \in Size, NEW v \in Val \union {None}, CallAllocate(u, c, n, v)
        PROVE  TypeOK'
    BY <2>1, CallLeft DEF CallAllocate, Leaves, TypeOK, Objects, allocation, health
  <2>2. ASSUME NEW c \in Carrier, NEW w \in Window, NEW v \in Val \union {None}, NEW op \in {"read", "write"},
               CallTransfer(u, c, op, w, v)
        PROVE  TypeOK'
    BY <2>2, CallLeft DEF CallTransfer, Leaves, TypeOK, allocation, health
  <2>3. ASSUME NEW c \in Carrier, CallRelease(u, c)
        PROVE  TypeOK'
    BY <2>3, CallLeft DEF CallRelease, Leaves, TypeOK, allocation, health
  <2>4. ASSUME Close(u)
        PROVE  TypeOK'
    BY <2>4 DEF Close, TypeOK, allocation
  <2> QED BY <1>1, <2>1, <2>2, <2>3, <2>4 DEF UserCalls
<1>2. ASSUME NEW u \in User, RefuseAllocation(u)
      PROVE  TypeOK'
  BY <1>2, CallReturned DEF RefuseAllocation, TypeOK, Objects, allocation, health
<1>3. ASSUME NEW u \in User, Reserve(u)
      PROVE  TypeOK'
  <2> DEFINE c == call[u].carrier
  <2>1. c \in Carrier /\ Reserved' \subseteq Carrier /\ \A d \in Reserved' : extent'[d] \in Ranges
    BY <1>3, CallFields, LayoutStep DEF Layout, Reserve, Reserved
  <2>2. \E e : extent' = [extent EXCEPT ![c] = e]
    BY <1>3 DEF Reserve
  <2>3. extent' \in [Carrier -> Ranges \union {None}]
    BY <2>1, <2>2 DEF TypeOK, Reserved
  <2> QED BY <1>0, <1>3, <2>3 DEF Reserve, TypeOK, health
<1>4. ASSUME NEW u \in User, Activate(u)
      PROVE  TypeOK'
  <2>1. device' \in [Position -> Val \union {None}]
    BY <1>4, CallFields DEF Activate, Initialized, TypeOK
  <2> QED BY <1>4, <2>1, CallReturned, CallFields DEF Activate, TypeOK, Objects, health
<1>5. ASSUME NEW u \in User, AbandonAllocation(u)
      PROVE  TypeOK'
  <2>1. device' \in [Position -> Val \union {None}] /\ faulted' \in BOOLEAN
    BY <1>5, CallFields DEF AbandonAllocation, Initialized, TypeOK
  <2> QED BY <1>0, <1>5, <2>1, CallReturned DEF AbandonAllocation, TypeOK, Objects
<1>6. ASSUME NEW u \in User, RefuseTransfer(u) \/ Mark(u)
      PROVE  TypeOK'
  BY <1>6, CallReturned, CallFields DEF RefuseTransfer, Mark, TypeOK, allocation, health
<1>7. ASSUME NEW u \in User, StartTransfer(u)
      PROVE  TypeOK'
  <2> DEFINE c == call[u].carrier
  <2>1. c \in Carrier /\ extent[c] # None
    BY <1>7, CallFields DEF StartTransfer, Accessible, Extents
  <2>2. extent[c][1] \in 0 .. Capacity
    BY <2>1 DEF TypeOK, Ranges
  <2>3. version' \in [Carrier -> 0 .. MaxVersion]
    <3>1. version[c] \in 0 .. MaxVersion /\ MaxVersion \in Nat
      BY <2>1, ArenaAssumption DEF TypeOK
    <3>2. call[u].op = "write" => version[c] + 1 \in 0 .. MaxVersion
      BY <1>7, <3>1 DEF StartTransfer
    <3> QED BY <1>7, <3>2 DEF StartTransfer, TypeOK
  <2>4. call' \in [User -> Calls]
    <3>1. [call[u] EXCEPT !.at = extent[c][1]].at = extent[c][1]
      BY <1>7, CallFields DEF StartTransfer, Calls, InTransfer
    <3> QED BY <1>7, <2>2, <3>1, CallLeft DEF TypeOK
  <2> QED BY <1>7, <2>3, <2>4 DEF StartTransfer, TypeOK, allocation, health
<1>8. ASSUME NEW u \in User, EndTransfer(u)
      PROVE  TypeOK'
  <2>1. device' \in [Position -> Val \union {None}] /\ faulted' \in BOOLEAN
    BY <1>8, CallFields DEF EndTransfer, Written, TypeOK
  <2> QED BY <1>8, <2>1, CallReturned DEF EndTransfer, TypeOK, allocation
<1>9. ASSUME NEW u \in User, Retire(u)
      PROVE  TypeOK'
  BY <1>0, <1>9, CallLeft DEF Retire, Leaves, TypeOK, Objects, health
<1>10. ASSUME NEW c \in Carrier, Collect(c)
      PROVE  TypeOK'
  <2>1. 0 \in 0 .. MaxVersion
    BY ArenaAssumption
  <2> QED BY <1>0, <1>10, <2>1 DEF Collect, TypeOK, Objects, health
<1>11. ASSUME UNCHANGED vars
      PROVE  TypeOK'
  BY <1>11 DEF vars, allocation, health, TypeOK
<1> QED BY <1>1, <1>2, <1>3, <1>4, <1>5, <1>6, <1>7, <1>8, <1>9, <1>10, <1>11 DEF Next, CallStep
-----------------------------------------------------------------------------
(* The calls, the objects and the lock.                                    *)

LEMMA Unmoved ==
    ASSUME IInv, NEW u \in User, NEW k, call' = [call EXCEPT ![u] = k]
    PROVE  call'[u] = k /\ \A v \in User : v # u => call'[v] = call[v]
  BY DEF IInv, TypeOK

LEMMA ControlStep ==
    ASSUME IInv, [Next]_vars
    PROVE  Pending' /\ Referenced' /\ Locked'
<1> USE DEF IInv, Pending, Referenced, Locked, NamesCarrier
<1>0. object \in [Carrier -> Objects] /\ released \in SUBSET Carrier /\ holder \in User \union {None}
  BY DEF TypeOK
<1>1. \A v \in User : ~ Idle(v) => call[v].carrier \in Carrier
  BY CallFields
<1>1a. \A v \in User : call[v].op # "idle" => ~ Idle(v)
  BY DEF Idle, IdleCall
<1>1b. IdleCall.op = "idle"
  BY DEF IdleCall
<1>2. ASSUME NEW u \in User, UserCalls(u)
      PROVE  Pending' /\ Referenced' /\ Locked'
  <2>1. ASSUME NEW c \in Carrier, NEW n \in Size, NEW v \in Val \union {None}, CallAllocate(u, c, n, v)
        PROVE  Pending' /\ Referenced' /\ Locked'
    <3> DEFINE k == [op |-> "allocate", carrier |-> c, size |-> n, val |-> v]
    <3>1. call' = [call EXCEPT ![u] = k] /\ k.op = "allocate" /\ k.carrier = c
      BY <2>1 DEF CallAllocate
    <3> HIDE DEF k
    <3>2. call'[u] = k /\ \A x \in User : x # u => call'[x] = call[x]
      BY <3>1, Unmoved
    <3>3. object[c] = "none" /\ object'[c] = "pending" /\ \A d \in Carrier : d # c => object'[d] = object[d]
      BY <1>0, <2>1 DEF CallAllocate
    <3>4. UNCHANGED <<released, holder, closed, faulted>> /\ Idle(u)
      BY <2>1 DEF CallAllocate, health
    <3>5. Pending'
      BY <1>1, <1>1a, <3>1, <3>2, <3>3
    <3>6. Referenced'
      BY <1>0, <1>1, <1>1a, <3>1, <3>2, <3>3, <3>4
    <3>7. Locked'
      BY <1>0, <1>1b, <3>1, <3>2, <3>3, <3>4 DEF Idle
    <3> QED BY <3>5, <3>6, <3>7
  <2>2. ASSUME NEW c \in Carrier, NEW w \in Window, NEW v \in Val \union {None}, NEW op \in {"read", "write"},
               CallTransfer(u, c, op, w, v)
        PROVE  Pending' /\ Referenced' /\ Locked'
    <3> DEFINE k == [op |-> op, carrier |-> c, window |-> w, val |-> v, before |-> version[c], at |-> 0]
    <3>1. call' = [call EXCEPT ![u] = k] /\ k.op = op /\ k.carrier = c
      BY <2>2 DEF CallTransfer
    <3> HIDE DEF k
    <3>2. call'[u] = k /\ \A x \in User : x # u => call'[x] = call[x]
      BY <3>1, Unmoved
    <3>3. UNCHANGED <<object, released, holder, closed, faulted>> /\ object[c] \in {"live", "retired"}
      BY <2>2 DEF CallTransfer, health
    <3> QED BY <3>1, <3>2, <3>3
  <2>3. ASSUME NEW c \in Carrier, CallRelease(u, c)
        PROVE  Pending' /\ Referenced' /\ Locked'
    <3> DEFINE k == [op |-> "release", carrier |-> c]
    <3>1. call' = [call EXCEPT ![u] = k] /\ k.op = "release" /\ k.carrier = c
      BY <2>3 DEF CallRelease
    <3> HIDE DEF k
    <3>2. call'[u] = k /\ \A x \in User : x # u => call'[x] = call[x]
      BY <3>1, Unmoved
    <3>3. UNCHANGED <<object, released, holder, closed, faulted>> /\ object[c] \in {"live", "retired"} /\ Idle(u)
      BY <2>3 DEF CallRelease, health
    <3> QED BY <1>1b, <3>1, <3>2, <3>3 DEF Idle
  <2>4. ASSUME Close(u)
        PROVE  Pending' /\ Referenced' /\ Locked'
    BY <2>4 DEF Close
  <2> QED BY <1>2, <2>1, <2>2, <2>3, <2>4 DEF UserCalls
<1>3. ASSUME NEW u \in User, RefuseAllocation(u) \/ Activate(u) \/ AbandonAllocation(u)
      PROVE  Pending' /\ Referenced' /\ Locked'
  <2> DEFINE c == call[u].carrier
  <2>1. call' = [call EXCEPT ![u] = IdleCall] /\ call[u].op = "allocate" /\ c \in Carrier /\ object[c] = "pending"
    BY <1>1, <1>1a, <1>3 DEF RefuseAllocation, Activate, AbandonAllocation, Returns
  <2>2. call'[u] = IdleCall /\ \A x \in User : x # u => call'[x] = call[x]
    BY <2>1, Unmoved
  <2>3. /\ object'[c] \in {"none", "live"} /\ \A d \in Carrier : d # c => object'[d] = object[d]
        /\ RefuseAllocation(u) \/ AbandonAllocation(u) => object'[c] = "none"
        /\ Activate(u) => ~ closed
    BY <1>0, <1>3, <2>1, ArenaAssumption DEF RefuseAllocation, Activate, AbandonAllocation
  <2>4. released' = released /\ closed' = closed /\ holder' = None
    BY <1>3 DEF RefuseAllocation, Activate, AbandonAllocation, health
  <2> HIDE DEF c
  <2>5. Pending'
    BY <1>1, <1>1a, <1>1b, <2>1, <2>2, <2>3 DEF c
  <2>6. Referenced'
    BY <1>0, <1>1, <1>1a, <1>1b, <2>1, <2>2, <2>3, <2>4 DEF c
  <2>7. Locked'
    BY <1>0, <1>3, <2>1, <2>2, <2>3, <2>4, ArenaAssumption
  <2> QED BY <2>5, <2>6, <2>7
<1>4. ASSUME NEW u \in User, Reserve(u)
      PROVE  Pending' /\ Referenced' /\ Locked'
  BY <1>4 DEF Reserve, health
<1>5. ASSUME NEW u \in User, RefuseTransfer(u)
      PROVE  Pending' /\ Referenced' /\ Locked'
  <2>1. call'[u] = IdleCall /\ \A x \in User : x # u => call'[x] = call[x]
    BY <1>5, Unmoved DEF RefuseTransfer, Returns
  <2> QED BY <1>1b, <1>5, <2>1, ArenaAssumption DEF RefuseTransfer, health
<1>6. ASSUME NEW u \in User, StartTransfer(u)
      PROVE  Pending' /\ Referenced' /\ Locked'
  <2> DEFINE k == [call[u] EXCEPT !.at = extent[call[u].carrier][1]]
  <2>1. k.op = call[u].op /\ k.carrier = call[u].carrier
    BY <1>6, CallFields DEF StartTransfer, InTransfer, Calls
  <2>2. call' = [call EXCEPT ![u] = k]
    BY <1>6 DEF StartTransfer
  <2> HIDE DEF k
  <2>3. call'[u] = k /\ \A x \in User : x # u => call'[x] = call[x]
    BY <2>2, Unmoved
  <2>4. UNCHANGED <<object, released, closed, faulted>> /\ holder' = u /\ call[u].op \in {"read", "write"} /\ ~ closed /\ ~ faulted
    BY <1>6 DEF StartTransfer, health, Accessible, InTransfer
  <2> QED BY <2>1, <2>3, <2>4
<1>7. ASSUME NEW u \in User, EndTransfer(u)
      PROVE  Pending' /\ Referenced' /\ Locked'
  <2>1. call'[u] = IdleCall /\ \A x \in User : x # u => call'[x] = call[x]
    BY <1>7, Unmoved DEF EndTransfer, Returns
  <2>2. UNCHANGED <<object, released, closed>> /\ holder' = None
    BY <1>7 DEF EndTransfer
  <2> QED BY <1>1b, <2>1, <2>2, ArenaAssumption
<1>8. ASSUME NEW u \in User, Retire(u)
      PROVE  Pending' /\ Referenced' /\ Locked'
  <2> DEFINE c == call[u].carrier
             k == [op |-> "mark", carrier |-> c]
  <2>1. call' = [call EXCEPT ![u] = k] /\ k.op = "mark" /\ k.carrier = c
    BY <1>8, CallLeft DEF Leaves
  <2>2. c \in Carrier /\ object[c] \in {"live", "retired"} /\ holder = None /\ call[u].op = "release"
    BY <1>1, <1>1a, <1>8 DEF Retire
  <2> HIDE DEF k
  <2>3. call'[u] = k /\ \A x \in User : x # u => call'[x] = call[x]
    BY <2>1, Unmoved
  <2>4. object'[c] = "retired" /\ \A d \in Carrier : d # c => object'[d] = object[d]
    BY <1>0, <1>8, <2>2 DEF Retire
  <2>5. UNCHANGED <<released, holder, closed, faulted>>
    BY <1>8 DEF Retire, health
  <2> HIDE DEF c
  <2>6. Pending'
    BY <1>1, <1>1a, <2>1, <2>2, <2>3, <2>4
  <2>7. Referenced'
    BY <1>0, <1>1, <1>1a, <2>1, <2>2, <2>3, <2>4, <2>5
  <2>8. Locked'
    BY <1>0, <2>2, <2>4, <2>5, ArenaAssumption
  <2> QED BY <2>6, <2>7, <2>8
<1>9. ASSUME NEW u \in User, Mark(u)
      PROVE  Pending' /\ Referenced' /\ Locked'
  <2>1. call'[u] = IdleCall /\ \A x \in User : x # u => call'[x] = call[x]
    BY <1>9, Unmoved DEF Mark, Returns
  <2>2. UNCHANGED <<object, holder, closed, faulted>> /\ released' = released \union {call[u].carrier} /\ call[u].op = "mark"
    BY <1>9 DEF Mark, health
  <2> QED BY <1>1b, <2>1, <2>2
<1>10. ASSUME NEW c \in Carrier, Collect(c)
       PROVE  Pending' /\ Referenced' /\ Locked'
  <2>1. /\ object'[c] = "none" /\ \A d \in Carrier : d # c => object'[d] = object[d]
        /\ object[c] \in {"live", "retired"} /\ holder = None
        /\ \A u \in User : ~ Idle(u) => call[u].carrier # c
        /\ released' = released \ {c} /\ UNCHANGED <<holder, closed, faulted, call>>
    BY <1>0, <1>10 DEF Collect, health
  <2> QED BY <1>0, <1>1, <1>1a, <2>1, ArenaAssumption
<1>11. ASSUME UNCHANGED vars
       PROVE  Pending' /\ Referenced' /\ Locked'
  BY <1>11 DEF vars, health
<1> QED BY <1>2, <1>3, <1>4, <1>5, <1>6, <1>7, <1>8, <1>9, <1>10, <1>11 DEF Next, CallStep
-----------------------------------------------------------------------------
(* The extents, the transfers in the device, and the versions.             *)

(* Extents, Attached and Versions speak of these fields of a call only.    *)
LEMMA WorkStep ==
    ASSUME IInv, [Next]_vars
    PROVE  Extents' /\ Attached' /\ Versions'
<1> USE DEF IInv, Extents, Attached, Versions, Making, Transfer, InTransfer
<1>0. /\ object \in [Carrier -> Objects] /\ extent \in [Carrier -> Ranges \union {None}]
      /\ size \in [Carrier -> Size \union {0}] /\ version \in [Carrier -> 0 .. MaxVersion]
      /\ holder \in User \union {None}
  BY DEF TypeOK
<1>1. \A v \in User : ~ Idle(v) => call[v].carrier \in Carrier
  BY CallFields
<1>1a. \A v \in User : call[v].op # "idle" => ~ Idle(v)
  BY DEF Idle, IdleCall
<1>1b. IdleCall.op = "idle"
  BY DEF IdleCall
<1>2. ASSUME NEW u \in User, UserCalls(u)
      PROVE  Extents' /\ Attached' /\ Versions'
  <2>0. holder # u
    <3>1. Idle(u)
      BY <1>2 DEF UserCalls, CallAllocate, CallTransfer, CallRelease, Close
    <3> QED BY <1>1b, <3>1 DEF Locked, Idle
  <2>1. ASSUME NEW c \in Carrier, NEW n \in Size, NEW v \in Val \union {None}, CallAllocate(u, c, n, v)
        PROVE  Extents' /\ Attached' /\ Versions'
    <3> DEFINE k == [op |-> "allocate", carrier |-> c, size |-> n, val |-> v]
    <3>1. call' = [call EXCEPT ![u] = k] /\ k.op = "allocate" /\ k.carrier = c
      BY <2>1 DEF CallAllocate
    <3> HIDE DEF k
    <3>2. call'[u] = k /\ \A x \in User : x # u => call'[x] = call[x]
      BY <3>1, Unmoved
    <3>3. object[c] = "none" /\ object'[c] = "pending" /\ \A d \in Carrier : d # c => object'[d] = object[d]
      BY <1>0, <2>1 DEF CallAllocate
    <3>4. UNCHANGED <<extent, size, version, holder>>
      BY <2>1 DEF CallAllocate, health, allocation
    <3>5. \A x \in User : holder = x => x # u /\ call[x].carrier \in Carrier
      BY <1>1, <1>1a, <2>0 DEF Locked
    <3>6. Extents'
      BY <2>0, <3>1, <3>2, <3>3, <3>4, <3>5
    <3>7. Attached'
      BY <2>0, <3>1, <3>2, <3>3, <3>4, <3>5
    <3>8. Versions'
      BY <2>0, <3>1, <3>2, <3>3, <3>4, <3>5
    <3> QED BY <3>6, <3>7, <3>8
  <2>2. ASSUME NEW c \in Carrier, NEW w \in Window, NEW v \in Val \union {None}, NEW op \in {"read", "write"},
               CallTransfer(u, c, op, w, v)
        PROVE  Extents' /\ Attached' /\ Versions'
    <3> DEFINE k == [op |-> op, carrier |-> c, window |-> w, val |-> v, before |-> version[c], at |-> 0]
    <3>1. call' = [call EXCEPT ![u] = k] /\ k.op = op /\ k.carrier = c /\ k.before = version[c]
      BY <2>2 DEF CallTransfer
    <3> HIDE DEF k
    <3>2. call'[u] = k /\ \A x \in User : x # u => call'[x] = call[x]
      BY <3>1, Unmoved
    <3>3. UNCHANGED <<object, extent, size, version, holder>> /\ version[c] \in Int
      BY <1>0, <2>2 DEF CallTransfer, health, allocation
    <3>4. Extents'
      BY <2>0, <3>1, <3>2, <3>3
    <3>5. Attached'
      BY <2>0, <3>1, <3>2, <3>3
    <3>6. Versions'
      BY <2>0, <3>1, <3>2, <3>3
    <3> QED BY <3>4, <3>5, <3>6
  <2>3. ASSUME NEW c \in Carrier, CallRelease(u, c)
        PROVE  Extents' /\ Attached' /\ Versions'
    <3> DEFINE k == [op |-> "release", carrier |-> c]
    <3>1. call' = [call EXCEPT ![u] = k] /\ k.op = "release"
      BY <2>3 DEF CallRelease
    <3> HIDE DEF k
    <3>2. call'[u] = k /\ \A x \in User : x # u => call'[x] = call[x]
      BY <3>1, Unmoved
    <3>3. UNCHANGED <<object, extent, size, version, holder>>
      BY <2>3 DEF CallRelease, health, allocation
    <3> QED BY <2>0, <3>1, <3>2, <3>3
  <2>4. ASSUME Close(u)
        PROVE  Extents' /\ Attached' /\ Versions'
    BY <2>4 DEF Close, allocation
  <2> QED BY <1>2, <2>1, <2>2, <2>3, <2>4 DEF UserCalls
<1>3. ASSUME NEW u \in User, RefuseAllocation(u)
      PROVE  Extents' /\ Attached' /\ Versions'
  <2>1. call'[u] = IdleCall /\ \A x \in User : x # u => call'[x] = call[x]
    BY <1>3, Unmoved DEF RefuseAllocation, Returns
  <2>2. /\ UNCHANGED <<extent, size, version, holder>> /\ holder = None
        /\ \A d \in Carrier : object'[d] = object[d] \/ (object'[d] = "none" /\ object[d] = "pending")
    <3>1. call[u].carrier \in Carrier /\ object[call[u].carrier] = "pending"
      BY <1>1, <1>1a, <1>3 DEF RefuseAllocation, Pending
    <3>2. object' = [object EXCEPT ![call[u].carrier] = "none"]
      BY <1>3 DEF RefuseAllocation
    <3>3. UNCHANGED <<extent, size, version, holder>> /\ holder = None
      BY <1>3 DEF RefuseAllocation, health, allocation
    <3>4. \A d \in Carrier : object'[d] = object[d] \/ (object'[d] = "none" /\ object[d] = "pending")
      <4> DEFINE c == call[u].carrier
      <4>1. object' = [object EXCEPT ![c] = "none"] /\ object[c] = "pending"
        BY <3>1, <3>2
      <4> HIDE DEF c
      <4> QED BY ONLY <1>0, <4>1
    <3> QED BY <3>3, <3>4
  <2>3. \A x \in User : ~ (holder = x)
    BY <2>2, ArenaAssumption
  <2>4. Extents'
    BY <2>2, <2>3
  <2> QED BY <1>1b, <2>1, <2>2, <2>3, <2>4
<1>4. ASSUME NEW u \in User, Reserve(u)
      PROVE  Extents' /\ Attached' /\ Versions'
  <2> DEFINE c == call[u].carrier
             e == extent'[c]
  <2>1. c \in Carrier /\ call[u].op = "allocate" /\ call[u].size \in Nat /\ holder = None /\ holder' = u
        /\ UNCHANGED <<object, size, version, call>> /\ object[c] = "pending"
    BY <1>1, <1>1a, <1>4, CallFields DEF Reserve, Pending
  <2>2. e # None /\ e[1] % Alignment = 0 /\ e[2] = RoundUp(call[u].size)
    <3> DEFINE n == RoundUp(call[u].size)
    <3>1. n \in Nat
      BY <2>1, RoundUpBounds
    <3>2. CASE n = 0
      <4>1. e = <<0, 0>>
        BY <1>0, <1>4, <2>1, <3>2 DEF Reserve
      <4> QED BY <3>2, <4>1, Positive, ArenaAssumption
    <3>3. CASE n # 0
      <4> DEFINE r == Lowest(Suitable(n))
      <4>1. Suitable(n) # {} /\ Suitable(n) \in SUBSET Ranges /\ e = <<RoundUp(r[1]), n>>
        BY <1>0, <1>4, <2>1, <3>3 DEF Reserve, Layout, Suitable
      <4>2. r[1] \in Nat
        BY <4>1, LowestIsLowest DEF Ranges
      <4>3. RoundUp(r[1]) % Alignment = 0 /\ RoundUp(r[1]) \in Nat
        BY <4>2, RoundUpAligned, RoundUpBounds
      <4>4. e # None
        BY <3>1, <4>1, <4>3, ArenaAssumption
      <4> QED BY <4>1, <4>3, <4>4
    <3> QED BY <3>2, <3>3
  <2>3. \A d \in Carrier : d # c => extent'[d] = extent[d]
    BY <1>0, <1>4, <2>1 DEF Reserve
  <2>4. \A x \in User : ~ (holder = x)
    BY <2>1, ArenaAssumption
  <2> HIDE DEF e, c
  <2>5. Extents'
    <3>1. \A d \in Carrier : object[d] = "live" => d # c
      BY <2>1
    <3> QED BY <2>1, <2>2, <2>3, <2>4, <3>1 DEF e, c
  <2>6. Attached' /\ Versions'
    BY <2>1, <2>4
  <2> QED BY <2>5, <2>6
<1>5. ASSUME NEW u \in User, Activate(u)
      PROVE  Extents' /\ Attached' /\ Versions'
  <2> DEFINE c == call[u].carrier
  <2>1. /\ c \in Carrier /\ call[u].op = "allocate" /\ holder = u /\ holder' = None /\ UNCHANGED <<extent, version>>
        /\ call' = [call EXCEPT ![u] = IdleCall]
    BY <1>1, <1>1a, <1>5 DEF Activate, Returns
  <2>2. call'[u] = IdleCall /\ \A x \in User : x # u => call'[x] = call[x]
    BY <2>1, Unmoved
  <2>3. /\ object'[c] = "live" /\ size'[c] = call[u].size
        /\ \A d \in Carrier : d # c => object'[d] = object[d] /\ size'[d] = size[d]
    BY <1>0, <1>5, <2>1 DEF Activate
  <2>4. \A x \in User : ~ (holder' = x)
    BY <2>1, ArenaAssumption
  <2>5. extent[c] # None /\ extent[c][1] % Alignment = 0 /\ extent[c][2] = RoundUp(call[u].size)
    BY <2>1
  <2> HIDE DEF c
  <2>6. Extents'
    BY <2>1, <2>3, <2>4, <2>5 DEF c
  <2> QED BY <1>1b, <2>1, <2>2, <2>4, <2>6
<1>6. ASSUME NEW u \in User, AbandonAllocation(u)
      PROVE  Extents' /\ Attached' /\ Versions'
  <2> DEFINE c == call[u].carrier
  <2>1. /\ c \in Carrier /\ call[u].op = "allocate" /\ holder = u /\ holder' = None /\ UNCHANGED <<size, version>>
        /\ call' = [call EXCEPT ![u] = IdleCall]
    BY <1>1, <1>1a, <1>6 DEF AbandonAllocation, Returns
  <2>2. call'[u] = IdleCall /\ \A x \in User : x # u => call'[x] = call[x]
    BY <2>1, Unmoved
  <2>3. /\ object'[c] = "none" /\ extent'[c] = None
        /\ \A d \in Carrier : d # c => object'[d] = object[d] /\ extent'[d] = extent[d]
    BY <1>0, <1>6, <2>1 DEF AbandonAllocation
  <2>4. \A x \in User : ~ (holder' = x)
    BY <2>1, ArenaAssumption
  <2> HIDE DEF c
  <2>5. Extents'
    BY <2>1, <2>3, <2>4 DEF c
  <2> QED BY <1>1b, <2>1, <2>2, <2>4, <2>5
<1>7. ASSUME NEW u \in User, RefuseTransfer(u) \/ Mark(u)
      PROVE  Extents' /\ Attached' /\ Versions'
  <2>0. call' = [call EXCEPT ![u] = IdleCall]
    BY <1>7 DEF RefuseTransfer, Mark, Returns
  <2>1. call'[u] = IdleCall /\ \A x \in User : x # u => call'[x] = call[x]
    BY <2>0, Unmoved
  <2>2. UNCHANGED <<object, extent, size, version, holder>> /\ holder # u
    BY <1>7, ArenaAssumption DEF RefuseTransfer, Mark, allocation, health, Locked
  <2> QED BY <1>1b, <2>1, <2>2
<1>8. ASSUME NEW u \in User, StartTransfer(u)
      PROVE  Extents' /\ Attached' /\ Versions'
  <2> DEFINE c == call[u].carrier
             k == [call[u] EXCEPT !.at = extent[c][1]]
  <2>1. /\ c \in Carrier /\ InTransfer(u) /\ holder = None /\ holder' = u /\ UNCHANGED <<object, extent, size>>
        /\ object[c] = "live" /\ call[u].window \subseteq 0 .. size[c] - 1
    BY <1>8, CallFields DEF StartTransfer, Accessible, allocation
  <2>2. call' = [call EXCEPT ![u] = k]
    BY <1>8 DEF StartTransfer
  <2>3. k.op = call[u].op /\ k.carrier = c /\ k.window = call[u].window /\ k.before = call[u].before /\ k.at = extent[c][1]
    BY <2>1, CallFields DEF Calls
  <2>4. /\ call[u].op = "write" => version'[c] = version[c] + 1
        /\ version'[c] >= version[c] /\ \A d \in Carrier : d # c => version'[d] = version[d]
    BY <1>0, <1>8, <2>1 DEF StartTransfer
  <2>5. \A x \in User : InTransfer(x) => call[x].carrier \in Carrier /\ call[x].before \in Int
    BY CallFields
  <2>6. \A d \in Carrier : version[d] \in Int
    BY <1>0
  <2>7. version'[c] \in Int
    BY <1>0, <1>8, <2>1 DEF StartTransfer
  <2>8. \A x \in User : ~ (holder = x)
    BY <2>1, ArenaAssumption
  <2> HIDE DEF k
  <2>9. call'[u] = k /\ \A x \in User : x # u => call'[x] = call[x]
    BY <2>2, Unmoved
  <2>10. Extents'
    <3>1. \A x \in User : ~ (holder' = x /\ call'[x].op = "allocate")
      BY <2>1, <2>3, <2>9
    <3>2. \A d \in Carrier : extent[d] # None => object[d] = "live"
      BY <2>8
    <3> QED BY <2>1, <3>1, <3>2
  <2>11. Attached'
    BY <2>1, <2>3, <2>9
  <2>12. Versions'
    <3>1. ASSUME NEW x \in User, InTransfer(x)'
          PROVE  call'[x].before <= version'[call'[x].carrier]
      BY <2>1, <2>3, <2>4, <2>5, <2>6, <2>7, <2>9, <3>1
    <3>2. ASSUME call[u].op = "write"
          PROVE  call'[u].before < version'[call'[u].carrier]
      BY <2>1, <2>3, <2>4, <2>5, <2>6, <2>9, <3>2
    <3> QED BY <2>1, <2>3, <2>9, <3>1, <3>2
  <2> QED BY <2>10, <2>11, <2>12
<1>9. ASSUME NEW u \in User, EndTransfer(u)
      PROVE  Extents' /\ Attached' /\ Versions'
  <2>1. call'[u] = IdleCall /\ \A x \in User : x # u => call'[x] = call[x]
    BY <1>9, Unmoved DEF EndTransfer, Returns
  <2>2. UNCHANGED <<object, extent, size, version>> /\ holder = u /\ holder' = None /\ call[u].op # "allocate"
    BY <1>9 DEF EndTransfer, allocation
  <2>3. \A x \in User : ~ (holder' = x)
    BY <2>2, ArenaAssumption
  <2>4. Extents'
    BY <2>2, <2>3
  <2> QED BY <1>1b, <2>1, <2>2, <2>3, <2>4
<1>10. ASSUME NEW u \in User, Retire(u)
       PROVE  Extents' /\ Attached' /\ Versions'
  <2> DEFINE c == call[u].carrier
             k == [op |-> "mark", carrier |-> c]
  <2>1. call' = [call EXCEPT ![u] = k] /\ k.op = "mark"
    BY <1>10, CallLeft DEF Leaves
  <2>2. c \in Carrier /\ holder = None /\ holder' = None /\ UNCHANGED version
    BY <1>1, <1>1a, <1>10 DEF Retire
  <2> HIDE DEF k
  <2>3. call'[u] = k /\ \A x \in User : x # u => call'[x] = call[x]
    BY <2>1, Unmoved
  <2>4. /\ object'[c] = "retired" /\ extent'[c] = None
        /\ \A d \in Carrier : d # c => object'[d] = object[d] /\ extent'[d] = extent[d] /\ size'[d] = size[d]
    BY <1>0, <1>10, <2>2 DEF Retire
  <2>5. \A x \in User : ~ (holder = x)
    BY <2>2, ArenaAssumption
  <2> HIDE DEF c
  <2>6. Extents'
    BY <2>2, <2>4, <2>5
  <2> QED BY <2>1, <2>2, <2>3, <2>5, <2>6
<1>11. ASSUME NEW c \in Carrier, Collect(c)
       PROVE  Extents' /\ Attached' /\ Versions'
  <2>1. /\ object'[c] = "none" /\ extent'[c] = None
        /\ \A d \in Carrier : d # c => object'[d] = object[d] /\ extent'[d] = extent[d] /\ size'[d] = size[d]
                                       /\ version'[d] = version[d]
    BY <1>0, <1>11 DEF Collect
  <2>2. \A u \in User : ~ Idle(u) => call[u].carrier # c /\ call[u].carrier \in Carrier
    BY <1>1, <1>11 DEF Collect
  <2>3. UNCHANGED <<call, holder>> /\ holder = None
    BY <1>11 DEF Collect
  <2>4. \A x \in User : ~ (holder = x)
    BY <2>3, ArenaAssumption
  <2>5. Extents'
    BY <2>1, <2>3, <2>4
  <2>6. Attached' /\ Versions'
    BY <1>1a, <2>1, <2>2, <2>3, <2>4
  <2> QED BY <2>5, <2>6
<1>12. ASSUME UNCHANGED vars
       PROVE  Extents' /\ Attached' /\ Versions'
  BY <1>12 DEF vars, allocation
<1> QED BY <1>2, <1>3, <1>4, <1>5, <1>6, <1>7, <1>8, <1>9, <1>10, <1>11, <1>12 DEF Next, CallStep
-----------------------------------------------------------------------------
LEMMA InitInvariant == Init => IInv
<1> SUFFICES ASSUME Init PROVE IInv
  OBVIOUS
<1>1. TypeOK
  <2>1. 0 \in 0 .. MaxVersion /\ <<0, Capacity>> \in Ranges
    BY Positive, ArenaAssumption DEF Ranges
  <2> QED BY <2>1 DEF Init, TypeOK, Objects, Calls, IdleCall
<1>2. Layout
  <2> DEFINE r == <<0, Capacity>>
  <2>1. free = {r} /\ Reserved = {} /\ r \in Ranges /\ r[2] > 0 /\ Stop(r) = Capacity /\ r[1] = 0
    BY Positive DEF Init, Reserved, Ranges, Stop
  <2>2. \A x \in Position : Covers(r, x)
    BY <2>1, Positive DEF Position, Covers
  <2> HIDE DEF r
  <2> QED BY <2>1, <2>2, Positive DEF Layout
<1>3. \A u \in User : call[u] = IdleCall /\ call[u].op = "idle"
  BY DEF Init, IdleCall
<1>4. \A u \in User : ~ (holder = u)
  BY ArenaAssumption DEF Init
<1> QED BY <1>1, <1>2, <1>3, <1>4 DEF Init, IInv, Pending, Referenced, NamesCarrier, Locked, Extents, Attached,
                                     Versions, Making, Transfer, InTransfer

LEMMA InvariantStep == IInv /\ [Next]_vars => IInv'
  BY LayoutStep, TypeStep, ControlStep, WorkStep DEF IInv

LEMMA Invariant == Spec => []IInv
  BY InitInvariant, InvariantStep, PTL DEF Spec

(* The variables keep their types: for any device and any threads, every   *)
(* free range and every extent lies on the device.                         *)
THEOREM TypeCorrect == Spec => []TypeOK
<1>1. IInv => TypeOK
  BY DEF IInv
<1> QED BY <1>1, Invariant, PTL

(* Nothing is lost and nothing is given out twice, whatever fails, and the *)
(* search of the free ranges misses no place (_reserve_locked and          *)
(* _free_locked, carrier.py:311-372).                                      *)
THEOREM DevicePartitioned == Spec => []Partition
<1>1. IInv => Partition
  <2> SUFFICES ASSUME IInv PROVE Partition
    OBVIOUS
  <2>1. Layout
    BY DEF IInv
  <2>2. ASSUME NEW s \in Size \ {0}
        PROVE  LET n == RoundUp(s)
               IN IF Suitable(n) = {} THEN Places(n) = {}
                  ELSE LET a == RoundUp(Lowest(Suitable(n))[1])
                       IN a \in Places(n) /\ \A b \in Places(n) : a <= b
    <3>1. RoundUp(s) \in Nat /\ RoundUp(s) > 0
      BY RoundUpBounds, ArenaAssumption
    <3> QED BY <2>1, <3>1, SearchIsExact
  <2>3. FirstFit
    BY <2>2 DEF FirstFit
  <2> QED BY <2>1, <2>3, LayoutPartitions DEF Partition
<1> QED BY <1>1, Invariant, PTL

(* The extent of a live carrier covers its payload, nobody else keeps one, *)
(* and a closed device has no live carrier.                                *)
THEOREM ExtentsKept == Spec => []ExtentsCover
<1>1. IInv => ExtentsCover
  <2> SUFFICES ASSUME IInv PROVE ExtentsCover
    OBVIOUS
  <2>1. \A c \in Carrier : object[c] = "live" => c \notin released
    BY DEF IInv, Referenced
  <2>2. \A c \in Carrier : object[c] = "live" => /\ extent[c] # None
                                                 /\ extent[c][1] % Alignment = 0
                                                 /\ extent[c][2] = RoundUp(size[c])
    BY DEF IInv, Extents
  <2>3. \A c \in Carrier : extent[c] # None => \/ object[c] = "live"
                                               \/ \E u \in User : holder = u /\ call[u].op = "allocate" /\ call[u].carrier = c
    BY DEF IInv, Extents, Making
  <2>4. closed => holder = None /\ \A c \in Carrier : object[c] \in {"none", "pending"}
    BY DEF IInv, Locked
  <2> QED BY <2>1, <2>2, <2>3, <2>4 DEF ExtentsCover
<1> QED BY <1>1, Invariant, PTL

(* A transfer in the device touches its own carrier's slots only.          *)
THEOREM TransfersOwnTheirPayload == Spec => []TransferOwnsPayload
<1>1. IInv => TransferOwnsPayload
  <2> SUFFICES ASSUME IInv, NEW u \in User, holder = u, InTransfer(u)
               PROVE  LET c == call[u].carrier
                      IN /\ object[c] = "live" /\ extent[c] # None
                         /\ \A i \in call[u].window : i \in 0 .. size[c] - 1
                                                      /\ call[u].at + i \in Cells(extent[c])
    BY DEF TransferOwnsPayload
  <2> DEFINE c == call[u].carrier
  <2>1. /\ c \in Carrier /\ object[c] = "live" /\ extent[c] # None
        /\ call[u].window \subseteq 0 .. size[c] - 1 /\ call[u].at = extent[c][1]
    BY CallFields DEF IInv, Attached, Transfer, Extents
  <2>2. extent[c] \in Nat \X Nat /\ extent[c][2] = RoundUp(size[c]) /\ size[c] \in Nat
    BY <2>1, Positive, ArenaAssumption DEF IInv, Extents, TypeOK, Ranges
  <2>3. size[c] <= extent[c][2]
    BY <2>2, RoundUpBounds
  <2> HIDE DEF c
  <2>4. \A i \in call[u].window : i \in 0 .. size[c] - 1 /\ call[u].at + i \in Cells(extent[c])
    BY <2>1, <2>2, <2>3 DEF Cells, Stop
  <2> QED BY <2>1, <2>4 DEF c
<1> QED BY <1>1, Invariant, PTL

(* A write that changes a slot, even one that fails half-way, has moved    *)
(* the version of its carrier first (carrier.py:700-735).                  *)
THEOREM WritesMoveVersions == Spec => WritesAreVersioned
<1> DEFINE Versioned == \A u \in User : holder = u /\ InTransfer(u) /\ device' # device =>
                            version[call[u].carrier] > call[u].before
<1>1. IInv /\ [Next]_vars => [Versioned]_vars
  <2> SUFFICES ASSUME IInv, Next, NEW u \in User, holder = u, InTransfer(u), device' # device
               PROVE  version[call[u].carrier] > call[u].before
    BY DEF vars
  <2>1. call[u].op = "write"
    <3>1. ASSUME NEW w \in User, UserCalls(w) PROVE device' = device
      BY <3>1 DEF UserCalls, CallAllocate, CallTransfer, CallRelease, Close
    <3>2. ASSUME NEW w \in User, Activate(w) \/ AbandonAllocation(w) PROVE FALSE
      BY <3>2 DEF Activate, AbandonAllocation, InTransfer
    <3>3. ASSUME NEW w \in User, \/ RefuseAllocation(w) \/ Reserve(w) \/ RefuseTransfer(w)
                                 \/ StartTransfer(w) \/ Retire(w) \/ Mark(w)
          PROVE device' = device
      BY <3>3 DEF RefuseAllocation, Reserve, RefuseTransfer, StartTransfer, Retire, Mark
    <3>4. ASSUME NEW c \in Carrier, Collect(c) PROVE device' = device
      BY <3>4 DEF Collect
    <3>5. ASSUME NEW w \in User, EndTransfer(w) PROVE call[u].op = "write"
      BY <3>5 DEF EndTransfer
    <3> QED BY <3>1, <3>2, <3>3, <3>4, <3>5 DEF Next, CallStep
  <2>2. call[u].before < version[call[u].carrier]
    BY <2>1 DEF IInv, Versions, Transfer
  <2>3. version[call[u].carrier] \in Int /\ call[u].before \in Int
    BY CallFields DEF IInv, TypeOK
  <2> QED BY <2>2, <2>3
<1> QED BY <1>1, Invariant, PTL DEF Spec, WritesAreVersioned
-----------------------------------------------------------------------------
(* BlockDeviceArena implements ArenaMemory.  Between the reservation of a  *)
(* range and the activation of its carrier the place must stay the first   *)
(* that the other extents leave free: nobody else can take the lock.       *)

OthersUse(c) == UNION {Cells(extent[d]) : d \in Reserved \ {c}}

Fits(b, n, c) == b + n <= Capacity /\ b % Alignment = 0 /\ (b .. b + n - 1) \intersect OthersUse(c) = {}

Fitted ==
    /\ \A c \in Carrier : object[c] = "live" => size[c] \in Size
    /\ \A u \in User : Making(u) =>
           LET c == call[u].carrier
               n == RoundUp(call[u].size)
           IN /\ n = 0 => extent[c][1] = 0
              /\ n > 0 => \A b \in Nat : Fits(b, n, c) => extent[c][1] <= b

LEMMA FittedStep ==
    ASSUME IInv, Fitted, [Next]_vars
    PROVE  Fitted'
<1> USE DEF IInv, Making
<1>0. /\ object \in [Carrier -> Objects] /\ extent \in [Carrier -> Ranges \union {None}]
      /\ size \in [Carrier -> Size \union {0}]
  BY DEF TypeOK
<1>1. \A v \in User : call[v].op = "allocate" => call[v].carrier \in Carrier /\ call[v].size \in Size
  BY CallFields
<1>2. ASSUME NEW u \in User, Reserve(u)
      PROVE  Fitted'
  <2> DEFINE c == call[u].carrier
             n == RoundUp(call[u].size)
  <2>1. /\ c \in Carrier /\ n \in Nat /\ holder = None /\ holder' = u
        /\ UNCHANGED <<object, size, call>> /\ extent[c] = None
    BY <1>1, <1>2, CallFields, RoundUpBounds, ReservedAfresh DEF Reserve
  <2>2. n = 0 => extent'[c][1] = 0
    BY <1>0, <1>2, <2>1 DEF Reserve
  <2>3. ASSUME n > 0
        PROVE  \A b \in Nat : Fits(b, n, c)' => extent'[c][1] <= b
    <3>1. \A d \in Reserved : d # c /\ extent'[d] = extent[d] /\ d \in Reserved'
      BY <1>0, <1>2, <2>1 DEF Reserve, Reserved
    <3>2. Used \subseteq OthersUse(c)'
      BY <2>1, <3>1 DEF Used, OthersUse, Cells, Stop
    <3>3. Suitable(n) # {} /\ extent'[c][1] = RoundUp(Lowest(Suitable(n))[1])
      BY <1>0, <1>2, <2>1, <2>3 DEF Reserve
    <3>4. \A b \in Places(n) : extent'[c][1] <= b
      BY <2>1, <2>3, <3>3, SearchIsExact
    <3>5. ASSUME NEW b \in Nat, Fits(b, n, c)'
          PROVE  b \in Places(n)
      BY <2>1, <3>2, <3>5, Positive DEF Places, Fits
    <3> QED BY <3>4, <3>5
  <2>4. \A v \in User : holder' = v => v = u
    BY <2>1
  <2> QED BY <1>1, <2>1, <2>2, <2>3, <2>4 DEF Fitted
<1>3. ASSUME NEW u \in User, Activate(u) \/ AbandonAllocation(u) \/ EndTransfer(u)
      PROVE  Fitted'
  <2>1. \A v \in User : ~ (holder' = v)
    BY <1>3, ArenaAssumption DEF Activate, AbandonAllocation, EndTransfer
  <2>2. \A c \in Carrier : (object[c] = "live")' => size'[c] \in Size
    <3>1. CASE EndTransfer(u)
      BY <3>1 DEF EndTransfer, Fitted, allocation
    <3>2. CASE AbandonAllocation(u)
      BY <1>0, <1>1, <3>2 DEF AbandonAllocation, Fitted
    <3>3. CASE Activate(u)
      BY <1>0, <1>1, <3>3 DEF Activate, Fitted
    <3> QED BY <1>3, <3>1, <3>2, <3>3
  <2> QED BY <2>1, <2>2 DEF Fitted
<1>4. ASSUME NEW u \in User, RefuseAllocation(u) \/ RefuseTransfer(u) \/ Retire(u)
      PROVE  Fitted'
  <2>1. holder' = None
    BY <1>4 DEF RefuseAllocation, RefuseTransfer, Retire
  <2>2. \A v \in User : ~ (holder' = v)
    BY <2>1, ArenaAssumption
  <2>3. \A c \in Carrier : (object[c] = "live")' => object[c] = "live" /\ size'[c] = size[c]
    <3>1. CASE RefuseAllocation(u)
      BY <1>0, <1>1, <3>1 DEF RefuseAllocation, allocation
    <3>2. CASE RefuseTransfer(u)
      BY <3>2 DEF RefuseTransfer, allocation
    <3>3. CASE Retire(u)
      BY <1>0, <3>3, CallFields DEF Retire
    <3> QED BY <1>4, <3>1, <3>2, <3>3
  <2> QED BY <2>2, <2>3 DEF Fitted
<1>5. ASSUME NEW u \in User, StartTransfer(u)
      PROVE  Fitted'
  <2>1. InTransfer(u) /\ holder' = u /\ UNCHANGED <<size, object>>
    BY <1>5 DEF StartTransfer, allocation
  <2>2. call'[u].op = call[u].op
    BY <1>5, <2>1, CallFields DEF StartTransfer, InTransfer, Calls, TypeOK
  <2> QED BY <2>1, <2>2 DEF Fitted, InTransfer
<1>6. ASSUME NEW c \in Carrier, Collect(c)
      PROVE  Fitted'
  <2>1. \A v \in User : ~ (holder' = v)
    BY <1>6, ArenaAssumption DEF Collect
  <2>2. \A d \in Carrier : (object[d] = "live")' => object[d] = "live" /\ size'[d] = size[d]
    BY <1>0, <1>6 DEF Collect
  <2> QED BY <2>1, <2>2 DEF Fitted
<1>7. ASSUME NEW u \in User, UserCalls(u) \/ Mark(u)
      PROVE  Fitted'
  <2>1. UNCHANGED <<extent, size, holder>> /\ \A c \in Carrier : (object[c] = "live")' <=> object[c] = "live"
    <3>1. CASE Mark(u)
      BY <3>1 DEF Mark, allocation
    <3>2. CASE UserCalls(u)
      BY <1>0, <3>2 DEF UserCalls, CallAllocate, CallTransfer, CallRelease, Close, allocation
    <3> QED BY <1>7, <3>1, <3>2
  <2>2. call[u].op \in {"idle", "mark"}
    BY <1>7 DEF UserCalls, CallAllocate, CallTransfer, CallRelease, Close, Mark, Idle, IdleCall
  <2>3. holder # u
    BY <2>2 DEF Locked
  <2>4. \A v \in User : v # u => call'[v] = call[v]
    BY <1>7, Unmoved DEF UserCalls, CallAllocate, CallTransfer, CallRelease, Close, Mark, Returns
  <2>5. UNCHANGED Reserved /\ \A c : UNCHANGED OthersUse(c)
    BY <2>1 DEF Reserved, OthersUse, Cells, Stop
  <2> QED BY <2>1, <2>3, <2>4, <2>5 DEF Fitted, Fits
<1>8. ASSUME UNCHANGED vars
      PROVE  Fitted'
  BY <1>8 DEF vars, allocation, Fitted, Fits, OthersUse, Cells, Stop, Reserved
<1> QED BY <1>2, <1>3, <1>4, <1>5, <1>6, <1>7, <1>8 DEF Next, CallStep

LEMMA FittedHolds == Spec => [](IInv /\ Fitted)
<1>1. Init => Fitted
  BY ArenaAssumption DEF Init, Fitted, Making
<1>2. IInv /\ Fitted /\ [Next]_vars => Fitted'
  BY FittedStep
<1> QED BY <1>1, <1>2, Invariant, PTL DEF Spec

(* The mapped arrays, carrier by carrier.                                  *)
Untouched(d) ==
    /\ Alive(d)' <=> Alive(d)
    /\ Alive(d) => /\ extent'[d] = extent[d] /\ size'[d] = size[d]
                   /\ \A i \in 0 .. size[d] - 1 : device'[extent[d][1] + i] = device[extent[d][1] + i]

LEMMA UntouchedStays ==
    ASSUME NEW d \in Carrier, Untouched(d)
    PROVE  Place'[d] = Place[d] /\ Data'[d] = Data[d]
  BY DEF Untouched, Place, Data, Alive

LEMMA AllUntouched ==
    ASSUME \A d \in Carrier : Untouched(d)
    PROVE  Place' = Place /\ Data' = Data
<1>1. \A d \in Carrier : Place'[d] = Place[d] /\ Data'[d] = Data[d]
  BY UntouchedStays
<1> QED BY <1>1 DEF Place, Data

LEMMA OneTouched ==
    ASSUME NEW c \in Carrier, \A d \in Carrier : d # c => Untouched(d)
    PROVE  Place' = [Place EXCEPT ![c] = Place'[c]] /\ Data' = [Data EXCEPT ![c] = Data'[c]]
<1>1. \A d \in Carrier : d # c => Place'[d] = Place[d] /\ Data'[d] = Data[d]
  BY UntouchedStays
<1> QED BY <1>1 DEF Place, Data

LEMMA LiveFacts ==
    ASSUME IInv, Fitted, NEW c \in Carrier, object[c] = "live"
    PROVE  /\ c \in Reserved /\ extent[c] \in Nat \X Nat /\ size[c] \in Nat /\ size[c] \in Size
           /\ extent[c][2] = RoundUp(size[c]) /\ size[c] <= extent[c][2] /\ Stop(extent[c]) <= Capacity
           /\ Place[c] = extent[c][1] /\ Place[c] # None
           /\ Data[c] = [i \in 0 .. size[c] - 1 |-> device[extent[c][1] + i]]
<1>1. c \in Reserved /\ extent[c] \in Ranges /\ Stop(extent[c]) <= Capacity
  BY DEF IInv, Extents, Reserved, Layout
<1>2. size[c] \in Size /\ size[c] \in Nat /\ extent[c][2] = RoundUp(size[c])
  BY ArenaAssumption DEF IInv, Extents, Fitted
<1>3. extent[c] \in Nat \X Nat /\ size[c] <= RoundUp(size[c])
  BY <1>1, <1>2, RoundUpBounds, Positive DEF Ranges
<1>4. Place[c] = extent[c][1] /\ Data[c] = [i \in 0 .. size[c] - 1 |-> device[extent[c][1] + i]]
  BY DEF Place, Data, Alive
<1>5. extent[c][1] # None
  BY <1>3, ArenaAssumption
<1> QED BY <1>1, <1>2, <1>3, <1>4, <1>5

LEMMA DeadFacts ==
    ASSUME NEW c \in Carrier, object[c] # "live"
    PROVE  Place[c] = None /\ Data[c] = None
  BY DEF Place, Data, Alive

(* The payloads of two reserved carriers share no slot.                    *)
LEMMA PayloadsApart ==
    ASSUME IInv, NEW c \in Reserved, NEW d \in Reserved, c # d, NEW i \in Nat, NEW j \in Nat,
           i < extent[c][2], j < extent[d][2]
    PROVE  extent[c][1] + i # extent[d][1] + j
<1>1. extent[c] \in Nat \X Nat /\ extent[d] \in Nat \X Nat /\ Apart(extent[c], extent[d])
  BY Positive DEF IInv, Layout, Ranges
<1> QED BY <1>1 DEF Apart, Stop

(* A length is told from the domain.                                       *)
LEMMA SameInterval ==
    ASSUME NEW m \in Nat, NEW n \in Nat, 0 .. m - 1 = 0 .. n - 1
    PROVE  m = n
<1>1. m > 0 => m - 1 \in 0 .. n - 1
  BY m > 0 => m - 1 \in 0 .. m - 1
<1>2. n > 0 => n - 1 \in 0 .. m - 1
  BY n > 0 => n - 1 \in 0 .. n - 1
<1> QED BY <1>1, <1>2

LEMMA LiveLength ==
    ASSUME IInv, Fitted, NEW c \in Carrier, object[c] = "live"
    PROVE  Arrays!Length(c) = extent[c][2]
<1>1. /\ size[c] \in Nat /\ size[c] \in Size /\ extent[c][2] = RoundUp(size[c])
      /\ Data[c] = [i \in 0 .. size[c] - 1 |-> device[extent[c][1] + i]]
  BY LiveFacts
<1>2. DOMAIN Data[c] = 0 .. size[c] - 1
  BY <1>1
<1>3. \A n \in Size : DOMAIN Data[c] = 0 .. n - 1 => n = size[c]
  BY <1>1, <1>2, SameInterval, ArenaAssumption
<1>4. (CHOOSE n \in Size : DOMAIN Data[c] = 0 .. n - 1) = size[c]
  BY <1>1, <1>2, <1>3
<1> QED BY <1>1, <1>4 DEF Arrays!Length, Arrays!Width, RoundUp

LEMMA TakenIsOthersUse ==
    ASSUME IInv, Fitted, NEW u \in User, Making(u)
    PROVE  Arrays!Taken = OthersUse(call[u].carrier)
<1> DEFINE c == call[u].carrier
<1>1. c \in Carrier /\ object[c] = "pending"
  BY CallFields DEF IInv, Making, Pending
<1>2. \A d \in Carrier : object[d] = "live" <=> d \in Reserved \ {c}
  <2>1. \A v \in User : Making(v) => v = u
    BY DEF Making
  <2>2. \A d \in Carrier : d \in Reserved => object[d] = "live" \/ d = c
    BY <2>1 DEF IInv, Extents, Reserved
  <2>3. \A d \in Carrier : object[d] = "live" => d \in Reserved
    BY DEF IInv, Extents, Reserved
  <2> QED BY <1>1, <2>2, <2>3
<1>3. \A d \in Carrier : Place[d] # None <=> object[d] = "live"
  BY LiveFacts, DeadFacts
<1>4. ASSUME NEW d \in Reserved \ {c}
      PROVE  Place[d] .. Place[d] + Arrays!Length(d) - 1 = Cells(extent[d])
  <2>1. d \in Carrier /\ object[d] = "live"
    BY <1>2 DEF Reserved
  <2>2. Place[d] = extent[d][1] /\ Arrays!Length(d) = extent[d][2] /\ extent[d] \in Nat \X Nat
    BY <2>1, LiveFacts, LiveLength
  <2> QED BY <2>2 DEF Cells, Stop
<1>5. {d \in Carrier : Place[d] # None} = Reserved \ {c}
  BY <1>2, <1>3 DEF Reserved
<1>6. {Place[d] .. Place[d] + Arrays!Length(d) - 1 : d \in Reserved \ {c}} = {Cells(extent[d]) : d \in Reserved \ {c}}
  BY <1>4
<1> QED BY <1>5, <1>6 DEF Arrays!Taken, OthersUse

(* Only the slots of the carrier at work change.                           *)
LEMMA OthersUntouched ==
    ASSUME IInv, Fitted, NEW c \in Reserved, NEW d \in Carrier, d # c,
           object'[d] = object[d], extent'[d] = extent[d], size'[d] = size[d],
           NEW n \in Nat, n <= extent[c][2],
           \A x \in Position : x \notin extent[c][1] .. extent[c][1] + n - 1 => device'[x] = device[x]
    PROVE  Untouched(d)
<1> SUFFICES ASSUME object[d] = "live", NEW i \in 0 .. size[d] - 1
             PROVE  device'[extent[d][1] + i] = device[extent[d][1] + i]
  BY DEF Untouched, Alive
<1>1. /\ d \in Reserved /\ extent[d] \in Nat \X Nat /\ size[d] \in Nat /\ size[d] <= extent[d][2]
      /\ Stop(extent[d]) <= Capacity
  BY LiveFacts
<1>2. extent[c] \in Nat \X Nat
  BY Positive DEF IInv, Layout, Ranges
<1> DEFINE x == extent[d][1] + i
<1>3. x \in Position
  BY <1>1, Positive DEF Position, Stop
<1>4. ASSUME x \in extent[c][1] .. extent[c][1] + n - 1 PROVE FALSE
  <2> DEFINE j == x - extent[c][1]
  <2>1. j \in Nat /\ j < extent[c][2] /\ extent[c][1] + j = x /\ i \in Nat /\ i < extent[d][2]
    BY <1>1, <1>2, <1>3, <1>4, Positive DEF Position
  <2> HIDE DEF j
  <2> QED BY <1>1, <2>1, PayloadsApart
<1> QED BY <1>3, <1>4

LEMMA NewArray ==
    ASSUME IInv, Fitted, NEW u \in User, Activate(u)
    PROVE  \E f \in [0 .. call[u].size - 1 -> Val \union {None}] :
               Arrays!Allocate(call[u].carrier, call[u].size, f)
<1> DEFINE c == call[u].carrier
           n == call[u].size
           a == extent[c][1]
<1>1. /\ c \in Carrier /\ n \in Size /\ n \in Nat /\ Making(u) /\ object[c] = "pending"
      /\ call[u].val \in Val \union {None}
  BY CallFields DEF Activate, Making, IInv, Pending
<1>2. extent[c] # None /\ a % Alignment = 0 /\ extent[c][2] = RoundUp(n) /\ c \in Reserved
  BY <1>1 DEF IInv, Extents, Reserved
<1>3. extent[c] \in Nat \X Nat /\ Stop(extent[c]) <= Capacity /\ n <= RoundUp(n) /\ RoundUp(n) \in Nat
      /\ (n = 0 <=> RoundUp(n) = 0)
  BY <1>1, <1>2, RoundUpBounds, Positive DEF IInv, Layout, Ranges
<1>4. Place[c] = None /\ ~ faulted /\ faulted' = faulted
  BY <1>1, DeadFacts, ArenaAssumption DEF IInv, Locked, Making, Activate, health
<1>5. /\ object'[c] = "live" /\ size'[c] = n /\ extent' = extent
      /\ \A d \in Carrier : d # c => object'[d] = object[d] /\ size'[d] = size[d]
  BY <1>1 DEF Activate, IInv, TypeOK
<1>6. \A x \in Position : x \notin a .. a + n - 1 => device'[x] = device[x]
  BY DEF Activate, Initialized
<1>7. \A d \in Carrier : d # c => Untouched(d)
  BY <1>1, <1>2, <1>3, <1>5, <1>6, OthersUntouched
<1>8. Place' = [Place EXCEPT ![c] = Place'[c]] /\ Data' = [Data EXCEPT ![c] = Data'[c]]
  BY <1>1, <1>7, OneTouched
<1>9. Place'[c] = a /\ Data'[c] = [i \in 0 .. n - 1 |-> device'[a + i]]
  BY <1>1, <1>5 DEF Place, Data, Alive
<1>10. \A i \in 0 .. n - 1 : a + i \in Position
  BY <1>1, <1>2, <1>3, Positive DEF Position, Stop
<1>11. device' \in [Position -> Val \union {None}]
  BY <1>1 DEF Activate, Initialized, IInv, TypeOK
<1>12. Data'[c] \in [0 .. n - 1 -> Val \union {None}]
  BY <1>9, <1>10, <1>11
<1>13. Arrays!Taken = OthersUse(c) /\ Arrays!Width(n) = RoundUp(n)
  BY <1>1, TakenIsOthersUse DEF Arrays!Width, RoundUp
<1>14. a \in Arrays!Places(n)
  <2>1. \A d \in Reserved \ {c} : Cells(extent[c]) \intersect Cells(extent[d]) = {}
    BY <1>2, LayoutPartitions DEF IInv
  <2>2. Cells(extent[c]) = a .. a + RoundUp(n) - 1
    BY <1>2, <1>3 DEF Cells, Stop
  <2>3. (a .. a + RoundUp(n) - 1) \intersect OthersUse(c) = {}
    BY <2>1, <2>2 DEF OthersUse
  <2>4. a \in 0 .. Capacity - RoundUp(n)
    BY <1>2, <1>3, Positive DEF Stop
  <2> HIDE DEF a, c, n
  <2> QED BY <1>2, <1>13, <2>3, <2>4 DEF Arrays!Places
<1>15. ASSUME NEW b \in Arrays!Places(n)
       PROVE  a <= b
  <2>1. b \in 0 .. Capacity - RoundUp(n) /\ b % Alignment = 0
        /\ (n > 0 => (b .. b + RoundUp(n) - 1) \intersect OthersUse(c) = {})
    BY <1>13, <1>15 DEF Arrays!Places
  <2>2. b \in Nat /\ b + RoundUp(n) <= Capacity
    BY <1>3, <2>1, Positive
  <2>3. CASE n = 0
    BY <1>1, <1>3, <2>2, <2>3 DEF Fitted
  <2>4. CASE n > 0
    <3>1. RoundUp(n) > 0 /\ Fits(b, RoundUp(n), c)
      BY <1>3, <2>1, <2>2, <2>4 DEF Fits
    <3> QED BY <1>1, <2>2, <3>1 DEF Fitted
  <2> QED BY <1>1, <2>3, <2>4
<1> HIDE DEF a, c, n
<1>16. Arrays!Allocate(c, n, Data'[c])
  BY <1>4, <1>8, <1>9, <1>14, <1>15 DEF Arrays!Allocate
<1> QED BY <1>12, <1>16 DEF c, n

LEMMA EndedTransfer ==
    ASSUME IInv, Fitted, NEW u \in User, EndTransfer(u)
    PROVE  [Arrays!Next]_(Arrays!vars)
<1> DEFINE c == call[u].carrier
           a == extent[c][1]
           n == size[c]
<1>1. /\ c \in Carrier /\ Transfer(u) /\ object[c] = "live" /\ call[u].window \subseteq 0 .. n - 1
      /\ call[u].at = a /\ call[u].val \in Val \union {None}
  BY CallFields DEF EndTransfer, Transfer, IInv, Attached
<1>2. /\ c \in Reserved /\ extent[c] \in Nat \X Nat /\ n \in Nat /\ n <= extent[c][2]
      /\ Stop(extent[c]) <= Capacity /\ Place[c] # None
      /\ Data[c] = [i \in 0 .. n - 1 |-> device[a + i]]
  BY <1>1, LiveFacts
<1>3. faulted = FALSE
  BY <1>1, ArenaAssumption DEF IInv, Locked, Transfer, TypeOK
<1>4. UNCHANGED <<object, extent, size>> /\ faulted' \in BOOLEAN
  BY DEF EndTransfer, allocation
<1>5. device' \in [Position -> Val \union {None}]
  BY <1>1 DEF EndTransfer, Written, IInv, TypeOK
<1>6. \A x \in Position : x \notin a .. a + n - 1 => device'[x] = device[x]
  <2>1. SUFFICES ASSUME NEW x \in Position, x - a \in call[u].window PROVE x \in a .. a + n - 1
    BY <1>1 DEF EndTransfer, Written
  <2>2. x \in Nat /\ a \in Nat /\ x - a \in 0 .. n - 1
    BY <1>1, <1>2, <2>1, Positive DEF Position
  <2> QED BY <1>2, <2>2
<1>7. \A d \in Carrier : d # c => Untouched(d)
  BY <1>1, <1>2, <1>4, <1>6, OthersUntouched
<1>8. Place' = [Place EXCEPT ![c] = Place'[c]] /\ Data' = [Data EXCEPT ![c] = Data'[c]]
  BY <1>1, <1>7, OneTouched
<1>9. Place' = Place /\ Data'[c] = [i \in 0 .. n - 1 |-> device'[a + i]]
  BY <1>1, <1>4 DEF Place, Data, Alive
<1>10. \A i \in 0 .. n - 1 : a + i \in Position
  BY <1>1, <1>2, Positive DEF Position, Stop
<1>11. Data'[c] \in [DOMAIN Data[c] -> Val \union {None}]
  BY <1>2, <1>5, <1>9, <1>10
<1> HIDE DEF a, n, c
<1>12. CASE faulted' = FALSE
  <2>1. Arrays!Write(c, Data'[c])
    BY <1>2, <1>3, <1>4, <1>8, <1>9, <1>12 DEF Arrays!Write
  <2> QED BY <1>1, <1>2, <1>11, <2>1 DEF Arrays!Next, c
<1>13. CASE faulted' = TRUE
  <2>1. Arrays!Fault(c, Data'[c])
    BY <1>3, <1>4, <1>8, <1>9, <1>13 DEF Arrays!Fault
  <2> QED BY <1>1, <1>2, <1>11, <2>1 DEF Arrays!Next, c
<1> QED BY <1>4, <1>12, <1>13

LEMMA DroppedArray ==
    ASSUME NEW c \in Carrier, object'[c] # "live", UNCHANGED <<device, faulted>>,
           \A d \in Carrier : d # c => object'[d] = object[d] /\ extent'[d] = extent[d] /\ size'[d] = size[d]
    PROVE  [Arrays!Next]_(Arrays!vars)
<1>1. \A d \in Carrier : d # c => Untouched(d)
  BY DEF Untouched, Alive
<1>2. Place' = [Place EXCEPT ![c] = Place'[c]] /\ Data' = [Data EXCEPT ![c] = Data'[c]]
  BY <1>1, OneTouched
<1>3. Place'[c] = None /\ Data'[c] = None
  BY DEF Place, Data, Alive
<1>4. Arrays!Drop(c)
  BY <1>2, <1>3 DEF Arrays!Drop
<1> QED BY <1>4 DEF Arrays!Next

LEMMA AbandonedArray ==
    ASSUME IInv, Fitted, NEW u \in User, AbandonAllocation(u)
    PROVE  [Arrays!Next]_(Arrays!vars)
<1> DEFINE c == call[u].carrier
           n == call[u].size
<1>1. c \in Carrier /\ n \in Nat /\ Making(u) /\ object[c] = "pending"
  BY CallFields DEF AbandonAllocation, Making, IInv, Pending
<1>2. c \in Reserved /\ extent[c][2] = RoundUp(n) /\ n <= RoundUp(n) /\ extent[c] \in Nat \X Nat
  BY <1>1, RoundUpBounds, Positive DEF IInv, Extents, Reserved, Layout, Ranges
<1>3. /\ object'[c] = "none" /\ \A d \in Carrier : d # c => object'[d] = object[d] /\ extent'[d] = extent[d]
      /\ size' = size /\ faulted' \in {TRUE, faulted}
  BY <1>1 DEF AbandonAllocation, IInv, TypeOK
<1>4. \A x \in Position : x \notin extent[c][1] .. extent[c][1] + n - 1 => device'[x] = device[x]
  <2>1. ASSUME NEW m \in 0 .. n, device' = Initialized(u, m), NEW x \in Position,
               x \notin extent[c][1] .. extent[c][1] + n - 1
        PROVE  device'[x] = device[x]
    <3>1. x \in Nat /\ extent[c][1] \in Nat /\ m <= n
      BY <1>1, <1>2, <2>1, Positive DEF Position
    <3>2. x \notin extent[c][1] .. extent[c][1] + m - 1
      BY <1>1, <2>1, <3>1
    <3> QED BY <2>1, <3>2 DEF Initialized
  <2>2. \E m \in 0 .. n : device' = Initialized(u, m)
    BY <1>1 DEF AbandonAllocation
  <2> QED BY <2>1, <2>2
<1>5. \A d \in Carrier : d # c => Untouched(d)
  BY <1>1, <1>2, <1>3, <1>4, OthersUntouched
<1>6. \A d \in Carrier : d = c => Untouched(d)
  BY <1>1, <1>3 DEF Untouched, Alive
<1>7. Place' = Place /\ Data' = Data
  BY <1>5, <1>6, AllUntouched
<1>8. CASE faulted' = faulted
  BY <1>7, <1>8 DEF Arrays!vars
<1>9. CASE faulted' /\ ~ faulted
  <2>1. Data' = [Data EXCEPT ![c] = Data[c]]
    BY <1>1, <1>7 DEF Data
  <2>2. Arrays!Fault(c, Data[c])
    BY <1>7, <1>9, <2>1 DEF Arrays!Fault
  <2> QED BY <1>1, <2>2 DEF Arrays!Next
<1>10. faulted \in BOOLEAN
  BY DEF IInv, TypeOK
<1> QED BY <1>3, <1>8, <1>9, <1>10

LEMMA ArrayStep ==
    ASSUME IInv, Fitted, [Next]_vars
    PROVE  [Arrays!Next]_(Arrays!vars)
<1> USE DEF IInv
<1>0. object \in [Carrier -> Objects] /\ extent \in [Carrier -> Ranges \union {None}] /\ size \in [Carrier -> Size \union {0}]
  BY DEF TypeOK
<1>1. ASSUME \A d \in Carrier : Untouched(d), UNCHANGED faulted
      PROVE  [Arrays!Next]_(Arrays!vars)
  BY <1>1, AllUntouched DEF Arrays!vars
<1>2. ASSUME UNCHANGED <<extent, size, device, faulted>>, \A d \in Carrier : object'[d] = "live" <=> object[d] = "live"
      PROVE  [Arrays!Next]_(Arrays!vars)
  BY <1>1, <1>2 DEF Untouched, Alive
<1>3. ASSUME NEW u \in User, UserCalls(u)
      PROVE  [Arrays!Next]_(Arrays!vars)
  BY <1>0, <1>2, <1>3 DEF UserCalls, CallAllocate, CallTransfer, CallRelease, Close, allocation, health
<1>4. ASSUME NEW u \in User, RefuseAllocation(u)
      PROVE  [Arrays!Next]_(Arrays!vars)
  <2>1. call[u].carrier \in Carrier /\ object[call[u].carrier] = "pending"
    BY <1>4, CallFields DEF RefuseAllocation, Pending
  <2> QED BY <1>0, <1>2, <1>4, <2>1 DEF RefuseAllocation, allocation, health
<1>5. ASSUME NEW u \in User, RefuseTransfer(u) \/ StartTransfer(u) \/ Mark(u)
      PROVE  [Arrays!Next]_(Arrays!vars)
  BY <1>2, <1>5 DEF RefuseTransfer, StartTransfer, Mark, allocation, health
<1>6. ASSUME NEW u \in User, Reserve(u)
      PROVE  [Arrays!Next]_(Arrays!vars)
  <2>1. call[u].carrier \in Carrier /\ object[call[u].carrier] = "pending"
    BY <1>6, CallFields DEF Reserve, Pending
  <2>2. /\ UNCHANGED <<object, size, device, faulted>>
        /\ \A d \in Carrier : d # call[u].carrier => extent'[d] = extent[d]
    BY <1>0, <1>6 DEF Reserve, health
  <2>3. \A d \in Carrier : Untouched(d)
    BY <2>1, <2>2 DEF Untouched, Alive
  <2> QED BY <1>1, <2>2, <2>3
<1>7. ASSUME NEW u \in User, Activate(u)
      PROVE  [Arrays!Next]_(Arrays!vars)
  <2>1. call[u].carrier \in Carrier /\ call[u].size \in Size
    BY <1>7, CallFields DEF Activate
  <2> QED BY <1>7, <2>1, NewArray DEF Arrays!Next
<1>8. ASSUME NEW u \in User, Retire(u)
      PROVE  [Arrays!Next]_(Arrays!vars)
  <2>1. call[u].carrier \in Carrier
    BY <1>8, CallFields DEF Retire
  <2>2. /\ object'[call[u].carrier] = "retired" /\ UNCHANGED <<device, faulted>>
        /\ \A d \in Carrier : d # call[u].carrier =>
               object'[d] = object[d] /\ extent'[d] = extent[d] /\ size'[d] = size[d]
    BY <1>0, <1>8, <2>1 DEF Retire, health
  <2> QED BY <2>1, <2>2, DroppedArray
<1>9. ASSUME NEW c \in Carrier, Collect(c)
      PROVE  [Arrays!Next]_(Arrays!vars)
  <2>1. /\ object'[c] = "none" /\ UNCHANGED <<device, faulted>>
        /\ \A d \in Carrier : d # c => object'[d] = object[d] /\ extent'[d] = extent[d] /\ size'[d] = size[d]
    BY <1>0, <1>9 DEF Collect, health
  <2> QED BY <2>1, DroppedArray
<1>10. ASSUME UNCHANGED vars
       PROVE  [Arrays!Next]_(Arrays!vars)
  BY <1>2, <1>10 DEF vars, allocation, health
<1> QED BY <1>3, <1>4, <1>5, <1>6, <1>7, <1>8, <1>9, <1>10, EndedTransfer, AbandonedArray DEF Next, CallStep

(* The device is a memory of separate arrays: every step of the device is  *)
(* a step of ArenaMemory or changes nothing it speaks of.                  *)
THEOREM DeviceIsArrays == Spec => SeparateArrays
<1>1. Init => Arrays!Init
  BY DEF Init, Arrays!Init, Place, Data, Alive
<1>2. IInv /\ Fitted /\ [Next]_vars => [Arrays!Next]_(Arrays!vars)
  BY ArrayStep
<1> QED BY <1>1, <1>2, FittedHolds, PTL DEF Spec, SeparateArrays, Arrays!Spec
================================================================================
