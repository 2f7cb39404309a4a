\* Two works over overlapping tiles, started by the thread that releases.
CONSTANTS
    t1 = t1
    t2 = t2
    Tile = {t1, t2}
    Slot = {s1}
    Val = {0}
    Zero = 0
    None = None
    User = {u1}
    Releaser = {u1}
    Request = {r1, r2, r3}
    Work = {w1, w2}
    Demand <- SomeDemands
    Prefetch <- OneSet
SPECIFICATION Spec
SYMMETRY WorkSymmetry
CHECK_DEADLOCK FALSE
INVARIANTS TypeOK OneHome CountersExact
PROPERTIES PinnedUntouched ReleaseLeaksNothing
