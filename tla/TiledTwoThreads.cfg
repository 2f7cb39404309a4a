\* Two program threads that write and move tiles concurrently; no release.
CONSTANTS
    t1 = t1
    t2 = t2
    Tile = {t1}
    Slot = {s1, s2}
    Val = {0, 1}
    Zero = 0
    None = None
    User = {u1, u2}
    Releaser = {}
    Request = {r1, r2}
    Work = {w1}
    Demand <- OneTileDemands
    Prefetch <- OneTile
SPECIFICATION Spec
SYMMETRY ThreadSymmetry
CHECK_DEADLOCK FALSE
INVARIANTS RequestShape
PROPERTIES FlatMemory
