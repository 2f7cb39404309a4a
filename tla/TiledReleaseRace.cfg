\* A second thread starts a request while the first releases.
CONSTANTS
    t1 = t1
    t2 = t2
    Tile = {t1}
    Slot = {s1}
    Val = {0}
    Zero = 0
    None = None
    User = {u1, u2}
    Releaser = {u1}
    Request = {r1, r2}
    Work = {w1}
    Demand <- OneTileDemands
    Prefetch <- OneTile
SPECIFICATION Spec
CHECK_DEADLOCK FALSE
PROPERTIES ReleaseWaits
