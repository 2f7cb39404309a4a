\* Every request and every work ends.
CONSTANTS
    t1 = t1
    t2 = t2
    Tile = {t1, t2}
    Slot = {s1}
    Val = {0}
    Zero = 0
    None = None
    User = {u1}
    Releaser = {u1}
    Request = {r1, r2}
    Work = {w1}
    Demand <- SomeDemands
    Prefetch <- Sets
SPECIFICATION FairSpec
CHECK_DEADLOCK FALSE
PROPERTIES EveryRequestEnds
