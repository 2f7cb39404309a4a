\* Two threads, two carriers, six slots aligned in pairs.
CONSTANTS
    User = {u1, u2}
    Carrier = {a, b}
    Val = {v1}
    Capacity = 6
    Alignment = 2
    Size = {0, 1, 3}
    Window <- Windows
    MaxVersion = 1
    None = None
SPECIFICATION Spec
CHECK_DEADLOCK FALSE
INVARIANTS TypeOK Partition ExtentsCover TransferOwnsPayload
PROPERTIES WritesAreVersioned SeparateArrays
SYMMETRY Symmetry
