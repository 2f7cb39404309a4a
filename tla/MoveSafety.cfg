\* Moves between three native carriers; providers may break their contract.
CONSTANTS
    Carrier = {a, b, c}
    Val = {v1, v2}
    User = {u1, u2}
    Move = {m1, m2}
    None = None
    Unknown = Unknown
    Torn = {}
    Meddling = TRUE
    MaxVersion = 1
SPECIFICATION NativeSpec
CHECK_DEADLOCK FALSE
INVARIANTS TypeOK OwnershipExact SourceKept DestinationServed
PROPERTIES AtomicTransfer
SYMMETRY Symmetry
