\* A write of Python storage that was under way when the move claimed.
CONSTANTS
    Carrier = {a, b}
    Val = {v1, v2}
    User = {u1, u2}
    Move = {m1}
    None = None
    Unknown = Unknown
    Torn = {a, b}
    Meddling = FALSE
    MaxVersion = 1
SPECIFICATION Spec
CHECK_DEADLOCK FALSE
PROPERTIES PendingSourceProtected
