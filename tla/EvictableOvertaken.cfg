CONSTANTS
  Storage = {p, q, a, b, c} First = p Second = q
  Datum = {v1, v2} Caller = {u1, u2}
  Nobody = Nobody Nothing = Nothing
SPECIFICATION EvictableSpec
CHECK_DEADLOCK FALSE
INVARIANT ValueKept
