CONSTANTS
  Key = {k1, k2}
  None = None
  TTL = 3
  GC = 2
  MaxNow = 9
  MaxSent = 3
SPECIFICATION Spec
INVARIANTS
  DatagramsKept
  GoneInTime
PROPERTIES
  SessionKept
CHECK_DEADLOCK FALSE
