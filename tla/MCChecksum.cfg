CONSTANTS
  Base = 4
  MaxLen = 6

SPECIFICATION Spec

INVARIANTS
  AcceptedUnlessOdd
  UdpVerifies
  PayloadLeftOut

CHECK_DEADLOCK FALSE
