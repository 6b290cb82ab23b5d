CONSTANTS
  TCP_MSS = 2
  TCP_WND = 8
  Total = 9
  CountsFin = TRUE

SPECIFICATION FairSpec

INVARIANTS
  TypeOK
  ReceiverConsistent
  WindowIsRoom
  NoSilentLoss

PROPERTIES
  WindowNeverShrinks
  EverythingRead

CHECK_DEADLOCK FALSE
