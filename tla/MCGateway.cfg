CONSTANTS
  Conn = {c1, c2}
  RecvBuf = 1
  MaxUp = 2
  MaxDown = 2
SPECIFICATION FairSpec
INVARIANTS
  FaultsOnlyInRelease
  StreamsAccounted
  ConsoleGoneIsNoticed
  FreedOnce
PROPERTIES
  EndsTogether
  ReleaseCompletes
CHECK_DEADLOCK FALSE
