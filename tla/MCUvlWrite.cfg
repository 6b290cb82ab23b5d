CONSTANTS
  TCP_MSS = 2
  TCP_SND_BUF = 4
  TCP_SND_QUEUELEN = 4
  TCP_MAXRTX = 1
  CwndMod = 12
  DupMod = 5
  PeerWnd = 4
  FirstWnd = {4}
  Resends = FALSE
  Lens <- MCLens
  MaxAcks = 1
SPECIFICATION FairSpec
INVARIANTS
  TypeOK
  SenderConsistent
  UnderATimer
PROPERTIES
  WithinWindow
  StreamSpec
  EventuallyAnswered
  ClosedGracefully
CHECK_DEADLOCK FALSE
