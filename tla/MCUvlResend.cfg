CONSTANTS
  TCP_MSS = 2
  TCP_SND_BUF = 5
  TCP_SND_QUEUELEN = 4
  TCP_MAXRTX = 1
  CwndMod = 12
  DupMod = 5
  PeerWnd = 4
  FirstWnd = {4}
  Resends = TRUE
  Lens <- ResendLens
  MaxAcks = 1
SPECIFICATION Spec
INVARIANTS
  NumberedOnce
CHECK_DEADLOCK FALSE
