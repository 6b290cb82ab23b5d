CONSTANTS
  p1 = p1
  p2 = p2
  c1 = c1
  c2 = c2
  s1 = s1
  s2 = s2
  o1 = o1
  o2 = o2
  o3 = o3
  Port = {p1, p2}
  Ip = {c1, c2}
  SrcPort = {s1, s2}
  Flow <- OwnPort
  Obj = {o1, o2, o3}
  Null = Null

SPECIFICATION Spec

SYMMETRY Objects

INVARIANTS
  TypeOK
  MapMatchesSockets
  RemovesWhatItClosed
  ReplyWithinPort
  AtMostOneLeaked

CHECK_DEADLOCK FALSE
