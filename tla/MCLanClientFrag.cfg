CONSTANTS
  src1 = src1
  src2 = src2
  Src <- MCSrc
  Nil = Nil
  LC_FRAG_COUNT = 2
  MaxParts = 2
  IdMod = 2
  LocalMod = 4
  MaxSent = 3
  MaxLocal = 5
SPECIFICATION Spec
SYMMETRY MCSymmetry
INVARIANTS
  SlotsSound
PROPERTIES
  EvictsOldest
  WedgedStays
  ChannelSpec
