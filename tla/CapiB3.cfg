CONSTANTS
  C1 = C1
  C2 = C2
  B1 = B1
  B2 = B2
  NULL = NULL
  Ch <- TwoCh
  Buf <- Bufs
  Cases <- MCCases
  MAX_DATA_B3 = 2
  MaxDis = 1
  MaxRefused = 2
SPECIFICATION Spec
SYMMETRY Sym
INVARIANTS BuffersSound ConfirmedInOrder NotDropped OneRequest NoStall ChannelsExact FreedIsQuiet MappedOnce
CHECK_DEADLOCK FALSE
