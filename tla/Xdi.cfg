CONSTANTS
  E1 = E1
  E2 = E2
  I1 = I1
  I2 = I2
  NULL = NULL
  Entity <- One
  NL <- One
  Id <- TwoIds
  NumCh = 2
  NumReq = 2
  MaxFrag = 3
  Kinds = {"DATA", "DISC", "REMOVE", "UREMOVE"}
  Setups <- Both
SPECIFICATION Spec
SYMMETRY Sym
INVARIANTS TypeOK QueueSound QueuedOnce IdTableSound IdleIsQuiet CountExact RemovedIsGone
