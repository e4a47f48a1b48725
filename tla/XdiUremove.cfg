CONSTANTS
  E1 = E1
  E2 = E2
  I1 = I1
  I2 = I2
  NULL = NULL
  Entity <- Two
  NL <- Two
  Id <- TwoIds
  NumCh = 1
  NumReq = 2
  MaxFrag = 1
  Kinds = {"UREMOVE"}
  Setups <- PlainOnly
SPECIFICATION Spec
INVARIANT UremovedIsForgotten
