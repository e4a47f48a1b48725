CONSTANTS
  E1 = E1
  E2 = E2
  I1 = I1
  I2 = I2
  NULL = NULL
  Entity <- Two
  NL <- One
  Id <- OneId
  NumCh = 1
  NumReq = 1
  MaxFrag = 2
  Kinds = {"DATA", "REMOVE"}
  Setups <- PlainOnly
SPECIFICATION FairSpec
PROPERTY Answered
