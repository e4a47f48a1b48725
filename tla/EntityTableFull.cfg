CONSTANTS
  ByteRange = 256
  e_max = 2
  E1 = E1
  E2 = E2
  E3 = E3
  E4 = E4
  R1 = R1
  R2 = R2
  R3 = R3
  Entity <- TwoClients
  Refs <- RefSet
  NULL = NULL
SPECIFICATION Spec
INVARIANT InTable
