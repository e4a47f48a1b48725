CONSTANTS
  E1 = E1
  E2 = E2
  NULL = NULL
  Entity <- Two
  Packets <- Chains
  Offers <- Lists
  MaxInd = 3
  MaxBatch = 3
SPECIFICATION Spec
SYMMETRY Sym
INVARIANTS InOrder PacketComplete 
