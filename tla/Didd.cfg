CONSTANTS
  D1 = D1
  D2 = D2
  M = M
  C1 = C1
  C2 = C2
  NULL = NULL
  DIMAINT = M
  Desc <- Drivers
  Client <- Clients
  MaxDesc = 2
  MaxNfy = 1
  RegisterFirst = TRUE
SPECIFICATION Spec
SYMMETRY Sym
INVARIANTS InArrayOnce RemoveFinds NoneMissed
