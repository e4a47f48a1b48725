CONSTANTS
  D1 = D1
  D2 = D2
  M = M
  C1 = C1
  C2 = C2
  NULL = NULL
  DIMAINT = M
  Desc <- OneDriver
  Client <- Clients
  MaxDesc = 1
  MaxNfy = 2
  RegisterFirst = FALSE
SPECIFICATION Spec
INVARIANT NoneMissed
