CONSTANTS
  F1 = F1
  F2 = F2
  M1 = M1
  M2 = M2
  NULL = NULL
  File <- Files
  Master <- Masters
  Kinds <- AllKinds
  MaxTimeouts = 0
  DataLen = 1
  MaxRefused = 1
  MaxChain = 1
  LicLen <- Lengths
SPECIFICATION Spec
CONSTRAINT Followed
SYMMETRY Sym
INVARIANTS QueuesSound AnswerToAsker FreedIsQuiet NoStall Watched MasterLeaves
CHECK_DEADLOCK FALSE
