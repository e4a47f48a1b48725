CONSTANTS
  Base = 4
  Size = 24
  Sizes <- PayloadSizes
SPECIFICATION Spec
INVARIANTS TypeOK HeadIsOldest Disjoint
PROPERTY FifoSpec
