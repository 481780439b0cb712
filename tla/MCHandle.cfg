CONSTANTS
  s1 = s1  s2 = s2  s3 = s3
  h1 = h1  h2 = h2  h3 = h3
  Slots <- MCSlots
  Handles <- MCHandles
  NULL = NULL
  INVALID = INVALID
  NoSlot = NoSlot
  StdOwner = StdOwner
SPECIFICATION Spec
SYMMETRY Symmetry
INVARIANTS
  TypeOK
  ExclusiveOwnership
  NoDanglingBorrow
  FailedCallNeverOwned
PROPERTY
  AbsSpec
