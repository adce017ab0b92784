SPECIFICATION Spec
CONSTANTS
  c1 = c1
  c2 = c2
  n1 = n1
  n2 = n2
  Old = Old
  None = None
  Calls <- MCCalls
  Names <- MCNames
SYMMETRY NameSymmetry
INVARIANTS
  TypeOK
  PublishedOwnerOnly
  OkSurvivesPowerLoss
PROPERTIES
  ErrLeavesNothing
  OwnTempOnly
  AtomicSpec
CHECK_DEADLOCK FALSE
