SPECIFICATION Spec
CONSTANTS
  p1 = p1
  p2 = p2
  l1 = l1
  l2 = l2
  w1 = w1
  w2 = w2
  s1 = s1
  s2 = s2
  OldKey = OldKey
  Foreign = Foreign
  None = None
  Proc <- MCProc
  Location <- MCLocation
  Password <- MCPassword
  Secret <- MCSecret
  Terminals <- MCTerminals
SYMMETRY Alike
PROPERTIES
  NeverOverwritten
CHECK_DEADLOCK FALSE
