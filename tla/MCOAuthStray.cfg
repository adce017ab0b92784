SPECIFICATION Spec
CONSTANTS
  f1 = f1
  f2 = f2
  x1 = x1
  x2 = x2
  x3 = x3
  None = None
  Flows <- MCFlows
  Conns <- MCConns
PROPERTY OnlyOwnStateEnds
CHECK_DEADLOCK FALSE
