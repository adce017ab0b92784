SPECIFICATION MCMountsSpec
CONSTANTS
  home = home
  other = other
  Proc <- MCProc
  Point <- MCPoint
  Alien <- MCAlien
  Args <- MCArgs
  MaxActs = 2
INVARIANTS
  MountsTypeOK
  LeftBehind
PROPERTIES
  ImplementsLife
  SignalUnmounts
  OutsideUnmountEnds
CHECK_DEADLOCK FALSE
