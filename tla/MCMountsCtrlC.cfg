SPECIFICATION MountsSpec
CONSTANTS
  home = home
  other = other
  Proc <- OneProc
  Point <- MCPoint
  Alien <- MCAlien
  Args <- MCArgs
  MaxActs = 1
PROPERTIES
  CtrlCUnmounts
CHECK_DEADLOCK FALSE
