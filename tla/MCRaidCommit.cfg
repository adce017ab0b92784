SPECIFICATION Spec
CONSTANTS
  A = A
  B = B
  C = C
  D = D
  o1 = o1
  p1 = p1
  p2 = p2
  k1 = k1
  k2 = k2
  NoKey = NoKey
  Foreign = Foreign
  NoCfg = NoCfg
  NoMap = NoMap
  Procs <- OneProc
  Locs <- Locs3
  Objects <- Objects1
  Keys <- Keys1
  Modes <- MirrorOnly
  StrictErasure = FALSE
  Crashes = TRUE
  Faults = FALSE
  Damageable = {}
  MaxBackends = 3
  MaxVer = 3
INVARIANT MapMatchesConfig
CHECK_DEADLOCK FALSE
