SPECIFICATION Spec
CONSTANTS
  A = A
  B = B
  C = C
  D = D
  o1 = o1
  p1 = p1
  p2 = p2
  k1 = k1
  k2 = k2
  NoKey = NoKey
  Foreign = Foreign
  NoCfg = NoCfg
  NoMap = NoMap
  Procs <- OneProc
  Locs <- Locs3
  Objects <- Objects1
  Keys <- Keys2
  Modes <- AllModes
  StrictErasure = FALSE
  Crashes = TRUE
  Faults = TRUE
  Damageable <- Locs3
  MaxBackends = 4
  MaxVer = 3
SYMMETRY Symmetry
INVARIANTS
  TypeOK
  SealedByKeyOnDisk
  NoDanglingPosition
  MatchUnlessTorn
PROPERTIES
  ConfigKeyStays
CHECK_DEADLOCK FALSE
