SPECIFICATION PartSpec
CONSTANTS
  home = home
  away = away
  other = other
  Proc <- MCProc
  Point <- MCPoint
  Home <- MCHome
  Alien <- MCAlien
  Args <- MCArgs
  Path <- MCPath
  Trees <- MCTrees
  Nodes <- MCNodes
  RootLists <- MCRootLists
  MaxDepth = 1
  MaxChanges = 1
  f1 = f1
  f2 = f2
  pipe = pipe
  dir = dir
  Missing = Missing
  Inode <- MCInode
  KindOf <- MCKindOf
  Texts <- MCTexts
  MaxMeddling = 2
  Run = {r1, r2, r3}
  Asks <- MCAsks
  Value = {"v", "-", "-x"}
  Hyphened = {"-", "-x"}
  MaxArguments = 6
  NameByte <- MCNameByte
  Optional <- MCOptional
  FsType <- MCFsType
  MaxNameLen = 5
  MinResponseBytes = 2
  Digit = {0, 10}
  MaxTyped = 6
INVARIANTS
  PartsTypeOK
  ProcessRowsTrue
  MountRowsTrue
  FoundInReach
  StandingFound
  RowsTrue
  PasswordAsWritten
  ConfigIsLast
  ParsedAsRun
  NamesSurvive
  EveryDigitCounts
CHECK_DEADLOCK FALSE
