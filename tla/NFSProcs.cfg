SPECIFICATION Spec
CONSTANTS
  modDir = modDir
  fa = fa
  fb = fb
  fc = fc
  openSet = openSet
  Calls = {c1, c2}
  Names <- MCNames
  Dirs <- MCDirs
  NameLen <- MCNameLen
  OpenSetName = openSet
  FileSize <- MCFileSizes
  InZip <- MCInZip
  Roomy <- MCNoRoom
  Windows = TRUE
  Counts = {512, 1024, 1200}
  DirCounts = {512, 1024}
  MaxCounts = {4096}
  ReadCounts = {1, 3}
  MaxRead = 2
  Masks <- MCMasks
  NoPath = NoPath
  NoName = NoName
CHECK_DEADLOCK FALSE
INVARIANTS
  TypeOK
  LookupAnswersItsName
  ListingIsWhole
  ReadOnly
  ReadIsWhole
