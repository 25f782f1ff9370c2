SPECIFICATION FairSpec
CONSTANTS
  h1 = h1
  h2 = h2
  h3 = h3
  b1 = b1
  b2 = b2
  b3 = b3
  b4 = b4
  Readers = {r1, r2}
  Handles = {h1, h2, h3}
  StatusHandle = sh
  Blobs = {b1, b2, b3, b4}
  Contents <- MCContents
  Size <- MCSize
  MaxSize = 2
  NoBlob = NoBlob
  NoReader = NoReader
INVARIANTS
  TypeOK
  CachesAgree
  SizeWithinMax
PROPERTIES
  FreshEntrySurvives
  ReadsReturn
