SPECIFICATION Spec
CONSTANTS
  Piece <- MCPiece
  Files <- MCFiles
  Size <- MCSize
  Unescaped <- MCUnescaped
  Invalid = {"B", "v1-R"}
  Platforms <- MCPlatforms
  Hashes = {"h", "g", "H"}
  LowerHashes = {"h", "g"}
  Names <- MCNames
  Handles = {1, 2}
  MaxSize = 2
  MaxOffset = 3
INVARIANTS
  EscapedVersionsAreServed
