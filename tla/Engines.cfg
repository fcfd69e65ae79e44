SPECIFICATION Spec
CONSTANTS
  NULL = NULL
  p1 = p1
  p2 = p2
  h1 = h1
  h2 = h2
  Message <- Messages
  Uses <- UsesOfEach
  Customs <- CustomLengths
  Handle <- Handles
  Owner <- Owners
  Inputs <- Lengths
  Verified <- Lengths
  HeapRoom = 2
  Remade <- KeysOfOne
  MaxErrors = 1
  Block = 3
  LengthSize = 1
  MaxBlocks = 1
  MaxCalls <- CallsOfEach
  MaxKeys = 1
CHECK_DEADLOCK FALSE
INVARIANTS
  PiecesAccounted
  DigestIsStandard
  CipherIsRight
  NothingStuck
