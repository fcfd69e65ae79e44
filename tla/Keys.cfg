SPECIFICATION Spec
CONSTANTS
  Process <- ProcessIds
  Kind <- Kinds
  Preset <- NandPresets
  TotalKeys = 5
  TotalParts = 4
  Ahead = 0
  NgId = 1
  Values <- NandValues
  Field = "gen"
  Byte = 2
  First = 10
INVARIANTS
  PartsAccounted
  CounterIsBacked
PROPERTIES
  ImplementsCounter
