SPECIFICATION Spec
CONSTANTS
  Process <- ProcessIds
  Kind <- Kinds
  Preset <- Boot2Presets
  TotalKeys = 4
  TotalParts = 1
  Ahead = 0
  NgId = 1
  Values <- Boot2Values
  Field = "version"
  Byte = 4
  First = 2
PROPERTIES
  ImplementsCounter
