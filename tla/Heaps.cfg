SPECIFICATION Spec
CONSTANTS
  p1 = p1
  p2 = p2
  Process <- TwoProcesses
  MaxHeap = 2
  Region <- Regions
  Request <- Requests
SYMMETRY Interchangeable
INVARIANTS
  HeldApart
  Tiled
CHECK_DEADLOCK FALSE
