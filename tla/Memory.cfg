SPECIFICATION Spec
CONSTANTS
  Megabyte = 32
  Addresses = 131072
  TableRoom = 112
  KernelMaps <- MCKernelMaps
  HardwareMaps <- MCHardwareMaps
  Registers = 208
  Segments <- MCSegments
  Uncached = 65536
  Pid = {0, 1, 2, 3, 5, 6, 7, 11, 15}
  Thread = {k, a, b}
  NULL = NULL
  Launched = 15
  MaxLaunches = 1
  Probe <- MCProbe
  Sizes = {1, 3, 40}
SYMMETRY Threads
INVARIANTS
  RegistersAreApart
  AccessIsOwn
CHECK_DEADLOCK FALSE
PROPERTIES
  PointersAreJudged
