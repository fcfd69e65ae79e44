SPECIFICATION FairSpec
CONSTANTS
  r1 = r1
  r2 = r2
  r3 = r3
  r4 = r4
  r5 = r5
  NULL = NULL
  BufferSize = 2
  QueueSize = 3
  Request <- Requests
  Address <- Addresses
  RequestSize = 2
  Word = 20
  Mem1End = 6
  Mem2Base = 8
  IpcHeapStart = 16
INVARIANTS
  TypeOK
  OneCopy
  NothingOverrun
  NeverDeaf
  RequestIsFresh
  AcksInTime
PROPERTIES
  Served
CHECK_DEADLOCK FALSE
