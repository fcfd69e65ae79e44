SPECIFICATION Spec
CONSTANTS
  t1 = t1
  t2 = t2
  t3 = t3
  d1 = d1
  d2 = d2
  a1 = a1
  a2 = a2
  h1 = h1
  h2 = h2
  NULL = NULL
  Thread <- Threads
  ProcessOf <- Processes
  Limit <- Limits
  Device <- Devices
  Path <- Paths
  Matches <- Prefixes
  App <- Apps
  Passes <- Messages
  Handle <- Handles
  MaxFds = 1
  MaxDevices = 2
  ExtraMessages = 2
  QueueSize = 1
  CallbackSize = 2
SYMMETRY Interchangeable
INVARIANTS
  PoolAccounted
  AnsweredOnce
  HandlesOpen
