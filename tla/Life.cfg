SPECIFICATION Spec
CONSTANTS
  NumThreads = 4
  NumQueues = 2
  Sentinel = Sentinel
  NULL = NULL
  LowMemPriority = 0
  MaxQueueSize = 1
  m1 = m1
  Msg <- OneMsg
  Calls <- LifeCalls
  Priorities <- LifePriorities
  Device <- NoDevices
  Programs <- LifePrograms
CHECK_DEADLOCK FALSE
INVARIANTS
  SchedulerAccounted
  JoinersAreStranded
