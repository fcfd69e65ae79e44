SPECIFICATION FairSpec
CONSTANTS
  NumThreads = 3
  NumQueues = 2
  Sentinel = Sentinel
  NULL = NULL
  LowMemPriority = 0
  MaxQueueSize = 1
  m1 = m1
  Msg <- OneMsg
  Calls <- EventCalls
  Priorities <- NoPriorities
  Device <- EventDevices
  Programs <- EventPrograms
PROPERTIES
  EventServed
