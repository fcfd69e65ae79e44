SPECIFICATION Spec
CONSTANTS
  NumThreads = 4
  NumQueues = 2
  Sentinel = Sentinel
  NULL = NULL
  LowMemPriority = 0
  MaxQueueSize = 2
  m1 = m1
  Msg <- OneMsg
  Calls <- MailCalls
  Priorities <- MailPriorities
  Device <- MailDevices
  Programs <- MailPrograms
INVARIANTS
  TypeOK
  HighestPriorityRuns
  WaitersAreListed
  NoMissedWakeup
  RingInBounds
  TokenIsConserved
PROPERTIES
  ImplementsMailbox
