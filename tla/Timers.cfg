SPECIFICATION FairSpec
CONSTANTS
  t1 = t1
  t2 = t2
  t3 = t3
  NULL = NULL
  Timer <- ThreeTimers
  Setting <- Settings
  Ending <- Endings
  Word = 5
  Clock = 81
  MaxLag = 4
INVARIANTS
  TypeOK
  NeverEarly
  AlarmInTime
PROPERTIES
  DueFires
CHECK_DEADLOCK FALSE
