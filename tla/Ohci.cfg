SPECIFICATION FairSpec
CONSTANTS
  r1 = r1
  r2 = r2
  NULL = NULL
  Request = {r1, r2}
  Ports = 2
  Slots = 2
  Attempts = 2
  MaxEvents = 2
INVARIANTS
  NoLostChange
PROPERTIES
  Noticed
  Answered
CHECK_DEADLOCK FALSE
