SPECIFICATION Spec
CONSTANTS
  MaxStream = 2
  MaxPush = 0
  PushBytes = 1
  PushMsgs = 1
  CtrlCap = 1
  Faults = FALSE
  Ages = {}
  Calls <- HalfCloseCalls
PROPERTIES
  CleanupSparesOthers
CHECK_DEADLOCK FALSE
