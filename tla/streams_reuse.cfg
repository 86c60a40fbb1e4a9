SPECIFICATION Spec
CONSTANTS
  MaxStream = 2
  MaxPush = 0
  PushBytes = 1
  PushMsgs = 1
  CtrlCap = 1
  Faults = FALSE
  Ages = {"server"}
  Calls <- ReuseCalls
INVARIANTS
  FinNeverLost
CHECK_DEADLOCK FALSE
