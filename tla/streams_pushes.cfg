SPECIFICATION Spec
CONSTANTS
  MaxStream = 1
  MaxPush = 2
  PushBytes = 1
  PushMsgs = 1
  CtrlCap = 1
  Faults = FALSE
  Ages = {}
  Calls <- RelayCalls
INVARIANTS
  
  NoFinishMissed
CHECK_DEADLOCK FALSE
