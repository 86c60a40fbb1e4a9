SPECIFICATION FairSpec
CONSTANTS
  MaxStream = 1
  MaxPush = 0
  PushBytes = 1
  PushMsgs = 1
  CtrlCap = 1
  Faults = TRUE
  Ages = {}
  Calls <- DropCloseCalls
INVARIANTS
  NoStreamAfterEnd
PROPERTIES
  ReleasedStreamLeavesSlot
  ClosedSessionStops
  PeerFollows
CHECK_DEADLOCK FALSE
