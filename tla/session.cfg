\* The unit of time of the heartbeat is five seconds.
SPECIFICATION MCFairSpec
CONSTANTS
  MaxBytes = 4
  MaxFrame = 2
  PushBytes = 2
  PushMsgs = 2
  PipeBytes = 1
  Breaks = TRUE
  Overlap = TRUE
  Interval = 3
  QueueTimeout = 3
  WriteTimeout = 3
  Timeout = 2
  QueueSize = 1
  Header = 2
  MaxLen = 7
  MaxId = 2
  Scheme <- MCScheme
  MaxPush = 2
  Pushes = 1
CHECK_DEADLOCK FALSE
INVARIANTS MCTypeOK BacklogBounded NoFalseAlarm 
           NeverRefused DecodedAsSent SettingsAgreed
PROPERTIES Delivers EndIsReached
