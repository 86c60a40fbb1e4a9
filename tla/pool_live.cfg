\* One caller, two sessions that age, room for one in the pool.
SPECIFICATION FairSpec
CONSTANTS
  MaxSessions = 2
  Callers = {c1}
  MaxIdle = 1
  Ages = TRUE
  None = None
CHECK_DEADLOCK FALSE
PROPERTIES ClientStops ExpiredIdleCloses
