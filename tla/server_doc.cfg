\* One connection with one stream.
SPECIFICATION SrvSpec
CONSTANTS
  Conns = {k1}
  Streams = {s1}
  MaxCarried = 2
  ConnDrain = 1
  ServerDrains = {2}
CHECK_DEADLOCK FALSE
INVARIANT RelayedIsCounted
