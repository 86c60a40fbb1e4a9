\* Two calls of run, a connection each.
SPECIFICATION MCFairSpec
CONSTANTS
  Runs = {r1, r2}
  Conns = {c1}
  Requests <- MCRequests
  Methods <- MCMethods
  Supports = {"socks5", "http"}
  None = None
  UpBytes = 2
  DownBytes = 1
CHECK_DEADLOCK FALSE
INVARIANTS MCTypeOK OneClient DetectedWhole CountedIsWritten
PROPERTIES StopStops ReadersEnd TunnelDelivers EndIsMet
