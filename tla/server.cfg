\* Two connections; the limits of the code in units of five seconds, and a server that
\* waits no longer than a connection does.  Two versions of the TLS files, changed three
\* times.  One client of the panel that may come and go, counted in one direction by two
\* processes.
SPECIFICATION MCFairSpec
CONSTANTS
  Conns = {k1, k2}
  Streams = {s1}
  MaxCarried = 1
  ConnDrain = 1
  ServerDrains = {1, 2}
  Versions = {1, 2}
  MaxEdits = 3
  MaxOthers = 1
  Clients = {c1}
  Dirs = {"up"}
  MaxBytes = 3
  MaxStarts = 2
CHECK_DEADLOCK FALSE
INVARIANTS MCTypeOK DrainInTime NothingLeft FinishedIsCounted ServesAPair
           NeverOverBilled NothingLost
PROPERTIES ServerStops ConnectionEnds Converges AllBilled
