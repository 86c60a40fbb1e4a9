\* One client that comes and goes.
SPECIFICATION Spec
CONSTANTS
  Clients = {c1}
  Dirs = {"up"}
  MaxBytes = 2
  MaxStarts = 1
CHECK_DEADLOCK FALSE
INVARIANT BaselineNotAhead
