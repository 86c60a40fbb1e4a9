\* Two callers, two sessions that age, room for one in the pool.
SPECIFICATION Spec
CONSTANTS
  MaxSessions = 2
  Callers = {c1, c2}
  MaxIdle = 1
  Ages = TRUE
  None = None
SYMMETRY CallerSymmetry
CHECK_DEADLOCK FALSE
INVARIANTS OneOwner PoolBounded NeverForgotten
