SPECIFICATION Spec
CONSTANTS
  Procs = {p1}
  Requests = {r1, r2}
  Relaunches = 1
  AttemptMax = 2
  None = None
INVARIANT OnlyInvalidDropped
