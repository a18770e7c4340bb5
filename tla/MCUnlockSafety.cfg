SPECIFICATION Spec
CONSTANTS
  Procs = {p1}
  Requests = {r1, r2, r3}
  Relaunches = 1
  AttemptMax = 2
  None = None
SYMMETRY ProcSymmetry
INVARIANTS TypeOK KnowledgeBehindGate LaunchOpens
PROPERTIES OnlyRightKeysRemembered ThrottleKept ImplementsGate
