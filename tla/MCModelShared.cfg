SPECIFICATION Spec
CONSTANTS
  Procs = {p1, p2}
  Files = {f1, f2}
  Sources = 2
  MaxCrashes = 0
  None = None
CHECK_DEADLOCK FALSE
PROPERTY InstallsVerified
