SPECIFICATION FairSpec
CONSTANTS
  Procs = {p1}
  Files = {f1, f2}
  Sources = 2
  MaxCrashes = 2
  None = None
CHECK_DEADLOCK FALSE
INVARIANTS TypeOK HotLoadFinds
PROPERTIES InstallsVerified OldGoesLast EveryLaunchSettles
