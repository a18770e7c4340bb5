SPECIFICATION Spec
CONSTANTS
  a = a
  b = b
  Calls = {c1, c2}
  Slugs = {a, b}
  Registries <- TwoVersions
  ViaStdin = {b}
  KillSlugs = {b}
  Tasks = {"reaper"}
  RequestTimeout = 1
  IdleTimeout = 1
  PipeLines = 2
  EventCap = 1
  None = None
SYMMETRY CallSymmetry
INVARIANTS AnswersMatch NoStrayChild ListedHaveStatus NoChildAfterShutdown
PROPERTIES ReaperSparesWaiting RefreshKeepsRunning ImplementsPool
