SPECIFICATION FairSpec
CONSTANTS
  a = a
  b = b
  Calls = {c1}
  Slugs = {a, b}
  Registries <- TwoOrbs
  ViaStdin = {b}
  KillSlugs = {}
  Tasks = {"watcher", "reaper"}
  RequestTimeout = 1
  IdleTimeout = 1
  PipeLines = 2
  EventCap = 1
  None = None
INVARIANT TypeOK
PROPERTY RegistryApplied
