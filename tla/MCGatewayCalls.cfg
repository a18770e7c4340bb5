SPECIFICATION FairSpec
CONSTANTS
  a = a
  b = b
  Calls = {c1, c2}
  Slugs = {a}
  Registries <- JustOne
  ViaStdin = {a}
  KillSlugs = {}
  Tasks = {"reaper"}
  RequestTimeout = 1
  IdleTimeout = 1
  PipeLines = 1
  EventCap = 1
  None = None
PROPERTY EveryCallEnds
