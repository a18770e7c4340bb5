SPECIFICATION Spec
CONSTANTS
  a = a
  b = b
  Calls = {c1}
  Slugs = {a}
  Registries <- JustOne
  ViaStdin = {}
  KillSlugs = {}
  Tasks = {"reaper"}
  RequestTimeout = 1
  IdleTimeout = 1
  PipeLines = 2
  EventCap = 1
  None = None
PROPERTY EveryAnswerRouted
