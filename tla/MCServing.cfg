SPECIFICATION Spec
CONSTANTS
  a = a
  b = b
  r1 = r1
  r2 = r2
  Orbs = {a, b}
  Requests = {r1, r2}
  MaxItems = 3
  Web = Web
  Chunks = {1, 2, 3}
  Documents = {"0"}
  SlugMax = 3
  RingMax = 2
  MaxWeb = 2
  MaxDeaths = 1
  ChannelCap = 1
  None = None
  Worlds <- MCWorlds
INVARIANTS TypeOK ListedMethodsAnswer ListedNamesRoute DominanceKept MetricsKept OneLostPerCut
PROPERTIES EveryRequestAnswered NoChildOutlives
CHECK_DEADLOCK FALSE
