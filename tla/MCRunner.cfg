SPECIFICATION Spec
CONSTANTS
  a = a
  b = b
  home = home
  away = away
  Orbs = {a, b}
  Folders = {home, away}
  Gateway = Gateway
  Tasks = {t1, t2}
  Pids = {p1, p2, p3, p4}
  Ports = {1, 2, 3}
  PortRange = 1
  MaxFaults = 1
  Torn = Torn
  None = None
  Worlds <- MCWorlds
INVARIANTS TypeOK LibraryIntact NothingLost LibraryFits OwnedMatches OneGateway NoOrphans
PROPERTIES FailedMigrationUndone TokenKept ClosesClean EveryCommandEnds
CHECK_DEADLOCK FALSE
