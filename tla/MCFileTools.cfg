SPECIFICATION ToolsSpec
CONSTANTS
  c1 = c1
  c2 = c2
  c3 = c3
  l1 = l1
  l2 = l2
  ToolCalls = {c1, c2, c3}
  LockObjects = {l1, l2}
  NoLock = NoLock
  MaxCommands = 1
  MaxDeaths = 1
SYMMETRY Sym
INVARIANTS ChangesBuildOnTheLast ToolsTellTheTruth
