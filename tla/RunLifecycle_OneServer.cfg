SPECIFICATION Spec
CONSTANTS
  r1 = r1
  r2 = r2
  s1 = s1
  s2 = s2
  NoServer = NoServer
  NoAgent = NoAgent
  NoRun = NoRun
  Runs = {r1, r2}
  BareRuns = {}
  Servers = {s1}
  MaxFaults = 1
  Overlap = FALSE
INVARIANTS
  NoLostUpdate
  RowHasDirectory
  SettledRunIsClosed
  RefusedRunIsOver
  CleanStop
PROPERTY ImplementsRegistry
