SPECIFICATION Spec
CONSTANTS
  r1 = r1
  r2 = r2
  s1 = s1
  s2 = s2
  NoServer = NoServer
  NoAgent = NoAgent
  NoRun = NoRun
  Runs = {r1}
  BareRuns = {}
  Servers = {s1, s2}
  MaxFaults = 0
  Overlap = FALSE
INVARIANT WriterKeepsItsDirectory
