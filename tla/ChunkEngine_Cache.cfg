SPECIFICATION Spec
CONSTANTS
  Runs = {1, 2, 3}
  NChunks = 1
  Workers = 1
  MayDisable = {}
  Repeats = {}
  Standard <- MCStandard
  Geometry <- SameGeometry
  KeepLast = 1
  MaxFaults = 0
INVARIANTS
  ResultsAreOwn
  OnlyFaultsFail
