SPECIFICATION FairSpec
CONSTANTS
  Runs = {1}
  NChunks = 3
  Workers = 2
  MayDisable = {1}
  Repeats = {1}
  Standard <- MCStandard
  Geometry <- SameGeometry
  KeepLast = 1
  MaxFaults = 1
INVARIANTS
  OutcomeIsTrue
PROPERTIES
  ProgressNeverGoesBack
  EveryRunReturns
