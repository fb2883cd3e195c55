SPECIFICATION SessionSpec
CONSTANTS
  Runs = {1, 2}
  NoRun = 0
  Extras = 2
  MaxWorkers = 6
  MaxLosses = 1
  MaxModels = 3
  MaxTroubles = 2
  Server = "server"
  Importers = {"importer"}
  Free = "free"
  Readers = {"reader"}
  Inodes = {1, 2}
  MaxTick = 1
  MaxSaves = 3
  Estimates = {"e1", "e2", "e3"}
  NoEstimate = "none"
  Shapes <- Drawn
  Props = {"p", "q"}
  MintedIds = {"new"}
  OSMIds = {"road"}
  Files <- Imported
  MaxSize = 2
  MaxEdits = 3
  NoId = "no id"
  MaxGestures = 2
  MaxVisits = 1
INVARIANTS
  SessionTypeOK
  OnlyAnOvertakenLoadLeaks
  CancelStopsTheRun
  CleanIsTheProjects
  UnsavedWorkIsKept
  RememberedHashIsTheFiles
  NewestEstimateStands
  OneGestureOneStep
  CopyIsTheStores
  CoordinatesAreTheStoresOrAFiles
PROPERTIES
  EveryRunEnds
  HistoryImplemented
CHECK_DEADLOCK FALSE
