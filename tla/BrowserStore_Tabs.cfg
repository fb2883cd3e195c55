SPECIFICATION Spec
CONSTANTS
  t1 = t1
  t2 = t2
  Tab = {t1,t2}
  NoTab = NoTab
  MaxStored = 2
  MaxComputes = 3
  MaxExports = 1
  MaxIncidents = 2
INVARIANTS
  TypeOK
  StoredRunHasItsRaster
  FailedStoreKeepsTheList
  OnlyALostRunsURLIsStale
PROPERTIES
  DocumentChangesAreDeliberate
SYMMETRY TabSymmetry
CHECK_DEADLOCK FALSE
