SPECIFICATION ServerSpec
CONSTANTS
  c1 = c1
  t1 = t1
  m1 = m1
  m2 = m2
  i1 = i1
  None = None
  Clients = {c1}
  Proposers = {c1}
  Tools = {t1}
  Models = {m1, m2}
  Records = {i1}
  MaxFaults = 1
  Count = 4
  CrewSizes = {1, 2, 3}
  Inputs <- Troubles
  MaxRows = 2
  MaxProgress = 1
  MaxMishaps = 2
  WireRoom = 1
INVARIANTS
  ServerTypeOK
  LocksAreGivenBack
  AnswerIsTheSequentialWalks
  OpenRunIsWatched
PROPERTIES
  NewModelFindsItsDump
  ImplementsRegister
  ReportsKeepUp
  EndIsShownBeforeTheIdlePoll
