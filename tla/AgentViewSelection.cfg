SPECIFICATION Spec
CONSTANTS
  d1 = d1
  d2 = d2
  Directories <- MCDirectories
  StartupCWD = d1
  FirstDirs <- MCFirstDirs
  MaxSessions = 3
  MayPin = {2}
  MayRun = {1}
  PageSize = 1
  Pinned = Pinned
  NoSession = NoSession
INVARIANTS
  CursorIsListed
  RequestIsAwaited
  RenameKeepsItsRow
PROPERTIES
  SelectionHolds
CHECK_DEADLOCK FALSE
