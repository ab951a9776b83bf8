SPECIFICATION InstallerSpec
CONSTANTS
  p1 = p1  p2 = p2  p3 = p3
  f1 = f1  f2 = f2  f3 = f3
  Package = {p1, p2, p3}
  File = {f1, f2, f3}
  Content = {"a", "b", "c"}
  UserContent = {"u"}
  Indexes = {"patch", "loaders", "replacer", "bridges", "needed"}
  Registries <- MCRegistries
  None = None  Blank = Blank
  BackupLimit = 2
  ConcurrentReader = FALSE
  MaxTouch = 1  MaxFaults = 1  MaxLost = 1  MaxCrash = 1
INVARIANTS
  RecordedIsOnDisk
  PlayerFilesSurvive
  
PROPERTIES
  FailureUndone
  DependenciesStay
CHECK_DEADLOCK FALSE
