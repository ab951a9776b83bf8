SPECIFICATION InstallerSpec
CONSTANTS
  p1 = p1  p2 = p2  p3 = p3
  f1 = f1  f2 = f2  f3 = f3
  Package = {p1, p2, p3}
  File = {f1, f2, f3}
  Content = {"a", "b", "c"}
  UserContent = {"u"}
  Indexes = {"longer"}
  Registries <- MCRegistries
  None = None  Blank = Blank
  BackupLimit = 2
  ConcurrentReader = FALSE
  MaxTouch = 1  MaxFaults = 0  MaxLost = 0  MaxCrash = 0
PROPERTY NoneDeletedByMistake
CHECK_DEADLOCK FALSE
