CONSTANTS
  Saves = {s1, s2}
  Old = Old
  None = None
  Directory = Directory
  Modes = {"0600", "0644"}
  TempMode = "0600"
  DefaultMode = "0644"
  MaxCrashes = 1
SPECIFICATION Spec
INVARIANTS
  AtomicPath
  SuccessIsDurable
  NoLitter
PROPERTIES
  ModeKept
  PublishedNeverChanges
  EverySaveEnds
  ImplementsPromise
CHECK_DEADLOCK FALSE
