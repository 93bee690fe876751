CONSTANTS
  Saves = {s1}
  Old = Old
  None = None
  Directory = Directory
  Modes = {"0600", "0644", "0640"}
  TempMode = "0600"
  DefaultMode = "0644"
  MaxCrashes = 0
SPECIFICATION Undisturbed
INVARIANT FailedLeavesPath
CHECK_DEADLOCK FALSE
