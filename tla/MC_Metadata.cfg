CONSTANTS
  None = None
  OtherFiles <- ToolboxFiles
  NewFiles <- BuiltFiles
  Versions = {"v1", "v2"}
  Others = {"Toolbox"}
  Edits = {"convention", "room", "resize", "emitters", "remove", "attribute", "variable", "variable attribute"}
  MaxEdits = 1
  MaxWriters = 2
SPECIFICATION Spec
INVARIANTS
  WrittenOnce
  HistoryNamesEveryApi
  ResaveIsFixedPoint
  MeaningKept
  OnlyKnownLosses
CHECK_DEADLOCK FALSE
