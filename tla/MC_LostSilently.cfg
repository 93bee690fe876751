CONSTANTS
  None = None
  OtherFiles <- ToolboxFiles
  NewFiles <- BuiltFiles
  Versions = {"v1", "v2"}
  Others = {"Toolbox"}
  Edits = {"convention", "room", "resize", "emitters", "remove", "attribute", "variable", "variable attribute"}
  MaxEdits = 1
  MaxWriters = 3
SPECIFICATION Spec
INVARIANTS
  LossNeverSilent
CHECK_DEADLOCK FALSE
