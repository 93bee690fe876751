CONSTANTS
  MaxElements = 24
  Shapes <- SmallShapes
  Types = {"FIR", "TF", "TFE", "SOS"}
  Nothing = Nothing
  MaxEdits = 2
SPECIFICATION Spec
INVARIANTS
  TypeOK
  SavedFits
  SaveThenOpen
  ResaveIsStable
  OpenedAsLabelled
CHECK_DEADLOCK FALSE
