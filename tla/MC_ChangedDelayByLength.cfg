CONSTANTS
  MaxElements = 16
  Shapes <- SquareShapes
  Types = {"FIR", "TF", "TFE", "SOS"}
  Nothing = Nothing
  MaxEdits = 1
SPECIFICATION Spec
INVARIANT ChangedDelayByLength
CHECK_DEADLOCK FALSE
