CONSTANTS
  Exports = {x1, x2, x3}
  Old = Old
  None = None
SPECIFICATION Spec
INVARIANTS
  NothingLeft
  CompleteOrInPlace
PROPERTIES
  PreviousKept
  UnforcedKeep
  EveryExportEnds
CHECK_DEADLOCK FALSE
