CONSTANTS
  Goroutines = {g1, g2}
  Nobody = Nobody
  Types = {"FIR", "TF", "TFE"}
  Kind = "TF"
  Stored = 2
  MaxEdits = 1
SPECIFICATION SpecFile
INVARIANTS
  ExclusiveUse
  RangeIsComplete
  NothingLeaks
  ClosedByOne
  CloseErrorReported
PROPERTIES
  ClosedComesFirst
  EveryCallReturns
  ImplementsShared
CHECK_DEADLOCK FALSE
