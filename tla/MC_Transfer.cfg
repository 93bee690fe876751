CONSTANTS
  Senders = {s1, s2}
  Files <- SentFiles
  OtherFiles <- ForeignFiles
  Pieces = {0, 7}
  Writes = 1
  MaxCalls = 2
  MaxElements = 65536
  MinBudget = 4096
  PerByte = 8
  Word = 1048576
SYMMETRY SendersAlike
SPECIFICATION Spec
INVARIANTS
  NothingBeforeCommit
  HonestReturn
  ReceivedIsReadable
  ReadsWithinBudget
  LazyAgrees
CHECK_DEADLOCK FALSE
