CONSTANTS
  Shapes <- SmallShapes
  OtherChunks <- AnyChunks
  ElementSizes = {1, 2}
  FloatSize = 2
  MaxChunkBytes = 8
  MaxChunks = 4
  MaxCacheBytes = 24
  DefaultChunks = 2
  DefaultBytes = 3
  MaxUint = 31
SPECIFICATION Spec
INVARIANTS
  TypeOK
  FewChunks
  AsDocumented
  DecompressedOnce
  CacheAsExact
CHECK_DEADLOCK FALSE
