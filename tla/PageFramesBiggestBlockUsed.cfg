SPECIFICATION Spec
CONSTANTS
  PageSize = 4
  Word = 16
  ShiftKeeps = TRUE
  KernelStart = 8
  KernelEnd = 14
  MemoryMaps <- BothMaps
  BlockSizes = {3, 4}
INVARIANT BiggestBlockUsed
