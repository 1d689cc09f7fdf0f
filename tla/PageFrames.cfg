SPECIFICATION Spec
CONSTANTS
  PageSize = 4
  Word = 16
  ShiftKeeps = TRUE
  KernelStart = 8
  KernelEnd = 14
  MemoryMaps <- AllMaps
  BlockSizes = {3, 4}
INVARIANTS TypeOK KernelLocked HeldIsLocked FreeIsAvailable UsedIsLocked FreeDrift
PROPERTIES NullMeansOutOfRam BlocksDisjoint AllocatesAsPromised
