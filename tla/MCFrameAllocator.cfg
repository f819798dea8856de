CONSTANTS
  MemoryMap <- MCMemoryMap
  PageSize = 1
SPECIFICATION Spec
INVARIANTS BitmapExact NothingOutOfReach
PROPERTIES ImplementsFramePool
