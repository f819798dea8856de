CONSTANTS
  PAGE_SIZE = 2
  PAGES_PER_EXTEND = 2
  INIT_HEAP_SIZE = 8
  Layouts <- MCLayouts
  Frames = 5
  MaxAllocated = 3
SPECIFICATION Spec
INVARIANT FreeListMapped
CHECK_DEADLOCK FALSE
