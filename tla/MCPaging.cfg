CONSTANTS
  FrameCount = 15
  EntryCount = 4
  HIGHER_HALF_ENTRY = 2
  MaxRoots = 2
  HeapPages <- MCHeapPages
  AcpiPage <- MCAcpiPage
  LapicPage <- MCLapicPage
SPECIFICATION Spec
INVARIANTS NoDanglingTable HeapShared FramesExclusive WritablePaths
PROPERTIES FreeLeaksUpperHalf
CHECK_DEADLOCK FALSE
