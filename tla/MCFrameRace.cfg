CONSTANTS
  MemoryMap <- MCMemoryMap
  PageSize = 1
  Procs = {kmain, shell}
SPECIFICATION RaceSpec
INVARIANT NoFrameTwice
CHECK_DEADLOCK FALSE
