CONSTANTS
  MaxPid = 3
  Names = {kernel, shell}
  Kernel = kernel
  Shell = shell
SPECIFICATION LockSpec
INVARIANT HandlersNeverBlock
CHECK_DEADLOCK FALSE
