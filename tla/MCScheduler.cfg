CONSTANTS
  MaxPid = 5
  Names = {kernel, shell}
  Kernel = kernel
  Shell = shell
SPECIFICATION FairSpec
INVARIANTS TypeOK RunnerNotFreed CpuConsistent ListSorted SwitchBounded
PROPERTIES ImplementsProcessTable NoStarvation EventuallyBuried
