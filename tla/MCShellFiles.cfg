CONSTANTS
  Names = {"a"}
  Data <- MCData
  MaxNodes = 4
  Args <- MCArgs
  MaxPath = 2
SPECIFICATION ShellSpec
INVARIANTS LsSafe
PROPERTIES ImplementsFileStore ActsOnItsPath
CHECK_DEADLOCK FALSE
