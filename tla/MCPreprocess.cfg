SPECIFICATION Spec
CONSTANTS
  Programs <- MCPrograms
  AtomicNames <- MCAtomicNames
  FunctionNames <- MCFunctionNames
INVARIANTS
  RowsFollow
  RunsAlike
CHECK_DEADLOCK FALSE
