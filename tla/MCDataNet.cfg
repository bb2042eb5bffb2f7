SPECIFICATION Spec
CONSTANTS
  Decls <- MCDecls
  NewThreads <- MCNewThreads
  Statements <- MCStatements
  MaxValue = 1
INVARIANTS
  MemoryAsInC
  BranchesAsInC
CHECK_DEADLOCK FALSE
