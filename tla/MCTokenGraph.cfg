SPECIFICATION Spec
CONSTANTS
  Decls <- MCDecls
  NewThreads <- MCNewThreads
  Markings <- MCMarkings
  Start <- MCStart
  TransCount <- MCTransCount
  Priority <- MCPriority
  Aborts <- MCAborts
  BindingsOf <- MCBindings
  Fired <- MCFired
  HashOf <- MCHash
  TableSize = 5
  Limits = {12, 1000}
INVARIANTS
  NodesDistinct
  GraphComplete
  AddressesApart
CHECK_DEADLOCK FALSE
