SPECIFICATION Spec
CONSTANTS
  Nets <- MCNets
  Uninitialised <- MCUninitialised
  MaxEvents = 80
INVARIANTS
  AnswerKept
  StacksKnown
  CounterexampleReal
  NothingMissedWithoutLoops
  ConflictsCoverRaces
PROPERTIES
  ConfigurationsAreRuns
  Reports
CHECK_DEADLOCK FALSE
