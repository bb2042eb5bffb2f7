SPECIFICATION FairSpec
CONSTANTS
  Markings <- MCMarkings
  BAStates <- MCStates
  Systems <- MCSystems
  CHASHSIZE = 6
INVARIANTS
  CallersAreOpen
  LowlinkReaches ClosedIsHarmless VerdictCorrect
PROPERTIES
  Terminates
