SPECIFICATION Spec
CONSTANTS
  EMPTY = EMPTY
  Places <- MCPlaces
  Transitions <- MCTransitions
  Colors = {0, 1}
  Propositions <- MCPropositions
  Instances <- MCInstances
INVARIANTS OneState
PROPERTIES FreeMovesUnnoticed ImplementsProduct
CHECK_DEADLOCK FALSE
