SPECIFICATION Spec
CONSTANTS
  Props <- MCProps
  MaxLasso = 3
  Formulas <- MCFormulas
INVARIANTS
  MeaningKept
  AutomatonAgrees
PROPERTY
  Translated
