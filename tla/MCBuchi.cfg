SPECIFICATION Spec
CONSTANTS
  Props <- MCProps
  MaxLasso = 2
  Literal <- MCLiteral
  Automata <- MCAutomata
INVARIANTS
  SelfCheck
  LanguageKept
PROPERTY
  Finishes
