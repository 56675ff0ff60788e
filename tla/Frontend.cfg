CONSTANTS
    Inputs <- MCInputs
    Chains <- MCChains
    InterpParts <- MCInterp
    MaxDepth = 5
SPECIFICATION Spec
CHECK_DEADLOCK FALSE
INVARIANTS
  
  EveryExprNumberedOnce
  FormatReparses
PROPERTIES
  ParsingEnds
