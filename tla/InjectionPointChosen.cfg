SPECIFICATION Spec
CONSTANTS
  Instructions <- MCInstructions
  MaxTrace = 2
INVARIANT ChosenInClass
