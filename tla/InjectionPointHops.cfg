SPECIFICATION Spec
CONSTANTS
  Instructions <- MCInstructions
  MaxTrace = 5
INVARIANTS ChainsLeadToTarget CostsAgree OptimalWithoutAccesses ResultsCoverClass
