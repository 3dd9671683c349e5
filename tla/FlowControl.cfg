SPECIFICATION LiveSpec
CONSTANTS
  main = main
  plugin = plugin
  logger = logger
  Sim = Sim
  Deleted = Deleted
  Flows <- MCFlows
  Experiments <- MCExperiments
  MaxListeners = 1
  NestedEnd = FALSE
  OthersRequest = FALSE
CHECK_DEADLOCK FALSE
INVARIANTS  CoroutinesAlive
PROPERTIES  TerminationFinal RequestAnswered
