SPECIFICATION LiveSpec
CONSTANTS
  p1 = p1
  p2 = p2
  p3 = p3
  PilotList <- MCPilotList
  KeyList <- MCKeyList
  MaxMishaps = 3
CHECK_DEADLOCK FALSE
INVARIANT FinishedMeansStored
PROPERTIES  CampaignCompletes
