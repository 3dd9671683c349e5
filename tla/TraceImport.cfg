SPECIFICATION Spec
CONSTANTS
  byte1 = byte1
  byte2 = byte2
  Address <- MCAddress
  Options <- MCOptions
  IpAccesses <- MCIpAccesses
  MemAccesses <- MCMemAccesses
  IpDeltas = {2}
  MaxInstr = 3
  BatchSize = 2
  Window = 1
  MaxAccesses = 4
INVARIANTS TypeOK NoRowRefused   TraceImported
