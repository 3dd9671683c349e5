\* Two jobs, one connection at a time, one failing socket operation, fairness.
CONSTANTS
    j1 = j1
    j2 = j2
    c1 = c1
    Jobs = {j1, j2}
    Conns = {c1}
    NoJob = NoJob
    SERVER_OUT_QUEUE_SIZE = 0
    pick_window_size = 2
    MaxJobSize = 1
    MaxFaults = 1
SPECIFICATION FairSpec
PROPERTIES
    
    CollectorEnds
