\* Two jobs, two connections, requests for up to two jobs, one failing socket operation.
CONSTANTS
    j1 = j1
    j2 = j2
    c1 = c1
    c2 = c2
    Jobs = {j1, j2}
    Conns = {c1, c2}
    NoJob = NoJob
    SERVER_OUT_QUEUE_SIZE = 0
    pick_window_size = 2
    MaxJobSize = 2
    MaxFaults = 1
SPECIFICATION Spec
SYMMETRY Symmetry
INVARIANTS
    TypeOK
    JobInOnePlace
    
    InsertNeverRefused
PROPERTY
    DistributionSpec
