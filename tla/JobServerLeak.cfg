\* One job, one connection, one failing socket operation.
CONSTANTS
    j1 = j1
    c1 = c1
    Jobs = {j1}
    Conns = {c1}
    NoJob = NoJob
    SERVER_OUT_QUEUE_SIZE = 0
    pick_window_size = 2
    MaxJobSize = 1
    MaxFaults = 1
SPECIFICATION Spec
INVARIANT
    NoJobLeaked
