\* Four threads, three items, a queue of two, fairness.
CONSTANTS
    t1 = t1
    t2 = t2
    t3 = t3
    t4 = t4
    x1 = x1
    x2 = x2
    x3 = x3
    Threads = {t1, t2, t3, t4}
    Items = {x1, x2, x3}
    NoItem = NoItem
    capacity = 2
SPECIFICATION FairSpec
INVARIANTS
    NoLostWakeup
    EndAndCapacity
PROPERTIES
    DequeueReturns
    NoneSleepsOn
