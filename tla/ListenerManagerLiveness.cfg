\* Two listeners without performance buffers, two flows, fairness.
CONSTANTS
    f1 = f1
    f2 = f2
    l1 = l1
    l2 = l2
    l3 = l3
    single = single
    range = range
    NoFlow = NoFlow
    NoListener = NoListener
    NoBuffer = NoBuffer
    Flows <- MCFlows
    Listeners <- MCTwo
    PerfBuffer <- MCNoBuffers
    FastHandlers <- MCNoHandlers
    Counters = {1, 2}
    UINT_MAX = 3
    UsesRemoveAll = TRUE
SPECIFICATION FairSpec
PROPERTY
    EventHandled
