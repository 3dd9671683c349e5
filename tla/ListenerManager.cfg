\* Three listeners: one in each of two performance buffers and one in none; two flows.
CONSTANTS
    f1 = f1
    f2 = f2
    l1 = l1
    l2 = l2
    l3 = l3
    single = single
    range = range
    NoFlow = NoFlow
    NoListener = NoListener
    NoBuffer = NoBuffer
    Flows <- MCFlows
    Listeners <- MCThree
    PerfBuffer <- MCMixedBuffers
    FastHandlers <- MCOnBreakpoint
    Counters = {1, 2}
    UINT_MAX = 3
    UsesRemoveAll = FALSE
SPECIFICATION Spec
INVARIANTS
    TypeOK
    IndicesAgree
    
    DestroyedUntouched
    FiresUnlessRemoved
