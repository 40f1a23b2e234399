SPECIFICATION Spec
CONSTANTS
    Machines <- MCMachines
    MapCalls <- MCCalls
    SMALL = 2
    ENTRIES = 2
    WORDS = 8
    LARGE_SECTION = 11
    PA_MAX = 48
    SEC_CAP = 3
    FRAME_CAP = 28
    LIST_CAP = 24
    FbVa = 64
    FbEnd = 72
    MAX_CALLS = 3
INVARIANT TypeOK
INVARIANT KernelReachable
INVARIANT ConsoleReachable
INVARIANT FrameMapFits
PROPERTY LoadedRootOnlyGrows
PROPERTY CallsEnd
