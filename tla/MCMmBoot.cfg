SPECIFICATION Spec
CONSTANTS
    SMALL = 2
    BIG = 4
    GIG = 16
    SEC_MAX = 3
    EARLY_CAP = 6
    CFG_LEN = 4
    StackPages = 3
    PcieVa = 8
    PcieVaEnd = 12
    Machines <- AllMachines
INVARIANTS
    FreedOnlySpare
    KernelStaysMapped
    WindowsMapped
