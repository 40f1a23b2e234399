SPECIFICATION FairSpec
CONSTANTS
    MAX_CLASS = 3
    Size <- MCSize
    Header = 24
    MaxExpand = 2
    Lens <- MCLens
INVARIANTS
    TypeOK
    Tiling
    ListsExact
    FullyCoalesced
    NoInternalPanic
PROPERTIES
    HeldBlockKept
    CallReturns
    ImplementsHeapAbs
