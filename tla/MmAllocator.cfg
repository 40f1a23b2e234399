SPECIFICATION Spec
CONSTANTS
    PAGE = 512
    Pages = 5
    Sizes = {1, 447}
    Aligns = {1, 16}
    MaxLive = 3
    MaxObjs = 3
INVARIANTS
    TypeOK
    ObjectsApart
    NoHeapLeak
    OnlyKnownPanics
