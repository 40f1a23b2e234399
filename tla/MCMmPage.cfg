SPECIFICATION Spec
CONSTANTS
    FAN = 3
    HUGES = 4
    KeptHuges = {2}
    FreedHuges = {3}
    VAs <- ClientPages
    MaxHeld = 1
INVARIANTS
    TypeOK
    FramesAccounted
    NoStaleTranslation
    NoFrameLost
PROPERTIES
    CallReturns
    ImplementsPageAbs
