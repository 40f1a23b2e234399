SPECIFICATION Spec
CONSTANTS
    Irqs = {0, 1, 4, 8}
    Exceptions = {14}
    MAX_RAISE = 3
INVARIANT TypeOK
INVARIANT RightHandler
INVARIANT LevelsMatchFrames
INVARIANT NestingBounded
PROPERTY IrqServed
