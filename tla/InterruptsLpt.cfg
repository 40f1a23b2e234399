SPECIFICATION Spec
CONSTANTS
    Irqs = {0, 7}
    Exceptions = {}
    MAX_RAISE = 2
INVARIANT RegisteredIrqHandled
