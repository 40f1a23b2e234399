SPECIFICATION Spec
CONSTANTS
    Irqs = {0, 1}
    Exceptions = {14}
    MAX_RAISE = 2
PROPERTY RegistersRestored
