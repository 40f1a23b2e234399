SPECIFICATION Spec
CONSTANTS
    PREFIX_LEN = 6
    FileLen = 4
    LineDigits = 2
    BUF_CAP = 30
    USZ_MOD = 256
    U32_MOD = 128
    ExprLen = 5
    PathLen = 9
    GROUP_CAP = 2
    FUNCTIONS_CAP = 5
    BUS_MAX = 4
    DEVICE_MAX = 2
    FUNCTION_MAX = 2
    MAX_LINES = 3
    Formats <- MCFormats
    Firmwares <- MCFirmwares
    Machines <- MCMachines
INVARIANT TypeOK
INVARIANT LoggerNeverFails
INVARIANT FormatInBuffer
INVARIANT FunctionsFound
PROPERTY FailureReported
PROPERTY BootCompletes
