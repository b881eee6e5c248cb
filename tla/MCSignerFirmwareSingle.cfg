SPECIFICATION FirmwareSpec
CONSTANTS
    small = small
    large = large
    huge = huge
    NONE = NONE
    Operations <- MCOperations
    Byte <- MCByte
    Content <- MCContent
    MaxOperationSize = 4
    MaxData = 2
    SingleLast = TRUE
    Headers <- MCHeaders
    Bodies <- MCBodies
    MaxCommands = 2
    FlushWords = 3
    Pipeline = 3
    MaxSpin = 2
INVARIANTS
    NeverMixesOperations
CHECK_DEADLOCK FALSE
