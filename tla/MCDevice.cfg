SPECIFICATION DeviceFairSpec
CONSTANTS
    Screens <- MCScreens
    Splash = "boot_splash"
    Idle = "idle"
    Stub = "stub"
    Opens <- MCOpens
    Swaps <- MCSwaps
    Backs <- MCBacks
    Silent <- AppQuiet
    AppEntry <- MCAppEntry
    MaxDepth = 8
    MaxStubs = 2
    SplashTime = 2
    MaxKeys = 2
    Width = 4
    Height = 3
    Displays <- MCDisplays
    Rectangles <- MCRectangles
    PopupMarks <- MCPopupMarks
    Kinds = {"screen", "popup", "part"}
    MaxDirty = 2
    MaxRows = 5
    Heights = {0, 1, 2, 3}
    small = small
    large = large
    huge = huge
    NONE = NONE
    Operations <- MCOperations
    Byte <- MCByte
    Content <- MCContent
    MaxOperationSize = 4
    MaxData = 2
    SingleLast = FALSE
    Headers <- MCHeaders
    Bodies <- MCBodies
    MaxCommands = 2
    FlushWords = 3
    Pipeline = 3
    MaxSpin = 2
INVARIANTS
    ReadyIsOneOperation
    AcknowledgedIsAssembled
    LoopInStep
    WordIsVerified
    
    AppsFitStack
    DrawnIsShown
    SelectionIsVisible
PROPERTIES
    RngEnds
    BootEnds
