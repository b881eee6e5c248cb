SPECIFICATION GridSpec
CONSTANTS
    MaxSigned <- MCMaxSigned
    MaxApps = 1
    NONE = NONE
    Pool <- MCPool
    Roots <- MCRoots
    Found <- MCFound
    Texts <- MCTexts
    Encodes <- MCEncodes
    CallAddresses = {a1, a2}
    CountTexts <- MCCountTexts
    MaxItems = 2
    MaxLists = 3
    MaxWalk = 3
    MaxNodes = 4
    Contracts = {k1}
    r1 = r1
    w1 = w1
    w2 = w2
    Receivers = {r1}
    Words = {w1, w2}
    ReceiverKept <- MCKept
    SubjectKept <- MCKept
    Messages = {m1}
    MaxInbox = 2
    MaxOps = 1
    MaxMessages = 3
    MaxFetches = 2
    MaxRaw = 2
    MaxBatch = 1
    EMPTY = EMPTY
    ABSENT = ABSENT
    FAILED = FAILED
    Balances <- MCBalances
    MaxTokens = 2
    Sizes <- MCSizes
    ViewW = 2
    ViewH = 3
    PanStep = 2
    Sites <- MCSites
    AliasOf <- MCAliasOf
    Suggested <- MCSuggested
    Books <- MCBooks
    MaxBook = 2
    Cols = 4
    Rows = 2
    COLON = COLON
    BACKSLASH = BACKSLASH
    OpenSecurity <- MCOpenSecurity
    Airs <- MCAirs
    MaxNetworks = 2
    Resolutions = 2
    Depths = 2
    ann = ann
    ben = ben
    alice = alice
    bob = bob
    one = one
    ten = ten
    Forgeable = {alice, bob}
    OtherTexts = {mistyped}
    Amounts = {one}
    ContactNames = {ann, ben}
    MaxContacts = 2
    MaxSends = 2
    UNSET = UNSET
    Phrases = {p1, p2}
    Pins = {pinA, pinB}
    Dev = Dev
    CORRUPT = CORRUPT
    NOTHING = NOTHING
    MaxAccounts = 3
    Faults = {"write", "crash"}
SYMMETRY MCSymmetry
INVARIANTS
    SentToChosen
    DevSeedOnlyWithoutStore
    SignerIsSession
    ProfilesAgree
    ActiveAccountExists
    DoneMeansChanged
    CallOfAddress
    WalkBuilds
    SignedAsAsked
    MessageAsComposed
    SignedOncePerRequest
    ResponsesAnswer
    SnakeOnGrid
    PictureIsOfItem
    HomeIsBook
    ConnectsToChosen
PROPERTIES
    OncePerVisit
    SendIsConfirmed
    SigningIsConfirmed
