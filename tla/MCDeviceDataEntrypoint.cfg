SPECIFICATION Spec
CONSTANTS
    ABSENT = ABSENT
    NONE = NONE
    EMPTY = EMPTY
    CUT = CUT
    BLANK = BLANK
    GARBLED = GARBLED
    DOT = DOT
    SIGN = SIGN
    t1 = t1
    t2 = t2
    Names = {ann, ben}
    Addresses = {a1, a2}
    MaxContacts = 3
    MaxRisks = 1
    TextKeys <- MCTextKeys
    Optional = {"name_registry_contract"}
    TypedTexts <- MCTypedTexts
    DefaultText <- MCDefaultText
    Networks = {0, 1}
    Base = 2
    MaxWhole = 3
    Decimals = 2
    Word = 16
    MaxText = 5
    Characters <- MCCharacters
    Keys = {2, 3}
    KeyChars <- MCKeyChars
    Upper <- MCUpper
    MaxLen = 2
    CommitDelay = 2
    WordList <- MCWordList
    MaxCandidates = 2
    WordCount = 2
    Valid <- MCValid
    Half = 8
    AccountBytes = 2
    SignatureBytes = 3
    Accounts = {0, 2, 3, 5}
    NoAccounts = {5}
    Payloads <- MCPayloads
    BitXor <- MCXor
    Address <- MCAddress
    Signature <- MCSignature
    MaxInt = 1000000
    MaxNodes = 5
    TextOf <- MCTextOf
    ByteBits = 4
    WordBits = 3
    ListSize = 8
    EntropyBits = {4, 8}
    ChecksumBits <- MCChecksumBits
    HashByte <- MCHashByte
    MaxWords = 3
    Hashes <- MCHashes
    Strange <- MCStrange
    Numbers <- MCNumbers
    Values <- MCValues
    Unforgeable <- MCUnforgeable
    Types <- MCTypes
    InfoTexts = {0, 1, 15}
    Tones <- MCTones
    Entrypoints = {"", "default", "do", "finalize_unstake", "mint", "buy", "long"}
INVARIANTS
    EntrypointIsRead
CHECK_DEADLOCK FALSE
