\* Lengths and caps scaled down, each on both sides of its boundary.
SPECIFICATION CodecSpec
CONSTANTS
    FieldCap = 2
    SsidMax = 2
    PassMin = 2
    PassMax = 3
    PskHex = 4
    TokenChars = 2
    KeyGroup = 2
    KeyChars = 5
    MaxHead = 14
    MaxBody = 2
    SecretBytes = 2
    KeyVersionMax = 12
    PartMax = 15
    PartDigits = 2
    VersionMaxLen = 8
    SigBytes = 2
    ShaBytes = 1
    WordBytes = 2
    BlockBytes = 8
    IntBits = 8
    Chunk = 3
    Requests <- MCRequests
    Forms <- MCForms
    Logins <- MCLogins
    Tokens <- MCTokens
    Keys <- MCKeys
    Times <- MCTimes
    Punches <- MCPunches
    Disks <- MCDisks
    RingMinRecords = 2
    RingSlackBlocks = 2
    MaxBoots = 3
INVARIANTS RequestServed FormSaved AnswersExact ImageAdmitted PunchExact RingFileSafe
CHECK_DEADLOCK FALSE
