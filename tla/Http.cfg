CONSTANTS
    Builds = {"posix", "windows", "esp32", "login5"}
    Bodies <- MCBodies
    BufMax <- MCBufMax
    HeadLen = 4
    StatusLen = 2
    OutMax = 11
    TokenMax = 7
    Files = {"file1", "file2"}
    FileIds = {"file1", "file2"}
    Formats = {"AAC_24", "MP3_96", "OGG_VORBIS_96"}
    LongFormats = {"OGG_VORBIS_96"}
    Missing = "none"
    MaxEntries = 2
    FileLen = 2
    SizeMod = 8
    RespMax = 3
    BufSize = 2
    Offsets = {0, 1, 7}
    Lengths = {0, 1, 2}
    MaxOps = 1
    Platforms = {"posix", "windows", "esp32"}
    MaxAddrs = 2
    MaxCount = 2
    MaxBytes = 3
    Clients = 2
    NullArg = NullArg
    Msgs <- NanopbMsgs
    Structs <- MCStructs
    Unknown <- MCUnknown
    Varints <- MCVarints
    Sizes = {11, 64}
SPECIFICATION HttpSpec
INVARIANTS
    ReleasedOnReturn
    AnswerRead
    FilesReadBack
    RangeHonoured
    PlainFromStart
    ConnectsWhereItCan
    InStep
    ReadBack
    SizeIsExact
    CutNoticed
PROPERTIES
    GetReturns
    CallsEnd
CHECK_DEADLOCK FALSE
