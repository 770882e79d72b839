SPECIFICATION MCSpec
CONSTANTS
    WriteBufferSize = 4
    MaxChunk = 6
    MaxHanded = 10

    OutBuffSize = 4
    MaxKeys = 3
    MaxAsides = 2

    InBuffSize = 2
    MaxArrived = 5

    DdeBuffSize = 3
    DdeRoom = 2
    PutMax = 2
    RingBufSize = 4
    CreditMargin = 1
    Quoted = {2, 3}
    MaxPut = 3
    MaxCmnds = 2
    MaxSyncs = 2
    MaxTimeouts = 1

    LogBuffSize = 4
    LogFreeSpace = 2
    LogPutMax = 2
    RotateSize = 2
    RotateStep = 2
    MaxLogged = 8
INVARIANTS
    TypeOK
    NeverStranded
    EnteredIsSent
    PairsWhole
    NoBlockingRead
    CompletionFits
    LogInOrder
PROPERTIES
    SockIsStream
    EveryByteRead
    SyncIsStream
    AllRead
    WaitResumes
CHECK_DEADLOCK FALSE
