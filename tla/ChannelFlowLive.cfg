\* Progress, without the host key prompt.
SPECIFICATION FairSpec
CONSTANTS
    ReadBuf = 2
    HighWater = 3
    LowWater = 0
    InitWindow = 5
    HostKeyPrompt = FALSE
    TotalBytes = 6
    MaxRekey = 1
INVARIANTS NothingHeldBack NeverUnexpected
PROPERTIES Delivered Resumed
CHECK_DEADLOCK FALSE
