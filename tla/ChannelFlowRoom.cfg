\* The comment on the retry loop: with room in the window the data is sent.
SPECIFICATION Spec
CONSTANTS
    ReadBuf = 2
    HighWater = 3
    LowWater = 0
    InitWindow = 5
    HostKeyPrompt = FALSE
    TotalBytes = 6
    MaxRekey = 1
INVARIANTS SentWhenRoom
CHECK_DEADLOCK FALSE
