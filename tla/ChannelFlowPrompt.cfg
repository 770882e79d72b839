\* The comment at the end of a key exchange: what was buffered meanwhile is
\* sent.  Here the host key may need the user.
SPECIFICATION Spec
CONSTANTS
    ReadBuf = 2
    HighWater = 3
    LowWater = 0
    InitWindow = 5
    HostKeyPrompt = TRUE
    TotalBytes = 4
    MaxRekey = 1
INVARIANTS NothingHeldBack
CHECK_DEADLOCK FALSE
