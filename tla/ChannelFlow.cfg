\* Safety, with the host key prompt: 6 bytes in chunks of at most 2, a window
\* of 5, suspension at 3 waiting bytes, one key re-exchange.
SPECIFICATION Spec
CONSTANTS
    ReadBuf = 2
    HighWater = 3
    LowWater = 0
    InitWindow = 5
    HostKeyPrompt = TRUE
    TotalBytes = 6
    MaxRekey = 1
INVARIANTS TypeOK AmountIsBacklog BacklogBounded NoLostWakeup NoDataInKex
PROPERTIES PipeSpec LossOnlyWhenSuspended
CHECK_DEADLOCK FALSE
