\* One lost or damaged byte and one cancel or early timeout, anywhere; numbers wrap.
\* A transfer ends and then nothing happens any more.
SPECIFICATION FairSpec
CONSTANTS
    File <- ThreeBlocks
    BlkMod = 3
    SenderOpts = {"1kCRC", "Check"}
    ReceiverOpts = {"CRC", "Check"}
    CTries = 2
    NakTries = 5
    MaxFaults = 1
    MaxEvents = 1
    Cuts = {3}
INVARIANTS TypeOK FileInOrder InStep SuccessIfClean FailureHasReason CancelIsHeard
PROPERTY BothEnd
CHECK_DEADLOCK FALSE
