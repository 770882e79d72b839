\* One lost byte, with the numbers of the code.
\* A transfer ends and then nothing happens any more.
SPECIFICATION Spec
CONSTANTS
    File <- FourBlocks
    BlkMod = 256
    SenderOpts = {"CRC"}
    ReceiverOpts = {"CRC"}
    CTries = 3
    NakTries = 10
    MaxFaults = 1
    MaxEvents = 0
    Cuts = {3}
INVARIANT SuccessMeansWhole
CHECK_DEADLOCK FALSE
