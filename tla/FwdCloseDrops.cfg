\* What is left in the write buffer is said to be sent before the shutdown.
SPECIFICATION Spec
CONSTANTS
    MaxChannel = 2
    NAddrs = 1
    MaxConns = 1
    MaxQueue = 2
PROPERTIES WritesSurviveClose
CHECK_DEADLOCK FALSE
