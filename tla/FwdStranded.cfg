\* ssh2_local_channel_lookup is said to lead from a slot to its Channel_t.
SPECIFICATION Spec
CONSTANTS
    MaxChannel = 2
    NAddrs = 1
    MaxConns = 2
    MaxQueue = 2
INVARIANTS LookupIsRight
CHECK_DEADLOCK FALSE
