\* Three connections of either kind, room for two channels, two addresses.
SPECIFICATION Spec
CONSTANTS
    MaxChannel = 2
    NAddrs = 2
    MaxConns = 3
    MaxQueue = 2
INVARIANTS TypeOK CountsAreRight MessagesMeetTheirChannel NoSlotOutlivesServer 
CHECK_DEADLOCK FALSE
