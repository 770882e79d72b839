SPECIFICATION TelSpec
CONSTANTS
    Opts = {"ECHO", "BINARY", "TERMTYPE", "X"}
    MaxTelOpt = {"ECHO", "BINARY", "TERMTYPE"}
    HisAccept = {"ECHO", "BINARY"}
    MyAccept = {"BINARY", "TERMTYPE"}
    SubOptMax = 6
    HostWishes = 1
    UserToggles = 1
    MaxSaid = 1
INVARIANTS
    TelTypeOK
    Agreement
    EchoOnce
    
PROPERTY Settles
CHECK_DEADLOCK FALSE
