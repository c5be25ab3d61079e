SPECIFICATION Spec
CONSTANTS
    Slaves = {1, 2}
    AckTmo = 7
    ByteTmo = 2
    AddrChk = TRUE
    Queues = {0, 2}
    FrameTime = 2
    Late = 1
    Turn = 1
    Forges = FALSE
    Delay = 2
    MaxCalls = 3
    MaxHits = 1
CHECK_DEADLOCK FALSE
INVARIANT OneTalker
PROPERTY AddressedCallSpec
PROPERTY CallsEnd
