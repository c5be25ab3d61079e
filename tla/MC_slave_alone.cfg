SPECIFICATION Spec
CONSTANTS
    Bits = {0, 1}
    AddrMod = 16
    Bank <- LongBank
    Conns = {c1}
    Prot = "TCP"
    AddrChk = TRUE
    MbapChk = TRUE
    Saddr <- ThisSlave
    Reopens = FALSE
    Callbacks <- PortTable
    Illegal <- IllegalVals
    Faulty = TRUE
    DlenMod = 8
    AnyFc <- SomeFc
    Requests <- AllRequests
    Window = 1
    MaxReqs = 2
    AppVals <- NoVals
CHECK_DEADLOCK FALSE
INVARIANT TypeOK
INVARIANT RepliesAreComplete
PROPERTY ServerSpec
PROPERTY EveryRequestAnswered
