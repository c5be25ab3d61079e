SPECIFICATION Spec
CONSTANTS
    Bits = {0, 1}
    AddrMod = 4
    Bank <- ServerBank
    Conns = {c1, c2}
    Prot = "TCP"
    AddrChk = TRUE
    MbapChk = TRUE
    Saddr <- ThisSlave
    Reopens = FALSE
    Callbacks <- PortTable
    Illegal <- IllegalVals
    Faulty = TRUE
    DlenMod = 256
    AnyFc <- SomeFc
    Requests <- MaskRequests
    Window = 1
    MaxReqs = 1
    AppVals <- NoVals
CHECK_DEADLOCK FALSE
PROPERTY MaskTouchesItsBitsOnly
