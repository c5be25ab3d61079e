SPECIFICATION Spec
CONSTANTS
    Bits = {0, 1}
    AddrMod = 4
    Bank <- LineBank
    Conns = {c1}
    Prot = "RTU"
    AddrChk = TRUE
    MbapChk = TRUE
    Saddr <- ThisSlave
    Reopens = TRUE
    Callbacks <- TcpSlaveTable
    Illegal <- IllegalVals
    Faulty = TRUE
    DlenMod = 256
    AnyFc <- SomeFc
    Requests <- LineRequests
    Window = 2
    MaxReqs = 2
    AppVals <- NoVals
CHECK_DEADLOCK FALSE
INVARIANT DamagedFramesIgnored
