SPECIFICATION Spec
CONSTANTS
    Prot = "TCP"
    Backend = "TCP"
    AddrChk = TRUE
    MbapChk = TRUE
    Slaves = {1}
    Ops = {"read_regs", "single", "mask", "wr_rd"}
    Sizes = {1}
    AnyValue = {0, 2}
    UninitDlen = {FALSE}
    Cuts = {"short", "fields"}
    TidMod = 3
    MaxCalls = 4
CHECK_DEADLOCK FALSE
INVARIANT TypeOK
INVARIANT TidTellsAge
INVARIANT ReplyMatchesCall
INVARIANT LagBoundedByFailures
PROPERTY ContractSpec
