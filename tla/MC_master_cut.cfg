SPECIFICATION Spec
CONSTANTS
    Prot = "TCP"
    Backend = "TCP"
    AddrChk = FALSE
    MbapChk = FALSE
    Slaves = {1}
    Ops = {"write"}
    Sizes = {1}
    AnyValue = {0, 2}
    UninitDlen = {FALSE}
    Cuts = {"short"}
    TidMod = 3
    MaxCalls = 1
CHECK_DEADLOCK FALSE
INVARIANT SuccessMeansExecuted
