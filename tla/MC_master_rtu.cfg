SPECIFICATION Spec
CONSTANTS
    Prot = "RTU"
    Backend = "RTU"
    AddrChk = FALSE
    MbapChk = FALSE
    Slaves = {1, 2}
    Ops = {"read_bits", "write"}
    Sizes = {1, 9}
    AnyValue = {0, 2}
    UninitDlen = {FALSE}
    Cuts = {"short"}
    TidMod = 3
    MaxCalls = 3
CHECK_DEADLOCK FALSE
INVARIANT CleanLineOwnReply
INVARIANT CleanLineWholeResult
INVARIANT LagBoundedByFailures
PROPERTY RepliesInOrder
