SPECIFICATION FairSpec
CONSTANTS
    Insts = {"a", "b", "d", "e"}
    Devs = {"uart1", "uart2", "uart3"}
    Pins = {1, 3, 6}
    Conf <- TwoBuses
    Shared = {"uart1"}
    FrameMax = 1
    RxMax = 1
CHECK_DEADLOCK FALSE
INVARIANT DriverOnWhileSending
INVARIANT ReleasedAtRest
PROPERTY OnlyOwnPin
PROPERTY FlushEnds
