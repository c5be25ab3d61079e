SPECIFICATION Spec
CONSTANTS
    AckTmo = 4
    ByteTmo = 2
    Poll = 2
    Size = 3
    Stall = 1
    Gap = 1
    Quiet = 13
    Idle = 2
    FrameMax = 3
    MaxFrames = 3
    ClockSteps <- ClockSetBack
    MaxJumps = 1
CHECK_DEADLOCK FALSE
INVARIANT TypeOK
INVARIANT GivesUpInTime
INVARIANT NoFramesMerged
PROPERTY NoFrameCut
PROPERTY CallReturns
