SPECIFICATION Spec
CONSTANTS
    Messages <- LegalMessages
    Frames <- BothFrames
    Saddrs = {1}
    Tids = {258}
    FlipMax = 12
    Marks = {0, 1, 129, 255}
CHECK_DEADLOCK FALSE
INVARIANT FrameArrives
INVARIANT CutFrameRejected
INVARIANT DamageIsCaught
INVARIANT DamagedFrameIsBad
INVARIANT CrcAsSpecified
INVARIANT BitsArrive
