SPECIFICATION Spec
CONSTANTS
    Devices = {m1, m2}
    Socks = {s1, s2}
    Fds = {3, 4, 5, 6, 7}
    CloseMayFail = FALSE
    Listener = Listener
    Nobody = Nobody
CHECK_DEADLOCK FALSE
INVARIANT TypeOK
INVARIANT HandlesAreOwn
INVARIANT NoHandleLost
