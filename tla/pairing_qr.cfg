SPECIFICATION Spec
CONSTANTS
    Keys = {k1, k2}
    Ttls = {1, 2}
    StartWindow = 1
    StartsPerWindow = 1
    CallersCanHangUp = TRUE
    MaxStarts = 2
    MaxTime = 2
    MaxCalls = 0
    MaxAsks = 2
    MaxRestarts = 0
    MaxLate = 0
SYMMETRY Phones
CHECK_DEADLOCK FALSE
INVARIANT FirstKeyKeepsQr
INVARIANT NewestQrIsOffered
INVARIANT NobodyIsForgotten
