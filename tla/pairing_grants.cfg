SPECIFICATION Spec
CONSTANTS
    Keys = {k1, k2}
    Ttls = {1}
    StartWindow = 1
    StartsPerWindow = 2
    CallersCanHangUp = TRUE
    MaxStarts = 2
    MaxTime = 0
    MaxCalls = 2
    MaxAsks = 1
    MaxRestarts = 1
    MaxLate = 1
SYMMETRY Phones
CHECK_DEADLOCK FALSE
INVARIANTS PairedKeepsGrant SettledGrantsAreAccountedFor
