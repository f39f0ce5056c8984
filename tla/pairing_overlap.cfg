SPECIFICATION Spec
CONSTANTS
    Keys = {k1}
    Ttls = {2}
    StartWindow = 1
    StartsPerWindow = 2
    CallersCanHangUp = FALSE
    MaxStarts = 2
    MaxTime = 0
    MaxCalls = 2
    MaxAsks = 1
    MaxRestarts = 0
    MaxLate = 0
SYMMETRY Phones
CHECK_DEADLOCK FALSE
INVARIANT RevocationCanBeRetried
