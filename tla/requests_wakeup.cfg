SPECIFICATION Spec
CONSTANTS
    Devices = {d1}
    Peers = {p1}
    Writes = {w1}
    Reads = {}
    Beats = {}
    MaxAge = 2
    MaxFuture = 0
    RetryWindow = 1
    Retention = 1
    SeqWindow = 2
    MaxSessions = 1
    SessionTTL = 4
    MaxWriteRecords = 1
    ReplayTTL = 1
    MaxReplays = 1
    Drift = 0
    MaxLag = 0
    MaxTime = 0
    MaxBoot = 1
    MaxAttempts = 2
    MaxSid = 1
    MaxLease = 2
    MaxEpoch = 0
INVARIANTS NoLostWakeup
CHECK_DEADLOCK FALSE
