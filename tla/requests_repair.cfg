SPECIFICATION FairSpec
CONSTANTS
    Devices = {d1}
    Peers = {p1}
    Writes = {w1}
    Reads = {}
    Beats = {}
    MaxAge = 2
    MaxFuture = 0
    RetryWindow = 0
    Retention = 0
    SeqWindow = 2
    MaxSessions = 1
    SessionTTL = 4
    MaxWriteRecords = 1
    ReplayTTL = 1
    MaxReplays = 1
    Drift = 0
    MaxLag = 0
    MaxTime = 1
    MaxBoot = 2
    MaxAttempts = 3
    MaxSid = 2
    MaxLease = 2
    MaxEpoch = 1
INVARIANTS AtMostOnce RunningIsOwned
CHECK_DEADLOCK FALSE
PROPERTIES ImplementsWriteOnce ReservationsSettle
