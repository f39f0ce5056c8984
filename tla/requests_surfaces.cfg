SPECIFICATION Spec
CONSTANTS
    Devices = {d1}
    Peers = {p1, p2}
    Writes = {}
    Reads = {r1}
    Beats = {b1}
    MaxAge = 1
    MaxFuture = 0
    RetryWindow = 1
    Retention = 1
    SeqWindow = 1
    MaxSessions = 1
    SessionTTL = 1
    MaxWriteRecords = 1
    ReplayTTL = 1
    MaxReplays = 1
    Drift = 0
    MaxLag = 0
    MaxTime = 1
    MaxBoot = 1
    MaxAttempts = 3
    MaxSid = 2
    MaxLease = 2
    MaxEpoch = 1
INVARIANTS NoAttemptTwice SessionsAreSound OneAnswerPerReservation
CHECK_DEADLOCK FALSE
SYMMETRY SamePeers
