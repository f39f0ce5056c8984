SPECIFICATION Spec
CONSTANTS
    w1 = w1
    w2 = w2
    Threads = {w1, w2}
    GoalThreads = {w1}
    GoalFrames = {"set", "reset", "stop"}
    MayAsk <- OneAsksOther
    MaxGoalTurns = 1
    MaxAsks = 1
    MaxStarts = 3
    MaxActs = 1
INVARIANT UnwatchedTurnsAreCapped
CHECK_DEADLOCK FALSE
