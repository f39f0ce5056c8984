SPECIFICATION FairSpec
CONSTANTS
    w1 = w1
    w2 = w2
    Threads = {w1, w2}
    GoalThreads = {w1}
    GoalFrames = {"set", "reset", "stop"}
    MayAsk <- OneAsksOther
    MaxGoalTurns = 2
    MaxAsks = 1
    MaxStarts = 3
    MaxActs = 2
INVARIANTS NoGhostTurns BudgetIsKept AnswersGoOnce AnswersBelong HealthyGoalsAreDriven LastWordWins
PROPERTY WorkComesToRest
CHECK_DEADLOCK FALSE
