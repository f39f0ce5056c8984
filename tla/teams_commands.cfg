SPECIFICATION Spec
CONSTANTS
    Ids = {a, b}
    Kinds = {"SetPhase", "RecordReviewRound", "MarkSubTaskDigested", "SettleRun", "ReplanSubTasks", "TakeUserNotes"}
    Notes = {n1, n2}
    MaxSeq = 2
    MaxRev = 3
    MaxJournal = 1
    MaxNotes = 1
    MaxTasks = 1
    MaxSent = 2
    MaxActs = 2
    MaxRestarts = 1
SYMMETRY Alike
INVARIANTS JournalIsSound NotesAreGivenOnce AnswersAreTrue GateWaitsForWork
PROPERTY DecisionsAreFresh
CHECK_DEADLOCK FALSE
