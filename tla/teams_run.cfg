SPECIFICATION FairSpec
CONSTANTS
    Handlers = {h1, h2}
    Drivers = {d1, d2}
    Requests = {"pause", "stop", "cancel", "done", "resume", "resolve", "reopen", "send"}
    MaxRequests = 2
    MaxHangups = 1
    MaxPanics = 1
    MaxRestarts = 1
    None = None
INVARIANTS TicketIsOwned HandedBackIsQuiet NeverDriverless OneWriter
PROPERTIES StopIsHeard ResolvingEnds
CHECK_DEADLOCK FALSE
