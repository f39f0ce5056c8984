SPECIFICATION FairSpec
CONSTANTS
    Surfaces = {s1}
    None = None
    MaxReplies = 2
    MaxChunks = 2
    ChunkInterval = 1
    TerminalInterval = 1
    NowCap = 1
    MaxMoves = 2
    MaxBeats = 1
INVARIANTS StayersHearAll ParkedIsWaiting
PROPERTIES ChunksArePaced RepliesGetOut
CHECK_DEADLOCK FALSE
