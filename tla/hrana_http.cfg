SPECIFICATION FairSpec
CONSTANTS
    MaxCalls = 3
    MaxConcurrent = 2
    MaxCursors = 1
    StreamIds = {s1, s2}
    Bodies <- MCBodies
    Answers <- MCAnswers
    Runs <- MCRuns
    FirstSeqs = {1}
    SeqWrap = 3
    MAX_SQL_COUNT = 1
    EXPIRATION = 0
    CLEANUP = 0
    IDLE = 2
INVARIANTS TypeOK HandlesMatch CursorIsComplete
PROPERTIES RequestsAreSerial StreamsEnd
CHECK_DEADLOCK FALSE
