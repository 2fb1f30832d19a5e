SPECIFICATION FairSpec
CONSTANTS
    Requests <- MCRequests
    MaxRequests = 5
    Offers <- MCOffers
    NoHeader = NoHeader
    Answers <- MCAnswers
    Runs <- MCRuns
    QUEUE = 1
    MAX_SQL_COUNT = 1
INVARIANTS SessionMatches
PROPERTIES InOrder Answered Released
CHECK_DEADLOCK FALSE
