\* Two runs of one session with a past of up to five messages.
CONSTANTS
    MaxRuns = 2
    PastRuns <- Ended
    Histories <- PastHistories
    MaxMessages = 8
    MaxCalls = 2
    PageSize = 3
    KeptResults = 1
    MaxSummaryCalls = 2
    SummaryAttempts = 2
SPECIFICATION Spec
INVARIANTS
    TypeOK
    
    OwnQuestionKept
    
    LatestResultsInFull
CHECK_DEADLOCK FALSE
