SPECIFICATION FairSpec
CONSTANTS
    a1 = a1
    a2 = a2
    a3 = a3
    Analyses = {a1, a3}
    Queued = {a1}
    MaxRetries = 3
    Files <- AllFiles
INVARIANTS
    TypeOK
    PromptQuotesLatestInvalid
    AnswerFollowsReplies
    SuccessesAddUp
PROPERTIES
    ImplementsAnalysis
    AnalysisEnds

\* Every analysis ends, and no other arrives.
CHECK_DEADLOCK FALSE
