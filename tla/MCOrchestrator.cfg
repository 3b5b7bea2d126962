SPECIFICATION Pipeline
CONSTANTS
    draft = draft
    better = better
    Blank = Blank
    backup = backup
    turnLimit = 2
    Texts <- MCTexts
    Models <- MCModels
    Configs <- MCConfigs
    Routes <- MCRoutes
    InitialReplies <- MCInitialReplies
    CritiqueReplies <- MCCritiqueReplies
    RevisionReplies <- MCRevisionReplies
    AdvisorReplies <- MCAdvisorReplies
INVARIANTS
    PipelineTypeOK
    AnswersChain
    SkipFollowsLastCritique
    EarlyExitEarned
    FallbacksAllReported
    PathsJoined
PROPERTIES
    RunEnds
CHECK_DEADLOCK FALSE
