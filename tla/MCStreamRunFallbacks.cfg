SPECIFICATION Stream
CONSTANTS
    draft = draft
    better = better
    Blank = Blank
    backup = backup
    turnLimit = 2
    MaxDeltas = 2
    Texts <- MCTexts
    Models <- MCModels
    Deltas <- MCDeltas
    Fallbacks <- MCFallbacks
    Configs <- MCConfigs
    Routes <- MCRoutes
    InitialReplies = {}
    CritiqueReplies <- MCCritiqueReplies
    RevisionReplies <- MCRevisionReplies
    AdvisorReplies <- MCAdvisorReplies
INVARIANTS
    TrailerReportsFallbacks
CHECK_DEADLOCK FALSE
