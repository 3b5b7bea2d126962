SPECIFICATION Spec
CONSTANTS
    draft = draft
    better = better
    Blank = Blank
    backup = backup
    WithBlankRevisions = FALSE
    Texts <- MCTexts
    Models <- MCModels
    Configs <- MCConfigs
    CritiqueReplies <- MCCritiqueReplies
    RevisionReplies <- MCRevisionReplies
PROPERTIES
    FailureReachesCaller
CHECK_DEADLOCK FALSE
