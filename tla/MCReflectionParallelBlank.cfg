SPECIFICATION Spec
CONSTANTS
    draft = draft
    better = better
    Blank = Blank
    backup = backup
    WithBlankRevisions = TRUE
    Texts <- MCTexts
    Models <- MCModels
    Configs <- MCConfigs
    CritiqueReplies <- MCCritiqueReplies
    RevisionReplies <- MCRevisionReplies
INVARIANTS
    SameAnswerAsSequential
CHECK_DEADLOCK FALSE
