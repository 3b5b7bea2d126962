SPECIFICATION Spec
CONSTANTS
    primary = primary
    backup = backup
    spare = spare
    Models <- MCModels
    Chains <- MCChains
    Retries <- MCRetries
    Statuses <- MCStatuses
    MaxDeltas = 2
INVARIANTS
    OnlyWinnerDelivered
CHECK_DEADLOCK FALSE
