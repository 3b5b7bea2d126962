SPECIFICATION Spec
CONSTANTS
    primary = primary
    backup = backup
    spare = spare
    Models <- MCModels
    Chains <- MCChains
    Retries <- MCRetries
    Statuses <- MCStatuses
INVARIANTS
    TypeOK
    BudgetSpentInOrder
    ExhaustedMeansSpent
PROPERTIES
    ImplementsFailover
CHECK_DEADLOCK FALSE
