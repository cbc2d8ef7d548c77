\* three loops over three stages with one retry each
SPECIFICATION FairSpec
CONSTANTS
    NumStages = 3
    AutoRetry = TRUE
    MaxRetries = 1
    MaxLoops = 3
INVARIANTS
    TypeOK
    PrerequisitesDone
    RunningIsActive
    StagesCompleteInOrder
PROPERTY ExecutionsEnd
\* the calls of execute are bounded
CHECK_DEADLOCK FALSE
