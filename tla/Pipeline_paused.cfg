SPECIFICATION Spec
CONSTANTS
    NumStages = 5
    AutoRetry = FALSE
    MaxRetries = 0
    MaxLoops = 1
INVARIANT CompletedMeansAll
\* the calls of execute are bounded
CHECK_DEADLOCK FALSE
